----------------------------- MODULE MailService -----------------------------
(***************************************************************************)
(* What message passing promises, on top of the round robin: a mailbox is  *)
(* a first-in, first-out sequence of messages with a line of processes     *)
(* that wait for one.  Rings, indices and process ids are gone.  Module    *)
(* KMbox is shown to implement this while mailboxes have room              *)
(* (MailServes); module MailPrograms runs programs on it.                  *)
(*                                                                         *)
(* Who exits while it waits leaves its place in the line, empty.  The next *)
(* send to that mailbox uses the place up and wakes nobody.                *)
(*                                                                         *)
(* A definition <name>_<change> is a mutated form of <name> that some      *)
(* property refutes; the model does not use it.                            *)
(***************************************************************************)
EXTENDS RoundRobin, SequencesExt

CONSTANTS
  Boxes,       \* the mailboxes
  Messages,    \* what may be sent
  NoMail,      \* what a buffer holds before the first message
  BOX_SIZE,    \* the room of a mailbox; a full one is promised nothing
  LastTask     \* the last entry of the process table

ASSUME MailServiceAssumption ==
  /\ BOX_SIZE \in Nat \ {0}
  /\ LastTask \in Tasks

VARIABLES
  mail,        \* mail[b]: the messages in mailbox b
  awaiting,    \* awaiting[b]: the entries that wait for one; NULL is an empty place
  got          \* got[t]: the message last received by entry t

mailServiceVars == <<rrVars, mail, awaiting, got>>

\* What goes out when msg is put in.
Oldest(b, msg) == Head(Append(mail[b], msg))

\* Nobody waits: the message is left in the mailbox.
Deposit(b, msg) ==
  /\ awaiting[b] = <<>>
  /\ mail' = [mail EXCEPT ![b] = Append(@, msg)]
  /\ UNCHANGED <<status, queue, awaiting, got>>

\* It ends the wait of the first in line.
HandOver(b, msg) ==
  /\ awaiting[b] # <<>> /\ Head(awaiting[b]) # NULL
  /\ MakeReady(Head(awaiting[b]))
  /\ awaiting' = [awaiting EXCEPT ![b] = Tail(@)]
  /\ got' = [got EXCEPT ![Head(awaiting[b])] = Oldest(b, msg)]
  /\ mail' = [mail EXCEPT ![b] = Tail(Append(@, msg))]

\* The first place is empty: the message stays, or the oldest is lost, or
\* the process in the last entry finds it in its buffer.
Misdeliver(b, msg) ==
  /\ awaiting[b] # <<>> /\ Head(awaiting[b]) = NULL
  /\ awaiting' = [awaiting EXCEPT ![b] = Tail(@)]
  /\ \/ mail' = [mail EXCEPT ![b] = Append(@, msg)] /\ UNCHANGED got
     \/ /\ mail' = [mail EXCEPT ![b] = Tail(Append(@, msg))]
        /\ \/ UNCHANGED got
           \/ /\ status[LastTask] # "NONE"
              /\ got' = [got EXCEPT ![LastTask] = Oldest(b, msg)]
  /\ UNCHANGED <<status, queue>>

Send_NoWakeUp(b, msg) ==
  /\ Query
  /\ mail' = [mail EXCEPT ![b] = Append(@, msg)]
  /\ UNCHANGED <<awaiting, got>>

Send(b, msg) ==
  /\ Call
  /\ Len(mail[b]) < BOX_SIZE
  /\ Deposit(b, msg) \/ HandOver(b, msg) \/ Misdeliver(b, msg)
  /\ UNCHANGED <<running, used, sleeping>>

Take_Newest(b) ==
  /\ mail[b] # <<>>
  /\ got' = [got EXCEPT ![running] = mail[b][Len(mail[b])]]
  /\ mail' = [mail EXCEPT ![b] = SubSeq(@, 1, Len(@) - 1)]
  /\ UNCHANGED <<status, awaiting>>

Take(b) ==
  /\ mail[b] # <<>>
  /\ got' = [got EXCEPT ![running] = Head(mail[b])]
  /\ mail' = [mail EXCEPT ![b] = Tail(@)]
  /\ UNCHANGED <<status, awaiting>>

\* The caller remains the current process until scheduler_run.
Await(b) ==
  /\ mail[b] = <<>>
  /\ awaiting' = [awaiting EXCEPT ![b] = Append(@, running)]
  /\ status' = [status EXCEPT ![running] = "WAITING"]
  /\ UNCHANGED <<mail, got>>

Recv(b) ==
  /\ Call
  /\ Take(b) \/ Await(b)
  /\ UNCHANGED <<queue, running, used, sleeping>>

\* A key may make a process exit that has begun to wait.
Quit ==
  /\ Exit
  /\ awaiting' = [b \in Boxes |-> [k \in DOMAIN awaiting[b] |->
                     IF awaiting[b][k] = running THEN NULL ELSE awaiting[b][k]]]
  /\ UNCHANGED <<mail, got>>

MailInit ==
  /\ RRInit
  /\ mail = [b \in Boxes |-> <<>>]
  /\ awaiting = [b \in Boxes |-> <<>>]
  /\ got = [t \in Tasks |-> NoMail]

MailNext ==
  \/ \E b \in Boxes, msg \in Messages : Send(b, msg)
  \/ \E b \in Boxes : Recv(b)
  \/ Quit
  \/ /\ \/ Tick
        \/ Query
        \/ Yield
        \/ \E ticks \in SleepTicks : Sleep(ticks)
        \/ \E t \in Tasks : Exec(t)
        \/ Halt
        \/ Schedule
     /\ UNCHANGED <<mail, awaiting, got>>

MailSpec == MailInit /\ [][MailNext]_mailServiceVars

=============================================================================
