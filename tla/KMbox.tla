-------------------------------- MODULE KMbox -------------------------------
(***************************************************************************)
(* Message passing: ksyscall_msg_send and ksyscall_msg_recv, on top of the *)
(* scheduler of module KProc and the mailboxes of module Mbox.  A receiver *)
(* that finds its mailbox empty waits; the sender that ends its wait also  *)
(* copies the message into its buffer.                                     *)
(*                                                                         *)
(* A blocked receive leaves current pointing to the WAITING process until  *)
(* scheduler_run, so the keyboard poll in between may still exit it.       *)
(*                                                                         *)
(* A message is the number it has in the order of sending to its mailbox.  *)
(* RoomOnly limits processes to mailboxes with room; the kernel does not.  *)
(*                                                                         *)
(* A definition <name>_<change> is a mutated form of <name> that some      *)
(* property refutes; the model does not use it.                            *)
(***************************************************************************)
EXTENDS KProc, Mbox

CONSTANTS
  MBOX_MAX,   \* mbox.h: 10
  MboxArgs,   \* the mailbox numbers processes pass
  RoomOnly,   \* whether processes send to mailboxes with room only
  MaxSent     \* bound on the messages sent to a mailbox

Mboxes == 0 .. MBOX_MAX - 1

ASSUME KMboxAssumption ==
  /\ MBOX_MAX \in Nat \ {0}
  /\ MboxArgs \subseteq Int
  /\ RoomOnly \in BOOLEAN
  /\ MaxSent \in Nat
  /\ NoMessage = 0

VARIABLES
  mailboxes,    \* the message rings
  recv_queue,   \* mailboxes[b].wait_queue: ids of waiting receivers
  inbox,        \* inbox[i]: the buffer of the process in entry i
  sent,         \* how many messages were sent to a mailbox; not in the code
  pending,      \* the messages sent and not taken out; not in the code
  strayed       \* the mailboxes of which a message went astray; not in the code

mboxVars == <<mailboxes, recv_queue, inbox, sent, pending, strayed>>
mboxSysVars == <<procVars, mboxVars>>

LastEntry == PROC_MAX - 1

WaitQueueFull == "Unable to add process to mail box wait queue"  \* ksyscall.c:377
MboxFaults == Faults \cup {WaitQueueFull}

-----------------------------------------------------------------------------

Refused(b) ==
  /\ b \notin Mboxes
  /\ kpc' = "keyboard"
  /\ UNCHANGED <<timeVars, tableVars, schedVars, fault, mboxVars>>

Deposit_AnyTime(b, msg) ==
  /\ mailboxes' = [mailboxes EXCEPT ![b] = mbox_queue_in(@, msg)]
  /\ pending' = [pending EXCEPT ![b] = Append(@, msg)]
  /\ kpc' = "keyboard"
  /\ UNCHANGED <<timeVars, tableVars, schedVars, fault, recv_queue, inbox, strayed>>

\* Nobody waits: the message stays in the mailbox.
Deposit(b, msg) ==
  /\ recv_queue[b] = <<>>
  /\ mailboxes' = [mailboxes EXCEPT ![b] = mbox_queue_in(@, msg)]
  /\ pending' = [pending EXCEPT ![b] = Append(@, msg)]
  /\ kpc' = "keyboard"
  /\ UNCHANGED <<timeVars, tableVars, schedVars, fault, recv_queue, inbox, strayed>>

HandMessage_StillWaiting(b, msg, i) ==
  /\ inbox' = [inbox EXCEPT ![i] = mbox_front(mbox_queue_in(mailboxes[b], msg))]
  /\ run_queue' = QueueIn(run_queue, pid[i])
  /\ kpc' = "keyboard"
  /\ UNCHANGED <<state, fault>>

HandMessage_First(b, msg, i) ==
  /\ inbox' = [inbox EXCEPT ![i] = mbox_front(mbox_queue_in(mailboxes[b], msg))]
  /\ run_queue' = <<pid[i]>> \o run_queue
  /\ state' = [state EXCEPT ![i] = "RUNNING"]
  /\ Continue("keyboard", ~QueueIsFull(run_queue), QueueFull)

HandMessage_NoCopy(b, msg, i) ==
  /\ run_queue' = QueueIn(run_queue, pid[i])
  /\ state' = [state EXCEPT ![i] = "RUNNING"]
  /\ Continue("keyboard", ~QueueIsFull(run_queue), QueueFull)
  /\ UNCHANGED inbox

\* The receiver becomes ready and gets the oldest message.
HandMessage(b, msg, i) ==
  /\ inbox' = [inbox EXCEPT ![i] = mbox_front(mbox_queue_in(mailboxes[b], msg))]
  /\ run_queue' = QueueIn(run_queue, pid[i])
  /\ state' = [state EXCEPT ![i] = "RUNNING"]
  /\ Continue("keyboard", ~QueueIsFull(run_queue), QueueFull)

\* The message goes through the mailbox to the first waiting receiver.
Deliver(b, msg) ==
  /\ recv_queue[b] # <<>>
  /\ mailboxes' = [mailboxes EXCEPT ![b] = mbox_queue_out(mbox_queue_in(@, msg))]
  /\ recv_queue' = [recv_queue EXCEPT ![b] = Tail(@)]
  /\ pending' = [pending EXCEPT ![b] = Tail(Append(@, msg))]
  /\ \E i \in EntriesOf(Head(recv_queue[b])) : HandMessage(b, msg, i)
  /\ UNCHANGED <<timeVars, tableVars, current, active_time, wake_time, strayed>>

\* The destination read from the last entry is NULL: nothing is taken out.
Keep(b, msg) ==
  /\ mailboxes' = [mailboxes EXCEPT ![b] = mbox_queue_in(@, msg)]
  /\ pending' = [pending EXCEPT ![b] = Append(@, msg)]
  /\ UNCHANGED inbox

\* It is not: the oldest message is lost, unless the destination happens to
\* be the buffer of the process in the last entry.  What else may lie there
\* and is overwritten is not modelled.
Stray(b, msg) ==
  /\ mailboxes' = [mailboxes EXCEPT ![b] = mbox_queue_out(mbox_queue_in(@, msg))]
  /\ pending' = [pending EXCEPT ![b] = Tail(Append(@, msg))]
  /\ \/ UNCHANGED inbox
     \/ /\ state[LastEntry] # "NONE"
        /\ inbox' = [inbox EXCEPT ![LastEntry] = mbox_front(mbox_queue_in(mailboxes[b], msg))]

\* The first in the wait queue has exited.  The search runs to the end of
\* the table, and msg_send goes on with the last entry as if it had found it;
\* whoever waits behind goes on waiting.
Misdeliver(b, msg) ==
  /\ recv_queue[b] # <<>> /\ EntriesOf(Head(recv_queue[b])) = {}
  /\ recv_queue' = [recv_queue EXCEPT ![b] = Tail(@)]
  /\ strayed' = strayed \cup {b}
  /\ Keep(b, msg) \/ Stray(b, msg)
  /\ kpc' = "keyboard"
  /\ UNCHANGED <<timeVars, tableVars, schedVars, fault>>

ksyscall_msg_send(b) ==
  /\ SystemCall
  /\ b \in MboxArgs
  /\ \/ Refused(b)
     \/ /\ b \in Mboxes
        /\ sent[b] < MaxSent
        /\ RoomOnly => mailboxes[b].size < MBOX_SIZE
        /\ sent' = [sent EXCEPT ![b] = @ + 1]
        /\ \/ Deposit(b, sent[b] + 1)
           \/ Deliver(b, sent[b] + 1)
           \/ Misdeliver(b, sent[b] + 1)

\* A wait queue that receivers who have exited fill up is a panic.  Otherwise
\* the caller waits; current is left as it is.
Await(b) ==
  /\ mailboxes[b].size = 0
  /\ recv_queue' = [recv_queue EXCEPT ![b] = QueueIn(@, pid[current])]
  /\ Continue("keyboard", ~QueueIsFull(recv_queue[b]), WaitQueueFull)
  /\ IF QueueIsFull(recv_queue[b])
     THEN UNCHANGED <<state, run_queue>>
     ELSE /\ state' = [state EXCEPT ![current] = "WAITING"]
          /\ run_queue' = SchedulerRemove(run_queue, pid[current])
  /\ UNCHANGED <<mailboxes, inbox, pending>>

Take(b) ==
  /\ mailboxes[b].size # 0
  /\ inbox' = [inbox EXCEPT ![current] = mbox_front(mailboxes[b])]
  /\ mailboxes' = [mailboxes EXCEPT ![b] = mbox_queue_out(@)]
  /\ pending' = [pending EXCEPT ![b] = Tail(@)]
  /\ kpc' = "keyboard"
  /\ UNCHANGED <<run_queue, state, fault, recv_queue>>

ksyscall_msg_recv(b) ==
  /\ SystemCall
  /\ b \in MboxArgs
  /\ \/ Refused(b)
     \/ /\ b \in Mboxes
        /\ Await(b) \/ Take(b)
        /\ UNCHANGED <<timeVars, tableVars, current, active_time, wake_time, sent, strayed>>

-----------------------------------------------------------------------------

MboxInit ==
  /\ ProcInit
  /\ mailboxes = [b \in Mboxes |-> EmptyBox]
  /\ recv_queue = [b \in Mboxes |-> <<>>]
  /\ inbox = [i \in Entries |-> NoMessage]
  /\ sent = [b \in Mboxes |-> 0]
  /\ pending = [b \in Mboxes |-> <<>>]
  /\ strayed = {}

MboxNext ==
  \/ ProcNext /\ UNCHANGED mboxVars
  \/ \E b \in MboxArgs : ksyscall_msg_send(b)
  \/ \E b \in MboxArgs : ksyscall_msg_recv(b)

MboxSpec == MboxInit /\ [][MboxNext]_mboxSysVars

-----------------------------------------------------------------------------
(* Properties.                                                             *)

\* The mailboxes and buffers without fault, to which other modules add values.
MboxTableOK ==
  /\ mailboxes \in [Mboxes -> [messages : [Cells -> 0 .. MaxSent], head : Cells,
                                tail : Cells, size : 0 .. MaxSent]]
  /\ recv_queue \in [Mboxes -> Seq(Nat)]
  /\ inbox \in [Entries -> 0 .. MaxSent]
  /\ sent \in [Mboxes -> 0 .. MaxSent]
  /\ pending \in [Mboxes -> Seq(1 .. MaxSent)]
  /\ strayed \subseteq Mboxes

(* Types of the mailboxes and of the receivers' buffers.                   *)
MboxTypeOK == MboxTableOK /\ fault \in MboxFaults

(* A mailbox holds the messages sent to it and not yet taken out, all of   *)
(* them and in the order of sending; as a message is only ever taken out   *)
(* at the head, no receiver gets one twice or before an older one (mbox.c, *)
(* ksyscall.c).                                                            *)
MailIntact == \A b \in Mboxes : MboxContents(mailboxes[b]) = pending[b]

(* Nobody waits at a mailbox that holds a message, until a send to it has  *)
(* taken a receiver that exited for one that waits (ksyscall.c:323).       *)
NoIdleMail ==
  \A b \in Mboxes \ strayed : recv_queue[b] # <<>> => mailboxes[b].size = 0

(* A WAITING process stands in the wait queue of one mailbox, once, and    *)
(* whoever else stands there has exited: a live process is never found in  *)
(* a wait queue while it runs, sleeps or is ready.                         *)
ReceiversExact ==
  /\ \A b \in Mboxes : IsInjective(recv_queue[b])
  /\ \A b, c \in Mboxes : b # c => Range(recv_queue[b]) \cap Range(recv_queue[c]) = {}
  /\ \A i \in Live :
       state[i] = "WAITING" <=> \E b \in Mboxes : pid[i] \in Range(recv_queue[b])

\* The processes that wait at mailbox b: whoever has exited has lost its id.
Listed(b) == {i \in Entries : pid[i] \in Range(recv_queue[b])}

(* "When sending a message, if there is a process waiting to receive a     *)
(* message, immediately handle it" (ksyscall.c:313).                       *)
WaiterHandled ==
  [][\A b \in Mboxes :
       sent'[b] # sent[b] /\ Listed(b) # {} =>
         \E i \in Listed(b) : state[i] = "WAITING" /\ state'[i] = "RUNNING"]_mboxSysVars

(* The wait queue, which has more places than there are processes, takes   *)
(* every receiver (the panic of ksyscall.c:377 is for when it does not).   *)
WaitQueueRoom == fault # WaitQueueFull

\* The process with id p, if it still lives.
WhoHas(p) == IF EntriesOf(p) = {} THEN NULL ELSE EntryOf(p)

Mail == INSTANCE MailService WITH
  Tasks <- Entries, Idle <- 0, InitTask <- 1, SLICE <- PROC_TIMESLICE,
  SleepTicks <- {IF secs > 0 THEN CLK_TCK * secs ELSE 0 : secs \in SleepSecs},
  status <- state,
  queue <- [k \in DOMAIN run_queue |-> EntryOf(run_queue[k])],
  running <- current,
  used <- active_time,
  sleeping <- [i \in Entries |-> IF state[i] = "SLEEPING" THEN TicksUntil(wake_time[i]) ELSE 0],
  phase <- IF kpc \in {"keyboard", "schedule"} THEN "kernel" ELSE kpc,
  Boxes <- Mboxes,
  Messages <- 1 .. MaxSent,
  NoMail <- NoMessage,
  BOX_SIZE <- MBOX_SIZE,
  LastTask <- LastEntry,
  mail <- [b \in Mboxes |-> MboxContents(mailboxes[b])],
  awaiting <- [b \in Mboxes |-> [k \in DOMAIN recv_queue[b] |-> WhoHas(recv_queue[b][k])]],
  got <- inbox

(* The rings, wait queues and copies of mbox.c and ksyscall.c act as       *)
(* first-in, first-out mailboxes, each with a line of receivers in which   *)
(* one that exits leaves its place empty, and callers wait and become      *)
(* ready as MailService says, while mailboxes have room.                   *)
MailServes == Mail!MailSpec

=============================================================================
