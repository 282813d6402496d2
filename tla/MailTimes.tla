------------------------------ MODULE MailTimes ------------------------------
(***************************************************************************)
(* The fields of a message that the kernel fills in: the sender and the    *)
(* times of sending and receiving.  A message travels by copy, from the    *)
(* sender's buffer to the mailbox and on to the receiver's buffer, and the *)
(* handlers write the fields of whichever copy they have at hand.  This    *)
(* module follows the copies; what moves them is module KMbox.             *)
(*                                                                         *)
(* A definition <name>_<change> is a mutated form of <name> that some      *)
(* property refutes; the model does not use it.                            *)
(***************************************************************************)
EXTENDS KMbox

VARIABLE
  fields     \* fields[b][c]: what the message in cell c of mailbox b holds

mailSysVars == <<procVars, mboxVars, fields>>

Seconds == system_time \div CLK_TCK

-----------------------------------------------------------------------------

\* The sender's buffer as msg_send copies it into the mailbox.
Addressed == [sender |-> pid[current], time_sent |-> Seconds]

\* What the buffer of entry i holds as the time of receipt when i gets its
\* message.  msg_recv stamps the caller's buffer, in ticks; msg_send stamps
\* its own, and a receiver that waited keeps what the sender's held before.
Garbage == -1
time_received(i) == IF i = current THEN system_time ELSE Garbage

\* memset(..., 0, sizeof(msg_t))
Cleared == [sender |-> 0, time_sent |-> 0]

TakenOut(b, cells) == [cells EXCEPT ![mailboxes[b].head] = Cleared]

SendFields_AtHead(b) ==
  LET put == [fields[b] EXCEPT ![mailboxes[b].head] = Addressed]
  IN  fields' = [fields EXCEPT ![b] =
                   IF mailboxes'[b].size = mailboxes[b].size THEN TakenOut(b, put) ELSE put]

\* The copy goes to the cell at tail.  If a message is taken out at once,
\* it is the one at head.
SendFields(b) ==
  LET put == [fields[b] EXCEPT ![mailboxes[b].tail] = Addressed]
  IN  fields' = [fields EXCEPT ![b] =
                   IF mailboxes'[b].size = mailboxes[b].size THEN TakenOut(b, put) ELSE put]

\* Nothing is copied while the receiver waits.
RecvFields(b) ==
  fields' = [fields EXCEPT ![b] = IF mailboxes[b].size = 0 THEN @ ELSE TakenOut(b, @)]

TimesInit ==
  /\ MboxInit
  /\ fields = [b \in Mboxes |-> [c \in Cells |-> Cleared]]

TimesNext ==
  \/ ProcNext /\ UNCHANGED <<mboxVars, fields>>
  \/ \E b \in MboxArgs \cap Mboxes : ksyscall_msg_send(b) /\ SendFields(b)
  \/ \E b \in MboxArgs \cap Mboxes : ksyscall_msg_recv(b) /\ RecvFields(b)
  \/ \E b \in MboxArgs \ Mboxes :
       (ksyscall_msg_send(b) \/ ksyscall_msg_recv(b)) /\ UNCHANGED fields

TimesSpec == TimesInit /\ [][TimesNext]_mailSysVars

-----------------------------------------------------------------------------
(* Properties.                                                             *)

FieldsIn(b) == MboxContents([mailboxes[b] EXCEPT !.messages = fields[b]])

(* The messages in a mailbox are in the order of their sending times, none *)
(* of which lies ahead, and each names a process that has existed: no cell *)
(* between head and tail is overwritten or cleared (msg_send, mbox.c).     *)
MailChronological ==
  \A b \in Mboxes : \A k \in 1 .. mailboxes[b].size :
    /\ FieldsIn(b)[k].sender \in 1 .. next_pid - 1
    /\ FieldsIn(b)[k].time_sent \in 0 .. Seconds
    /\ k > 1 => FieldsIn(b)[k - 1].time_sent <= FieldsIn(b)[k].time_sent

\* Which entries a step gives a message.
Gets(i) == inbox'[i] # inbox[i]

(* "set the message received time (in seconds)" (ksyscall.c:384, and :340  *)
(* for a message that ends the wait of its receiver).                      *)
ReceivedInSeconds ==
  [][\A i \in Entries : Gets(i) => time_received(i) = Seconds]_mailSysVars

=============================================================================
