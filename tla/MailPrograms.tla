----------------------------- MODULE MailPrograms ----------------------------
(***************************************************************************)
(* The programs of prog.c that exchange messages, on the scheduler and the *)
(* mailboxes of module MailService: prog_producer, which the key 'p'       *)
(* starts, prog_consumer, which the key 'c' starts, and prog_init once it  *)
(* only yields.  A tick may come between any two of their steps.           *)
(*                                                                         *)
(* A process id decides the mailbox by its parity.  Which id is odd and    *)
(* when a program runs out of its time is left open, and the words are     *)
(* left out.  No producer sends to a full mailbox, as MailService has it:  *)
(* the 63 words of seven producers do not fill one of 64 places.           *)
(***************************************************************************)
EXTENDS MailService

CONSTANTS
  WORD_COUNT,   \* prog.c: 9 messages at most from a producer
  MaxStarts,    \* bound on the programs started
  Started,      \* Started[n]: which of them the n-th key may start
  ExitAt        \* the steps at which the key 'x' may hit a program

Labels == {"yield", "send", "pause", "receive", "read", "exit", "none"}

ASSUME MailProgramsAssumption ==
  /\ WORD_COUNT \in Nat \ {0}
  /\ MaxStarts \in Nat
  /\ Started \in [1 .. MaxStarts -> SUBSET {"send", "receive"}]
  /\ ExitAt \subseteq Labels
  /\ Messages = (1 .. MaxStarts) \X (1 .. WORD_COUNT)
  /\ Boxes # {} /\ NoMail \notin Messages

VARIABLES
  pc,         \* pc[t]: the next step of the program in entry t
  box,        \* box[t]: the mailbox it uses
  id,         \* id[t]: its process id, counted from the first start
  sequence,   \* sequence[t]: test_data.sequence, the messages sent
  starts,     \* the programs started so far
  received,   \* received[p]: how many words of process p reached a buffer
  lost        \* lost[p]: how many msg_send took out and copied to none;
              \* neither is a variable of the code

mailProgVars == <<pc, box, id, sequence, starts, received, lost>>
mailProgSysVars == <<mailServiceVars, mailProgVars>>

-----------------------------------------------------------------------------

At(label) == phase = "user" /\ pc[running] = label

Goto(label) == pc' = [pc EXCEPT ![running] = label]

InitYields ==
  /\ At("yield")
  /\ Yield
  /\ UNCHANGED <<mail, awaiting, got, mailProgVars>>

\* A message is <<the sender, its sequence number>>.
Word == <<id[running], sequence[running] + 1>>

\* The counts when the first word of mailbox b, after w is put in, is taken.
Count(b, w) ==
  LET p == Oldest(b, w)[1] IN
  /\ received' = IF got' # got THEN [received EXCEPT ![p] = @ + 1] ELSE received
  /\ lost' = IF got' = got /\ Len(mail'[b]) = Len(mail[b])
             THEN [lost EXCEPT ![p] = @ + 1] ELSE lost

ProducerSends ==
  /\ At("send")
  /\ Send(box[running], Word)
  /\ sequence' = [sequence EXCEPT ![running] = @ + 1]
  /\ Count(box[running], Word)
  /\ Goto("pause")
  /\ UNCHANGED <<box, id, starts>>

\* It ends after its last word, or sooner when its time is over.
ProducerSleeps ==
  /\ At("pause")
  /\ \E ticks \in SleepTicks : Sleep(ticks)
  /\ \/ sequence[running] < WORD_COUNT /\ Goto("send")
     \/ Goto("exit")
  /\ UNCHANGED <<mail, awaiting, got, box, id, sequence, starts, received, lost>>

ConsumerReceives ==
  /\ At("receive")
  /\ Recv(box[running])
  /\ received' = IF got' # got THEN [received EXCEPT ![got'[running][1]] = @ + 1]
                 ELSE received
  /\ Goto("read")
  /\ UNCHANGED <<box, id, sequence, starts, lost>>

\* It prints the message and looks at the time.
ConsumerReads ==
  /\ At("read")
  /\ Goto("receive") \/ Goto("exit")
  /\ UNCHANGED <<mailServiceVars, box, id, sequence, starts, received, lost>>

\* The variables of a program go with its stack.
Discard(t) ==
  /\ pc' = [pc EXCEPT ![t] = "none"]
  /\ box' = [box EXCEPT ![t] = CHOOSE b \in Boxes : TRUE]
  /\ id' = [id EXCEPT ![t] = 0]
  /\ sequence' = [sequence EXCEPT ![t] = 0]

ProgramExits ==
  /\ At("exit")
  /\ Quit
  /\ Discard(running)
  /\ UNCHANGED <<starts, received, lost>>

-----------------------------------------------------------------------------
(* Keys.                                                                   *)

KeyStarts(t, label, b) ==
  /\ phase = "kernel"
  /\ starts < MaxStarts /\ label \in Started[starts + 1]
  /\ Exec(t)
  /\ starts' = starts + 1
  /\ pc' = [pc EXCEPT ![t] = label]
  /\ box' = [box EXCEPT ![t] = b]
  /\ id' = [id EXCEPT ![t] = starts + 1]
  /\ UNCHANGED <<mail, awaiting, got, sequence, received, lost>>

KeyExit ==
  /\ phase = "kernel"
  /\ Quit
  /\ pc[running] \in ExitAt
  /\ Discard(running)
  /\ UNCHANGED <<starts, received, lost>>

-----------------------------------------------------------------------------

MailProgInit ==
  /\ MailInit
  /\ pc = [t \in Tasks |-> IF t = InitTask THEN "yield" ELSE "none"]
  /\ box = [t \in Tasks |-> CHOOSE b \in Boxes : TRUE]
  /\ id = [t \in Tasks |-> 0]
  /\ sequence = [t \in Tasks |-> 0]
  /\ starts = 0
  /\ received = [p \in 1 .. MaxStarts |-> 0]
  /\ lost = [p \in 1 .. MaxStarts |-> 0]

Program ==
  \/ InitYields
  \/ ProducerSends \/ ProducerSleeps
  \/ ConsumerReceives \/ ConsumerReads
  \/ ProgramExits

KernelStep(A) == A /\ UNCHANGED <<mail, awaiting, got, mailProgVars>>

MailProgNext ==
  \/ Program
  \/ KernelStep(Tick)
  \/ KernelStep(Halt)
  \/ KernelStep(Schedule)
  \/ \E t \in Tasks, label \in {"send", "receive"}, b \in Boxes : KeyStarts(t, label, b)
  \/ KeyExit

\* As in RRSpec; and a program that is given the CPU again and again does
\* execute its instructions.
MailProgFairness ==
  /\ WF_mailProgSysVars(KernelStep(Schedule))
  /\ SF_mailProgSysVars(KernelStep(Tick))
  /\ \A t \in Reusable \ {InitTask} : SF_mailProgSysVars(Program /\ running = t)

MailProgSpec == MailProgInit /\ [][MailProgNext]_mailProgSysVars /\ MailProgFairness

-----------------------------------------------------------------------------
(* Properties.                                                             *)

(* The words of a producer arrive each once and in the order it sent them, *)
(* even when several consumers share the mailbox and some are killed while *)
(* they wait (prog_producer counts them in test_data.sequence, and         *)
(* prog_consumer prints the number).  One that does not arrive was lost    *)
(* where a send found the place of a consumer that had exited.             *)
WordsInOrder ==
  [][/\ \A t \in Tasks : got'[t] # got[t] =>
          LET p == got'[t][1] IN got'[t][2] = received[p] + lost[p] + 1
     /\ \A p \in 1 .. MaxStarts : lost'[p] # lost[p] =>
          \E b \in Boxes : awaiting[b] # <<>> /\ Head(awaiting[b]) = NULL
    ]_mailProgSysVars

(* The consumer that is first in line at a mailbox gets a message if a     *)
(* producer for that mailbox is left ("process moves to WAITING state",    *)
(* syscall.h:94; the wake-up of msg_send).  One behind the place of a      *)
(* consumer that exited is promised nothing before that place is used up.  *)
FirstWaiterServed ==
  \A t \in Reusable, b \in Boxes :
    (awaiting[b] # <<>> /\ Head(awaiting[b]) = t /\ \E u \in Tasks : pc[u] = "send" /\ box[u] = b)
      ~> (status[t] # "WAITING" \/ Halted)

=============================================================================
