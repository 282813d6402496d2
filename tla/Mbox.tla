-------------------------------- MODULE Mbox --------------------------------
(***************************************************************************)
(* mbox.c: the ring of messages inside one mailbox, as operators on its    *)
(* value.  Unlike queue.c it tests neither for a full nor for an empty     *)
(* ring: the comments announce both tests, the code checks the mailbox     *)
(* number in their place.  Module KMbox calls it the way ksyscall.c does.  *)
(*                                                                         *)
(* A definition <name>_<change> is a mutated form of <name> that some      *)
(* property refutes; the model does not use it.                            *)
(***************************************************************************)
EXTENDS Integers, Sequences

CONSTANTS
  MBOX_SIZE,   \* mbox.h: 64
  NoMessage    \* what a cleared cell holds

ASSUME MboxAssumption == MBOX_SIZE \in Nat \ {0}

Cells == 0 .. MBOX_SIZE - 1

\* mbox_init: all zero.
EmptyBox == [messages |-> [c \in Cells |-> NoMessage], head |-> 0, tail |-> 0, size |-> 0]

NextCell(c) == IF c + 1 >= MBOX_SIZE THEN 0 ELSE c + 1

\* The cell at tail is overwritten whatever it holds, and size may pass
\* MBOX_SIZE.
mbox_queue_in(box, msg) ==
  [box EXCEPT !.messages[box.tail] = msg, !.tail = NextCell(@), !.size = @ + 1]

\* The message a removal delivers, and the mailbox it leaves.
mbox_front(box) == box.messages[box.head]

mbox_queue_out_Tail(box) ==
  [box EXCEPT !.messages[box.head] = NoMessage, !.tail = NextCell(@), !.size = @ - 1]

mbox_queue_out(box) ==
  [box EXCEPT !.messages[box.head] = NoMessage, !.head = NextCell(@), !.size = @ - 1]

\* The messages a mailbox holds, the oldest first.
MboxContents(box) ==
  [k \in 1 .. box.size |-> box.messages[(box.head + k - 1) % MBOX_SIZE]]

=============================================================================
