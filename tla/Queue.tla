------------------------------- MODULE Queue --------------------------------
(***************************************************************************)
(* queue.c: the circular buffer behind every queue of the kernel - the     *)
(* pool of free process entries, the run queue, the pool of mutex ids and  *)
(* the wait queues of mutexes and mailboxes.  One call is one step; the    *)
(* kernel runs with interrupts off, so no two calls on a queue overlap.    *)
(* The NULL checks of the code are left out: every caller passes the       *)
(* address of a static or local object.                                    *)
(***************************************************************************)
EXTENDS Integers, Sequences

CONSTANTS
  Items,        \* the integers callers store
  QUEUE_SIZE    \* queue.h: 64

ASSUME QueueAssumption == Items \subseteq Nat /\ QUEUE_SIZE \in Nat \ {0}

VARIABLES
  items,   \* the array
  head,    \* index of the oldest item
  tail,    \* index of the next free cell
  size,    \* number of items held
  rc,      \* what the last call returned
  item     \* the caller's buffer for queue_out

vars == <<items, head, tail, size, rc, item>>

Index == 0 .. QUEUE_SIZE - 1

-----------------------------------------------------------------------------
\* Mutated forms, used to see the properties fail.

queue_out_KeepsItem ==
  /\ size # 0
  /\ item' = items[head]
  /\ head' = IF head + 1 = QUEUE_SIZE THEN 0 ELSE head + 1
  /\ size' = size - 1
  /\ rc' = 0
  /\ UNCHANGED <<items, tail>>

queue_in_NoFullTest(x) ==
  /\ items' = [items EXCEPT ![tail] = x]
  /\ tail' = IF tail + 1 = QUEUE_SIZE THEN 0 ELSE tail + 1
  /\ size' = IF size = QUEUE_SIZE THEN size ELSE size + 1
  /\ rc' = 0
  /\ UNCHANGED <<head, item>>

-----------------------------------------------------------------------------
\* "If we are at the end of the array, move to the beginning."
Step(i) == IF i + 1 = QUEUE_SIZE THEN 0 ELSE i + 1

Init ==
  /\ items = [i \in Index |-> 0]
  /\ head = 0 /\ tail = 0 /\ size = 0
  /\ rc = 0 /\ item = 0

\* queue_init is also called on a used queue: kmutex_alloc does.
queue_init ==
  /\ items' = [i \in Index |-> 0]
  /\ head' = 0 /\ tail' = 0 /\ size' = 0
  /\ rc' = 0
  /\ UNCHANGED item

queue_in(x) ==
  \/ /\ size # QUEUE_SIZE
     /\ items' = [items EXCEPT ![tail] = x]
     /\ tail' = Step(tail)
     /\ size' = size + 1
     /\ rc' = 0
     /\ UNCHANGED <<head, item>>
  \/ /\ size = QUEUE_SIZE
     /\ rc' = -1
     /\ UNCHANGED <<items, head, tail, size, item>>

\* The cell an item leaves is reset to 0.
queue_out ==
  \/ /\ size # 0
     /\ item' = items[head]
     /\ items' = [items EXCEPT ![head] = 0]
     /\ head' = Step(head)
     /\ size' = size - 1
     /\ rc' = 0
     /\ UNCHANGED tail
  \/ /\ size = 0
     /\ rc' = -1
     /\ UNCHANGED <<items, head, tail, size, item>>

Next ==
  \/ queue_init
  \/ \E x \in Items : queue_in(x)
  \/ queue_out

Spec == Init /\ [][Next]_vars

-----------------------------------------------------------------------------
\* The cell k places after the head, counting round the end of the array.
CellAt(k) == IF head + k < QUEUE_SIZE THEN head + k ELSE head + k - QUEUE_SIZE

\* The abstract contents: the size cells from head on.
Contents == [k \in 1 .. size |-> items[CellAt(k - 1)]]

(* Type invariant of queue_t and of the two outputs of a call. *)
TypeOK ==
  /\ items \in [Index -> Items \cup {0}]
  /\ head \in Index
  /\ tail \in Index
  /\ size \in 0 .. QUEUE_SIZE
  /\ rc \in {0, -1}
  /\ item \in Items \cup {0}

(* The three redundant fields agree: tail is size cells after head, and    *)
(* every cell outside the occupied stretch holds the 0 that queue_init and *)
(* queue_out leave ("Reset the empty item").                               *)
RingConsistent ==
  /\ tail = CellAt(size)
  /\ \A i \in Index : (\A k \in 0 .. size - 1 : CellAt(k) # i) => items[i] = 0

\* The promise of queue.h, read through the abstract contents.
Promise == INSTANCE Fifo WITH Capacity <- QUEUE_SIZE, contents <- Contents

(* queue.c implements the bounded FIFO of queue.h: nothing is lost,        *)
(* duplicated or reordered, and -1 is returned exactly when the queue is   *)
(* full (queue_in) or empty (queue_out).                                   *)
ImplementsFifo == Promise!Spec

=============================================================================
