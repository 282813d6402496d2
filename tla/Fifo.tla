-------------------------------- MODULE Fifo --------------------------------
(***************************************************************************)
(* What queue.h promises: a bounded first-in, first-out queue of integers. *)
(* "Adds an item to the queue", "Removes an item from the head", each with *)
(* 0 on success and -1 on failure.  The contents are an abstract sequence; *)
(* how the code lays them out in an array is the business of module Queue. *)
(***************************************************************************)
EXTENDS Integers, Sequences

CONSTANTS
  Items,      \* what callers put in a queue: process ids, table entries, ids
  Capacity    \* how many items a queue holds, at least one

VARIABLES
  contents,   \* the queued items, the oldest first
  rc,         \* what the last call returned
  item        \* the caller's buffer, written by a successful removal only

vars == <<contents, rc, item>>

Init ==
  /\ contents = <<>>
  /\ rc = 0
  /\ item = 0

\* Empty the queue, whatever it holds.
Clear ==
  /\ contents' = <<>>
  /\ rc' = 0
  /\ UNCHANGED item

Put(x) ==
  \/ /\ Len(contents) < Capacity
     /\ contents' = Append(contents, x)
     /\ rc' = 0
     /\ UNCHANGED item
  \/ /\ Len(contents) = Capacity
     /\ rc' = -1
     /\ UNCHANGED <<contents, item>>

Get ==
  \/ /\ contents # <<>>
     /\ item' = Head(contents)
     /\ contents' = Tail(contents)
     /\ rc' = 0
  \/ /\ contents = <<>>
     /\ rc' = -1
     /\ UNCHANGED <<contents, item>>

Next ==
  \/ Clear
  \/ \E x \in Items : Put(x)
  \/ Get

Spec == Init /\ [][Next]_vars

=============================================================================
