----------------------------- MODULE LockService ----------------------------
(***************************************************************************)
(* What the mutexes promise, on top of the round robin: each mutex is a    *)
(* line of table entries, the holder in front and behind it those whose    *)
(* mutex_lock call has not returned, in the order of their calls.  Counts, *)
(* owner pointers and wait queues are gone.  Module KMutex is shown to     *)
(* implement this (LocksServe); module Programs runs programs on it.       *)
(*                                                                         *)
(* Holders are table entries, as in the code: the next process in the      *)
(* entry of one that exited in front of a line takes its place there.      *)
(*                                                                         *)
(* A definition <name>_<change> is a mutated form of <name> that some      *)
(* property refutes; the model does not use it.                            *)
(***************************************************************************)
EXTENDS RoundRobin

CONSTANT Locks   \* the ids of the mutexes

VARIABLE line    \* line[m]: the holder of m, then those who wait for it

lockServiceVars == <<rrVars, line>>

Acquire_NoWait(m) ==
  /\ Query
  /\ line' = [line EXCEPT ![m] = Append(@, running)]

\* The caller gets in line, and waits unless it stands in front.
Acquire(m) ==
  /\ Call
  /\ line' = [line EXCEPT ![m] = Append(@, running)]
  /\ IF line[m] = <<>>
     THEN UNCHANGED <<status, running>>
     ELSE status' = [status EXCEPT ![running] = "WAITING"] /\ running' = NULL
  /\ UNCHANGED <<queue, used, sleeping>>

Holds(t, m) == line[m] # <<>> /\ Head(line[m]) = t

\* The holder leaves the line; whoever is in front now becomes ready.
Release(m) ==
  /\ Call
  /\ Holds(running, m)
  /\ line' = [line EXCEPT ![m] = Tail(@)]
  /\ IF Len(line[m]) = 1
     THEN UNCHANGED <<status, queue>>
     ELSE MakeReady(line[m][2])
  /\ UNCHANGED <<running, used, sleeping>>

\* mutex_alloc clears the entry it gives out, whether it is in use or not.
Clear(m) ==
  /\ Query
  /\ line' = [line EXCEPT ![m] = <<>>]

LockInit == RRInit /\ line = [m \in Locks |-> <<>>]

LockNext ==
  \/ \E m \in Locks : Acquire(m) \/ Release(m) \/ Clear(m)
  \/ /\ \/ Tick
        \/ Query
        \/ Yield
        \/ \E ticks \in SleepTicks : Sleep(ticks)
        \/ \E t \in Tasks : Exec(t)
        \/ Exit
        \/ Halt
        \/ Schedule
     /\ UNCHANGED line

LockSpec == LockInit /\ [][LockNext]_lockServiceVars

=============================================================================
