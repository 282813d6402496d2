------------------------------ MODULE MCKMutex ------------------------------
(***************************************************************************)
(* Two mutexes and three processes beside the idle task, one of which may  *)
(* be a second use of a table entry.  Slices of one tick preempt a process *)
(* between any two calls.  The ids passed include -1, which is refused,    *)
(* and MUTEX_MAX, which should be.                                         *)
(***************************************************************************)
EXTENDS KMutex

const_NoSleep == {}
const_Keys == {"exec", "exit"}
const_Args == {-1, 0, 1, 2}
const_OneId == {0}

=============================================================================
