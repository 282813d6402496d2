------------------------------ MODULE MCKProc -------------------------------
(***************************************************************************)
(* The scheduler with four table entries (the idle task and three more), a *)
(* run queue of exactly that capacity, slices of two ticks and seconds of  *)
(* two.  MaxPid lets an entry be used again and the table fill up.         *)
(***************************************************************************)
EXTENDS KProc

const_SleepSecs == {0, 1}
const_Keys == {"exec", "exit", "quit"}

=============================================================================
