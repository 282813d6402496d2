------------------------------ MODULE MCPrograms -----------------------------
(***************************************************************************)
(* The idle task, prog_init, and two entries for the processes of          *)
(* prog_test, or three where a mutex needs a second waiter; slices of one  *)
(* tick, sleeps that are over at once or after a tick.                     *)
(***************************************************************************)
EXTENDS Programs

const_Two == 0 .. 3
const_Three == 0 .. 4
const_Odd == {"odd"}
const_Groups == {"odd", "even"}
const_Locks == {0, 1}
const_SleepTicks == {0, 1}
const_Mutex == {"mutex"}
const_Spin == {"spin"}
const_AnyLock == {"mutex", "spin"}
const_Once == {0}
const_Twice == {1}
const_HoldsNothing == Labels \ {"critical", "unlock"}
const_Never == {}
const_NoPrograms == <<>>
const_Both == <<"sleep forever", "delay forever">>

=============================================================================
