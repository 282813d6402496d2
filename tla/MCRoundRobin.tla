---------------------------- MODULE MCRoundRobin ----------------------------
(***************************************************************************)
(* The idle task and three more entries, slices of two ticks, sleeps that  *)
(* are over at once or after two ticks.  Every entry may be used again.    *)
(***************************************************************************)
EXTENDS RoundRobin

const_Tasks == 0 .. 3
const_SleepTicks == {0, 2}

=============================================================================
