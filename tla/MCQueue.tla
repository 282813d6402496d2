------------------------------ MODULE MCQueue -------------------------------
(***************************************************************************)
(* Queue on three and four cells with three items: every fill level at     *)
(* every position of head, so each wrap of head and of tail happens.       *)
(***************************************************************************)
EXTENDS Queue

const_Items == {0, 1, 2}

=============================================================================
