------------------------------- MODULE MCKernel ------------------------------
(***************************************************************************)
(* One mutex and one mailbox for the init process and the two it may start *)
(* beside the idle task, slices of one tick, the key that exits.           *)
(***************************************************************************)
EXTENDS Kernel

const_NoSleep == {}
const_Keys == {"exit"}
const_NoKeys == {}
const_MutexArgs == {-1, 0}
const_MboxArgs == {0, 1}

=============================================================================
