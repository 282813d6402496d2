------------------------------- MODULE MCKMbox ------------------------------
(***************************************************************************)
(* One mailbox of two cells, three processes beside the idle task, so that *)
(* two receivers can wait for one sender, and three messages, so that the  *)
(* ring wraps.  The numbers passed include one too small and one too big.  *)
(* Seconds last two ticks, so that the two are told apart.                 *)
(***************************************************************************)
EXTENDS MailTimes

const_NoSleep == {}
const_Keys == {"exec", "exit"}
const_NoKeys == {}
const_Args == {-1, 0, 1}

=============================================================================
