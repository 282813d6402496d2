--------------------------- MODULE MCMailPrograms ----------------------------
(***************************************************************************)
(* The idle task, prog_init and up to three programs at a time, on one     *)
(* mailbox: two consumers and then a producer of two words.  The key 'x'   *)
(* may end a consumer at any step.  Slices last one tick.                  *)
(***************************************************************************)
EXTENDS MailPrograms

const_Three == 0 .. 4
const_OneBox == {0}
const_Consumers == {"receive", "read"}
const_Order == << {"receive"}, {"receive"}, {"send"} >>
const_NoTick == {0}
const_Messages == (1 .. MaxStarts) \X (1 .. WORD_COUNT)

=============================================================================
