------------------------------- MODULE MCDevices ------------------------------
(***************************************************************************)
(* The parts around the kernel proper that share no state with it or with  *)
(* each other: the interrupt controllers, the clock in machine words, text *)
(* output and the system call wrappers.  Each behaviour exercises one of   *)
(* them, chosen at the beginning, while the others keep their initial      *)
(* state.                                                                  *)
(*                                                                         *)
(* The numbers of the interrupt lines are the timer's remapped one, the    *)
(* cascade line, another of the first chip and three of the second, two of *)
(* them remapped; the firmware may leave any of these lines masked.  Ints  *)
(* have six bits, seconds two ticks.  The screen has two rows of three     *)
(* columns, with tab stops every two, and strings hold a letter, the tab,  *)
(* the line end, two characters that are not printed and one above 127.    *)
(***************************************************************************)
EXTENDS Pic, Clock, Vga, SyscallRegs

CONSTANT Parts    \* the parts that the run exercises

VARIABLE part

const_All == {"pic", "clock", "vga", "wrappers"}
const_Pic == {"pic"}
const_Clock == {"clock"}
const_Vga == {"vga"}
const_Wrappers == {"wrappers"}

const_IRQs == {32, 2, 7, 8, 41, 47}
const_Masks == {[c \in Chips |-> IF c = 1 THEN {1, 3, 4, 5, 6} \cup S ELSE (2 .. 6) \cup T] :
                  S \in SUBSET {0, 2, 7}, T \in SUBSET {0, 1, 7}}

const_Procs == {"p", "q"}
const_SleepSecs == {0, 1, 3}

const_String == {65, 9, 10, 7, 127, -70}
const_Single == {66}
const_Line == {186}
const_Style == {<<3, 0, FALSE>>}
const_Styles == {<<3, 0, FALSE>>, <<4, 15, TRUE>>}

const_Calls == NoArgument \cup OneArgument \cup TwoArguments
const_Exec == {"proc_exec"}
const_Messages == {"msg_send", "msg_recv"}
const_AnyRegs == [w \in Wrappers |-> Registers]
\* Two arguments stay out of the registers that the assembly loads.
const_SpareRegs ==
  [w \in Wrappers |-> IF w \in TwoArguments THEN {"edx", "esi", "edi"} ELSE Registers]

Step(p, A, others) == part = p /\ A /\ UNCHANGED <<part, others>>

\* The choices of the other parts do not multiply the initial states.
DevInit ==
  /\ part \in Parts
  /\ PicInit /\ ClockInit /\ VgaInit /\ RegInit
  /\ part # "pic" => mask = CHOOSE m \in InitialMasks : TRUE
  /\ part # "vga" => style = CHOOSE s \in Styles : TRUE
  /\ part # "wrappers" => wrapper = CHOOSE w \in Wrappers : TRUE

DevNext ==
  \/ Step("pic", PicNext, <<clockVars, vgaVars, regVars>>)
  \/ Step("clock", ClockNext, <<picVars, vgaVars, regVars>>)
  \/ Step("vga", VgaNext, <<picVars, clockVars, regVars>>)
  \/ Step("wrappers", RegNext, <<picVars, clockVars, vgaVars>>)

DevSpec == DevInit /\ [][DevNext]_<<part, picVars, clockVars, vgaVars, regVars>>

=============================================================================
