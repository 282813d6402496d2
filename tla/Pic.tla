--------------------------------- MODULE Pic ---------------------------------
(***************************************************************************)
(* The interrupt controllers as interrupts.c drives them.  Two chips of    *)
(* eight lines, the second behind line 2 of the first; each has a mask and *)
(* remembers which lines the CPU is serving.  Interrupts are off in the    *)
(* kernel, so a whole function of interrupts.c is one step.                *)
(*                                                                         *)
(* The hardware (Interrupt and EndOfInterrupt) is external; the rest are   *)
(* the functions of interrupts.c.  Lines are enabled and disabled as they  *)
(* may be, but the timer's is the only one that the kernel handles and     *)
(* dismisses: an interrupt of any other halts it.                          *)
(*                                                                         *)
(* A definition <name>_<change> is a mutated form of <name> that some      *)
(* property refutes; the model does not use it.                            *)
(***************************************************************************)
EXTENDS Integers, FiniteSets, FiniteSetsExt

CONSTANTS
  IRQs,            \* the interrupt numbers passed to the functions
  InitialMasks,    \* what the firmware may leave in the masks
  DisableTwice     \* whether a line may be disabled that is not enabled

Chips == {1, 2}
Bits == 0 .. 7

ASSUME PicAssumption ==
  /\ IRQs \subseteq Nat
  /\ InitialMasks \subseteq [Chips -> SUBSET Bits]
  /\ DisableTwice \in BOOLEAN

VARIABLES
  mask,       \* mask[c]: the lines of chip c that are masked
  service,    \* service[c]: the lines of chip c being served
  entry,      \* what entered the kernel: TIMER_INTR or Syscall;
              \* NoEntry while a process executes; Halted after a panic
  wanted      \* the lines that were asked for; not a variable of the code

picVars == <<mask, service, entry, wanted>>

TIMER_INTR == 32    \* IRQ 0
Cascade == 2        \* the line of the first chip that the second one uses
Syscall == -1
NoEntry == -2
Boot == -3
Halted == -4

\* Interrupt numbers beyond 15 stand for the same lines again.
Line(irq) == irq % 16
Chip(irq) == IF Line(irq) >= 8 THEN 2 ELSE 1
Bit(irq) == Line(irq) % 8

irq_enabled(irq) == Bit(irq) \notin mask[Chip(irq)]

-----------------------------------------------------------------------------

irq_enable_PresetLast(irq) == mask' = [mask EXCEPT ![Chip(irq)] = Bits \ {0}]

\* A fixed mask is written first, and replaced before anyone can see it.
irq_enable(irq) == mask' = [mask EXCEPT ![Chip(irq)] = @ \ {Bit(irq)}]

\* The bit is toggled.
irq_disable(irq) ==
  mask' = [mask EXCEPT ![Chip(irq)] = IF Bit(irq) \in @ THEN @ \ {Bit(irq)} ELSE @ \cup {Bit(irq)}]

\* The command ends the service of the line that is first in priority.
EndOfInterrupt(c, served) ==
  [served EXCEPT ![c] = IF @ = {} THEN {} ELSE @ \ {Min(@)}]

irq_dismiss_NoRemap(irq) == service' = EndOfInterrupt(IF irq >= 8 THEN 2 ELSE 1, service)

irq_dismiss(irq) ==
  service' = EndOfInterrupt(1, IF Chip(irq) = 2 THEN EndOfInterrupt(2, service) ELSE service)

-----------------------------------------------------------------------------

interrupts_init ==
  /\ entry = Boot
  /\ irq_enable(TIMER_INTR)
  /\ wanted' = wanted \cup {Line(TIMER_INTR)}
  /\ entry' = NoEntry
  /\ UNCHANGED service

\* irq_handler knows the timer's line only; any other is a panic.
irq_handler(irq) == entry' = IF Line(irq) = Line(TIMER_INTR) THEN TIMER_INTR ELSE Halted

\* A device raises a line that gets through both masks.
Interrupt(irq) ==
  /\ entry = NoEntry
  /\ irq_enabled(irq)
  /\ Chip(irq) = 2 => Cascade \notin mask[1]
  /\ \A b \in service[1] : IF Chip(irq) = 2 THEN Cascade < b ELSE Bit(irq) < b
  /\ Chip(irq) = 2 => \A b \in service[2] : Bit(irq) < b
  /\ service' = [c \in Chips |->
                   IF c = Chip(irq) THEN service[c] \cup {Bit(irq)}
                   ELSE IF c = 1 THEN service[c] \cup {Cascade}
                   ELSE service[c]]
  /\ irq_handler(irq)
  /\ UNCHANGED <<mask, wanted>>

SystemCall ==
  /\ entry = NoEntry
  /\ entry' = Syscall
  /\ UNCHANGED <<mask, service, wanted>>

InKernel == entry \in {TIMER_INTR, Syscall}

Enable(irq) ==
  /\ InKernel
  /\ irq_enable(irq)
  /\ wanted' = wanted \cup {Line(irq)}
  /\ UNCHANGED <<service, entry>>

Disable(irq) ==
  /\ InKernel
  /\ DisableTwice \/ irq_enabled(irq)
  /\ irq_disable(irq)
  /\ wanted' = wanted \ {Line(irq)}
  /\ UNCHANGED <<service, entry>>

\* kisr_timer dismisses its interrupt; a system call has nothing to dismiss.
Leave ==
  /\ InKernel
  /\ IF entry = Syscall THEN UNCHANGED service ELSE irq_dismiss(TIMER_INTR)
  /\ entry' = NoEntry
  /\ UNCHANGED <<mask, wanted>>

-----------------------------------------------------------------------------

PicInit ==
  /\ mask \in InitialMasks
  /\ service = [c \in Chips |-> {}]
  /\ entry = Boot
  /\ wanted = {l \in 0 .. 15 : irq_enabled(l)}

PicNext ==
  \/ interrupts_init
  \/ SystemCall
  \/ \E irq \in IRQs : Interrupt(irq) \/ Enable(irq) \/ Disable(irq)
  \/ Leave

PicSpec == PicInit /\ [][PicNext]_picVars

-----------------------------------------------------------------------------
(* Properties.                                                             *)

(* The lines irq_enabled reports are those that were enabled and not       *)
(* disabled since: a call for one line leaves the fifteen others alone, on *)
(* both chips and for remapped numbers ("Disables the specified IRQ on the *)
(* PIC", interrupts.c:130).                                                *)
LinesAsAsked == \A irq \in 0 .. 15 : irq_enabled(irq) <=> irq \in wanted

(* While a process executes and the timer's line has been asked for, the   *)
(* next tick gets in: the line is not masked, whatever was done to others, *)
(* and no line in service keeps it out ("Dismisses an interrupt by sending *)
(* the EOI command to the appropriate PIC device(s)", interrupts.c:178).   *)
(* That there are ticks again and again is what the fairness of the        *)
(* scheduler's models stands for.                                          *)
TicksGetIn ==
  entry = NoEntry /\ Line(TIMER_INTR) \in wanted
    => irq_enabled(TIMER_INTR) /\ service[Chip(TIMER_INTR)] = {}

=============================================================================
