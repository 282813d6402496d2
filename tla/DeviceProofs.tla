----------------------------- MODULE DeviceProofs -----------------------------
(***************************************************************************)
(* Proofs about the parts the kernel stands on: the integer queues, the    *)
(* interrupt controllers, the clock, text output and the system call       *)
(* wrappers.  Each part has an inductive invariant of its own.             *)
(***************************************************************************)
EXTENDS Queue, Pic, Clock, Vga, SyscallRegs, SequenceTheorems, TLAPS

-----------------------------------------------------------------------------
(* Division with a positive divisor: the prover knows the two defining     *)
(* facts of \div and %, and these are what follows from them.              *)

LEMMA SmallMod ==
  ASSUME NEW m \in Nat \ {0}, NEW x \in 0 .. m - 1
  PROVE  x % m = x
  OBVIOUS

LEMMA ModBelow ==
  ASSUME NEW m \in Nat \ {0}, NEW x \in Nat
  PROVE  x % m \in Nat /\ x % m <= x
  OBVIOUS

LEMMA ModOfSum ==
  ASSUME NEW m \in Nat \ {0}, NEW q \in Int, NEW r \in 0 .. m - 1
  PROVE  (q * m + r) % m = r
  OBVIOUS

LEMMA ModShift ==
  ASSUME NEW m \in Nat \ {0}, NEW x \in Int
  PROVE  (x - m) % m = x % m
<1> DEFINE q == x \div m
           r == x % m
<1>1. q \in Int /\ r \in 0 .. m - 1 /\ x = q * m + r
  OBVIOUS
<1> HIDE DEF q, r
<1>2. q - 1 \in Int /\ x - m = (q - 1) * m + r
  BY <1>1
<1>3. ((q - 1) * m + r) % m = r
  BY <1>1, <1>2, ModOfSum
<1>4. (x - m) % m = r
  BY <1>2, <1>3
<1> QED BY <1>4 DEF r

-----------------------------------------------------------------------------
(* The interrupt controllers.                                              *)

(* A line is told from the fifteen others by its chip and its bit: this is *)
(* what lets a write to one mask bit leave the other lines alone.          *)
LEMMA LinePlace ==
  ASSUME NEW irq \in Nat
  PROVE  /\ Line(irq) \in 0 .. 15
         /\ Chip(irq) \in Chips
         /\ Bit(irq) \in Bits
         /\ \A l \in 0 .. 15 :
              /\ Chip(l) \in Chips
              /\ Bit(l) \in Bits
              /\ Chip(l) = Chip(irq) /\ Bit(l) = Bit(irq) <=> l = Line(irq)
  BY DEF Line, Chip, Bit, Chips, Bits

NoService == [c \in Chips |-> {}]

PicTypeOK ==
  /\ mask \in [Chips -> SUBSET Bits]
  /\ entry \in {TIMER_INTR, Syscall, NoEntry, Boot, Halted}
  /\ wanted \subseteq 0 .. 15

(* Interrupts are off in the kernel, so at most one line is served before  *)
(* a panic: the timer's, while its interrupt is handled.                   *)
ServiceExact ==
  /\ entry \in {Syscall, NoEntry, Boot} => service = NoService
  /\ entry = TIMER_INTR => service = [NoService EXCEPT ![1] = {0}]

(* The timer's line is not masked once it has been asked for.  This is     *)
(* LinesAsAsked for one line, and needs no promise of irq_disable's caller.*)
TimerAsAsked == Line(TIMER_INTR) \in wanted => irq_enabled(TIMER_INTR)

PicInv == PicTypeOK /\ ServiceExact /\ TimerAsAsked /\ (DisableTwice \/ LinesAsAsked)

LEMMA TimerLine ==
  Chip(TIMER_INTR) = 1 /\ Bit(TIMER_INTR) = 0 /\ Line(TIMER_INTR) = 0
  BY DEF Chip, Bit, Line, TIMER_INTR

LEMMA MinOfOne ==
  ASSUME NEW n \in Int
  PROVE  Min({n}) = n
  BY DEF Min

(* One end of interrupt is enough for the timer, in spite of its number.   *)
LEMMA DismissEnds ==
  ASSUME service = [NoService EXCEPT ![1] = {0}], irq_dismiss(TIMER_INTR)
  PROVE  service' = NoService
<1>1. Min({0}) = 0
  BY MinOfOne
<1>2. service' = EndOfInterrupt(1, service)
  BY TimerLine DEF irq_dismiss
<1> QED BY <1>1, <1>2 DEF EndOfInterrupt, NoService, Chips

(* Enabling a line changes its bit and no other.                           *)
LEMMA EnableOne ==
  ASSUME PicTypeOK, NEW irq \in Nat, irq_enable(irq),
         wanted' = wanted \cup {Line(irq)}
  PROVE  /\ mask' \in [Chips -> SUBSET Bits]
         /\ wanted' \subseteq 0 .. 15
         /\ LinesAsAsked => LinesAsAsked'
         /\ TimerAsAsked => TimerAsAsked'
<1>1. mask' = [mask EXCEPT ![Chip(irq)] = mask[Chip(irq)] \ {Bit(irq)}]
  BY DEF irq_enable
<1>2. mask' \in [Chips -> SUBSET Bits] /\ wanted' \subseteq 0 .. 15
  <2>1. Chip(irq) \in Chips /\ Line(irq) \in 0 .. 15
    BY LinePlace
  <2>2. mask[Chip(irq)] \ {Bit(irq)} \in SUBSET Bits
    BY <2>1 DEF PicTypeOK
  <2>3. wanted' \subseteq 0 .. 15
    BY <2>1 DEF PicTypeOK
  <2> QED BY <1>1, <2>2, <2>3 DEF PicTypeOK
<1>3. ASSUME LinesAsAsked, NEW l \in 0 .. 15
      PROVE  irq_enabled(l)' <=> l \in wanted'
  <2>1. CASE l = Line(irq)
    BY <1>1, <2>1, LinePlace DEF irq_enabled, PicTypeOK
  <2>2. CASE l # Line(irq)
    <3>1. irq_enabled(l)' <=> irq_enabled(l)
      BY <1>1, <2>2, LinePlace DEF irq_enabled, PicTypeOK
    <3>2. l \in wanted' <=> l \in wanted
      BY <2>2
    <3> QED BY <1>3, <3>1, <3>2 DEF LinesAsAsked
  <2> QED BY <2>1, <2>2
<1>4. ASSUME TimerAsAsked, 0 \in wanted'
      PROVE  irq_enabled(TIMER_INTR)'
  <2>1. CASE Line(irq) = 0
    <3>1. Chip(irq) = 1 /\ Bit(irq) = 0
      BY <2>1, LinePlace DEF Line, Chip, Bit
    <3> QED BY <1>1, <3>1, TimerLine DEF irq_enabled, PicTypeOK, Chips
  <2>2. CASE Line(irq) # 0
    <3>1. 0 \notin mask[1]
      BY <1>4, <2>2, TimerLine DEF TimerAsAsked, irq_enabled
    <3>2. mask'[1] \subseteq mask[1]
      BY <1>1 DEF PicTypeOK, Chips
    <3> QED BY <3>1, <3>2, TimerLine DEF irq_enabled
  <2> QED BY <2>1, <2>2
<1>5. TimerAsAsked => TimerAsAsked'
  BY <1>4, TimerLine DEF TimerAsAsked, irq_enabled
<1> QED BY <1>2, <1>3, <1>5 DEF LinesAsAsked, irq_enabled

(* So does disabling one that is enabled: the toggle sets the bit.         *)
LEMMA DisableOne ==
  ASSUME PicTypeOK, NEW irq \in Nat, irq_disable(irq),
         wanted' = wanted \ {Line(irq)}
  PROVE  /\ mask' \in [Chips -> SUBSET Bits]
         /\ wanted' \subseteq 0 .. 15
         /\ irq_enabled(irq) /\ LinesAsAsked => LinesAsAsked'
         /\ TimerAsAsked => TimerAsAsked'
<1> DEFINE set == IF Bit(irq) \in mask[Chip(irq)]
                  THEN mask[Chip(irq)] \ {Bit(irq)}
                  ELSE mask[Chip(irq)] \cup {Bit(irq)}
<1>1. mask' = [mask EXCEPT ![Chip(irq)] = set]
  BY DEF irq_disable
<1>2. set \in SUBSET Bits
  BY LinePlace DEF PicTypeOK
<1>3. mask' \in [Chips -> SUBSET Bits] /\ wanted' \subseteq 0 .. 15
  BY <1>1, <1>2, LinePlace DEF PicTypeOK
<1>4. ASSUME irq_enabled(irq), LinesAsAsked, NEW l \in 0 .. 15
      PROVE  irq_enabled(l)' <=> l \in wanted'
  <2>1. set = mask[Chip(irq)] \cup {Bit(irq)}
    BY <1>4 DEF irq_enabled
  <2> HIDE DEF set
  <2>2. CASE l = Line(irq)
    BY <1>1, <2>1, <2>2, LinePlace DEF irq_enabled, PicTypeOK
  <2>3. CASE l # Line(irq)
    <3>1. irq_enabled(l)' <=> irq_enabled(l)
      BY <1>1, <2>1, <2>3, LinePlace DEF irq_enabled, PicTypeOK
    <3>2. l \in wanted' <=> l \in wanted
      BY <2>3
    <3> QED BY <1>4, <3>1, <3>2 DEF LinesAsAsked
  <2> QED BY <2>2, <2>3
<1>5. TimerAsAsked => TimerAsAsked'
  <2>1. CASE Line(irq) = 0
    BY <2>1, TimerLine DEF TimerAsAsked
  <2>2. CASE Line(irq) # 0
    <3>1. irq_enabled(TIMER_INTR)' <=> irq_enabled(TIMER_INTR)
      <4>1. ~(Chip(irq) = 1 /\ Bit(irq) = 0)
        BY <2>2, LinePlace DEF Line, Chip, Bit
      <4> QED BY <1>1, <4>1, LinePlace, TimerLine DEF irq_enabled, PicTypeOK
    <3>2. 0 \in wanted' => 0 \in wanted
      OBVIOUS
    <3> QED BY <3>1, <3>2, TimerLine DEF TimerAsAsked
  <2> QED BY <2>1, <2>2
<1> QED BY <1>3, <1>4, <1>5 DEF LinesAsAsked, irq_enabled


LEMMA PicBegins == PicInit => PicInv
<1> SUFFICES ASSUME PicInit PROVE PicInv
  OBVIOUS
<1>1. mask \in [Chips -> SUBSET Bits]
  BY PicAssumption DEF PicInit
<1>2. \A l \in 0 .. 15 : irq_enabled(l) <=> l \in wanted
  BY DEF PicInit
<1>3. TimerAsAsked
  <2>1. Chip(0) = 1 /\ Bit(0) = 0
    BY DEF Chip, Bit, Line
  <2>2. irq_enabled(0) <=> 0 \in wanted
    BY <1>2
  <2> QED BY <2>1, <2>2, TimerLine DEF TimerAsAsked, irq_enabled
<1> QED
  BY <1>1, <1>2, <1>3
     DEF PicInit, PicInv, PicTypeOK, ServiceExact, NoService, LinesAsAsked,
         Boot, TIMER_INTR

LEMMA PicStep == PicInv /\ [PicNext]_picVars => PicInv'
<1> SUFFICES ASSUME PicInv, [PicNext]_picVars PROVE PicInv'
  OBVIOUS
<1> USE DEF PicInv
<1>0. /\ IRQs \subseteq Nat
      /\ TIMER_INTR = 32 /\ Syscall = -1 /\ NoEntry = -2 /\ Boot = -3 /\ Halted = -4
  BY PicAssumption DEF TIMER_INTR, Syscall, NoEntry, Boot, Halted
<1>1. CASE interrupts_init
  <2>1. /\ mask' \in [Chips -> SUBSET Bits]
        /\ wanted' \subseteq 0 .. 15
        /\ LinesAsAsked => LinesAsAsked'
        /\ TimerAsAsked'
    BY <1>0, <1>1, EnableOne DEF interrupts_init
  <2>2. service' = NoService /\ entry' = NoEntry
    BY <1>0, <1>1 DEF interrupts_init, ServiceExact
  <2> QED BY <1>0, <2>1, <2>2 DEF PicTypeOK, ServiceExact
<1> DEFINE Unmoved == mask' = mask /\ wanted' = wanted
<1>2. ASSUME Unmoved
      PROVE  TimerAsAsked' /\ (LinesAsAsked => LinesAsAsked')
  BY <1>2 DEF TimerAsAsked, LinesAsAsked, irq_enabled
<1>3. CASE SystemCall
  <2>1. entry' = Syscall /\ service' = NoService /\ Unmoved
    BY <1>0, <1>3 DEF SystemCall, ServiceExact
  <2> QED BY <1>0, <1>2, <2>1 DEF PicTypeOK, ServiceExact
<1>4. ASSUME NEW irq \in IRQs, Interrupt(irq) PROVE PicInv'
  <2>1. Unmoved /\ service = NoService
    BY <1>0, <1>4 DEF Interrupt, ServiceExact
  <2>2. CASE Line(irq) = Line(TIMER_INTR)
    <3>1. entry' = TIMER_INTR
      BY <1>4, <2>2 DEF Interrupt, irq_handler
    <3>2. Chip(irq) = 1 /\ Bit(irq) = 0
      BY <1>0, <2>2, TimerLine, LinePlace
    <3>3. service' = [NoService EXCEPT ![1] = {0}]
      BY <1>4, <2>1, <3>2 DEF Interrupt, irq_handler, NoService, Chips
    <3> QED BY <1>0, <1>2, <2>1, <3>1, <3>3 DEF PicTypeOK, ServiceExact
  <2>3. CASE Line(irq) # Line(TIMER_INTR)
    <3>1. entry' = Halted
      BY <1>4, <2>3 DEF Interrupt, irq_handler
    <3> QED BY <1>0, <1>2, <2>1, <3>1 DEF PicTypeOK, ServiceExact
  <2> QED BY <2>2, <2>3
<1>5. ASSUME NEW irq \in IRQs, Enable(irq) PROVE PicInv'
  <2>1. /\ mask' \in [Chips -> SUBSET Bits]
        /\ wanted' \subseteq 0 .. 15
        /\ LinesAsAsked => LinesAsAsked'
        /\ TimerAsAsked'
    BY <1>0, <1>5, EnableOne DEF Enable
  <2> QED BY <1>5, <2>1 DEF Enable, PicTypeOK, ServiceExact
<1>6. ASSUME NEW irq \in IRQs, Disable(irq) PROVE PicInv'
  <2>1. /\ mask' \in [Chips -> SUBSET Bits]
        /\ wanted' \subseteq 0 .. 15
        /\ irq_enabled(irq) /\ LinesAsAsked => LinesAsAsked'
        /\ TimerAsAsked'
    BY <1>0, <1>6, DisableOne DEF Disable
  <2>2. DisableTwice \/ irq_enabled(irq)
    BY <1>6 DEF Disable
  <2> QED BY <1>6, <2>1, <2>2 DEF Disable, PicTypeOK, ServiceExact
<1>7. CASE Leave
  <2>1. entry' = NoEntry /\ Unmoved
    BY <1>7 DEF Leave
  <2>2. service' = NoService
    <3>1. CASE entry = Syscall
      BY <1>0, <1>7, <3>1 DEF Leave, ServiceExact
    <3>2. CASE entry # Syscall
      <4>1. service = [NoService EXCEPT ![1] = {0}] /\ irq_dismiss(TIMER_INTR)
        BY <1>7, <3>2 DEF Leave, InKernel, ServiceExact
      <4> QED BY <4>1, DismissEnds
    <3> QED BY <3>1, <3>2
  <2> QED BY <1>0, <1>2, <2>1, <2>2 DEF PicTypeOK, ServiceExact
<1>8. CASE UNCHANGED picVars
  BY <1>2, <1>8 DEF picVars, PicTypeOK, ServiceExact
<1> QED BY <1>1, <1>3, <1>4, <1>5, <1>6, <1>7, <1>8 DEF PicNext

LEMMA PicAlways == PicSpec => []PicInv
<1> QED BY PicBegins, PicStep, PTL DEF PicSpec

(* Whatever lines are enabled and disabled, in any order and by remapped   *)
(* numbers or plain ones, irq_enabled reports the lines asked for, as long *)
(* as irq_disable (interrupts.c:130), which toggles, is called for enabled *)
(* lines only.                                                             *)
THEOREM LinesTrue == ~DisableTwice => (PicSpec => []LinesAsAsked)
<1> SUFFICES ASSUME ~DisableTwice PROVE PicSpec => []LinesAsAsked
  OBVIOUS
<1>1. PicInv => LinesAsAsked
  BY DEF PicInv
<1> QED BY <1>1, PicAlways, PTL

(* While a process executes, nothing keeps out the timer whose line was    *)
(* asked for: neither its mask bit, whatever is done to the others, nor a  *)
(* service that irq_dismiss (interrupts.c:187) did not end.                *)
THEOREM TimerGetsIn == PicSpec => []TicksGetIn
<1>1. PicInv => TicksGetIn
  BY TimerLine
     DEF PicInv, ServiceExact, NoService, Chips, TimerAsAsked, TicksGetIn
<1> QED BY <1>1, PicAlways, PTL


-----------------------------------------------------------------------------
(* The clock.                                                              *)

LEMMA NoOverflow ==
  ASSUME NEW n \in 0 .. INT_MAX
  PROVE  Wrap(n) = n
<1>1. INT_MAX \in Nat
  BY ClockAssumption
<1>2. 2 * (INT_MAX + 1) \in Nat \ {0}
  BY <1>1
<1>3. n + INT_MAX + 1 \in 0 .. 2 * (INT_MAX + 1) - 1
  BY <1>1
<1>4. (n + INT_MAX + 1) % (2 * (INT_MAX + 1)) = n + INT_MAX + 1
  BY <1>2, <1>3, SmallMod
<1> QED BY <1>1, <1>4 DEF Wrap

ClockTypeOK ==
  /\ elapsed \in Nat
  /\ inKernel \in BOOLEAN
  /\ asleep \in [Procs -> BOOLEAN]
  /\ wake_time \in [Procs -> Int]
  /\ due \in [Procs -> Int]

\* The code's clock is the true one until it wraps.
ClockExact == elapsed <= INT_MAX => system_time = elapsed

(* A sleeper whose sleep ends within the range of int has the true end in  *)
(* wake_time, and the kernel is never left with a sleeper that is due.     *)
SleepersExact ==
  \A p \in Procs :
    asleep[p] => /\ wake_time[p] = due[p]
                 /\ elapsed <= due[p] /\ due[p] <= INT_MAX
                 /\ ~inKernel => elapsed < due[p]

ClockInv == ClockTypeOK /\ ClockExact /\ SleepersExact

LEMMA ClockBegins == ClockInit => ClockInv
<1> SUFFICES ASSUME ClockInit PROVE ClockInv
  OBVIOUS
<1>1. /\ asleep \in [Procs -> BOOLEAN]
      /\ wake_time \in [Procs -> Int]
      /\ due \in [Procs -> Int]
  <2>1. asleep = [p \in Procs |-> FALSE] /\ wake_time = [p \in Procs |-> 0] /\ due = wake_time
    BY DEF ClockInit
  <2>2. [p \in Procs |-> FALSE] \in [Procs -> BOOLEAN]
    BY Zenon
  <2>3. [p \in Procs |-> 0] \in [Procs -> Int]
    OBVIOUS
  <2> QED BY <2>1, <2>2, <2>3
<1>2. elapsed \in Nat /\ inKernel \in BOOLEAN /\ ClockExact
  BY DEF ClockInit, ClockExact
<1>3. SleepersExact
  BY DEF ClockInit, SleepersExact
<1> QED BY <1>1, <1>2, <1>3 DEF ClockInv, ClockTypeOK

LEMMA SleepStep ==
  ASSUME ClockInv, WithinRange, NEW p \in Procs, NEW secs \in SleepSecs,
         ksyscall_sleep(p, secs)
  PROVE  ClockInv'
<1> DEFINE length == CLK_TCK * secs
<1> USE DEF ClockInv, ClockTypeOK
<1>1. length \in Nat
  BY ClockAssumption
<1>2. elapsed + length <= INT_MAX /\ INT_MAX \in Nat
  BY ClockAssumption DEF ksyscall_sleep
<1>3. /\ wake_time' = [wake_time EXCEPT ![p] = Wrap(system_time + Wrap(length))]
      /\ due' = [due EXCEPT ![p] = elapsed + length]
      /\ asleep' = [asleep EXCEPT ![p] = TRUE]
      /\ system_time' = system_time /\ elapsed' = elapsed
      /\ inKernel' = TRUE
  BY DEF ksyscall_sleep
<1> HIDE DEF length
<1>4. length \in 0 .. INT_MAX /\ elapsed + length \in 0 .. INT_MAX
  BY <1>1, <1>2
<1>5. Wrap(length) = length /\ Wrap(elapsed + length) = elapsed + length
  BY <1>4, NoOverflow
<1>6. system_time = elapsed
  BY <1>1, <1>2 DEF ClockExact
<1>7. wake_time' = [wake_time EXCEPT ![p] = elapsed + length]
  BY <1>3, <1>5, <1>6
<1>8. ClockTypeOK'
  BY <1>1, <1>3, <1>7
<1>9. SleepersExact'
  <2> SUFFICES ASSUME NEW q \in Procs, asleep'[q]
               PROVE  wake_time'[q] = due'[q] /\ elapsed <= due'[q] /\ due'[q] <= INT_MAX
    BY <1>3 DEF SleepersExact
  <2>1. CASE q = p
    BY <1>1, <1>2, <1>3, <1>7, <2>1
  <2>2. CASE q # p
    BY <1>3, <1>7, <2>2 DEF SleepersExact
  <2> QED BY <2>1, <2>2
<1> QED BY <1>3, <1>8, <1>9 DEF ClockExact

(* At the wake-up loop the clock is exact if anyone sleeps, so the loop    *)
(* wakes those whose time has come and no other.                           *)
LEMMA OverExact ==
  ASSUME ClockInv, NEW p \in Procs, asleep[p]
  PROVE  Over(p) <=> due[p] <= elapsed
<1>1. wake_time[p] = due[p] /\ elapsed <= INT_MAX
  BY ClockAssumption DEF ClockInv, ClockTypeOK, SleepersExact
<1> QED BY <1>1 DEF ClockInv, ClockTypeOK, ClockExact, Over

LEMMA ClockStep == WithinRange /\ ClockInv /\ [ClockNext]_clockVars => ClockInv'
<1> SUFFICES ASSUME WithinRange, ClockInv, [ClockNext]_clockVars PROVE ClockInv'
  OBVIOUS
<1> USE DEF ClockInv, ClockTypeOK
<1>1. CASE kisr_timer
  <2>1. elapsed' = elapsed + 1 /\ system_time' = Wrap(system_time + 1) /\ inKernel' = TRUE
    BY <1>1 DEF kisr_timer
  <2>2. ClockExact'
    <3> SUFFICES ASSUME elapsed + 1 <= INT_MAX PROVE Wrap(system_time + 1) = elapsed + 1
      BY <2>1 DEF ClockExact
    <3>1. system_time = elapsed /\ elapsed + 1 \in 0 .. INT_MAX
      BY ClockAssumption DEF ClockExact
    <3> QED BY <3>1, NoOverflow
  <2>3. UNCHANGED <<wake_time, asleep, due>> /\ ~inKernel
    BY <1>1 DEF kisr_timer
  <2>4. SleepersExact'
    BY <2>1, <2>3 DEF SleepersExact
  <2> QED BY <2>1, <2>2, <2>3, <2>4
<1>2. ASSUME NEW p \in Procs, NEW secs \in SleepSecs, ksyscall_sleep(p, secs)
      PROVE  ClockInv'
  BY <1>2, SleepStep
<1>3. CASE WakeSleepers
  <2>1. /\ asleep' = [p \in Procs |-> asleep[p] /\ ~Over(p)]
        /\ wake_time' = [p \in Procs |-> IF Over(p) THEN 0 ELSE wake_time[p]]
        /\ due' = [p \in Procs |-> IF Over(p) THEN 0 ELSE due[p]]
        /\ inKernel' = FALSE
        /\ system_time' = system_time /\ elapsed' = elapsed
    BY <1>3 DEF WakeSleepers
  <2>2. ClockTypeOK'
    <3>1. asleep' \in [Procs -> BOOLEAN]
      BY <2>1, Zenon
    <3>2. wake_time' \in [Procs -> Int] /\ due' \in [Procs -> Int]
      BY <2>1
    <3> QED BY <2>1, <3>1, <3>2
  <2>3. ASSUME NEW p \in Procs, asleep'[p]
        PROVE  wake_time'[p] = due'[p] /\ elapsed < due'[p] /\ due'[p] <= INT_MAX
    <3>1. asleep[p] /\ ~Over(p)
      BY <2>1, <2>3
    <3>2. wake_time'[p] = wake_time[p] /\ due'[p] = due[p]
      BY <2>1, <3>1
    <3>3. ~(due[p] <= elapsed)
      BY <3>1, OverExact
    <3> QED BY <3>1, <3>2, <3>3 DEF SleepersExact
  <2> QED BY <2>1, <2>2, <2>3 DEF ClockExact, SleepersExact
<1>4. CASE UNCHANGED clockVars
  BY <1>4 DEF clockVars, ClockExact, SleepersExact
<1> QED BY <1>1, <1>2, <1>3, <1>4 DEF ClockNext

(* For every width of int and every clock rate, a process asleep when      *)
(* scheduler_run comes to its wake-up loop (scheduler.c:64) stays asleep   *)
(* exactly if its seconds are not over, provided only sleeps are asked for *)
(* that end before the clock overflows; the clock itself may go beyond.    *)
THEOREM SleepsExact == WithinRange => (ClockSpec => SleepExact)
<1> SUFFICES ASSUME WithinRange PROVE ClockSpec => SleepExact
  OBVIOUS
<1>1. ClockInv /\ [ClockNext]_clockVars => ClockInv'
  BY ClockStep
<1>2. ClockInv /\ [ClockNext]_clockVars =>
        [inKernel /\ ~inKernel' =>
           \A p \in Procs : asleep[p] => (asleep'[p] <=> elapsed < due[p])]_clockVars
  <2> SUFFICES ASSUME ClockInv, ClockNext, inKernel, ~inKernel',
                      NEW p \in Procs, asleep[p]
               PROVE  asleep'[p] <=> elapsed < due[p]
    BY DEF clockVars
  <2>1. WakeSleepers
    BY DEF ClockNext, kisr_timer, ksyscall_sleep
  <2>2. asleep'[p] <=> ~Over(p)
    BY <2>1 DEF WakeSleepers
  <2> QED BY <2>2, OverExact DEF ClockInv, ClockTypeOK
<1> QED BY ClockBegins, <1>1, <1>2, PTL DEF ClockSpec, SleepExact


(* Until the overflow sys_get_time (ksyscall.c:97) gives the seconds since *)
(* boot, rounded down, whatever the sleeps are.                            *)
THEOREM TimeTold == ClockSpec => [](elapsed <= INT_MAX => TimeInSeconds)
<1> DEFINE TimeInv == elapsed \in Nat /\ ClockExact
<1>1. ClockInit => TimeInv
  BY DEF ClockInit, ClockExact
<1>2. TimeInv /\ [ClockNext]_clockVars => TimeInv'
  <2> SUFFICES ASSUME TimeInv, [ClockNext]_clockVars PROVE TimeInv'
    OBVIOUS
  <2>1. CASE kisr_timer
    <3>1. elapsed' = elapsed + 1 /\ system_time' = Wrap(system_time + 1)
      BY <2>1 DEF kisr_timer
    <3>2. ASSUME elapsed + 1 <= INT_MAX PROVE Wrap(system_time + 1) = elapsed + 1
      <4>1. system_time = elapsed /\ elapsed + 1 \in 0 .. INT_MAX
        BY <3>2, ClockAssumption DEF ClockExact
      <4> QED BY <4>1, NoOverflow
    <3> QED BY <3>1, <3>2 DEF ClockExact
  <2>2. CASE UNCHANGED <<system_time, elapsed>>
    BY <2>2 DEF ClockExact
  <2> QED BY <2>1, <2>2 DEF ClockNext, ksyscall_sleep, WakeSleepers, clockVars
<1>3. TimeInv => (elapsed <= INT_MAX => TimeInSeconds)
  BY DEF ClockExact, TimeInSeconds, ksyscall_sys_get_time
<1> QED BY <1>1, <1>2, <1>3, PTL DEF ClockSpec

-----------------------------------------------------------------------------
(* The system call wrappers.                                               *)

\* The compiler keeps ebx, which the assembly of proc_exec, msg_send and
\* msg_recv loads first, free of their arguments.
EbxSpared == \A w \in Wrappers \cap TwoArguments : "ebx" \notin OperandRegs[w]

Arguments == 1 .. ArgumentCount(wrapper)

RegTypeOK ==
  /\ step \in {"idle", "number", "first", "second", "trap", "returned"}
  /\ regs = [r \in Registers |-> regs[r]]
  /\ wrapper \in Wrappers

\* What is to be loaded is still where the compiler put it.
OperandsLeft(ks) ==
  \A k \in ks : /\ place[k] \in Places(wrapper)
                /\ Operand(k) = <<"argument", k>>

\* What each instruction finds.
Loaded ==
  /\ step = "number" => OperandsLeft(Arguments)
  /\ step \in {"first", "second", "trap"} => regs["eax"] = <<"number", wrapper>>
  /\ step = "first" => ArgumentCount(wrapper) >= 1 /\ OperandsLeft(Arguments)
  /\ step = "second" => /\ ArgumentCount(wrapper) = 2
                        /\ regs["ebx"] = <<"argument", 1>>
                        /\ OperandsLeft({2})
  /\ ArgumentsArrive

RegInv == RegTypeOK /\ Loaded

LEMMA CountOf ==
  ASSUME NEW w
  PROVE  /\ ArgumentCount(w) \in 0 .. 2
         /\ ArgumentCount(w) = 2 <=> w \in TwoArguments
  BY DEF ArgumentCount

\* No wrapper lets an argument be in eax, and the assembly that loads one
\* argument declares ebx.
LEMMA PlacesOf ==
  ASSUME NEW w \in Wrappers, NEW q \in Places(w)
  PROVE  /\ q \in Registers \cup {"memory"}
         /\ q # "eax"
         /\ EbxSpared => \/ q # "ebx"
                         \/ ArgumentCount(w) = 0
<1>1. OperandRegs[w] \subseteq Registers
  BY WrappersAssumption
<1>2. "eax" \in Clobbers(w) /\ (w \in OneArgument => "ebx" \in Clobbers(w))
  BY DEF Clobbers
<1>3. q \in Registers \cup {"memory"} /\ q # "eax"
  BY <1>1, <1>2 DEF Places
<1>4. ASSUME EbxSpared, q = "ebx" PROVE ArgumentCount(w) = 0
  <2>1. w \notin OneArgument
    BY <1>2, <1>4 DEF Places
  <2>2. w \notin TwoArguments
    BY <1>4 DEF Places, EbxSpared
  <2> QED BY <2>1, <2>2 DEF ArgumentCount
<1> QED BY <1>3, <1>4

LEMMA CallPlaces ==
  ASSUME RegInv, NEW w \in Wrappers, NEW p \in [1 .. ArgumentCount(w) -> Places(w)],
         Len(p) = 2 /\ p[1] = p[2] => p[1] = "memory", Call(w, p)
  PROVE  RegInv'
<1>1. /\ wrapper' = w /\ place' = p /\ step' = "number"
      /\ memory' = [k \in DOMAIN p |-> <<"argument", k>>]
      /\ regs' = [r \in Registers |->
                    IF \E k \in DOMAIN p : p[k] = r
                    THEN <<"argument", CHOOSE k \in DOMAIN p : p[k] = r>>
                    ELSE <<"caller's", r>>]
  BY DEF Call
<1>2. DOMAIN p = 1 .. ArgumentCount(w) /\ ArgumentCount(w) \in 0 .. 2
  BY CountOf
<1>3. ASSUME NEW j \in DOMAIN p, NEW k \in DOMAIN p, p[j] = p[k], j # k
      PROVE  p[j] = "memory"
  <2>1. ArgumentCount(w) = 2 /\ {j, k} = {1, 2}
    BY <1>2, <1>3
  <2>2. Len(p) = 2
    BY <1>2, <2>1
  <2> QED BY <1>3, <2>1, <2>2
<1>4. ASSUME NEW k \in DOMAIN p
      PROVE  (IF p[k] = "memory" THEN memory'[k] ELSE regs'[p[k]]) = <<"argument", k>>
  <2>1. CASE p[k] = "memory"
    BY <1>1, <2>1
  <2>2. CASE p[k] # "memory"
    <3>1. p[k] \in Registers
      BY <1>2, <2>2, PlacesOf
    <3>2. \A j \in DOMAIN p : p[j] = p[k] => j = k
      BY <1>3, <2>2
    <3>3. (CHOOSE j \in DOMAIN p : p[j] = p[k]) = k
      BY <3>2
    <3>4. regs'[p[k]] = <<"argument", CHOOSE j \in DOMAIN p : p[j] = p[k]>>
      BY <1>1, <3>1
    <3> QED BY <2>2, <3>3, <3>4
  <2> QED BY <2>1, <2>2
<1>5. OperandsLeft(Arguments)'
  BY <1>1, <1>2, <1>4 DEF OperandsLeft, Arguments, Operand
<1>6. RegTypeOK'
  BY <1>1 DEF RegTypeOK
<1> QED BY <1>1, <1>5, <1>6 DEF RegInv, Loaded, ArgumentsArrive


\* A load that writes no register of an argument leaves the argument there.
LEMMA LoadKeeps ==
  ASSUME RegTypeOK, NEW r \in Registers, NEW v, NEW ks, OperandsLeft(ks),
         regs' = [regs EXCEPT ![r] = v], UNCHANGED <<memory, wrapper, place>>,
         \A k \in ks : place[k] # r
  PROVE  OperandsLeft(ks)'
<1> SUFFICES ASSUME NEW k \in ks PROVE Operand(k)' = Operand(k) /\ Places(wrapper)' = Places(wrapper)
  BY DEF OperandsLeft, Operand
<1>1. place[k] # r /\ place[k] \in Places(wrapper)
  BY DEF OperandsLeft
<1>2. CASE place[k] = "memory"
  BY <1>2 DEF Operand, Places
<1>3. CASE place[k] # "memory"
  <2>1. place[k] \in Registers
    BY <1>1, <1>3, PlacesOf DEF RegTypeOK
  <2>2. regs'[place[k]] = regs[place[k]]
    BY <1>1, <2>1 DEF RegTypeOK
  <2> QED BY <1>3, <2>2 DEF Operand, Places
<1> QED BY <1>2, <1>3

LEMMA RegBegins == RegInit => RegInv
  BY DEF RegInit, RegInv, RegTypeOK, Loaded, ArgumentsArrive

LEMMA RegStep == EbxSpared /\ RegInv /\ [RegNext]_regVars => RegInv'
<1> SUFFICES ASSUME EbxSpared, RegInv, [RegNext]_regVars PROVE RegInv'
  OBVIOUS
<1> USE DEF RegInv
<1>0. /\ ArgumentCount(wrapper) \in 0 .. 2
      /\ ArgumentCount(wrapper) = 2 <=> wrapper \in TwoArguments
      /\ {"eax", "ebx", "ecx"} \subseteq Registers
  BY CountOf DEF Registers
<1>1. ASSUME NEW w \in Wrappers, NEW p \in [1 .. ArgumentCount(w) -> Places(w)],
             Len(p) = 2 /\ p[1] = p[2] => p[1] = "memory", Call(w, p)
      PROVE  RegInv'
  BY <1>1, CallPlaces
<1>2. CASE LoadNumber
  <2>1. /\ regs' = [regs EXCEPT !["eax"] = <<"number", wrapper>>]
        /\ UNCHANGED <<memory, wrapper, place>>
        /\ step = "number"
        /\ step' = IF ArgumentCount(wrapper) = 0 THEN "trap" ELSE "first"
    BY <1>2 DEF LoadNumber
  <2>2. OperandsLeft(Arguments)
    BY <2>1 DEF Loaded
  <2>3. \A k \in Arguments : place[k] # "eax"
    BY <2>2, PlacesOf DEF OperandsLeft, RegTypeOK
  <2>4. OperandsLeft(Arguments)'
    <3>1. Arguments' = Arguments
      BY <2>1 DEF Arguments, ArgumentCount
    <3>2. \A k \in Arguments : place'[k] \in Places(wrapper)' /\ Operand(k)' = <<"argument", k>>
      BY <1>0, <2>1, <2>2, <2>3, LoadKeeps DEF OperandsLeft
    <3> QED BY <3>1, <3>2 DEF OperandsLeft
  <2>5. regs'["eax"] = <<"number", wrapper>>
    BY <1>0, <2>1 DEF RegTypeOK
  <2>6. RegTypeOK'
    BY <2>1 DEF RegTypeOK
  <2>7. ArgumentCount(wrapper)' = ArgumentCount(wrapper)
    BY <2>1 DEF ArgumentCount
  <2> QED BY <1>0, <2>1, <2>4, <2>5, <2>6, <2>7 DEF Loaded, ArgumentsArrive
<1>3. CASE LoadFirst
  <2>1. /\ regs' = [regs EXCEPT !["ebx"] = Operand(1)]
        /\ UNCHANGED <<memory, wrapper, place>>
        /\ step = "first"
        /\ step' = IF ArgumentCount(wrapper) = 1 THEN "trap" ELSE "second"
    BY <1>3 DEF LoadFirst
  <2>2. OperandsLeft(Arguments) /\ regs["eax"] = <<"number", wrapper>>
        /\ ArgumentCount(wrapper) \in 1 .. 2
    BY <1>0, <2>1 DEF Loaded
  <2>3. Operand(1) = <<"argument", 1>>
    BY <2>2 DEF OperandsLeft, Arguments
  <2>4. regs'["ebx"] = <<"argument", 1>> /\ regs'["eax"] = <<"number", wrapper>>
    BY <1>0, <2>1, <2>2, <2>3 DEF RegTypeOK
  <2>5. ASSUME ArgumentCount(wrapper) = 2 PROVE OperandsLeft({2})'
    <3>1. OperandsLeft({2})
      BY <2>2, <2>5 DEF OperandsLeft, Arguments
    <3>2. \A k \in {2} : place[k] # "ebx"
      BY <2>5, <3>1, PlacesOf DEF OperandsLeft, RegTypeOK
    <3> QED BY <1>0, <2>1, <3>1, <3>2, LoadKeeps
  <2>6. RegTypeOK'
    BY <2>1 DEF RegTypeOK
  <2>7. ArgumentCount(wrapper)' = ArgumentCount(wrapper)
    BY <2>1 DEF ArgumentCount
  <2> QED BY <1>0, <2>1, <2>2, <2>4, <2>5, <2>6, <2>7 DEF Loaded, ArgumentsArrive
<1>4. CASE LoadSecond
  <2>1. /\ regs' = [regs EXCEPT !["ecx"] = Operand(2)]
        /\ UNCHANGED <<memory, wrapper, place>>
        /\ step = "second" /\ step' = "trap"
    BY <1>4 DEF LoadSecond
  <2>2. /\ regs["eax"] = <<"number", wrapper>>
        /\ regs["ebx"] = <<"argument", 1>>
        /\ ArgumentCount(wrapper) = 2
        /\ Operand(2) = <<"argument", 2>>
    BY <2>1 DEF Loaded, OperandsLeft
  <2>3. /\ regs'["eax"] = <<"number", wrapper>>
        /\ regs'["ebx"] = <<"argument", 1>>
        /\ regs'["ecx"] = <<"argument", 2>>
    BY <1>0, <2>1, <2>2 DEF RegTypeOK
  <2>4. RegTypeOK'
    BY <2>1 DEF RegTypeOK
  <2> QED BY <2>1, <2>3, <2>4 DEF Loaded, ArgumentsArrive
<1>5. CASE Trap \/ Return
  <2>1. step' \in {"returned", "idle"} /\ wrapper' = wrapper
    BY <1>5 DEF Trap, Return
  <2>2. RegTypeOK'
    BY <1>5, <2>1 DEF Trap, Return, RegTypeOK
  <2> QED BY <2>1, <2>2 DEF Loaded, ArgumentsArrive
<1>6. CASE UNCHANGED regVars
  BY <1>6 DEF regVars, RegTypeOK, Loaded, ArgumentsArrive, OperandsLeft, Operand,
              Arguments, Places, ArgumentCount
<1> QED BY <1>1, <1>2, <1>3, <1>4, <1>5, <1>6 DEF RegNext

(* Whichever registers or stack slots the compiler chose, the registers    *)
(* hold the number and the arguments when the kernel is entered, for all   *)
(* thirteen wrappers, if it spares ebx where two arguments are passed.     *)
(* That hypothesis is about the build: msg_send (syscall.c:203) declares   *)
(* only eax.  The order of the three loads is what needs the invariant.    *)
THEOREM ArgumentsIn == EbxSpared => (RegSpec => []ArgumentsArrive)
<1> SUFFICES ASSUME EbxSpared PROVE RegSpec => []ArgumentsArrive
  OBVIOUS
<1>1. RegInv /\ [RegNext]_regVars => RegInv'
  BY RegStep
<1>2. RegInv => ArgumentsArrive
  BY DEF RegInv, Loaded
<1> QED BY RegBegins, <1>1, <1>2, PTL DEF RegSpec


\* What the wrapper does not declare is as its caller left it.
UndeclaredKept ==
  step # "idle" /\ wrapper \notin TwoArguments =>
    \A r \in Registers \ Clobbers(wrapper) : regs[r] = before[r]

(* The assembly of the wrappers with at most one argument changes no       *)
(* register it does not declare (syscall.c:109 and the like), on any path  *)
(* through the kernel.  For the three with two arguments this is false:    *)
(* they declare eax only and change ebx and ecx as well.                   *)
THEOREM DeclaredOnly ==
  RegSpec => [](wrapper \notin TwoArguments => OnlyDeclaredChange)
<1> DEFINE Inv == /\ regs = [r \in Registers |-> regs[r]]
                  /\ step = "first" => ArgumentCount(wrapper) >= 1
                  /\ step = "second" => wrapper \in TwoArguments
                  /\ UndeclaredKept
<1>1. RegInit => Inv
  BY DEF RegInit, UndeclaredKept
<1>2. Inv /\ [RegNext]_regVars => Inv'
  <2> SUFFICES ASSUME Inv, [RegNext]_regVars PROVE Inv'
    OBVIOUS
  <2>1. ASSUME NEW w \in Wrappers, NEW p, Call(w, p) PROVE Inv'
    BY <2>1 DEF Call, UndeclaredKept
  <2>2. CASE LoadNumber
    <3>1. "eax" \in Clobbers(wrapper)
      BY DEF Clobbers
    <3>2. ArgumentCount(wrapper) # 0 => ArgumentCount(wrapper) >= 1
      BY CountOf
    <3> QED BY <2>2, <3>1, <3>2 DEF LoadNumber, UndeclaredKept, Clobbers, ArgumentCount
  <2>3. CASE LoadFirst
    <3>1. wrapper \notin TwoArguments => "ebx" \in Clobbers(wrapper)
      BY <2>3 DEF LoadFirst, Clobbers, ArgumentCount
    <3>2. ArgumentCount(wrapper) # 1 => wrapper \in TwoArguments
      BY <2>3, CountOf DEF LoadFirst
    <3> QED BY <2>3, <3>1, <3>2 DEF LoadFirst, UndeclaredKept, Clobbers
  <2>4. CASE LoadSecond
    BY <2>4 DEF LoadSecond, UndeclaredKept
  <2>5. CASE Trap
    <3>1. "eax" \in Clobbers(wrapper)
      BY DEF Clobbers
    <3> QED BY <2>5, <3>1 DEF Trap, UndeclaredKept, Clobbers
  <2>6. CASE Return
    BY <2>6 DEF Return, UndeclaredKept
  <2>7. CASE UNCHANGED regVars
    BY <2>7 DEF regVars, UndeclaredKept, Clobbers, ArgumentCount
  <2> QED BY <2>1, <2>2, <2>3, <2>4, <2>5, <2>6, <2>7 DEF RegNext
<1>3. Inv => (wrapper \notin TwoArguments => OnlyDeclaredChange)
  BY DEF UndeclaredKept, OnlyDeclaredChange
<1> QED BY <1>1, <1>2, <1>3, PTL DEF RegSpec

-----------------------------------------------------------------------------
(* Text output.                                                            *)

VgaTypeOK ==
  /\ row \in Rows /\ col \in Cols
  /\ style \in Styles
  /\ screen = [p \in Rows \X Cols |-> screen[p]]
  /\ shown = [p \in Rows \X Cols |-> shown[p]]

CellReads(p) ==
  shown[p] # NotShown =>
    LET attr == screen[p] \div 256
    IN  shown[p] = << <<(attr \div 16) % 8, attr % 16, attr >= 128>>, screen[p] % 256 >>

LEMMA PrintKeeps ==
  ASSUME VgaTypeOK, CellsReadBack, NEW r \in Rows, NEW c \in Cols, NEW s \in Styles,
         NEW ch \in 0 .. 127, vga_print_char(r, c, s, ch)
  PROVE  CellsReadBack'
<1> DEFINE attr == AttrOf(s)
<1>1. /\ screen' = [screen EXCEPT ![<<r, c>>] = Cell(attr, ch)]
      /\ shown' = [shown EXCEPT ![<<r, c>>] = <<s, ch % 256>>]
  BY DEF vga_print_char
<1>2. s \in (0 .. 7) \X (0 .. 15) \X BOOLEAN
  BY VgaAssumption
\* The fields of an attribute do not overlap.
<1> DEFINE bg == s[1]
           fg == s[2]
           high == IF s[3] THEN 128 ELSE 0
<1>3. /\ attr \in 0 .. 255
      /\ (attr \div 16) % 8 = bg
      /\ attr % 16 = fg
      /\ attr >= 128 <=> high = 128
  <2>1. attr = (bg % 8) * 16 + (fg % 16) + high
    BY DEF AttrOf, vga_attr
  <2>2. bg \in 0 .. 7 /\ fg \in 0 .. 15 /\ high \in {0, 128}
    BY <1>2
  <2> HIDE DEF attr, bg, fg, high
  <2>3. attr = bg * 16 + fg + high
    BY <2>1, <2>2
  <2>4. attr \in 0 .. 255 /\ attr % 16 = fg /\ (attr >= 128 <=> high = 128)
    BY <2>2, <2>3
  <2>5. (attr \div 16) % 8 = bg
    <3>1. CASE high = 128
      <4>1. attr \div 16 = bg + 8
        BY <2>2, <2>3, <3>1
      <4> QED BY <2>2, <4>1
    <3>2. CASE high = 0
      <4>1. attr \div 16 = bg
        BY <2>2, <2>3, <3>2
      <4> QED BY <2>2, <4>1
    <3> QED BY <2>2, <3>1, <3>2
  <2> QED BY <2>4, <2>5
<1> HIDE DEF attr
<1>4. Cell(attr, ch) \div 256 = attr /\ Cell(attr, ch) % 256 = ch /\ ch % 256 = ch
  <2>1. attr \in 0 .. 255
    BY <1>3
  <2>2. Cell(attr, ch) = attr * 256 + ch
    BY <2>1 DEF Cell
  <2> QED BY <2>1, <2>2
<1>5. ASSUME NEW p \in Rows \X Cols PROVE CellReads(p)'
  <2>1. CASE p = <<r, c>>
    <3>1. screen'[p] = Cell(attr, ch) /\ shown'[p] = <<s, ch>>
      BY <1>1, <1>4, <2>1 DEF VgaTypeOK
    <3>2. screen'[p] \div 256 = attr /\ screen'[p] % 256 = ch
      BY <1>4, <3>1
    <3>3. s = <<(attr \div 16) % 8, attr % 16, attr >= 128>>
      <4>1. s = <<s[1], s[2], s[3]>> /\ s[3] \in BOOLEAN
        BY <1>2
      <4>2. (attr >= 128) = s[3]
        BY <1>3, <4>1
      <4> QED BY <1>3, <4>1, <4>2
    <3> QED BY <3>1, <3>2, <3>3 DEF CellReads
  <2>2. CASE p # <<r, c>>
    <3>1. screen'[p] = screen[p] /\ shown'[p] = shown[p]
      BY <1>1, <2>2 DEF VgaTypeOK
    <3> QED BY <3>1 DEF CellsReadBack, CellReads
  <2> QED BY <2>1, <2>2
<1> QED BY <1>5 DEF CellsReadBack, CellReads

\* One column beyond the last is the first cell of the next row, and the
\* first cell of the screen comes after the last.
LEMMA WrappedMoves ==
  ASSUME NEW r \in Rows, NEW c \in Cols, NEW d \in 0 .. VGA_COL_MAX, NEW r2 \in Nat, NEW c2 \in Nat,
         \/ r2 = r /\ c2 < VGA_COL_MAX /\ c2 = c + d
         \/ r2 = r /\ c2 >= VGA_COL_MAX /\ d = VGA_COL_MAX - c
         \/ r2 = r + 1 /\ c2 = 0 /\ d = VGA_COL_MAX - c
  PROVE  LET to == Wrapped(r2, c2)
             moved == Offset(to[1], to[2]) - Offset(r, c)
         IN  /\ to[1] \in Rows /\ to[2] \in Cols
             /\ moved = d \/ moved = d - VGA_ROW_MAX * VGA_COL_MAX
<1> DEFINE to == Wrapped(r2, c2)
<1>0. VGA_ROW_MAX \in Nat \ {0} /\ VGA_COL_MAX \in Nat \ {0}
  BY VgaAssumption
<1>1. CASE r2 = r /\ c2 < VGA_COL_MAX /\ c2 = c + d
  <2>1. to[1] = r /\ to[2] = c + d
    BY <1>0, <1>1 DEF Wrapped, Rows
  <2>2. Offset(r, c + d) - Offset(r, c) = d
    BY <1>0 DEF Offset, Rows, Cols
  <2> QED BY <1>0, <1>1, <2>1, <2>2 DEF Rows, Cols
<1>2. CASE ~(r2 = r /\ c2 < VGA_COL_MAX)
  <2>1. d = VGA_COL_MAX - c
    BY <1>0, <1>2
  <2>2. to = <<IF r + 1 >= VGA_ROW_MAX THEN 0 ELSE r + 1, 0>>
    BY <1>0, <1>2 DEF Wrapped, Rows
  <2>3. CASE r + 1 >= VGA_ROW_MAX
    <3>1. to[1] = 0 /\ to[2] = 0 /\ r + 1 = VGA_ROW_MAX
      BY <1>0, <2>2, <2>3 DEF Rows
    <3>2. Offset(0, 0) = 0
      BY <1>0 DEF Offset
    <3>3. VGA_ROW_MAX * VGA_COL_MAX = r * VGA_COL_MAX + VGA_COL_MAX
      BY <1>0, <3>1 DEF Rows
    <3>4. 0 - Offset(r, c) = d - VGA_ROW_MAX * VGA_COL_MAX
      BY <1>0, <2>1, <3>3 DEF Offset, Rows, Cols
    <3> QED BY <1>0, <3>1, <3>2, <3>4 DEF Rows, Cols
  <2>4. CASE r + 1 < VGA_ROW_MAX
    <3>1. to[1] = r + 1 /\ to[2] = 0
      BY <1>0, <2>2, <2>4 DEF Rows
    <3>2. (r + 1) * VGA_COL_MAX = r * VGA_COL_MAX + VGA_COL_MAX
      BY <1>0 DEF Rows
    <3>3. Offset(r + 1, 0) - Offset(r, c) = d
      BY <1>0, <2>1, <3>2 DEF Offset, Rows, Cols
    <3> QED BY <1>0, <2>4, <3>1, <3>3 DEF Rows, Cols
  <2> QED BY <1>0, <2>3, <2>4 DEF Rows
<1> QED BY <1>0, <1>1, <1>2 DEF Rows

\* A tab leads to the next tab stop, which is to the right.
LEMMA TabAdvances ==
  ASSUME NEW c \in Nat
  PROVE  /\ (c \div VGA_TAB_SIZE + 1) * VGA_TAB_SIZE \in Nat
         /\ (c \div VGA_TAB_SIZE + 1) * VGA_TAB_SIZE > c
<1> DEFINE q == c \div VGA_TAB_SIZE
<1>1. VGA_TAB_SIZE \in Nat \ {0}
  BY VgaAssumption
<1>2. q \in Nat /\ c < q * VGA_TAB_SIZE + VGA_TAB_SIZE
  BY <1>1
<1> HIDE DEF q
<1>3. (q + 1) * VGA_TAB_SIZE = q * VGA_TAB_SIZE + VGA_TAB_SIZE
  BY <1>1, <1>2
<1>4. (q + 1) * VGA_TAB_SIZE \in Nat
  BY <1>1, <1>2
<1> QED BY <1>2, <1>3, <1>4 DEF q

\* Where a character leads, by how many cells that is, and that it stays
\* on the screen.
LEMMA CharMoves ==
  ASSUME VgaTypeOK, NEW ch \in StringChars, StringChar(ch)
  PROVE  /\ row' \in Rows /\ col' \in Cols
         /\ \E d \in 0 .. VGA_COL_MAX :
              /\ Printable(ch) => d = 1
              /\ \/ Offset(row', col') - Offset(row, col) = d
                 \/ Offset(row', col') - Offset(row, col) = d - VGA_ROW_MAX * VGA_COL_MAX
<1>0. VGA_ROW_MAX \in Nat \ {0} /\ VGA_COL_MAX \in Nat \ {0} /\ ch \in Int
  BY VgaAssumption
<1>1. row \in Rows /\ col \in Cols /\ row \in Nat /\ col \in Nat /\ col < VGA_COL_MAX
  BY <1>0 DEF VgaTypeOK, Rows, Cols
<1>2. row' = Wrapped(NextRow(ch), NextCol(ch))[1] /\ col' = Wrapped(NextRow(ch), NextCol(ch))[2]
  BY DEF StringChar
<1>3. SUFFICES \E d \in 0 .. VGA_COL_MAX :
        /\ Printable(ch) => d = 1
        /\ NextRow(ch) \in Nat /\ NextCol(ch) \in Nat
        /\ \/ NextRow(ch) = row /\ NextCol(ch) < VGA_COL_MAX /\ NextCol(ch) = col + d
           \/ NextRow(ch) = row /\ NextCol(ch) >= VGA_COL_MAX /\ d = VGA_COL_MAX - col
           \/ NextRow(ch) = row + 1 /\ NextCol(ch) = 0 /\ d = VGA_COL_MAX - col
  BY <1>1, <1>2, WrappedMoves
<1>4. CASE ch = 10
  <2>1. NextRow(ch) = row + 1 /\ NextCol(ch) = 0 /\ ~Printable(ch)
    BY <1>4 DEF NextRow, NextCol, Printable
  <2>2. VGA_COL_MAX - col \in 0 .. VGA_COL_MAX
    BY <1>0, <1>1
  <2> QED BY <1>1, <2>1, <2>2
<1>5. CASE ch = 9
  <2> DEFINE to == (col \div VGA_TAB_SIZE + 1) * VGA_TAB_SIZE
  <2>1. NextRow(ch) = row /\ NextCol(ch) = to /\ ~Printable(ch)
    BY <1>5 DEF NextRow, NextCol, Printable
  <2>2. to \in Nat /\ to > col
    BY <1>1, TabAdvances
  <2> HIDE DEF to
  <2>3. CASE to < VGA_COL_MAX
    <3>1. to - col \in 0 .. VGA_COL_MAX /\ to = col + (to - col)
      BY <1>0, <1>1, <2>2, <2>3
    <3> QED BY <1>1, <2>1, <2>2, <2>3, <3>1
  <2>4. CASE to >= VGA_COL_MAX
    <3>1. VGA_COL_MAX - col \in 0 .. VGA_COL_MAX
      BY <1>0, <1>1
    <3> QED BY <1>1, <2>1, <2>2, <2>4, <3>1
  <2> QED BY <1>0, <2>2, <2>3, <2>4
<1>6. CASE ch \notin {9, 10} /\ Printable(ch)
  <2>1. NextRow(ch) = row /\ NextCol(ch) = col + 1
    BY <1>6 DEF NextRow, NextCol
  <2>2. 1 \in 0 .. VGA_COL_MAX /\ col + 1 \in Nat
    BY <1>0, <1>1
  <2>3. col + 1 < VGA_COL_MAX \/ (col + 1 >= VGA_COL_MAX /\ 1 = VGA_COL_MAX - col)
    BY <1>0, <1>1
  <2> QED BY <1>1, <2>1, <2>2, <2>3
<1>7. CASE ch \notin {9, 10} /\ ~Printable(ch)
  <2>1. NextRow(ch) = row /\ NextCol(ch) = col
    BY <1>7 DEF NextRow, NextCol
  <2>2. 0 \in 0 .. VGA_COL_MAX /\ col = col + 0
    BY <1>0, <1>1
  <2> QED BY <1>1, <1>7, <2>1, <2>2
<1> QED BY <1>4, <1>5, <1>6, <1>7


LEMMA VgaBegins == VgaInit => VgaTypeOK /\ CellsReadBack
<1> SUFFICES ASSUME VgaInit PROVE VgaTypeOK /\ CellsReadBack
  OBVIOUS
<1>1. 0 \in Rows /\ 0 \in Cols
  BY VgaAssumption DEF Rows, Cols
<1> QED BY <1>1 DEF VgaInit, VgaTypeOK, CellsReadBack

LEMMA PrintTypes ==
  ASSUME VgaTypeOK, NEW r, NEW c, NEW s, NEW ch, vga_print_char(r, c, s, ch)
  PROVE  /\ screen' = [p \in Rows \X Cols |-> screen'[p]]
         /\ shown' = [p \in Rows \X Cols |-> shown'[p]]
  BY DEF VgaTypeOK, vga_print_char

LEMMA VgaTypeStep == VgaTypeOK /\ [VgaNext]_vgaVars => VgaTypeOK'
<1> SUFFICES ASSUME VgaTypeOK, [VgaNext]_vgaVars PROVE VgaTypeOK'
  OBVIOUS
<1>1. ASSUME NEW r \in Rows, NEW c \in Cols, NEW s \in Styles, StringStarts(r, c, s)
      PROVE  VgaTypeOK'
  BY <1>1 DEF StringStarts, VgaTypeOK
<1>2. ASSUME NEW ch \in StringChars, StringChar(ch) PROVE VgaTypeOK'
  <2>1. row' \in Rows /\ col' \in Cols
    BY <1>2, CharMoves
  <2>2. /\ screen' = [p \in Rows \X Cols |-> screen'[p]]
        /\ shown' = [p \in Rows \X Cols |-> shown'[p]]
    <3>1. CASE Printable(ch)
      BY <1>2, <3>1, PrintTypes DEF StringChar
    <3>2. CASE ~Printable(ch)
      BY <1>2, <3>2 DEF StringChar, VgaTypeOK
    <3> QED BY <3>1, <3>2
  <2> QED BY <1>2, <2>1, <2>2 DEF StringChar, VgaTypeOK
<1>3. CASE StringEnds
  BY <1>3 DEF StringEnds, VgaTypeOK
<1>4. ASSUME NEW r \in Rows, NEW c \in Cols, NEW s \in Styles, NEW n \in SingleChars,
             SingleChar(r, c, s, n)
      PROVE  VgaTypeOK'
  <2>1. /\ screen' = [p \in Rows \X Cols |-> screen'[p]]
        /\ shown' = [p \in Rows \X Cols |-> shown'[p]]
    BY <1>4, PrintTypes DEF SingleChar
  <2> QED BY <1>4, <2>1 DEF SingleChar, VgaTypeOK
<1>5. CASE UNCHANGED vgaVars
  BY <1>5 DEF vgaVars, VgaTypeOK
<1> QED BY <1>1, <1>2, <1>3, <1>4, <1>5 DEF VgaNext

\* No single character is above 127.  The border that kernel_stats draws
\* (kernel.c:255) is, and does spill into the attribute byte.
PlainSingles == SingleChars \subseteq 0 .. 127

LEMMA CellsStep ==
  PlainSingles /\ VgaTypeOK /\ CellsReadBack /\ [VgaNext]_vgaVars => CellsReadBack'
<1> SUFFICES ASSUME PlainSingles, VgaTypeOK, CellsReadBack, [VgaNext]_vgaVars
             PROVE  CellsReadBack'
  OBVIOUS
<1>1. ASSUME NEW ch \in StringChars, StringChar(ch) PROVE CellsReadBack'
  <2>1. CASE Printable(ch)
    <3>1. ch \in 0 .. 127
      BY <2>1, VgaAssumption DEF Printable
    <3>2. row \in Rows /\ col \in Cols /\ style \in Styles /\ vga_print_char(row, col, style, ch)
      BY <1>1, <2>1 DEF VgaTypeOK, StringChar
    <3>3. \A r \in Rows, c \in Cols, s \in Styles : vga_print_char(r, c, s, ch) => CellsReadBack'
      BY <3>1, PrintKeeps
    <3> QED BY <3>2, <3>3
  <2>2. CASE ~Printable(ch)
    BY <1>1, <2>2 DEF StringChar, CellsReadBack
  <2> QED BY <2>1, <2>2
<1>2. ASSUME NEW r \in Rows, NEW c \in Cols, NEW s \in Styles, NEW n \in SingleChars,
             SingleChar(r, c, s, n)
      PROVE  CellsReadBack'
  <2>1. n \in 0 .. 127 /\ AsChar(n) = n
    BY DEF PlainSingles, AsChar
  <2> QED BY <1>2, <2>1, PrintKeeps DEF SingleChar
<1>3. ASSUME UNCHANGED <<screen, shown>> PROVE CellsReadBack'
  BY <1>3 DEF CellsReadBack
<1> QED BY <1>1, <1>2, <1>3 DEF VgaNext, StringStarts, StringEnds, vgaVars

(* Every cell of the screen reads back as the style and the character last *)
(* printed there, for every screen size and every mixture of strings and   *)
(* single characters, if no single character is above 127                  *)
(* (vga_print_char, vga.c:26).                                             *)
THEOREM CellsTrue == PlainSingles => (VgaSpec => []CellsReadBack)
<1> SUFFICES ASSUME PlainSingles PROVE VgaSpec => []CellsReadBack
  OBVIOUS
<1>1. VgaTypeOK /\ CellsReadBack /\ [VgaNext]_vgaVars => CellsReadBack'
  BY CellsStep
<1> QED BY VgaBegins, VgaTypeStep, <1>1, PTL DEF VgaSpec

(* Strings stay on a screen of any size, with any tab stops: a printed     *)
(* character moves the position of vga_print_str (vga.c:30) by one cell,   *)
(* from the last cell to the first, and a tab or line end by at most a     *)
(* row.                                                                    *)
THEOREM StringsAdvance == VgaSpec => PositionAdvances
<1> DEFINE cells == VGA_ROW_MAX * VGA_COL_MAX
           moved == (Offset(row', col') - Offset(row, col)) % cells
<1>0. /\ cells \in Nat \ {0}
      /\ VGA_ROW_MAX \in Nat \ {0} /\ VGA_COL_MAX \in Nat \ {0}
  BY VgaAssumption
<1>1. ASSUME VgaTypeOK, VgaNext, printing, printing'
      PROVE  /\ row' \in Rows /\ col' \in Cols
             /\ IF shown' # shown \/ screen' # screen
                THEN moved = 1 % cells ELSE moved <= VGA_COL_MAX
  <2>1. PICK ch \in StringChars : StringChar(ch)
    BY <1>1 DEF VgaNext, StringStarts, StringEnds, SingleChar
  <2>2. PICK d \in 0 .. VGA_COL_MAX :
          /\ Printable(ch) => d = 1
          /\ \/ Offset(row', col') - Offset(row, col) = d
             \/ Offset(row', col') - Offset(row, col) = d - cells
    BY <1>1, <2>1, CharMoves
  <2>3. row' \in Rows /\ col' \in Cols
    BY <1>1, <2>1, CharMoves
  <2>4. d \in Nat /\ d <= VGA_COL_MAX
    BY <1>0
  <2> HIDE DEF cells
  <2>5. (d - cells) % cells = d % cells
    <3>1. cells \in Nat \ {0} /\ d \in Int
      BY <1>0, <2>4
    <3> QED BY <3>1, ModShift, Zenon
  <2>6. moved = d % cells
    BY <2>2, <2>5
  <2>7. d % cells \in Nat /\ d % cells <= d
    BY <1>0, <2>4, ModBelow
  <2>8. moved <= VGA_COL_MAX
    BY <1>0, <2>4, <2>6, <2>7
  <2>9. shown' # shown \/ screen' # screen => Printable(ch)
    BY <2>1 DEF StringChar
  <2> QED BY <2>2, <2>3, <2>6, <2>8, <2>9
<1>2. VgaTypeOK /\ [VgaNext]_vgaVars =>
        [printing /\ printing' =>
           /\ row' \in Rows /\ col' \in Cols
           /\ LET m == (Offset(row', col') - Offset(row, col)) % (VGA_ROW_MAX * VGA_COL_MAX)
              IN  IF shown' # shown \/ screen' # screen
                  THEN m = 1 % (VGA_ROW_MAX * VGA_COL_MAX)
                  ELSE m <= VGA_COL_MAX]_vgaVars
  BY <1>1 DEF vgaVars
<1>3. VgaInit => VgaTypeOK
  BY VgaBegins
<1> QED BY <1>2, <1>3, VgaTypeStep, PTL DEF VgaSpec, PositionAdvances

-----------------------------------------------------------------------------
(* The integer queues: the circular buffer of queue.c implements the       *)
(* bounded FIFO of queue.h, for every QUEUE_SIZE and every set of items.   *)

USE QueueAssumption

(* The inductive invariant: the types, and tail as a function of head and  *)
(* size.  Without the second part a step of queue_in could write anywhere. *)
IInv == TypeOK /\ RingConsistent

-----------------------------------------------------------------------------

(* CellAt maps the offsets below QUEUE_SIZE one to one into the array, and   *)
(* Step moves a cell one place on: the wrap test of queue.c is sound.      *)
LEMMA CellFacts ==
  ASSUME TypeOK
  PROVE  /\ \A k \in 0 .. QUEUE_SIZE : CellAt(k) \in Index
         /\ \A j, k \in Index : CellAt(j) = CellAt(k) => j = k
         /\ CellAt(0) = head
         /\ CellAt(QUEUE_SIZE) = head
         /\ \A k \in Index : CellAt(k + 1) = Step(CellAt(k))
  BY DEF TypeOK, CellAt, Step, Index

(* The abstract contents form a sequence of items as long as size.         *)
LEMMA ContentsFacts ==
  ASSUME TypeOK
  PROVE  /\ Contents \in Seq(Items \cup {0})
         /\ Len(Contents) = size
         /\ \A k \in 1 .. size : Contents[k] = items[CellAt(k - 1)]
<1>1. size \in Nat
  BY DEF TypeOK
<1>2. \A k \in 1 .. size : items[CellAt(k - 1)] \in Items \cup {0}
  BY CellFacts DEF TypeOK
<1>3. Contents \in [1 .. size -> Items \cup {0}]
  BY <1>2 DEF Contents
<1>4. QED
  BY <1>1, <1>3 DEF Contents

LEMMA InitInv == Init => IInv
  BY DEF Init, IInv, TypeOK, RingConsistent, CellAt, Index

(* Every call keeps the array well typed and its three indices in step.    *)
LEMMA NextInv == IInv /\ [Next]_vars => IInv'
<1> SUFFICES ASSUME IInv, [Next]_vars
             PROVE  IInv'
  OBVIOUS
<1> USE DEF IInv
<1>1. CASE queue_init
  BY <1>1 DEF queue_init, TypeOK, RingConsistent, CellAt, Index
<1>2. ASSUME NEW x \in Items, queue_in(x), size # QUEUE_SIZE
      PROVE  IInv'
  <2>1. TypeOK'
    BY <1>2 DEF queue_in, TypeOK, Step, Index
  <2>2. \A k : CellAt(k)' = CellAt(k)
    BY <1>2 DEF queue_in, CellAt
  <2>3. (tail = CellAt(size))'
    BY <1>2, <2>2, CellFacts DEF queue_in, TypeOK, RingConsistent, Index
  <2>4. ASSUME NEW i \in Index, \A k \in 0 .. size' - 1 : CellAt(k)' # i
        PROVE  items'[i] = 0
    <3>1. size \in 0 .. size' - 1
      BY <1>2 DEF queue_in, TypeOK
    <3>2. i # tail
      BY <2>2, <2>4, <3>1 DEF RingConsistent
    <3>3. \A k \in 0 .. size - 1 : CellAt(k) # i
      BY <1>2, <2>2, <2>4 DEF queue_in, TypeOK
    <3>4. QED
      BY <1>2, <3>2, <3>3 DEF queue_in, TypeOK, RingConsistent
  <2>5. QED
    BY <2>1, <2>3, <2>4 DEF RingConsistent
<1>3. ASSUME NEW x \in Items, queue_in(x), size = QUEUE_SIZE
      PROVE  IInv'
  BY <1>3 DEF queue_in, TypeOK, RingConsistent, CellAt
<1>4. CASE queue_out /\ size # 0
  <2>1. TypeOK'
    BY <1>4 DEF queue_out, TypeOK, Step, Index
  <2>2. \A k \in 0 .. size - 1 : CellAt(k)' = CellAt(k + 1)
    BY <1>4 DEF queue_out, CellAt, TypeOK, Step, Index
  <2>3. (tail = CellAt(size))'
    BY <1>4, <2>2 DEF queue_out, TypeOK, RingConsistent
  <2>4. ASSUME NEW i \in Index, \A k \in 0 .. size' - 1 : CellAt(k)' # i
        PROVE  items'[i] = 0
    <3>1. CASE i = head
      BY <1>4, <3>1 DEF queue_out, TypeOK
    <3>2. CASE i # head
      <4>1. \A k \in 0 .. size - 1 : CellAt(k) # i
        <5> SUFFICES ASSUME NEW k \in 0 .. size - 1 PROVE CellAt(k) # i
          OBVIOUS
        <5>1. CASE k = 0
          BY <3>2, <5>1, CellFacts
        <5>2. CASE k # 0
          <6>1. k - 1 \in 0 .. size' - 1
            BY <1>4, <5>2 DEF queue_out, TypeOK
          <6>2. CellAt(k - 1)' = CellAt(k)
            BY <2>2, <6>1, <1>4, <5>2 DEF queue_out, TypeOK
          <6>3. QED
            BY <2>4, <6>1, <6>2
        <5>3. QED
          BY <5>1, <5>2
      <4>2. QED
        BY <1>4, <3>2, <4>1 DEF queue_out, TypeOK, RingConsistent
    <3>3. QED
      BY <3>1, <3>2
  <2>5. QED
    BY <2>1, <2>3, <2>4 DEF RingConsistent
<1>5. CASE queue_out /\ size = 0
  BY <1>5 DEF queue_out, TypeOK, RingConsistent, CellAt
<1>6. CASE UNCHANGED vars
  BY <1>6 DEF vars, TypeOK, RingConsistent, CellAt
<1>7. QED
  BY <1>1, <1>2, <1>3, <1>4, <1>5, <1>6 DEF Next

(* At every moment of every run of the kernel a queue's array, head, tail  *)
(* and size agree with each other (queue.c).                               *)
THEOREM QueueInvariant == Spec => [](TypeOK /\ RingConsistent)
<1>1. Spec => []IInv
  BY InitInv, NextInv, PTL DEF Spec
<1>2. QED
  BY <1>1, PTL DEF IInv

-----------------------------------------------------------------------------

(* An accepted queue_in appends to the abstract contents.                  *)
LEMMA PutSimulation ==
  ASSUME IInv, IInv', NEW x \in Items, queue_in(x), size # QUEUE_SIZE
  PROVE  Promise!Put(x)
<1> USE DEF IInv
<1>1. size' = size + 1 /\ size < QUEUE_SIZE /\ size \in Nat
  BY DEF queue_in, TypeOK
<1>2. \A k \in 1 .. size : Contents'[k] = Contents[k]
  <2> SUFFICES ASSUME NEW k \in 1 .. size PROVE Contents'[k] = Contents[k]
    OBVIOUS
  <2>1. CellAt(k - 1) # tail
    BY <1>1, CellFacts DEF RingConsistent, Index
  <2>2. CellAt(k - 1)' = CellAt(k - 1) /\ CellAt(k - 1) \in Index
    BY <1>1, CellFacts DEF queue_in, CellAt
  <2>3. QED
    BY <1>1, <2>1, <2>2 DEF Contents, queue_in, TypeOK
<1>3. Contents'[size + 1] = x
  <2>1. \A k \in Int : CellAt(k)' = CellAt(k)
    BY DEF queue_in, CellAt
  <2>2. items'[tail] = x
    BY DEF queue_in, TypeOK
  <2>3. Contents'[size + 1] = items'[tail]
    BY <1>1, <2>1 DEF Contents, RingConsistent
  <2>4. QED
    BY <2>2, <2>3
<1>4. Contents' = Append(Contents, x)
  <2> DEFINE T == Items \cup {0}
             a == Append(Contents, x)
  <2>1. Contents \in Seq(T) /\ Len(Contents) = size
    BY ContentsFacts
  <2>2. Contents' \in Seq(T) /\ Len(Contents') = size + 1
    <3>1. (Contents \in Seq(T) /\ Len(Contents) = size)'
      BY ContentsFacts, PTL
    <3>2. QED
      BY <1>1, <3>1
  <2>3. a \in Seq(T) /\ Len(a) = size + 1 /\ a[size + 1] = x
        /\ \A k \in 1 .. size : a[k] = Contents[k]
    BY <2>1, AppendProperties
  <2>4. \A k \in 1 .. size + 1 : Contents'[k] = a[k]
    BY <1>1, <1>2, <1>3, <2>3
  <2> HIDE DEF a
  <2>5. Contents' = a
    BY <2>2, <2>3, <2>4, SeqEqual
  <2>6. QED
    BY <2>5 DEF a
<1>5. QED
  BY <1>1, <1>4, ContentsFacts DEF Promise!Put, queue_in

(* A successful queue_out returns the first abstract item and drops it.    *)
LEMMA GetSimulation ==
  ASSUME IInv, IInv', queue_out, size # 0
  PROVE  Promise!Get
<1> USE DEF IInv
<1> DEFINE T == Items \cup {0}
<1>1. size' = size - 1 /\ size > 0 /\ size \in Nat /\ size <= QUEUE_SIZE
  BY DEF queue_out, TypeOK
<1>2. Contents \in Seq(T) /\ Len(Contents) = size /\ Contents # <<>>
  BY <1>1, ContentsFacts
<1>3. Contents' \in Seq(T) /\ Len(Contents') = size - 1
  <2>1. (Contents \in Seq(T) /\ Len(Contents) = size)'
    BY ContentsFacts, PTL
  <2>2. QED
    BY <1>1, <2>1
<1>4. \A k \in 1 .. size - 1 : Contents'[k] = Contents[k + 1]
  <2> SUFFICES ASSUME NEW k \in 1 .. size - 1
               PROVE  Contents'[k] = Contents[k + 1]
    OBVIOUS
  <2>1. CellAt(k - 1)' = CellAt(k)
    <3>1. head' = Step(head) /\ head \in Index /\ k \in Nat
      BY <1>1 DEF queue_out, TypeOK
    <3>2. k < QUEUE_SIZE /\ k > 0
      BY <1>1
    <3>3. QED
      BY <3>1, <3>2 DEF CellAt, Step, Index
  <2>2. CellAt(k) \in Index /\ CellAt(k) # head
    BY <1>1, CellFacts DEF Index
  <2>3. items'[CellAt(k)] = items[CellAt(k)]
    BY <1>1, <2>2 DEF queue_out, TypeOK
  <2>4. Contents'[k] = items'[CellAt(k)]
    BY <1>1, <2>1 DEF Contents
  <2>5. QED
    BY <1>1, <2>3, <2>4 DEF Contents
<1>5. Contents' = Tail(Contents)
  BY <1>1, <1>2, <1>3, <1>4, HeadTailProperties, SeqEqual
<1>6. Head(Contents) = items[head]
  BY <1>1, <1>2, CellFacts DEF Contents
<1>7. QED
  BY <1>2, <1>5, <1>6 DEF Promise!Get, queue_out

(* The buffer of queue.c refines the FIFO of queue.h: the initial contents *)
(* are empty, and each call is the abstract call or changes nothing.       *)
THEOREM QueueImplementsFifo == Spec => ImplementsFifo
<1>1. Init => Promise!Init
  <2>1. ASSUME Init PROVE Contents = <<>>
    BY <2>1 DEF Init, Contents
  <2>2. QED
    BY <2>1 DEF Init, Promise!Init
<1>2. IInv /\ IInv' /\ [Next]_vars => [Promise!Next]_(Promise!vars)
  <2> SUFFICES ASSUME IInv, IInv', [Next]_vars
               PROVE  [Promise!Next]_(Promise!vars)
    OBVIOUS
  <2>1. CASE queue_init
    <3>1. Contents' = <<>>
      BY <2>1 DEF queue_init, Contents
    <3>2. QED
      BY <2>1, <3>1 DEF queue_init, Promise!Next, Promise!Clear
  <2>2. ASSUME NEW x \in Items, queue_in(x), size # QUEUE_SIZE
        PROVE  Promise!Next
    BY <2>2, PutSimulation DEF Promise!Next
  <2>3. ASSUME NEW x \in Items, queue_in(x), size = QUEUE_SIZE
        PROVE  Promise!Next
    <3>1. Contents' = Contents
      BY <2>3 DEF queue_in, Contents, CellAt
    <3>2. Len(Contents) = QUEUE_SIZE
      BY <2>3, ContentsFacts DEF IInv
    <3>3. Promise!Put(x)
      BY <2>3, <3>1, <3>2 DEF queue_in, Promise!Put
    <3>4. QED
      BY <3>3 DEF Promise!Next
  <2>4. CASE queue_out /\ size # 0
    BY <2>4, GetSimulation DEF Promise!Next
  <2>5. CASE queue_out /\ size = 0
    <3>1. Contents' = Contents
      BY <2>5 DEF queue_out, Contents, CellAt
    <3>2. Contents = <<>>
      BY <2>5 DEF queue_out, Contents
    <3>3. QED
      BY <2>5, <3>1, <3>2 DEF queue_out, Promise!Next, Promise!Get
  <2>6. CASE UNCHANGED vars
    BY <2>6 DEF vars, Promise!vars, Contents, CellAt
  <2>7. QED
    BY <2>1, <2>2, <2>3, <2>4, <2>5, <2>6 DEF Next
<1>3. QED
  BY <1>1, <1>2, InitInv, NextInv, PTL DEF Spec, ImplementsFifo, Promise!Spec

=============================================================================
