-------------------------------- MODULE Clock --------------------------------
(***************************************************************************)
(* The clock in machine words: system_time and wake_time are ints that     *)
(* kisr_timer increments and ksyscall_sleep adds to without a test.  The   *)
(* build lets them wrap (the language leaves the overflow undefined).      *)
(* Module KProc has the same calls on unbounded integers; this one says    *)
(* how far the two agree.                                                  *)
(*                                                                         *)
(* A definition <name>_<change> is a mutated form of <name> that some      *)
(* property refutes; the model does not use it.                            *)
(***************************************************************************)
EXTENDS Integers

CONSTANTS
  Procs,        \* processes that sleep
  INT_MAX,      \* the largest int: 2^31 - 1
  CLK_TCK,      \* ticks per second
  SleepSecs,    \* the arguments of sleep()
  LastTick,     \* bound on the ticks since boot
  WithinRange   \* whether sleeps are made only that end before the overflow

ASSUME ClockAssumption ==
  /\ INT_MAX \in Nat
  /\ CLK_TCK \in Nat \ {0}
  /\ SleepSecs \subseteq Nat
  /\ LastTick \in Nat
  /\ WithinRange \in BOOLEAN

\* The value of an int that should have been n.
Wrap(n) == ((n + INT_MAX + 1) % (2 * (INT_MAX + 1))) - INT_MAX - 1

VARIABLES
  system_time,   \* as the code counts
  wake_time,     \* wake_time[p]
  asleep,        \* asleep[p]: the state is SLEEPING
  inKernel,      \* whether scheduler_run is still to come
  elapsed,       \* ticks since boot; not a variable of the code
  due            \* due[p]: when the sleep should end; not in the code

clockVars == <<system_time, wake_time, asleep, inKernel, elapsed, due>>

-----------------------------------------------------------------------------

kisr_timer ==
  /\ ~inKernel
  /\ elapsed < LastTick
  /\ system_time' = Wrap(system_time + 1)
  /\ elapsed' = elapsed + 1
  /\ inKernel' = TRUE
  /\ UNCHANGED <<wake_time, asleep, due>>

ksyscall_sleep(p, secs) ==
  /\ ~inKernel
  /\ ~asleep[p]
  /\ WithinRange => elapsed + CLK_TCK * secs <= INT_MAX
  /\ asleep' = [asleep EXCEPT ![p] = TRUE]
  /\ wake_time' = [wake_time EXCEPT ![p] = Wrap(system_time + Wrap(CLK_TCK * secs))]
  /\ due' = [due EXCEPT ![p] = elapsed + CLK_TCK * secs]
  /\ inKernel' = TRUE
  /\ UNCHANGED <<system_time, elapsed>>

Over_Late(p) == asleep[p] /\ wake_time[p] < system_time
Over(p) == asleep[p] /\ wake_time[p] <= system_time

\* The wake-up loop of scheduler_run.
WakeSleepers ==
  /\ inKernel
  /\ asleep' = [p \in Procs |-> asleep[p] /\ ~Over(p)]
  /\ wake_time' = [p \in Procs |-> IF Over(p) THEN 0 ELSE wake_time[p]]
  /\ due' = [p \in Procs |-> IF Over(p) THEN 0 ELSE due[p]]
  /\ inKernel' = FALSE
  /\ UNCHANGED <<system_time, elapsed>>

\* C division truncates towards zero.
ksyscall_sys_get_time ==
  IF system_time >= 0 THEN system_time \div CLK_TCK ELSE -((-system_time) \div CLK_TCK)

-----------------------------------------------------------------------------

ClockInit ==
  /\ system_time = 0
  /\ elapsed = 0
  /\ wake_time = [p \in Procs |-> 0]
  /\ asleep = [p \in Procs |-> FALSE]
  /\ due = [p \in Procs |-> 0]
  /\ inKernel = FALSE

ClockNext ==
  \/ kisr_timer
  \/ \E p \in Procs, secs \in SleepSecs : ksyscall_sleep(p, secs)
  \/ WakeSleepers

ClockSpec == ClockInit /\ [][ClockNext]_clockVars

-----------------------------------------------------------------------------
(* Properties.                                                             *)

(* "number of seconds the process should sleep" (syscall.h:45): no sleep   *)
(* ends before its seconds are over, and one whose seconds are over has    *)
(* ended when scheduler_run is through.                                    *)
SleepExact ==
  [][inKernel /\ ~inKernel' =>
       \A p \in Procs : asleep[p] => (asleep'[p] <=> elapsed < due[p])]_clockVars

(* "current system time (in seconds)" (ksyscall.c:101).                    *)
TimeInSeconds == ksyscall_sys_get_time = elapsed \div CLK_TCK

=============================================================================
