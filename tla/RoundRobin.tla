------------------------------ MODULE RoundRobin ----------------------------
(***************************************************************************)
(* What the scheduler promises, without process ids, clock and panics: a   *)
(* first-in, first-out queue of ready table entries, time slices, and      *)
(* sleeps that end.  Module KProc, and with it KMutex and KMbox, is shown  *)
(* to implement this specification (SchedulesRoundRobin).  Its state is    *)
(* finite, so the progress that follows from the fairness of the hardware  *)
(* is checked here.                                                        *)
(*                                                                         *)
(*   "user"     a process executes; a tick or a call comes next            *)
(*   "kernel"   the kernel has been entered: keys may still start or exit  *)
(*              processes, then scheduler_run chooses who executes         *)
(*   "halted"   a panic, or the key 'q'                                    *)
(*                                                                         *)
(* A definition <name>_<change> is a mutated form of <name> that some      *)
(* property refutes; the model does not use it.                            *)
(***************************************************************************)
EXTENDS Integers, Sequences, FiniteSets, Functions

CONSTANTS
  Tasks,        \* the entries of the process table
  Idle,         \* the entry of the idle task
  InitTask,     \* the entry of the init task
  SLICE,        \* PROC_TIMESLICE
  SleepTicks,   \* how long the sleeps of the programs last
  NULL          \* no running process

ASSUME RoundRobinAssumption ==
  /\ IsFiniteSet(Tasks)
  /\ {Idle, InitTask} \subseteq Tasks /\ Idle # InitTask
  /\ SLICE \in Nat \ {0}
  /\ SleepTicks \subseteq Nat
  /\ NULL \notin Tasks

VARIABLES
  status,     \* status[t]: the state of the process in entry t
  queue,      \* the entries ready to run
  running,    \* the entry of the current process, or NULL
  used,       \* used[t]: ticks since t was last made ready
  sleeping,   \* sleeping[t]: ticks until a sleeper may wake
  phase       \* who executes

rrVars == <<status, queue, running, used, sleeping, phase>>

-----------------------------------------------------------------------------
(* Interrupts: a tick, or a call of the running process.                   *)

Tick ==
  /\ phase = "user"
  /\ used' = [used EXCEPT ![running] = @ + 1]
  /\ sleeping' = [t \in Tasks |-> IF sleeping[t] > 0 THEN sleeping[t] - 1 ELSE 0]
  /\ phase' = "kernel"
  /\ UNCHANGED <<status, queue, running>>

Call ==
  /\ phase = "user"
  /\ running # Idle
  /\ phase' = "kernel"

Query ==
  /\ Call
  /\ UNCHANGED <<status, queue, running, used, sleeping>>

\* Entry t becomes ready, behind all that are.
MakeReady(t) ==
  /\ status' = [status EXCEPT ![t] = "RUNNING"]
  /\ queue' = Append(queue, t)

Yield ==
  /\ Call
  /\ MakeReady(running)
  /\ used' = [used EXCEPT ![running] = 0]
  /\ running' = NULL
  /\ UNCHANGED sleeping

Sleep(ticks) ==
  /\ Call
  /\ status' = [status EXCEPT ![running] = "SLEEPING"]
  /\ used' = [used EXCEPT ![running] = 0]
  /\ sleeping' = [sleeping EXCEPT ![running] = ticks]
  /\ running' = NULL
  /\ UNCHANGED queue

\* mutex_lock and msg_recv may leave the caller waiting; only the first of
\* them resets the current process at once.
Block ==
  /\ Call
  /\ status' = [status EXCEPT ![running] = "WAITING"]
  /\ running' \in {NULL, running}
  /\ UNCHANGED <<queue, used, sleeping>>

\* mutex_unlock and msg_send may end the wait of another process.
Unblock(t) ==
  /\ Call
  /\ status[t] = "WAITING"
  /\ MakeReady(t)
  /\ UNCHANGED <<running, used, sleeping>>

-----------------------------------------------------------------------------
(* Calls of processes, and keys.                                           *)

Entered == (phase = "user" /\ running # Idle) \/ phase = "kernel"

Exec(t) ==
  /\ Entered
  /\ phase' = "kernel"
  /\ status[t] = "NONE"
  /\ MakeReady(t)
  /\ used' = [used EXCEPT ![t] = 0]
  /\ sleeping' = [sleeping EXCEPT ![t] = 0]
  /\ UNCHANGED running

\* The running process is not in the queue, and leaves it as it is.
Exit ==
  /\ Entered
  /\ phase' = "kernel"
  /\ running \notin {NULL, Idle}
  /\ status' = [status EXCEPT ![running] = "NONE"]
  /\ used' = [used EXCEPT ![running] = 0]
  /\ sleeping' = [sleeping EXCEPT ![running] = 0]
  /\ running' = NULL
  /\ UNCHANGED queue

Halt ==
  /\ Entered
  /\ phase' = "halted"
  /\ UNCHANGED <<status, queue, running, used, sleeping>>

-----------------------------------------------------------------------------
(* scheduler_run.                                                          *)

Runs == running # NULL /\ status[running] = "ACTIVE"

Expired == Runs /\ used[running] >= SLICE

Woken_OnTheTick == {t \in Tasks : status[t] = "SLEEPING" /\ sleeping[t] = 1}
Woken == {t \in Tasks : status[t] = "SLEEPING" /\ sleeping[t] = 0}

Preempted_Dropped == <<>>
Preempted == IF Expired /\ running # Idle THEN <<running>> ELSE <<>>

\* The sequences that list each member of S once.
Orders(S) == {s \in [1 .. Cardinality(S) -> S] : IsInjective(s)}

Give(t) ==
  /\ running' = t
  /\ status' = [u \in Tasks |-> IF u = t THEN "ACTIVE"
                                ELSE IF u \in Woken \/ (Expired /\ u = running)
                                     THEN "RUNNING" ELSE status[u]]

Schedule ==
  /\ phase = "kernel"
  /\ phase' = "user"
  /\ \E woken \in Orders(Woken) :
       LET ready == queue \o Preempted \o woken
       IN  \/ Runs /\ ~Expired /\ Give(running) /\ queue' = ready
           \/ /\ ~Runs \/ Expired
              /\ \/ ready = <<>> /\ Give(Idle) /\ queue' = ready
                 \/ ready # <<>> /\ Give(Head(ready)) /\ queue' = Tail(ready)
  /\ used' = [t \in Tasks |-> IF t \in Woken \/ (Expired /\ t = running) THEN 0 ELSE used[t]]
  /\ UNCHANGED sleeping

-----------------------------------------------------------------------------

RRInit ==
  /\ status = [t \in Tasks |-> IF t \in {Idle, InitTask} THEN "RUNNING" ELSE "NONE"]
  /\ queue = <<Idle, InitTask>>
  /\ running = NULL
  /\ used = [t \in Tasks |-> 0]
  /\ sleeping = [t \in Tasks |-> 0]
  /\ phase = "kernel"

RRNext ==
  \/ Tick
  \/ Query
  \/ Yield
  \/ \E ticks \in SleepTicks : Sleep(ticks)
  \/ Block
  \/ \E t \in Tasks : Unblock(t)
  \/ \E t \in Tasks : Exec(t)
  \/ Exit
  \/ Halt
  \/ Schedule

RRSafeSpec == RRInit /\ [][RRNext]_rrVars

\* The kernel runs with interrupts off and does not loop: once entered it
\* reaches its context switch.  A tick that comes while interrupts are off
\* stays latched in the interrupt controller and is delivered when they are
\* on again, so a process that keeps calling the kernel cannot keep it out.
RRFairness == WF_rrVars(Schedule) /\ SF_rrVars(Tick)

RRSpec == RRSafeSpec /\ RRFairness

-----------------------------------------------------------------------------
(* Properties.                                                             *)

Halted == phase = "halted"
Reusable == Tasks \ {Idle}

(* No starvation: a ready process gets the CPU, whatever the other         *)
(* processes do and whoever keeps starting new ones (scheduler_run).       *)
ReadyRuns ==
  \A t \in Reusable : status[t] = "RUNNING" ~> status[t] = "ACTIVE" \/ Halted

(* A sleep ends and the sleeper gets the CPU again (sleep() of syscall.h). *)
SleeperRuns ==
  \A t \in Reusable : status[t] = "SLEEPING" ~> status[t] = "ACTIVE" \/ Halted

=============================================================================
