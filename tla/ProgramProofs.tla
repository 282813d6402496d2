---------------------------- MODULE ProgramProofs ----------------------------
(***************************************************************************)
(* Proof that the processes of a prog_test group that use its mutex are in *)
(* the critical section one at a time, for any number of processes and of  *)
(* iterations, any slice and any sleeps.  TurnInv is what is needed of the *)
(* scheduler, ProgramInv of the programs' own steps; LineInv says that the *)
(* line at a mutex is those of its users that have called mutex_lock and   *)
(* not yet mutex_unlock, and that all but the first of them wait.          *)
(***************************************************************************)
EXTENDS Programs, SeqFacts

\* Keys are pressed after prog_init has allocated the mutexes, and 'x' does
\* not hit a process that holds one.
KeysLate == ~EarlyKeys
HoldersSpared == ExitAt \cap {"critical", "unlock"} = {}

-----------------------------------------------------------------------------
(* The inductive invariant.                                                *)

States == {"NONE", "RUNNING", "ACTIVE", "SLEEPING", "WAITING"}

\* A queued process is ready, once.
ReadyInv ==
  /\ queue \in Seq(Tasks) /\ IsInjective(queue)
  /\ \A t \in Range(queue) : status[t] = "RUNNING"

TurnInv ==
  /\ status \in [Tasks -> States]
  /\ ReadyInv
  /\ running \in Tasks \cup {NULL}
  /\ running # NULL => status[running] = "ACTIVE"
  /\ phase = "user" => running # NULL
  /\ status[Idle] \in {"RUNNING", "ACTIVE"}

InitLabels == {"boot", "alloc odd", "alloc even", "clear locks", "start programs"}
TestLabels == {"lock", "set", "critical", "unlock", "exit"}

\* While prog_init has still to allocate a mutex nobody runs prog_test.
ProgramInv ==
  /\ pc \in [Tasks -> Labels]
  /\ group \in [Tasks -> Groups]
  /\ lockType \in [Tasks -> {"mutex", "spin"}]
  /\ started \in 0 .. Len(InitPrograms)
  /\ mutexId \in [Groups -> Locks]
  /\ \A t \in Tasks : pc[t] \in InitLabels => t = InitTask
  /\ \A t \in Tasks : status[t] = "NONE" => pc[t] = "none"
  /\ \A t \in Tasks : pc[t] = "set" => lockType[t] = "spin"
  /\ pc[InitTask] \in {"boot", "alloc odd", "alloc even"} =>
       \A t \in Tasks : pc[t] \notin TestLabels

Inside(t) == pc[t] \in {"critical", "unlock"} /\ lockType[t] = "mutex"

LineOf(m) ==
  /\ IsInjective(line[m])
  /\ Range(line[m]) = {t \in Tasks : Inside(t) /\ mutexId[group[t]] = m}
  /\ \A k \in 1 .. Len(line[m]) : status[line[m][k]] = "WAITING" <=> k > 1

LineInv ==
  /\ line \in [Locks -> Seq(Tasks)]
  /\ \A m \in Locks : LineOf(m)

ProgInv == TurnInv /\ ProgramInv /\ LineInv

-----------------------------------------------------------------------------
(* The scheduler.                                                          *)

(* What a change of one process other than the queued ones leaves alone.   *)
LEMMA CallerLeaves ==
  ASSUME TurnInv, running \in Tasks \ {Idle}, NEW st \in States,
         status' = [status EXCEPT ![running] = st], queue' = queue,
         running' = NULL, phase' # "user"
  PROVE  TurnInv'
<1>1. status' \in [Tasks -> States] /\ status'[Idle] = status[Idle]
  BY RoundRobinAssumption DEF TurnInv
<1>2. ReadyInv'
  <2>1. Range(queue) \subseteq Tasks
    BY RangeFacts DEF TurnInv, ReadyInv
  <2>2. \A t \in Range(queue) : t # running /\ status'[t] = "RUNNING"
    BY <2>1, RoundRobinAssumption DEF TurnInv, ReadyInv
  <2> QED BY <2>2 DEF TurnInv, ReadyInv
<1> QED BY <1>1, <1>2 DEF TurnInv

(* A process that is not yet ready gets in the queue.                      *)
LEMMA NewReady ==
  ASSUME TurnInv, NEW t \in Tasks, status[t] # "RUNNING", MakeReady(t),
         running' \in {running, NULL}, running' = t => t \notin Tasks, phase' # "user"
  PROVE  TurnInv'
<1>1. status' = [status EXCEPT ![t] = "RUNNING"] /\ queue' = Append(queue, t)
  BY DEF MakeReady
<1>2. status' \in [Tasks -> States] /\ status'[Idle] \in {"RUNNING", "ACTIVE"}
  BY <1>1, RoundRobinAssumption DEF TurnInv, States
<1>3. ReadyInv'
  <2>1. t \notin Range(queue)
    BY DEF TurnInv, ReadyInv
  <2>2. /\ queue' \in Seq(Tasks) /\ IsInjective(queue')
        /\ Range(queue') = Range(queue) \cup {t}
    BY <1>1, <2>1, AppendFacts DEF TurnInv, ReadyInv
  <2>3. Range(queue) \subseteq Tasks
    BY RangeFacts DEF TurnInv, ReadyInv
  <2>4. \A u \in Range(queue') : status'[u] = "RUNNING"
    BY <1>1, <2>2, <2>3 DEF TurnInv, ReadyInv
  <2> QED BY <2>2, <2>4 DEF ReadyInv
<1>4. running' # NULL => status'[running'] = "ACTIVE"
  BY <1>1 DEF TurnInv
<1> QED BY <1>2, <1>3, <1>4 DEF TurnInv

LEMMA TurnKept ==
  ASSUME TurnInv, UNCHANGED <<status, queue, running>>, phase' = "user" => running # NULL
  PROVE  TurnInv'
  BY DEF TurnInv, ReadyInv

\* A process waits, or has exited, after a step exactly if it did before.
StandingKept ==
  \A t \in Tasks : /\ status'[t] = "WAITING" <=> status[t] = "WAITING"
                   /\ status'[t] = "NONE" <=> status[t] = "NONE"

(* scheduler_run neither ends a wait nor begins one: whom it gives the CPU *)
(* was ready, just woken, or is the idle task.                             *)
LEMMA ScheduleStep ==
  ASSUME TurnInv, Schedule
  PROVE  TurnInv' /\ StandingKept
<1> PICK woken \in Orders(Woken) :
      LET ready == queue \o Preempted \o woken
      IN  \/ Runs /\ ~Expired /\ Give(running) /\ queue' = ready
          \/ /\ ~Runs \/ Expired
             /\ \/ ready = <<>> /\ Give(Idle) /\ queue' = ready
                \/ ready # <<>> /\ Give(Head(ready)) /\ queue' = Tail(ready)
  BY DEF Schedule
<1> DEFINE before == queue \o Preempted
           ready == before \o woken
<1>1. woken \in Seq(Tasks) /\ IsInjective(woken) /\ Range(woken) \subseteq Woken
  <2>1. IsFiniteSet(Woken) /\ Woken \subseteq Tasks
    BY RoundRobinAssumption, FS_Subset DEF Woken
  <2>2. Cardinality(Woken) \in Nat
    BY <2>1, FS_CardinalityType
  <2>3. woken \in [1 .. Cardinality(Woken) -> Woken] /\ IsInjective(woken)
    BY DEF Orders
  <2>4. woken \in Seq(Woken)
    BY <2>2, <2>3, SeqDef
  <2> QED BY <2>1, <2>3, <2>4, RangeFacts, SeqMonotonic
<1>2. Preempted \in Seq(Tasks) /\ IsInjective(Preempted) /\ Range(Preempted) \subseteq {running}
  <2>1. CASE Expired /\ running # Idle
    <3>1. running \in Tasks
      BY <2>1 DEF TurnInv, Expired, Runs
    <3>2. <<running>> \in Seq(Tasks) /\ Len(<<running>>) = 1 /\ <<running>>[1] = running
      BY <3>1
    <3> DEFINE one == <<running>>
    <3> HIDE DEF one
    <3>3. Range(one) = {one[k] : k \in 1 .. Len(one)}
          /\ (IsInjective(one) <=> \A j, k \in 1 .. Len(one) : one[j] = one[k] => j = k)
      BY <3>2, RangeFacts DEF one
    <3>4. Len(one) = 1 /\ one[1] = running
      BY <3>2 DEF one
    <3>5. Range(one) = {running} /\ IsInjective(one)
      BY <3>3, <3>4
    <3>6. Preempted = one /\ one \in Seq(Tasks)
      BY <2>1, <3>2 DEF Preempted, one
    <3> QED BY <3>5, <3>6
  <2>2. CASE ~(Expired /\ running # Idle)
    BY <2>2 DEF Preempted, Range, IsInjective
  <2> QED BY <2>1, <2>2
<1>3. \A t \in Range(Preempted) : t = running /\ t \in Tasks /\ status[t] = "ACTIVE" /\ Expired
  <2>1. Preempted # <<>> => Expired
    BY DEF Preempted
  <2>2. Preempted = <<>> => Range(Preempted) = {}
    BY DEF Range
  <2> QED BY <1>2, <2>1, <2>2 DEF TurnInv, Expired, Runs
<1>4. /\ before \in Seq(Tasks) /\ IsInjective(before)
      /\ Range(before) = Range(queue) \cup Range(Preempted)
  <2>1. Range(queue) \cap Range(Preempted) = {}
    BY <1>3 DEF TurnInv, ReadyInv
  <2> QED BY <1>2, <2>1, ConcatFacts DEF TurnInv, ReadyInv
<1>5. /\ ready \in Seq(Tasks) /\ IsInjective(ready)
      /\ Range(ready) = Range(before) \cup Range(woken)
  <2>1. \A t \in Range(before) : status[t] \in {"RUNNING", "ACTIVE"}
    BY <1>3, <1>4 DEF TurnInv, ReadyInv
  <2>2. \A t \in Range(woken) : status[t] = "SLEEPING"
    BY <1>1 DEF Woken
  <2>3. Range(before) \cap Range(woken) = {}
    BY <2>1, <2>2
  <2> HIDE DEF before
  <2> QED BY <1>1, <1>4, <2>3, ConcatFacts
<1>6. \A t \in Range(ready) : /\ t \in Tasks /\ status[t] \notin {"WAITING", "NONE"}
                              /\ status[t] = "RUNNING" \/ t \in Woken \/ (Expired /\ t = running)
  <2>1. \A t \in Range(woken) : t \in Tasks /\ t \in Woken /\ status[t] = "SLEEPING"
    BY <1>1 DEF Woken
  <2>2. \A t \in Range(queue) : t \in Tasks /\ status[t] = "RUNNING"
    BY RangeFacts DEF TurnInv, ReadyInv
  <2> QED BY <1>3, <1>4, <1>5, <2>1, <2>2
<1> HIDE DEF before, ready
<1>7. ASSUME NEW t \in Tasks, status[t] \notin {"WAITING", "NONE"}, Give(t),
             queue' \in Seq(Tasks), IsInjective(queue'), Range(queue') \subseteq Range(ready) \ {t},
             status[running] = "ACTIVE" /\ running # NULL => running = t \/ Expired
      PROVE  TurnInv' /\ StandingKept
  <2>1. status' = [u \in Tasks |-> IF u = t THEN "ACTIVE"
                                   ELSE IF u \in Woken \/ (Expired /\ u = running)
                                        THEN "RUNNING" ELSE status[u]]
        /\ running' = t
    BY <1>7 DEF Give
  <2>2. \A u \in Tasks : u \in Woken \/ (Expired /\ u = running)
                           => status[u] \in {"SLEEPING", "ACTIVE"}
    BY DEF Woken, Expired, Runs
  <2>3. StandingKept
    BY <1>7, <2>1, <2>2 DEF StandingKept
  <2>4. status' \in [Tasks -> States] /\ status'[t] = "ACTIVE"
    BY <1>7, <2>1 DEF TurnInv, States
  <2>5. status'[Idle] \in {"RUNNING", "ACTIVE"}
    BY <2>1, RoundRobinAssumption DEF TurnInv
  <2>6. \A u \in Range(queue') : status'[u] = "RUNNING"
    BY <1>6, <1>7, <2>1
  <2>7. ReadyInv'
    BY <1>7, <2>6 DEF ReadyInv
  <2> QED BY <1>7, <2>1, <2>3, <2>4, <2>5, <2>7, RoundRobinAssumption DEF TurnInv
<1>8. \/ Runs /\ ~Expired /\ Give(running) /\ queue' = ready
      \/ /\ ~Runs \/ Expired
         /\ \/ ready = <<>> /\ Give(Idle) /\ queue' = ready
            \/ ready # <<>> /\ Give(Head(ready)) /\ queue' = Tail(ready)
  BY DEF ready, before
<1>9. CASE Runs /\ ~Expired /\ Give(running) /\ queue' = ready
  <2>1. running \in Tasks /\ status[running] = "ACTIVE"
    BY <1>9 DEF Runs, TurnInv
  <2>2. running \notin Range(ready)
    BY <1>6, <1>9, <2>1 DEF Woken
  <2> QED BY <1>5, <1>7, <1>9, <2>1, <2>2
<1>10. CASE (~Runs \/ Expired) /\ ready = <<>> /\ Give(Idle) /\ queue' = ready
  <2>1. Range(ready) = {}
    BY <1>10 DEF Range
  <2>2. Idle \in Tasks /\ status[Idle] \notin {"WAITING", "NONE"}
    BY RoundRobinAssumption DEF TurnInv
  <2>3. status[running] = "ACTIVE" /\ running # NULL => Expired
    BY <1>10 DEF Runs
  <2> QED BY <1>5, <1>7, <1>10, <2>1, <2>2, <2>3
<1>11. CASE (~Runs \/ Expired) /\ ready # <<>> /\ Give(Head(ready)) /\ queue' = Tail(ready)
  <2>1. status[running] = "ACTIVE" /\ running # NULL => Expired
    BY <1>11 DEF Runs
  <2>2. /\ Head(ready) \in Range(ready) /\ Tail(ready) \in Seq(Tasks)
        /\ IsInjective(Tail(ready)) /\ Range(Tail(ready)) = Range(ready) \ {Head(ready)}
    BY <1>5, <1>11, TailFacts
  <2> QED BY <1>6, <1>7, <1>11, <2>1, <2>2
<1> QED BY <1>8, <1>9, <1>10, <1>11

-----------------------------------------------------------------------------
(* The calls, as far as the scheduler and the lines go.                    *)

LEMMA RunnerFacts ==
  ASSUME TurnInv, phase = "user"
  PROVE  running \in Tasks /\ status[running] = "ACTIVE"
  BY DEF TurnInv

\* Nobody's standing changes but the caller's, who neither waits nor exits.
CallKept ==
  \A t \in Tasks : /\ status'[t] = "WAITING" <=> status[t] = "WAITING"
                   /\ status'[t] = "NONE" => status[t] = "NONE"

LEMMA SleepKept ==
  ASSUME TurnInv, NEW ticks, Sleep(ticks)
  PROVE  TurnInv' /\ CallKept
<1>1. running \in Tasks \ {Idle} /\ status[running] = "ACTIVE" /\ status \in [Tasks -> States]
  BY DEF Sleep, Call, TurnInv
<1>2. "SLEEPING" \in States /\ phase' # "user"
  BY DEF States, Sleep, Call
<1>3. TurnInv'
  BY <1>1, <1>2, CallerLeaves DEF Sleep
<1> QED BY <1>1, <1>3 DEF Sleep, CallKept

LEMMA YieldKept ==
  ASSUME TurnInv, Yield
  PROVE  TurnInv' /\ CallKept
<1>1. running \in Tasks /\ status[running] = "ACTIVE" /\ status \in [Tasks -> States]
  BY DEF Yield, Call, TurnInv
<1>2. TurnInv'
  BY <1>1, NewReady, RoundRobinAssumption DEF Yield, Call
<1> QED BY <1>1, <1>2 DEF Yield, MakeReady, CallKept

LEMMA QueryKept ==
  ASSUME TurnInv, Query
  PROVE  TurnInv' /\ CallKept
  BY TurnKept DEF Query, Call, CallKept

LEMMA ExecKept ==
  ASSUME TurnInv, NEW t \in Tasks, Exec(t)
  PROVE  /\ TurnInv' /\ CallKept
         /\ status[t] = "NONE" /\ status'[t] # "NONE"
<1>1. status[t] = "NONE" /\ status \in [Tasks -> States]
  BY DEF Exec, TurnInv
<1>2. running' = t => t \notin Tasks
  BY <1>1, RoundRobinAssumption DEF Exec, TurnInv
<1>3. TurnInv'
  BY <1>1, <1>2, NewReady DEF Exec
<1> QED BY <1>1, <1>3 DEF Exec, MakeReady, CallKept

LEMMA ExitKept ==
  ASSUME TurnInv, Exit
  PROVE  /\ TurnInv' /\ running \in Tasks
         /\ \A t \in Tasks : /\ status'[t] = "WAITING" <=> status[t] = "WAITING"
                             /\ t # running => status'[t] = status[t]
<1>1. running \in Tasks \ {Idle} /\ status[running] = "ACTIVE" /\ status \in [Tasks -> States]
  BY DEF Exit, TurnInv
<1>2. "NONE" \in States /\ phase' # "user"
  BY DEF States, Exit
<1>3. TurnInv'
  BY <1>1, <1>2, CallerLeaves DEF Exit
<1> QED BY <1>1, <1>3 DEF Exit

-----------------------------------------------------------------------------
(* Steps that leave the lines alone.                                       *)

(* A line stays in order if its processes stay inside, in their group, and *)
(* nobody else comes in.                                                   *)
LEMMA LinesKept ==
  ASSUME LineInv, line' = line, mutexId' = mutexId,
         \A t \in Tasks : /\ Inside(t)' <=> Inside(t)
                          /\ Inside(t) => group'[t] = group[t]
                          /\ status'[t] = "WAITING" <=> status[t] = "WAITING"
  PROVE  LineInv'
<1> SUFFICES ASSUME NEW m \in Locks
             PROVE  LineOf(m)'
  BY DEF LineInv
<1>1. line[m] \in Seq(Tasks) /\ LineOf(m)
  BY DEF LineInv
<1>2. {t \in Tasks : Inside(t)' /\ mutexId'[group'[t]] = m}
        = {t \in Tasks : Inside(t) /\ mutexId[group[t]] = m}
  OBVIOUS
<1>3. \A k \in 1 .. Len(line[m]) : line[m][k] \in Tasks
  BY <1>1
<1>4. \A k \in 1 .. Len(line[m]) :
        status'[line[m][k]] = "WAITING" <=> status[line[m][k]] = "WAITING"
  BY <1>3
<1> QED BY <1>1, <1>2, <1>4 DEF LineOf

LEMMA KernelKeeps ==
  ASSUME ProgInv, Kernel
  PROVE  ProgInv'
<1>1. TurnInv' /\ StandingKept
  <2>1. CASE Tick \/ Halt
    BY <2>1, TurnKept DEF ProgInv, Tick, Halt, StandingKept
  <2>2. CASE Schedule
    BY <2>2, ScheduleStep DEF ProgInv
  <2> QED BY <2>1, <2>2 DEF Kernel
<1>2. UNCHANGED <<line, programVars>>
  BY DEF Kernel
<1>3. ProgramInv'
  BY <1>1, <1>2 DEF ProgInv, ProgramInv, programVars, localVars, globalVars, StandingKept
<1>4. \A t \in Tasks : Inside(t)' <=> Inside(t)
  BY <1>2 DEF Inside, programVars, localVars, globalVars
<1>5. LineInv'
  BY <1>1, <1>2, <1>4, LinesKept DEF ProgInv, programVars, localVars, globalVars, StandingKept
<1> QED BY <1>1, <1>3, <1>5 DEF ProgInv

(* A step of the running program from one label to another, both outside   *)
(* of the section its mutex protects, or both inside.                      *)
LEMMA StepInPlace ==
  ASSUME ProgInv, phase = "user", NEW next \in Labels, Goto(next),
         TurnInv', CallKept, line' = line, mutexId' = mutexId,
         UNCHANGED <<group, lockType>>, started' \in 0 .. Len(InitPrograms),
         pc[running] # "none",
         next \in InitLabels => running = InitTask,
         next \in {"boot", "alloc odd", "alloc even"} =>
           pc[running] \in {"boot", "alloc odd", "alloc even"},
         next \in TestLabels => pc[running] \in TestLabels,
         next = "set" => lockType[running] = "spin",
         lockType[running] = "mutex" =>
           (next \in {"critical", "unlock"} <=> pc[running] \in {"critical", "unlock"})
  PROVE  ProgInv'
<1>1. running \in Tasks /\ status[running] = "ACTIVE"
  BY RunnerFacts DEF ProgInv
<1>2. pc' = [pc EXCEPT ![running] = next] /\ pc \in [Tasks -> Labels]
  BY DEF Goto, ProgInv, ProgramInv
<1>3. \A t \in Tasks : Inside(t)' <=> Inside(t)
  BY <1>1, <1>2 DEF Inside
<1>4. LineInv'
  BY <1>3, LinesKept DEF ProgInv, CallKept
<1>5. \A t \in Tasks : status'[t] = "NONE" => pc'[t] = "none"
  BY <1>1, <1>2 DEF ProgInv, ProgramInv, CallKept
<1>6. \A t \in Tasks : pc'[t] \in InitLabels => t = InitTask
  BY <1>1, <1>2 DEF ProgInv, ProgramInv
<1>7. pc'[InitTask] \in {"boot", "alloc odd", "alloc even"} =>
        \A t \in Tasks : pc'[t] \notin TestLabels
  BY <1>1, <1>2, RoundRobinAssumption DEF ProgInv, ProgramInv
<1>8. \A t \in Tasks : pc'[t] = "set" => lockType'[t] = "spin"
  BY <1>1, <1>2 DEF ProgInv, ProgramInv
<1> QED BY <1>2, <1>4, <1>5, <1>6, <1>7, <1>8 DEF ProgInv, ProgramInv

(* A step that changes nothing of the programs.                            *)
LEMMA QuietStep ==
  ASSUME ProgInv, TurnInv', CallKept, UNCHANGED <<line, programVars>>
  PROVE  ProgInv'
<1>1. ProgramInv'
  BY DEF ProgInv, ProgramInv, programVars, localVars, globalVars, CallKept
<1>2. \A t \in Tasks : Inside(t)' <=> Inside(t)
  BY DEF Inside, programVars, localVars, globalVars
<1>3. LineInv'
  BY <1>2, LinesKept DEF ProgInv, programVars, localVars, globalVars, CallKept
<1> QED BY <1>1, <1>3 DEF ProgInv

LEMMA InPlaceSteps ==
  ASSUME ProgInv,
         \/ InitSleep \/ InitClearLocks \/ InitYield \/ SleepForever
         \/ SpinTest \/ SpinSet \/ CriticalSleep \/ CriticalDelay \/ SpinUnlock
  PROVE  ProgInv'
<1>1. TurnInv /\ ProgramInv
  BY DEF ProgInv
<1>2. ASSUME NoCall, phase = "user"
      PROVE  TurnInv' /\ CallKept /\ line' = line
  BY <1>1, <1>2, TurnKept DEF NoCall, lockServiceVars, rrVars, CallKept, TurnInv
<1>3. phase = "user" => running \in Tasks
  BY <1>1, RunnerFacts
<1>4. started \in 0 .. Len(InitPrograms)
  BY <1>1 DEF ProgramInv
<1>5. CASE InitSleep
  <2>1. TurnInv' /\ CallKept
    BY <1>1, <1>5, SleepKept DEF InitSleep
  <2>2. running = InitTask
    BY <1>1, <1>3, <1>5 DEF InitSleep, At, ProgramInv, InitLabels
  <2>3. "alloc odd" \in Labels \ TestLabels
    BY DEF Labels, TestLabels
  <2> QED BY <1>4, <1>5, <2>1, <2>2, <2>3, StepInPlace
          DEF InitSleep, At, localVars, globalVars
<1>6. CASE InitClearLocks
  <2>1. running = InitTask
    BY <1>1, <1>3, <1>6 DEF InitClearLocks, At, ProgramInv, InitLabels
  <2>2. "start programs" \in Labels \ TestLabels
    BY DEF Labels, TestLabels
  <2> QED BY <1>2, <1>4, <1>6, <2>1, <2>2, StepInPlace
          DEF InitClearLocks, At, localVars, globalVars
<1>7. CASE InitYield
  BY <1>1, <1>7, YieldKept, QuietStep DEF InitYield
<1>8. CASE SleepForever
  BY <1>1, <1>8, SleepKept, QuietStep DEF SleepForever
<1>9. CASE SpinTest
  <2>1. "set" \in Labels \ InitLabels /\ "lock" \in TestLabels
    BY DEF Labels, TestLabels, InitLabels
  <2> QED BY <1>2, <1>4, <1>9, <2>1, StepInPlace DEF SpinTest, At, localVars, globalVars
<1>10. CASE SpinSet
  <2>1. "critical" \in Labels \ InitLabels /\ "set" \in TestLabels
    BY DEF Labels, TestLabels, InitLabels
  <2>2. UNCHANGED <<group, lockType, mutexId, started>> /\ phase = "user" /\ pc[running] = "set"
    BY <1>10 DEF SpinSet, At, localVars
  <2>3. lockType[running] = "spin"
    BY <1>1, <1>3, <2>2 DEF ProgramInv
  <2> QED BY <1>2, <1>4, <1>10, <2>1, <2>2, <2>3, StepInPlace DEF SpinSet
<1>11. CASE CriticalSleep
  <2>1. TurnInv' /\ CallKept
    BY <1>1, <1>11, SleepKept DEF CriticalSleep
  <2>2. "unlock" \in Labels \ InitLabels /\ "critical" \in TestLabels
    BY DEF Labels, TestLabels, InitLabels
  <2> QED BY <1>4, <1>11, <2>1, <2>2, StepInPlace DEF CriticalSleep, At, localVars, globalVars
<1>12. CASE CriticalDelay
  <2>1. "unlock" \in Labels \ InitLabels /\ "critical" \in TestLabels
    BY DEF Labels, TestLabels, InitLabels
  <2> QED BY <1>2, <1>4, <1>12, <2>1, StepInPlace DEF CriticalDelay, At, localVars, globalVars
<1>13. CASE SpinUnlock
  <2>1. PICK next \in {"lock", "exit"} : Goto(next)
    BY <1>13 DEF SpinUnlock, NextRound
  <2>2. {"lock", "exit"} \subseteq Labels \ InitLabels /\ "unlock" \in TestLabels
    BY DEF Labels, TestLabels, InitLabels
  <2>3. UNCHANGED <<group, lockType, mutexId, started>> /\ lockType[running] = "spin"
        /\ phase = "user" /\ pc[running] = "unlock" /\ NoCall
    BY <1>13 DEF SpinUnlock, At
  <2> QED BY <1>2, <1>4, <2>1, <2>2, <2>3, StepInPlace
<1> QED BY <1>5, <1>6, <1>7, <1>8, <1>9, <1>10, <1>11, <1>12, <1>13

-----------------------------------------------------------------------------
(* prog_init.                                                              *)

(* Nobody is in line when it allocates a mutex, which empties the line.    *)
LEMMA AllocStep ==
  ASSUME ProgInv, InitAllocOdd \/ InitAllocEven
  PROVE  ProgInv'
<1>1. PICK g \in Groups, id \in Locks, next \in {"alloc even", "clear locks"} :
        /\ InitAlloc(g, id, next)
        /\ phase = "user" /\ pc[running] \in {"alloc odd", "alloc even"}
  BY ProgramsAssumption DEF InitAllocOdd, InitAllocEven, At, Groups
<1>2. TurnInv' /\ CallKept
  BY <1>1, QueryKept DEF ProgInv, InitAlloc, Clear
<1>3. running \in Tasks /\ running = InitTask
  BY <1>1, RunnerFacts DEF ProgInv, ProgramInv, InitLabels
<1>4. pc' = [pc EXCEPT ![InitTask] = next] /\ pc \in [Tasks -> Labels]
  BY <1>1, <1>3 DEF InitAlloc, Goto, ProgInv, ProgramInv
<1>5. \A t \in Tasks : pc[t] \notin TestLabels /\ pc'[t] \notin TestLabels
  BY <1>1, <1>3, <1>4 DEF ProgInv, ProgramInv, TestLabels
<1>6. mutexId' \in [Groups -> Locks]
  BY <1>1 DEF InitAlloc, ProgInv, ProgramInv
<1>7. UNCHANGED <<localVars, started>> /\ line' = [line EXCEPT ![id] = <<>>]
  BY <1>1 DEF InitAlloc, Clear
<1>8. ProgramInv'
  <2>1. pc' \in [Tasks -> Labels]
    BY <1>3, <1>4 DEF Labels
  <2>2. \A t \in Tasks : pc'[t] \in InitLabels => t = InitTask
    BY <1>3, <1>4 DEF ProgInv, ProgramInv
  <2>3. \A t \in Tasks : status'[t] = "NONE" => pc'[t] = "none"
    BY <1>1, <1>2, <1>3, <1>4, RunnerFacts DEF ProgInv, ProgramInv, CallKept
  <2>4. \A t \in Tasks : pc'[t] # "set"
    BY <1>5 DEF TestLabels
  <2> QED BY <1>5, <1>6, <1>7, <2>1, <2>2, <2>3, <2>4 DEF ProgInv, ProgramInv, localVars
<1>9. LineInv'
  <2>1. \A t \in Tasks : ~Inside(t) /\ ~Inside(t)'
    BY <1>5 DEF Inside, TestLabels
  <2>2. ASSUME NEW m \in Locks
        PROVE  line[m] = <<>>
    <3>1. /\ line[m] \in Seq(Tasks) /\ IsInjective(line[m])
          /\ Range(line[m]) = {t \in Tasks : Inside(t) /\ mutexId[group[t]] = m}
      BY DEF ProgInv, LineInv, LineOf
    <3>2. Range(line[m]) = {}
      BY <2>1, <3>1
    <3> QED BY <3>1, <3>2, TailFacts
  <2>3. line' \in [Locks -> Seq(Tasks)] /\ \A m \in Locks : line'[m] = <<>>
    <3>1. line \in [Locks -> Seq(Tasks)] /\ <<>> \in Seq(Tasks)
      BY EmptySeq DEF ProgInv, LineInv
    <3> QED BY <1>7, <2>2, <3>1
  <2> DEFINE none == <<>>
  <2>6. 1 .. Len(none) = {} /\ Range(none) = {} /\ IsInjective(none)
    BY EmptyFacts
  <2> HIDE DEF none
  <2> SUFFICES ASSUME NEW m \in Locks
               PROVE  LineOf(m)'
    BY <2>3 DEF LineInv
  <2>7. line'[m] = none
    BY <2>3 DEF none
  <2>8. {t \in Tasks : Inside(t)' /\ mutexId'[group'[t]] = m} = {}
    BY <2>1
  <2> QED BY <2>6, <2>7, <2>8, Zenon DEF LineOf
<1> QED BY <1>2, <1>8, <1>9 DEF ProgInv

(* A new process starts outside every line, even in an entry used before.  *)
LEMMA NewProcess ==
  ASSUME ProgInv, NEW t \in Tasks, Exec(t), NEW first \in Labels \ InitLabels,
         first \notin {"set", "critical", "unlock"},
         pc' = [pc EXCEPT ![t] = first],
         line' = line, mutexId' = mutexId, started' \in 0 .. Len(InitPrograms),
         group' \in [Tasks -> Groups], lockType' \in [Tasks -> {"mutex", "spin"}],
         \A u \in Tasks \ {t} : group'[u] = group[u] /\ lockType'[u] = lockType[u],
         first \in TestLabels => pc[InitTask] \notin {"boot", "alloc odd", "alloc even"}
  PROVE  ProgInv'
<1>1. TurnInv' /\ CallKept /\ status[t] = "NONE" /\ status'[t] # "NONE"
  BY ExecKept DEF ProgInv
<1>2. pc[t] = "none" /\ pc \in [Tasks -> Labels]
  BY <1>1 DEF ProgInv, ProgramInv
<1>3. \A u \in Tasks : Inside(u)' <=> Inside(u)
  BY <1>2 DEF Inside
<1>4. \A u \in Tasks : Inside(u) => group'[u] = group[u]
  BY <1>2 DEF Inside
<1>5. LineInv'
  BY <1>1, <1>3, <1>4, LinesKept DEF ProgInv, CallKept
<1>6. ProgramInv'
  <2>1. pc' \in [Tasks -> Labels]
    BY <1>2
  <2>2. \A u \in Tasks : pc'[u] \in InitLabels => u = InitTask
    BY <1>2 DEF ProgInv, ProgramInv
  <2>3. \A u \in Tasks : status'[u] = "NONE" => pc'[u] = "none"
    BY <1>1, <1>2 DEF ProgInv, ProgramInv, CallKept
  <2>4. \A u \in Tasks : pc'[u] = "set" => lockType'[u] = "spin"
    BY <1>2 DEF ProgInv, ProgramInv
  <2>5. pc'[InitTask] \in {"boot", "alloc odd", "alloc even"} =>
          \A u \in Tasks : pc'[u] \notin TestLabels
    <3>1. pc'[InitTask] \in {"boot", "alloc odd", "alloc even"} =>
            pc[InitTask] \in {"boot", "alloc odd", "alloc even"}
      BY <1>2, RoundRobinAssumption DEF InitLabels
    <3> QED BY <1>2, <3>1 DEF ProgInv, ProgramInv
  <2> QED BY <2>1, <2>2, <2>3, <2>4, <2>5 DEF ProgInv, ProgramInv
<1> QED BY <1>1, <1>5, <1>6 DEF ProgInv

LEMMA StartStep ==
  ASSUME ProgInv, InitStart
  PROVE  ProgInv'
<1> DEFINE n == Len(InitPrograms)
<1>0. n \in Nat /\ InitPrograms \in [1 .. n -> {"sleep forever", "delay forever"}]
  BY ProgramsAssumption, LenProperties
<1>1. /\ started \in 0 .. n /\ started < n /\ started' = started + 1
      /\ UNCHANGED <<line, localVars, globalVars>>
  BY DEF InitStart, ProgInv, ProgramInv
<1> HIDE DEF n
<1>2. started + 1 \in 1 .. n /\ started' \in 0 .. n
      /\ InitPrograms[started + 1] \in {"sleep forever", "delay forever"}
  <2>1. n \in Nat /\ started \in 0 .. n /\ started < n /\ started' = started + 1
    BY <1>0, <1>1
  <2>2. started + 1 \in 1 .. n /\ started' \in 0 .. n
    BY <2>1
  <2> QED BY <1>0, <2>2
<1> USE DEF n
<1>3. CASE Query /\ UNCHANGED pc
  <2>1. TurnInv' /\ CallKept
    BY <1>3, QueryKept DEF ProgInv
  <2>2. ProgramInv'
    BY <1>1, <1>2, <1>3, <2>1 DEF ProgInv, ProgramInv, localVars, globalVars, CallKept
  <2>3. \A t \in Tasks : Inside(t)' <=> Inside(t)
    BY <1>1, <1>3 DEF Inside, localVars
  <2>4. LineInv'
    BY <1>1, <2>1, <2>3, LinesKept DEF ProgInv, localVars, globalVars, CallKept
  <2> QED BY <2>1, <2>2, <2>4 DEF ProgInv
<1>4. CASE \E t \in Free : Exec(t) /\ pc' = [pc EXCEPT ![t] = InitPrograms[started + 1]]
  <2>1. PICK t \in Tasks : Exec(t) /\ pc' = [pc EXCEPT ![t] = InitPrograms[started + 1]]
    BY <1>4 DEF Free
  <2>2. {"sleep forever", "delay forever"} \subseteq Labels \ (InitLabels \cup TestLabels)
    BY DEF Labels, InitLabels, TestLabels
  <2>3. UNCHANGED <<line, mutexId, group, lockType>>
        /\ group \in [Tasks -> Groups] /\ lockType \in [Tasks -> {"mutex", "spin"}]
    BY <1>1 DEF localVars, globalVars, ProgInv, ProgramInv
  <2> QED BY <1>2, <2>1, <2>2, <2>3, NewProcess
<1> QED BY <1>3, <1>4 DEF InitStart

LEMMA TestStarts ==
  ASSUME ProgInv, KeysLate, NEW t \in Tasks, NEW g \in TestGroups, NEW type \in LockTypes,
         NEW n, KeyTest(t, g, type, n)
  PROVE  ProgInv'
<1>1. /\ Exec(t) /\ pc' = [pc EXCEPT ![t] = "lock"]
      /\ group' = [group EXCEPT ![t] = g] /\ lockType' = [lockType EXCEPT ![t] = type]
      /\ line' = line /\ mutexId' = mutexId /\ started' = started
  BY DEF KeyTest, globalVars
<1>2. pc[InitTask] = "start programs"
  BY DEF KeyTest, InitDone, KeysLate
<1>3. /\ group' \in [Tasks -> Groups] /\ lockType' \in [Tasks -> {"mutex", "spin"}]
      /\ started' \in 0 .. Len(InitPrograms)
      /\ \A u \in Tasks \ {t} : group'[u] = group[u] /\ lockType'[u] = lockType[u]
  BY <1>1, ProgramsAssumption DEF ProgInv, ProgramInv, Groups
<1>4. "lock" \in Labels \ InitLabels
  BY DEF Labels, InitLabels
<1> QED BY <1>1, <1>2, <1>3, <1>4, NewProcess

(* Who exits has left the section its mutex protects.                      *)
LEMMA LeaveStep ==
  ASSUME ProgInv, HoldersSpared, TestExit \/ KeyExit
  PROVE  ProgInv'
<1>1. /\ Exit /\ Discard(running)
      /\ UNCHANGED <<line, started, globalVars>>
      /\ pc[running] \notin {"critical", "unlock"}
  BY DEF TestExit, KeyExit, At, HoldersSpared
<1>2. /\ TurnInv' /\ running \in Tasks
      /\ \A t \in Tasks : /\ status'[t] = "WAITING" <=> status[t] = "WAITING"
                          /\ t # running => status'[t] = status[t]
  BY <1>1, ExitKept DEF ProgInv
<1>3. /\ pc' = [pc EXCEPT ![running] = "none"] /\ group' = [group EXCEPT ![running] = "odd"]
      /\ lockType' = [lockType EXCEPT ![running] = "mutex"]
  BY <1>1 DEF Discard
<1>4. pc \in [Tasks -> Labels] /\ group \in [Tasks -> Groups]
      /\ lockType \in [Tasks -> {"mutex", "spin"}] /\ "none" \in Labels \ (InitLabels \cup TestLabels)
  BY DEF ProgInv, ProgramInv, Labels, InitLabels, TestLabels
<1>5. ProgramInv'
  <2>1. pc' \in [Tasks -> Labels] /\ group' \in [Tasks -> Groups]
        /\ lockType' \in [Tasks -> {"mutex", "spin"}]
    BY <1>3, <1>4 DEF Groups
  <2>2. \A t \in Tasks : pc'[t] \in InitLabels => t = InitTask
    BY <1>3, <1>4 DEF ProgInv, ProgramInv
  <2>3. \A t \in Tasks : status'[t] = "NONE" => pc'[t] = "none"
    BY <1>2, <1>3, <1>4 DEF ProgInv, ProgramInv
  <2>4. \A t \in Tasks : pc'[t] = "set" => lockType'[t] = "spin"
    BY <1>3, <1>4 DEF ProgInv, ProgramInv
  <2>5. pc'[InitTask] \in {"boot", "alloc odd", "alloc even"} =>
          \A t \in Tasks : pc'[t] \notin TestLabels
    BY <1>3, <1>4, RoundRobinAssumption DEF ProgInv, ProgramInv
  <2> QED BY <1>1, <2>1, <2>2, <2>3, <2>4, <2>5 DEF ProgInv, ProgramInv, globalVars
<1>6. \A t \in Tasks : (Inside(t)' <=> Inside(t)) /\ (Inside(t) => group'[t] = group[t])
  BY <1>1, <1>2, <1>3, <1>4 DEF Inside
<1>7. LineInv'
  BY <1>1, <1>2, <1>6, LinesKept DEF ProgInv, globalVars
<1> QED BY <1>2, <1>5, <1>7 DEF ProgInv

-----------------------------------------------------------------------------
(* mutex_lock and mutex_unlock.                                            *)

LEMMA LockStep ==
  ASSUME ProgInv, LockMutex
  PROVE  ProgInv'
<1> PICK r : r = running
  OBVIOUS
<1> PICK m : m = mutexId[group[r]]
  OBVIOUS
<1>1. /\ r \in Tasks \ {Idle} /\ status[r] = "ACTIVE" /\ status \in [Tasks -> States]
      /\ group[r] \in Groups /\ m \in Locks
      /\ pc[r] = "lock" /\ lockType[r] = "mutex" /\ pc \in [Tasks -> Labels]
  BY RunnerFacts DEF ProgInv, TurnInv, ProgramInv, LockMutex, At, Acquire, Call
<1>2. /\ Acquire(m) /\ pc' = [pc EXCEPT ![r] = "critical"]
      /\ UNCHANGED <<localVars, started, globalVars>>
  BY DEF LockMutex, MyMutex, Goto
<1>3. line \in [Locks -> Seq(Tasks)] /\ \A l \in Locks : LineOf(l)
  BY DEF ProgInv, LineInv
<1>4. /\ TurnInv'
      /\ \A t \in Tasks \ {r} : status'[t] = status[t]
      /\ status'[r] \in {"ACTIVE", "WAITING"}
      /\ status'[r] = "WAITING" <=> line[m] # <<>>
  <2>1. CASE line[m] = <<>>
    BY <1>1, <1>2, <2>1, TurnKept DEF Acquire, Call, ProgInv
  <2>2. CASE line[m] # <<>>
    <3>1. "WAITING" \in States
      BY DEF States
    <3> QED BY <1>1, <1>2, <2>2, <3>1, CallerLeaves DEF Acquire, Call, ProgInv
  <2> QED BY <2>1, <2>2
<1>5. line' = [line EXCEPT ![m] = Append(@, r)]
  BY <1>2 DEF Acquire
<1>6. ~Inside(r) /\ \A t \in Tasks : Inside(t)' <=> Inside(t) \/ t = r
  BY <1>1, <1>2 DEF Inside, localVars
<1>7. ProgramInv'
  <2>1. pc' \in [Tasks -> Labels] /\ "critical" \notin InitLabels /\ "lock" \in TestLabels
    BY <1>1, <1>2 DEF Labels, InitLabels, TestLabels
  <2>2. \A t \in Tasks : pc'[t] \in InitLabels => t = InitTask
    BY <1>1, <1>2, <2>1 DEF ProgInv, ProgramInv
  <2>3. \A t \in Tasks : status'[t] = "NONE" => pc'[t] = "none"
    BY <1>1, <1>2, <1>4 DEF ProgInv, ProgramInv
  <2>4. \A t \in Tasks : pc'[t] = "set" => lockType'[t] = "spin"
    BY <1>1, <1>2 DEF ProgInv, ProgramInv, localVars
  <2>5. pc'[InitTask] \notin {"boot", "alloc odd", "alloc even"}
    BY <1>1, <1>2, <2>1, RoundRobinAssumption DEF ProgInv, ProgramInv
  <2> QED BY <1>2, <2>1, <2>2, <2>3, <2>4, <2>5 DEF ProgInv, ProgramInv, localVars, globalVars
<1>8. line' \in [Locks -> Seq(Tasks)]
  BY <1>1, <1>3, <1>5, AppendFacts
<1>9. mutexId' = mutexId /\ group' = group
  BY <1>2 DEF localVars, globalVars
<1>10. ASSUME NEW l \in Locks, l # m
       PROVE  LineOf(l)'
  <2>1. line'[l] = line[l] /\ line[l] \in Seq(Tasks) /\ LineOf(l)
    BY <1>3, <1>5, <1>10
  <2>2. {t \in Tasks : Inside(t)' /\ mutexId'[group'[t]] = l}
          = {t \in Tasks : Inside(t) /\ mutexId[group[t]] = l}
    BY <1>6, <1>9, <1>10
  <2>3. \A k \in 1 .. Len(line[l]) : line[l][k] \in Tasks \ {r}
    BY <1>6, <2>1, RangeFacts DEF LineOf
  <2>4. \A k \in 1 .. Len(line[l]) : status'[line[l][k]] = status[line[l][k]]
    BY <1>4, <2>3
  <2> QED BY <2>1, <2>2, <2>4 DEF LineOf
<1>11. LineOf(m)'
  <2> DEFINE q == line[m]
             a == Append(q, r)
             n == Len(q)
  <2>1. q \in Seq(Tasks) /\ line'[m] = a /\ n \in Nat
    BY <1>1, <1>3, <1>5, LenProperties
  <2>2. /\ IsInjective(q) /\ Range(q) = {t \in Tasks : Inside(t) /\ mutexId[group[t]] = m}
        /\ \A k \in 1 .. n : status[q[k]] = "WAITING" <=> k > 1
    BY <1>1, <1>3 DEF LineOf
  <2>3. r \notin Range(q)
    BY <1>6, <2>2
  <2>4. IsInjective(a) /\ Range(a) = Range(q) \cup {r}
    BY <1>1, <2>1, <2>2, <2>3, AppendFacts
  <2>5. Range(a) = {t \in Tasks : Inside(t)' /\ mutexId'[group'[t]] = m}
    BY <1>1, <1>6, <1>9, <2>2, <2>4
  <2>6. Len(a) = n + 1 /\ (\A k \in 1 .. n : a[k] = q[k]) /\ a[n + 1] = r
    BY <1>1, <2>1, AppendProperties
  <2>7. q # <<>> <=> n > 0
    BY <2>1, EmptySeq
  <2>8. \A k \in 1 .. n : q[k] \in Tasks \ {r}
    BY <2>1, <2>3, RangeFacts
  <2>9. \A k \in 1 .. n : status'[q[k]] = status[q[k]]
    BY <1>4, <2>8
  <2> HIDE DEF q, a, n
  <2>10. status'[r] = "WAITING" <=> n > 0
    BY <1>4, <2>7 DEF q
  <2>11. \A k \in 1 .. n + 1 : status'[a[k]] = "WAITING" <=> k > 1
    <3> SUFFICES ASSUME NEW k \in 1 .. n + 1
                 PROVE  status'[a[k]] = "WAITING" <=> k > 1
      OBVIOUS
    <3>1. CASE k \in 1 .. n
      BY <2>1, <2>2, <2>6, <2>9, <3>1
    <3>2. CASE k = n + 1
      BY <2>1, <2>6, <2>10, <3>2
    <3> QED BY <2>1, <3>1, <3>2
  <2> QED BY <2>1, <2>4, <2>5, <2>6, <2>11 DEF LineOf
<1>12. LineInv'
  BY <1>8, <1>10, <1>11 DEF LineInv
<1> QED BY <1>4, <1>7, <1>12 DEF ProgInv

LEMMA OneOrMore ==
  ASSUME NEW n \in Nat, n >= 1
  PROVE  n = 1 \/ (n > 1 /\ 2 \in 1 .. n)
  OBVIOUS

(* The caller is the first in line, for all others wait: the call that     *)
(* finds somebody else there does not happen.                              *)
LEMMA UnlockStep ==
  ASSUME ProgInv, UnlockMutex
  PROVE  ProgInv'
<1> PICK r : r = running
  OBVIOUS
<1> PICK m : m = mutexId[group[r]]
  OBVIOUS
<1> PICK q : q = line[m]
  OBVIOUS
<1> PICK n : n = Len(q)
  OBVIOUS
<1>1. /\ phase = "user" /\ r \in Tasks /\ status[r] = "ACTIVE" /\ status \in [Tasks -> States]
      /\ group[r] \in Groups /\ m \in Locks
      /\ pc[r] = "unlock" /\ lockType[r] = "mutex" /\ pc \in [Tasks -> Labels]
  BY RunnerFacts DEF ProgInv, TurnInv, ProgramInv, UnlockMutex, At
<1>2. line \in [Locks -> Seq(Tasks)] /\ \A l \in Locks : LineOf(l)
  BY DEF ProgInv, LineInv
<1>3. /\ q \in Seq(Tasks) /\ n \in Nat /\ IsInjective(q)
      /\ Range(q) = {t \in Tasks : Inside(t) /\ mutexId[group[t]] = m}
      /\ \A k \in 1 .. n : status[q[k]] = "WAITING" <=> k > 1
  BY <1>1, <1>2, LenProperties DEF LineOf
<1>4. \A k \in 1 .. n : q[k] \in Tasks /\ q[k] \in Range(q)
  BY <1>3, RangeFacts
<1>5. n >= 1 /\ q # <<>> /\ q[1] = r /\ Head(q) = r
  <2>1. r \in Range(q)
    BY <1>1, <1>3 DEF Inside
  <2>2. PICK k \in 1 .. n : q[k] = r
    BY <1>3, <2>1, RangeFacts
  <2>3. k = 1
    BY <1>1, <1>3, <2>2
  <2>4. n >= 1 /\ q[1] = r
    BY <1>3, <2>2, <2>3
  <2>5. q # <<>>
    BY <1>3, <2>4, EmptySeq
  <2> QED BY <1>3, <2>4, <2>5, HeadTailProperties
<1>5a. n \in Nat /\ n >= 1
  BY <1>3, <1>5, Zenon
<1>6. Release(m)
  <2>1. Holds(running, MyMutex)
    BY <1>5 DEF Holds, MyMutex
  <2> QED BY <2>1 DEF UnlockMutex, MyMutex
<1>7. /\ line' = [line EXCEPT ![m] = Tail(@)] /\ running' = running /\ phase' = "kernel"
      /\ IF n = 1 THEN UNCHANGED <<status, queue>> ELSE MakeReady(q[2])
  BY <1>6 DEF Release, Call
<1>8. PICK next \in {"lock", "exit"} : pc' = [pc EXCEPT ![r] = next]
  BY DEF UnlockMutex, NextRound, Goto
<1>9. UNCHANGED <<group, lockType, started, mutexId>>
  BY DEF UnlockMutex, globalVars
<1>10. /\ TurnInv'
       /\ n > 1 => status' = [status EXCEPT ![q[2]] = "RUNNING"]
       /\ n = 1 => status' = status
  <2>1. CASE n = 1
    BY <1>7, <2>1, TurnKept DEF ProgInv
  <2>2. CASE n > 1
    <3>1. q[2] \in Tasks /\ status[q[2]] = "WAITING"
      BY <1>3, <1>4, <2>2
    <3>2. MakeReady(q[2])
      BY <1>3, <1>7, <2>2, SMTT(40)
    <3>3. running' = q[2] => q[2] \notin Tasks
      BY <1>1, <1>7, <3>1, ZenonT(60)
    <3> QED BY <1>7, <2>2, <3>1, <3>2, <3>3, NewReady DEF ProgInv, MakeReady
  <2>3. n = 1 \/ n > 1
    BY <1>5a, OneOrMore, Zenon
  <2> QED BY <2>1, <2>2, <2>3
<1>10a. /\ n > 1 => q[2] \in Tasks /\ q[2] \in Range(q)
       /\ \A t \in Tasks : status'[t] = IF n > 1 /\ t = q[2] THEN "RUNNING" ELSE status[t]
  <2>1. n = 1 \/ (n > 1 /\ 2 \in 1 .. n)
    BY <1>5a, OneOrMore, Zenon
  <2> QED BY <1>1, <1>4, <1>10, <2>1
<1>11. \A t \in Tasks : Inside(t)' <=> Inside(t) /\ t # r
  BY <1>1, <1>8, <1>9 DEF Inside
<1>12. ProgramInv'
  <2>1. {"lock", "exit"} \subseteq Labels \ InitLabels /\ "unlock" \in TestLabels
    BY DEF Labels, InitLabels, TestLabels
  <2>2. pc' \in [Tasks -> Labels]
    BY <1>1, <1>8, <2>1
  <2>3. \A t \in Tasks : pc'[t] \in InitLabels => t = InitTask
    BY <1>1, <1>8, <2>1 DEF ProgInv, ProgramInv
  <2>4. \A t \in Tasks : status'[t] = "NONE" => status[t] = "NONE"
    BY <1>10a
  <2>5. \A t \in Tasks : status'[t] = "NONE" => pc'[t] = "none"
    BY <1>1, <1>8, <2>4 DEF ProgInv, ProgramInv
  <2>6. \A t \in Tasks : pc'[t] = "set" => lockType'[t] = "spin"
    BY <1>1, <1>8, <1>9 DEF ProgInv, ProgramInv
  <2>7. pc'[InitTask] \notin {"boot", "alloc odd", "alloc even"}
    BY <1>1, <1>8, <2>1, RoundRobinAssumption DEF ProgInv, ProgramInv
  <2> QED BY <1>9, <2>2, <2>3, <2>5, <2>6, <2>7 DEF ProgInv, ProgramInv
<1>13. /\ Tail(q) \in Seq(Tasks) /\ IsInjective(Tail(q)) /\ Range(Tail(q)) = Range(q) \ {r}
       /\ Len(Tail(q)) = n - 1 /\ \A k \in 1 .. n - 1 : Tail(q)[k] = q[k + 1]
  BY <1>3, <1>5, TailFacts, HeadTailProperties
<1>14. line' \in [Locks -> Seq(Tasks)]
  BY <1>1, <1>2, <1>7, <1>13
<1>15. ASSUME NEW l \in Locks, l # m
       PROVE  LineOf(l)'
  <2>1. line'[l] = line[l] /\ line[l] \in Seq(Tasks) /\ LineOf(l)
    BY <1>2, <1>7, <1>15
  <2>2. {t \in Tasks : Inside(t)' /\ mutexId'[group'[t]] = l}
          = {t \in Tasks : Inside(t) /\ mutexId[group[t]] = l}
    BY <1>9, <1>11, <1>15
  <2>3. \A k \in 1 .. Len(line[l]) : line[l][k] \in Tasks \ Range(q)
    <3> PICK z : z = line[l]
      OBVIOUS
    <3>1. z \in Seq(Tasks) /\ Range(z) \cap Range(q) = {}
      BY <1>3, <1>15, <2>1 DEF LineOf
    <3>2. \A k \in 1 .. Len(z) : z[k] \in Range(z) /\ z[k] \in Tasks
      BY <3>1, RangeFacts
    <3> QED BY <3>1, <3>2
  <2>4. \A k \in 1 .. Len(line[l]) : status'[line[l][k]] = status[line[l][k]]
    BY <1>10a, <2>3
  <2> QED BY <2>1, <2>2, <2>4 DEF LineOf
<1>16. LineOf(m)'
  <2> PICK z : z = Tail(q)
    OBVIOUS
  <2>1. line'[m] = z
    BY <1>1, <1>2, <1>7
  <2>2. Range(z) = {t \in Tasks : Inside(t)' /\ mutexId'[group'[t]] = m}
    BY <1>3, <1>9, <1>11, <1>13
  <2>3. \A k \in 1 .. n - 1 : status'[z[k]] = "WAITING" <=> k > 1
    <3> SUFFICES ASSUME NEW k \in 1 .. n - 1
                 PROVE  status'[z[k]] = "WAITING" <=> k > 1
      OBVIOUS
    <3>1. z[k] = q[k + 1] /\ k + 1 \in 1 .. n /\ 2 \in 1 .. n /\ n > 1
      BY <1>3, <1>13
    <3>2. q[k + 1] = q[2] <=> k = 1
      BY <1>3, <3>1, RangeFacts
    <3>3. status'[z[k]] = IF k = 1 THEN "RUNNING" ELSE status[q[k + 1]]
      BY <1>1, <1>4, <1>10, <3>1, <3>2
    <3>4. status[q[k + 1]] = "WAITING"
      BY <1>3, <3>1
    <3> QED BY <3>3, <3>4
  <2>4. Len(z) = n - 1 /\ IsInjective(z)
    BY <1>13
  <2> QED BY <2>1, <2>2, <2>3, <2>4 DEF LineOf
<1>17. LineInv'
  BY <1>14, <1>15, <1>16 DEF LineInv
<1> QED BY <1>10, <1>12, <1>17 DEF ProgInv

-----------------------------------------------------------------------------

LEMMA ProgBegins == ProgInit => ProgInv
<1> SUFFICES ASSUME ProgInit
             PROVE  ProgInv
  OBVIOUS
<1>1. TurnInv
  <2> PICK q : q = <<Idle, InitTask>>
    OBVIOUS
  <2>1. /\ q \in Seq(Tasks) /\ Len(q) = 2 /\ q[1] = Idle /\ q[2] = InitTask
        /\ queue = q /\ Idle # InitTask
    BY RoundRobinAssumption DEF ProgInit, LockInit, RRInit
  <2>2. Range(q) = {q[k] : k \in 1 .. 2}
        /\ (IsInjective(q) <=> \A j, k \in 1 .. 2 : q[j] = q[k] => j = k)
    <3>1. Range(q) = {q[k] : k \in 1 .. Len(q)}
          /\ (IsInjective(q) <=> \A j, k \in 1 .. Len(q) : q[j] = q[k] => j = k)
      <4>1. q \in Seq(Tasks)
        BY <2>1
      <4> QED BY <4>1, RangeFacts
    <3>2. Len(q) = 2
      BY <2>1
    <3> QED BY <3>1, <3>2
  <2>3. \A t \in Range(q) : t \in {Idle, InitTask}
    BY <2>1, <2>2
  <2>4. IsInjective(q)
    BY <2>1, <2>2
  <2>5. status = [t \in Tasks |-> IF t \in {Idle, InitTask} THEN "RUNNING" ELSE "NONE"]
        /\ running = NULL /\ phase = "kernel"
    BY DEF ProgInit, LockInit, RRInit
  <2> QED BY <2>1, <2>3, <2>4, <2>5, RoundRobinAssumption DEF TurnInv, ReadyInv, States
<1>2. ProgramInv
  <2>1. 0 \in 0 .. Len(InitPrograms)
    <3>1. InitPrograms \in Seq({"sleep forever", "delay forever"})
      BY ProgramsAssumption
    <3>2. Len(InitPrograms) \in Nat
      BY <3>1, LenProperties
    <3> QED BY <3>2
  <2>2. {"boot", "none"} \subseteq Labels \ TestLabels /\ "none" \notin InitLabels
    BY DEF Labels, TestLabels, InitLabels
  <2>3. pc = [t \in Tasks |-> IF t = InitTask THEN "boot" ELSE "none"]
        /\ status = [t \in Tasks |-> IF t \in {Idle, InitTask} THEN "RUNNING" ELSE "NONE"]
    BY DEF ProgInit, LockInit, RRInit
  <2> QED BY <2>1, <2>2, <2>3, ProgramsAssumption DEF ProgInit, ProgramInv, Groups
<1>3. LineInv
  <2> SUFFICES ASSUME NEW m \in Locks
               PROVE  line[m] \in Seq(Tasks) /\ LineOf(m)
    BY DEF ProgInit, LockInit, LineInv
  <2> PICK none : none = <<>>
    OBVIOUS
  <2>1. 1 .. Len(none) = {} /\ Range(none) = {} /\ IsInjective(none) /\ none \in Seq(Tasks)
    BY EmptyFacts
  <2>2. line[m] = none
    BY DEF ProgInit, LockInit
  <2>3. \A t \in Tasks : ~Inside(t)
    BY DEF ProgInit, Inside
  <2>4. {t \in Tasks : Inside(t) /\ mutexId[group[t]] = m} = {}
    BY <2>3
  <2> QED BY <2>1, <2>2, <2>4, Zenon DEF LineOf
<1> QED BY <1>1, <1>2, <1>3 DEF ProgInv

LEMMA ProgStep ==
  ASSUME ProgInv, KeysLate, HoldersSpared, [ProgNext]_progSysVars
  PROVE  ProgInv'
<1>1. CASE UNCHANGED progSysVars
  <2>1. TurnInv' /\ CallKept
    BY <1>1, TurnKept DEF ProgInv, TurnInv, CallKept, progSysVars, lockServiceVars, rrVars
  <2> QED BY <1>1, <2>1, QuietStep DEF progSysVars, lockServiceVars
<1>2. CASE Program
  BY <1>2, InPlaceSteps, AllocStep, StartStep, LockStep, UnlockStep, LeaveStep DEF Program
<1>3. CASE Kernel
  BY <1>3, KernelKeeps
<1>4. CASE \E t \in Tasks, g \in TestGroups, type \in LockTypes, n \in Counts : KeyTest(t, g, type, n)
  BY <1>4, TestStarts
<1>5. CASE KeyExit
  BY <1>5, LeaveStep
<1> QED BY <1>1, <1>2, <1>3, <1>4, <1>5 DEF ProgNext

(* Of the processes of a group that use its mutex at most one is between   *)
(* mutex_lock and mutex_unlock in prog_test, if keys are pressed only      *)
(* after prog_init has allocated the mutexes and none of them kills a      *)
(* process that holds one.                                                 *)
THEOREM CriticalAlone == KeysLate /\ HoldersSpared /\ ProgSpec => []MutexExclusive
<1> SUFFICES ASSUME KeysLate, HoldersSpared
             PROVE  ProgSpec => []MutexExclusive
  OBVIOUS
<1>1. ProgInv /\ [ProgNext]_progSysVars => ProgInv'
  BY ProgStep
<1>2. ProgInv => MutexExclusive
  <2> SUFFICES ASSUME LineInv, ProgramInv, NEW t \in Tasks, NEW u \in Tasks,
                      InCritical(t, "mutex"), InCritical(u, "mutex"), group[t] = group[u]
               PROVE  t = u
    BY DEF ProgInv, MutexExclusive
  <2> DEFINE m == mutexId[group[t]]
             q == line[m]
  <2>1. m \in Locks
    BY DEF ProgramInv
  <2>2. q \in Seq(Tasks) /\ LineOf(m)
    BY <2>1 DEF LineInv
  <2>3. t \in Range(q) /\ u \in Range(q)
    BY <2>2 DEF LineOf, Inside, InCritical
  <2>4. PICK j, k \in 1 .. Len(q) : q[j] = t /\ q[k] = u
    BY <2>2, <2>3, RangeFacts
  <2>5. ~(j > 1) /\ ~(k > 1)
    BY <2>2, <2>4 DEF LineOf, InCritical
  <2>6. j = 1 /\ k = 1
    BY <2>2, <2>4, <2>5
  <2> QED BY <2>4, <2>6
<1> QED BY <1>1, <1>2, ProgBegins, PTL DEF ProgSpec

=============================================================================
