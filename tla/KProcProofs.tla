----------------------------- MODULE KProcProofs ----------------------------
(***************************************************************************)
(* The process table, the run queue and the scheduler, for every number of *)
(* table entries, every time slice and every set of keys.                  *)
(***************************************************************************)
EXTENDS KProc, SeqFacts

USE ProcAssumption

-----------------------------------------------------------------------------
(* The inductive invariant.                                                *)

(* A cleared entry has lost its id, so only entry 0 answers to id 0.       *)
ClearedHaveNoPid == \A i \in Entries \ Live : pid[i] = 0

(* current is never a process on the run queue: a call either sets it to   *)
(* NULL or, in a blocking receive, leaves it WAITING.                      *)
CurrentNotReady == current # NULL => state[current] \in {"ACTIVE", "WAITING"}

(* Only the running process can have used up its slice, and only between   *)
(* the tick and the scheduler.                                             *)
SliceLeft ==
  \A i \in Entries :
    \/ active_time[i] < PROC_TIMESLICE
    \/ kpc # "user" /\ i = current /\ state[i] = "ACTIVE" /\ active_time[i] = PROC_TIMESLICE

TableInv == FreeEntriesExact /\ ClearedHaveNoPid /\ PidsUnique
CurrentInv == OneActive /\ CurrentNotReady
KernelInv ==
  /\ TableTypeOK
  /\ TableInv
  /\ RunQueueExact
  /\ CurrentInv
  /\ SliceLeft
  /\ SleepersOnTime

-----------------------------------------------------------------------------
(* Consequences of the invariant that the steps rest on.                   *)

LEMMA EntriesFinite ==
  /\ IsFiniteSet(Entries)
  /\ Cardinality(Entries) = PROC_MAX
  /\ 0 \in Entries /\ 1 \in Entries /\ NULL \notin Entries
<1>1. IsFiniteSet(0 .. PROC_MAX - 1) /\ Cardinality(0 .. PROC_MAX - 1) = PROC_MAX
  BY FS_Interval
<1>2. QED
  BY <1>1 DEF Entries

(* The search by id finds the live process that has it: cleared entries do *)
(* not come in between.                                                    *)
LEMMA Lookup ==
  ASSUME TableTypeOK, ClearedHaveNoPid, PidsUnique, NEW i \in Live
  PROVE  EntriesOf(pid[i]) = {i}
<1>1. /\ pid[0] = 0
      /\ \A k \in Entries : pid[k] = pid[i] /\ pid[i] # 0 => k = i
      /\ pid[i] = 0 => i = 0
      /\ i \in Entries
  BY DEF ClearedHaveNoPid, PidsUnique, Live
<1>2. IsEntryOf(i, pid[i])
  BY <1>1 DEF IsEntryOf, Entries
<1>3. ASSUME NEW k \in Entries, IsEntryOf(k, pid[i])
      PROVE  k = i
  BY <1>1, <1>3 DEF IsEntryOf, Entries
<1>4. QED
  BY <1>1, <1>2, <1>3 DEF EntriesOf

(* A queue of process ids without repetition is no longer than the set of  *)
(* processes it draws from.                                                *)
LEMMA PidQueueBound ==
  ASSUME TableTypeOK, NEW R \in SUBSET Entries, NEW q \in Seq(Nat),
         IsInjective(q), Range(q) \subseteq {pid[i] : i \in R}
  PROVE  Len(q) <= Cardinality(R) /\ Cardinality(R) <= PROC_MAX
<1>1. IsFiniteSet(R) /\ Cardinality(R) <= PROC_MAX
  <2>1. IsFiniteSet(R) /\ Cardinality(R) <= Cardinality(Entries)
    BY EntriesFinite, FS_Subset
  <2>2. QED
    BY <2>1, EntriesFinite
<1>2. Cardinality(R) \in Nat /\ Len(q) \in Nat
  BY <1>1, FS_CardinalityType, LenProperties
<1>3. /\ \A k \in 1 .. Len(q) : q[k] \in {pid[i] : i \in R}
      /\ \A j, k \in 1 .. Len(q) : q[j] = q[k] => j = k
  <2>1. Range(q) = {q[k] : k \in 1 .. Len(q)}
    BY RangeFacts
  <2>2. \A j, k \in 1 .. Len(q) : q[j] = q[k] => j = k
    BY RangeFacts
  <2>3. QED
    BY <2>1, <2>2
<1> DEFINE entry == [k \in 1 .. Len(q) |-> CHOOSE i \in R : pid[i] = q[k]]
<1>4. /\ entry \in [1 .. Len(q) -> R]
      /\ \A k \in 1 .. Len(q) : pid[entry[k]] = q[k]
  <2>1. \A k \in 1 .. Len(q) : \E i \in R : pid[i] = q[k]
    BY <1>3
  <2>2. ASSUME NEW k \in 1 .. Len(q)
        PROVE  entry[k] \in R /\ pid[entry[k]] = q[k]
    <3>1. PICK i \in R : pid[i] = q[k]
      BY <2>1
    <3>2. QED
      BY <3>1, Zenon
  <2>3. QED
    BY <2>2
<1> HIDE DEF entry
<1>5. \A j, k \in 1 .. Len(q) : entry[j] = entry[k] => j = k
  BY <1>3, <1>4
<1>6. Len(q) <= Cardinality(R)
  BY <1>1, <1>2, <1>4, <1>5, InjectionBound
<1>7. QED
  BY <1>1, <1>6

(* While some process is not ready, the run queue has room for one more.   *)
LEMMA QueueRoom ==
  ASSUME TableTypeOK, RunQueueExact, NEW i \in Entries, state[i] # "RUNNING"
  PROVE  Len(run_queue) < QUEUE_SIZE
<1>1. Ready \in SUBSET Entries /\ Ready # Entries
  BY DEF Ready
<1>2. Cardinality(Ready) <= PROC_MAX /\ Len(run_queue) <= Cardinality(Ready)
  BY <1>1, PidQueueBound DEF RunQueueExact, TableTypeOK
<1>3. IsFiniteSet(Ready) /\ Cardinality(Ready) # PROC_MAX
  BY <1>1, EntriesFinite, FS_Subset
<1>4. Cardinality(Ready) \in Nat /\ Len(run_queue) \in Nat
  BY <1>3, FS_CardinalityType, LenProperties DEF TableTypeOK
<1>5. QED
  BY <1>2, <1>3, <1>4

(* While a process lives, proc_queue has room for its entry.               *)
LEMMA EntryRoom ==
  ASSUME TableTypeOK, FreeEntriesExact, NEW i \in Live
  PROVE  Len(proc_queue) < QUEUE_SIZE
<1>1. Entries \ Live \in SUBSET Entries /\ Entries \ Live # Entries
  BY DEF Live
<1>2. IsFiniteSet(Entries \ Live) /\ Cardinality(Entries \ Live) <= PROC_MAX
      /\ Cardinality(Entries \ Live) # PROC_MAX
  BY <1>1, EntriesFinite, FS_Subset
<1>3. Len(proc_queue) <= Cardinality(Entries \ Live)
  BY <1>2, InjectiveBound DEF FreeEntriesExact, TableTypeOK
<1>4. Cardinality(Entries \ Live) \in Nat /\ Len(proc_queue) \in Nat
  BY <1>2, FS_CardinalityType, LenProperties DEF TableTypeOK
<1>5. QED
  BY <1>2, <1>3, <1>4

(* A live process that is not ready is not on the run queue.               *)
LEMMA NotQueued ==
  ASSUME TableTypeOK, PidsUnique, RunQueueExact, NEW i \in Live, state[i] # "RUNNING"
  PROVE  pid[i] \notin Range(run_queue)
<1>1. \A j \in Ready : pid[j] # pid[i]
  BY DEF PidsUnique, Ready, Live
<1>2. QED
  BY <1>1 DEF RunQueueExact

(* scheduler_remove of a process that is not queued changes nothing.       *)
LEMMA RemoveAbsent ==
  ASSUME NEW q, NEW p, p \notin Range(q)
  PROVE  SchedulerRemove(q, p) = q
BY DEF SchedulerRemove

-----------------------------------------------------------------------------
(* One lemma per action: it preserves the invariant.                       *)

(* The invariant says nothing of where in its entry the kernel is once the *)
(* process has left the CPU.                                               *)
LEMMA PhaseStep ==
  ASSUME KernelInv, UNCHANGED <<timeVars, tableVars, schedVars>>,
         kpc' \in {"keyboard", "schedule", "halted"}
  PROVE  KernelInv'
<1> USE DEF timeVars, tableVars, schedVars
<1>1. TableTypeOK'
  BY DEF KernelInv, TableTypeOK
<1>2. TableInv'
  BY DEF KernelInv, TableInv, FreeEntriesExact, ClearedHaveNoPid, PidsUnique, Live
<1>3. RunQueueExact'
  BY DEF KernelInv, RunQueueExact, Ready
<1>4. CurrentInv'
  BY DEF KernelInv, CurrentInv, OneActive, CurrentNotReady
<1>5. SliceLeft'
  BY DEF KernelInv, SliceLeft
<1>6. SleepersOnTime'
  BY DEF SleepersOnTime
<1>7. QED
  BY <1>1, <1>2, <1>3, <1>4, <1>5, <1>6 DEF KernelInv

LEMMA TimerStep ==
  ASSUME KernelInv, Timer
  PROVE  KernelInv'
<1> USE DEF tableVars
<1>1. current \in Entries /\ state[current] = "ACTIVE"
  BY DEF KernelInv, Timer, CurrentInv, OneActive, TableTypeOK
<1>2. TableTypeOK'
  BY <1>1 DEF KernelInv, TableTypeOK, Timer
<1>3. TableInv'
  BY DEF KernelInv, TableInv, FreeEntriesExact, ClearedHaveNoPid, PidsUnique, Live, Timer
<1>4. RunQueueExact'
  BY DEF KernelInv, RunQueueExact, Ready, Timer
<1>5. CurrentInv'
  BY DEF KernelInv, CurrentInv, OneActive, CurrentNotReady, Timer
<1>6. SliceLeft'
  BY <1>1 DEF KernelInv, SliceLeft, Timer, TableTypeOK
<1>7. SleepersOnTime'
  BY DEF SleepersOnTime, Timer
<1>8. QED
  BY <1>2, <1>3, <1>4, <1>5, <1>6, <1>7 DEF KernelInv

(* The process that makes a call is live and not on the run queue.         *)
LEMMA CallerFacts ==
  ASSUME KernelInv, SystemCall
  PROVE  /\ current \in Live \ {0}
         /\ state[current] = "ACTIVE"
         /\ pid[current] \notin Range(run_queue)
         /\ Len(run_queue) < QUEUE_SIZE
<1>1. current \in Live /\ state[current] = "ACTIVE"
  BY DEF KernelInv, SystemCall, CurrentInv, OneActive, TableTypeOK, Live
<1>2. current # 0
  BY <1>1 DEF KernelInv, SystemCall, TableInv, PidsUnique
<1>3. pid[current] \notin Range(run_queue)
  BY <1>1, NotQueued DEF KernelInv, TableInv
<1>4. Len(run_queue) < QUEUE_SIZE
  BY <1>1, QueueRoom DEF KernelInv, Live
<1>5. QED
  BY <1>1, <1>2, <1>3, <1>4

LEMMA YieldStep ==
  ASSUME KernelInv, SyscallYield
  PROVE  KernelInv' /\ UNCHANGED fault
<1> USE DEF tableVars, timeVars
<1>1. /\ current \in Live \ {0}
      /\ state[current] = "ACTIVE"
      /\ pid[current] \notin Range(run_queue)
      /\ Len(run_queue) < QUEUE_SIZE
  BY CallerFacts DEF SyscallYield
<1>2. current \in Entries /\ pid[current] \in Nat /\ run_queue \in Seq(Nat)
  BY <1>1 DEF KernelInv, TableTypeOK, Live
<1>3. run_queue' = Append(run_queue, pid[current])
  BY <1>1 DEF SyscallYield, QueueIn
<1>4. kpc' = "keyboard" /\ UNCHANGED fault
  BY <1>1 DEF SyscallYield, Continue, QueueIsFull
<1>5. state' = [state EXCEPT ![current] = "RUNNING"] /\ current' = NULL
      /\ active_time' = [active_time EXCEPT ![current] = 0]
      /\ UNCHANGED <<system_time, next_pid, pid, proc_queue, wake_time>>
  BY DEF SyscallYield
<1>6. /\ run_queue' \in Seq(Nat)
      /\ Range(run_queue') = Range(run_queue) \cup {pid[current]}
      /\ IsInjective(run_queue')
  BY <1>1, <1>2, <1>3, AppendFacts DEF KernelInv, RunQueueExact
<1>7. Live' = Live /\ Ready' = Ready \cup {current}
  BY <1>1, <1>2, <1>5 DEF KernelInv, TableTypeOK, Live, Ready
<1>8. TableTypeOK'
  BY <1>2, <1>4, <1>5, <1>6 DEF KernelInv, TableTypeOK, States
<1>9. TableInv'
  BY <1>5, <1>7 DEF KernelInv, TableInv, FreeEntriesExact, ClearedHaveNoPid, PidsUnique
<1>10. RunQueueExact'
  BY <1>5, <1>6, <1>7 DEF KernelInv, RunQueueExact
<1>11. CurrentInv'
  BY <1>2, <1>4, <1>5 DEF KernelInv, CurrentInv, OneActive, CurrentNotReady, TableTypeOK
<1>12. SliceLeft'
  BY <1>2, <1>4, <1>5 DEF KernelInv, SliceLeft, TableTypeOK, SyscallYield, SystemCall
<1>13. SleepersOnTime'
  BY <1>4 DEF SleepersOnTime
<1>14. QED
  BY <1>4, <1>8, <1>9, <1>10, <1>11, <1>12, <1>13 DEF KernelInv

LEMMA SleepStep ==
  ASSUME KernelInv, NEW secs \in SleepSecs, SyscallSleep(secs)
  PROVE  KernelInv'
<1> USE DEF tableVars, timeVars
<1>1. /\ current \in Live \ {0}
      /\ state[current] = "ACTIVE"
      /\ pid[current] \notin Range(run_queue)
  BY CallerFacts DEF SyscallSleep
<1>2. current \in Entries /\ pid[current] \in Nat
  BY <1>1 DEF KernelInv, TableTypeOK, Live
<1>3. state' = [state EXCEPT ![current] = "SLEEPING"] /\ current' = NULL
      /\ active_time' = [active_time EXCEPT ![current] = 0]
      /\ wake_time' = [wake_time EXCEPT ![current] = system_time + CLK_TCK * secs]
      /\ kpc' = "keyboard"
      /\ UNCHANGED <<system_time, next_pid, pid, proc_queue, run_queue>>
  BY DEF SyscallSleep
<1>4. Live' = Live /\ Ready' = Ready
  BY <1>1, <1>2, <1>3 DEF KernelInv, TableTypeOK, Live, Ready
<1>5. TableTypeOK'
  <2>1. CLK_TCK \in Int /\ secs \in Int /\ system_time \in Int
    BY DEF KernelInv, TableTypeOK
  <2>2. system_time + CLK_TCK * secs \in Int
    BY <2>1
  <2>3. QED
    BY <1>2, <1>3, <2>2 DEF KernelInv, TableTypeOK, States
<1>6. TableInv'
  BY <1>3, <1>4 DEF KernelInv, TableInv, FreeEntriesExact, ClearedHaveNoPid, PidsUnique
<1>7. RunQueueExact'
  BY <1>3, <1>4 DEF KernelInv, RunQueueExact
<1>8. CurrentInv'
  BY <1>2, <1>3 DEF KernelInv, CurrentInv, OneActive, CurrentNotReady, TableTypeOK
<1>9. SliceLeft'
  BY <1>2, <1>3 DEF KernelInv, SliceLeft, TableTypeOK, SyscallSleep, SystemCall
<1>10. SleepersOnTime'
  BY <1>3 DEF SleepersOnTime
<1>11. QED
  BY <1>5, <1>6, <1>7, <1>8, <1>9, <1>10 DEF KernelInv

(* kproc_exec: the entry it takes is free, the id it gives is new, and the *)
(* run queue has room, so its only panic cannot happen.                    *)
LEMMA ExecStep ==
  ASSUME KernelInv, UNCHANGED timeVars,
         NEW next \in {"keyboard", "schedule"}, kproc_exec(next)
  PROVE  KernelInv' /\ UNCHANGED fault
<1> USE DEF timeVars
<1>1. CASE proc_queue = <<>>
  <2>1. UNCHANGED <<tableVars, schedVars, fault>> /\ kpc' = next
    BY <1>1 DEF kproc_exec
  <2>2. QED
    BY <2>1, PhaseStep
<1>2. CASE proc_queue # <<>>
  <2> DEFINE i == Head(proc_queue)
  <2>1. /\ proc_queue' = Tail(proc_queue)
        /\ next_pid' = next_pid + 1
        /\ FillEntry(i)
        /\ run_queue' = QueueIn(run_queue, next_pid)
        /\ Continue(next, ~QueueIsFull(run_queue), QueueFull)
        /\ UNCHANGED <<current, system_time>>
    BY <1>2 DEF kproc_exec
  <2>2. /\ i \in Entries \ Live
        /\ Tail(proc_queue) \in Seq(Entries)
        /\ IsInjective(Tail(proc_queue))
        /\ Range(Tail(proc_queue)) = (Entries \ Live) \ {i}
    BY <1>2, TailFacts DEF KernelInv, TableInv, FreeEntriesExact, TableTypeOK
  <2> HIDE DEF i
  <2>3. i \in Entries /\ state[i] = "NONE" /\ i # 0
    BY <2>2 DEF KernelInv, TableInv, PidsUnique, Live
  <2>4. next_pid \in Nat \ {0} /\ next_pid \notin {pid[j] : j \in Live}
    BY <2>3 DEF KernelInv, TableInv, PidsUnique, TableTypeOK, Live
  <2>5. next_pid \notin Range(run_queue)
    BY <2>4 DEF KernelInv, RunQueueExact, Ready, Live
  <2>6. Len(run_queue) < QUEUE_SIZE
    BY <2>3, QueueRoom DEF KernelInv
  <2>7. run_queue' = Append(run_queue, next_pid) /\ kpc' = next /\ UNCHANGED fault
    BY <2>1, <2>6 DEF QueueIn, Continue, QueueIsFull
  <2>8. /\ run_queue' \in Seq(Nat)
        /\ Range(run_queue') = Range(run_queue) \cup {next_pid}
        /\ IsInjective(run_queue')
    BY <2>4, <2>5, <2>7, AppendFacts DEF KernelInv, RunQueueExact, TableTypeOK
  <2>9. /\ pid' = [pid EXCEPT ![i] = next_pid]
        /\ state' = [state EXCEPT ![i] = "RUNNING"]
        /\ active_time' = [active_time EXCEPT ![i] = 0]
        /\ wake_time' = [wake_time EXCEPT ![i] = 0]
    BY <2>1 DEF FillEntry
  <2>10. Live' = Live \cup {i} /\ Ready' = Ready \cup {i}
    BY <2>3, <2>9 DEF KernelInv, TableTypeOK, Live, Ready
  <2>11. TableTypeOK'
    <3>1. next_pid' = next_pid + 1 /\ UNCHANGED <<current, system_time>>
      BY <2>1
    <3>2. proc_queue' \in Seq(Entries)
      BY <2>1, <2>2
    <3>3. kpc' \in {"user", "keyboard", "schedule", "halted"}
      BY <2>7
    <3>4. pid' \in [Entries -> Nat] /\ active_time' \in [Entries -> Nat]
      BY <2>3, <2>4, <2>9 DEF KernelInv, TableTypeOK
    <3>5. wake_time' \in [Entries -> Int]
      BY <2>3, <2>9 DEF KernelInv, TableTypeOK
    <3>6. state' \in [Entries -> States]
      BY <2>3, <2>9 DEF KernelInv, TableTypeOK, States
    <3>7. next_pid' \in Nat /\ system_time' \in Nat /\ current' \in Entries \cup {NULL}
      BY <2>4, <3>1 DEF KernelInv, TableTypeOK
    <3>8. QED
      BY <2>8, <3>2, <3>3, <3>4, <3>5, <3>6, <3>7 DEF TableTypeOK
  <2>12. TableInv'
    <3>1. FreeEntriesExact'
      BY <2>1, <2>2, <2>10 DEF FreeEntriesExact
    <3>2. ClearedHaveNoPid'
      BY <2>3, <2>9, <2>10 DEF KernelInv, TableInv, ClearedHaveNoPid, TableTypeOK
    <3>3. PidsUnique'
      <4>1. \A j \in Live : j # i /\ pid'[j] = pid[j] /\ j \in Entries
        BY <2>2, <2>9 DEF KernelInv, TableTypeOK, Live
      <4>2. pid'[i] = next_pid
        BY <2>3, <2>9 DEF KernelInv, TableTypeOK
      <4>3. \A j \in Live : pid[j] \in Nat
        BY DEF KernelInv, TableTypeOK, Live
      <4>4. QED
        BY <2>1, <2>3, <2>4, <2>10, <4>1, <4>2, <4>3 DEF KernelInv, TableInv, PidsUnique
    <3>4. QED
      BY <3>1, <3>2, <3>3 DEF TableInv
  <2>13. RunQueueExact'
    <3>1. \A j \in Ready : j # i /\ pid'[j] = pid[j]
      BY <2>3, <2>9 DEF KernelInv, TableTypeOK, Ready
    <3>2. pid'[i] = next_pid
      BY <2>3, <2>9 DEF KernelInv, TableTypeOK
    <3>3. QED
      BY <2>8, <2>10, <3>1, <3>2 DEF KernelInv, RunQueueExact
  <2>14. CurrentInv'
    BY <2>1, <2>3, <2>7, <2>9 DEF KernelInv, CurrentInv, OneActive, CurrentNotReady, TableTypeOK
  <2>15. SliceLeft'
    <3>1. PROC_TIMESLICE > 0
      OBVIOUS
    <3>2. ASSUME NEW j \in Entries, j # i
          PROVE  \/ active_time'[j] < PROC_TIMESLICE
                 \/ kpc' # "user" /\ j = current' /\ state'[j] = "ACTIVE"
                                  /\ active_time'[j] = PROC_TIMESLICE
      <4>1. active_time'[j] = active_time[j] /\ state'[j] = state[j]
        BY <2>9, <3>2 DEF KernelInv, TableTypeOK
      <4>2. QED
        BY <4>1, <2>1, <2>7, <3>2 DEF KernelInv, SliceLeft
    <3>3. active_time'[i] < PROC_TIMESLICE
      BY <2>3, <2>9, <3>1 DEF KernelInv, TableTypeOK
    <3>4. QED
      BY <3>2, <3>3 DEF SliceLeft
  <2>16. SleepersOnTime'
    BY <2>7 DEF SleepersOnTime
  <2>17. QED
    BY <2>7, <2>11, <2>12, <2>13, <2>14, <2>15, <2>16 DEF KernelInv
<1>3. QED
  BY <1>1, <1>2

(* kproc_exit: the process is not on the run queue, so scheduler_remove    *)
(* leaves it alone, and its entry goes back to the pool, once.             *)
LEMMA ExitStep ==
  ASSUME KernelInv, UNCHANGED timeVars,
         NEW next \in {"keyboard", "schedule"}, kproc_exit(next)
  PROVE  KernelInv' /\ (UNCHANGED fault \/ fault' = InvalidProcess)
<1> USE DEF timeVars
<1>1. CASE current = NULL
  <2>1. /\ UNCHANGED <<tableVars, schedVars>>
        /\ kpc' = "halted" /\ fault' = InvalidProcess
    BY <1>1, EntriesFinite DEF kproc_exit, Continue
  <2>2. QED
    BY <2>1, PhaseStep
<1>2. CASE current # NULL /\ pid[current] = 0
  <2>1. UNCHANGED <<tableVars, schedVars, fault>> /\ kpc' = next
    BY <1>2 DEF kproc_exit
  <2>2. QED
    BY <2>1, PhaseStep
<1>3. CASE current # NULL /\ pid[current] # 0
  <2>1. /\ current \in Live \ {0}
        /\ current \in Entries
        /\ state[current] # "RUNNING"
    BY <1>3 DEF KernelInv, CurrentInv, CurrentNotReady, TableInv, PidsUnique, TableTypeOK, Live
  <2>2. SchedulerRemove(run_queue, pid[current]) = run_queue
    BY <2>1, NotQueued, RemoveAbsent DEF KernelInv, TableInv
  <2>3. EntriesOf(pid[current]) = {current}
    BY <2>1, Lookup DEF KernelInv, TableInv
  <2>4. QueueIn(proc_queue, current) = Append(proc_queue, current)
    <3>1. Len(proc_queue) < QUEUE_SIZE
      BY <2>1, EntryRoom DEF KernelInv, TableInv
    <3>2. QED
      BY <3>1 DEF QueueIn
  <2>5. /\ run_queue' = run_queue
        /\ proc_queue' = Append(proc_queue, current)
        /\ ClearEntry(current)
        /\ current' = NULL
        /\ kpc' = next
        /\ UNCHANGED <<next_pid, fault, system_time>>
    BY <1>3, <2>2, <2>3, <2>4 DEF kproc_exit
  <2>6. /\ proc_queue' \in Seq(Entries)
        /\ Range(proc_queue') = (Entries \ Live) \cup {current}
        /\ IsInjective(proc_queue')
    BY <2>1, <2>5, AppendFacts DEF KernelInv, TableInv, FreeEntriesExact, TableTypeOK
  <2>7. /\ pid' = [pid EXCEPT ![current] = 0]
        /\ state' = [state EXCEPT ![current] = "NONE"]
        /\ active_time' = [active_time EXCEPT ![current] = 0]
        /\ wake_time' = [wake_time EXCEPT ![current] = 0]
    BY <2>5 DEF ClearEntry
  <2>8. Live' = Live \ {current} /\ Ready' = Ready
    BY <2>1, <2>7 DEF KernelInv, TableTypeOK, Live, Ready
  <2>9. TableTypeOK'
    BY <2>1, <2>5, <2>6, <2>7 DEF KernelInv, TableTypeOK, States
  <2>10. \A j \in Entries \ {current} : pid'[j] = pid[j]
    BY <2>7 DEF KernelInv, TableTypeOK
  <2>11. TableInv'
    <3>1. FreeEntriesExact'
      BY <2>1, <2>6, <2>8 DEF FreeEntriesExact
    <3>2. ClearedHaveNoPid'
      BY <2>1, <2>7, <2>8 DEF KernelInv, TableInv, ClearedHaveNoPid, TableTypeOK
    <3>3. PidsUnique'
      BY <2>1, <2>5, <2>8, <2>10 DEF KernelInv, TableInv, PidsUnique, Live
    <3>4. QED
      BY <3>1, <3>2, <3>3 DEF TableInv
  <2>12. RunQueueExact'
    <3>1. \A j \in Ready : pid'[j] = pid[j]
      BY <2>1, <2>10 DEF Ready
    <3>2. QED
      BY <2>5, <2>8, <3>1 DEF KernelInv, RunQueueExact
  <2>13. CurrentInv'
    BY <2>1, <2>5, <2>7 DEF KernelInv, CurrentInv, OneActive, CurrentNotReady, TableTypeOK
  <2>14. SliceLeft'
    <3>1. active_time'[current] < PROC_TIMESLICE
      BY <2>1, <2>7 DEF KernelInv, TableTypeOK
    <3>2. ASSUME NEW j \in Entries, j # current
          PROVE  active_time'[j] < PROC_TIMESLICE
      BY <2>7, <3>2 DEF KernelInv, TableTypeOK, SliceLeft
    <3>3. QED
      BY <3>1, <3>2 DEF SliceLeft
  <2>15. SleepersOnTime'
    BY <2>5 DEF SleepersOnTime
  <2>16. QED
    BY <2>5, <2>9, <2>11, <2>12, <2>13, <2>14, <2>15 DEF KernelInv
<1>4. QED
  BY <1>1, <1>2, <1>3

(* The sleepers that are due, one after the other.                         *)
LEMMA WokenFacts ==
  ASSUME TableTypeOK, NEW woken \in InTableOrder(Due)
  PROVE  LET ids == [k \in DOMAIN woken |-> pid[woken[k]]]
         IN  /\ ids \in Seq(Nat)
             /\ Range(ids) = {pid[i] : i \in Due}
             /\ PidsUnique => IsInjective(ids)
<1> DEFINE n == Cardinality(Due)
           ids == [k \in DOMAIN woken |-> pid[woken[k]]]
<1>1. Due \subseteq Entries /\ n \in Nat
  <2>1. Due \subseteq Entries
    BY DEF Due
  <2>2. IsFiniteSet(Due)
    BY <2>1, EntriesFinite, FS_Subset
  <2>3. QED
    BY <2>1, <2>2, FS_CardinalityType
<1>2. /\ woken \in [1 .. n -> Due]
      /\ Range(woken) = Due
      /\ \A a, b \in DOMAIN woken : a < b => woken[a] < woken[b]
  BY DEF InTableOrder
<1> HIDE DEF n
<1>3. DOMAIN woken = 1 .. n /\ \A k \in 1 .. n : woken[k] \in Due
  BY <1>2
<1>4. \A i \in Due : \E k \in 1 .. n : woken[k] = i
  BY <1>2, <1>3 DEF Range
<1>5. \A k \in 1 .. n : pid[woken[k]] \in Nat
  BY <1>1, <1>3 DEF TableTypeOK
<1>6. ids \in [1 .. n -> Nat] /\ \A k \in 1 .. n : ids[k] = pid[woken[k]]
  BY <1>3, <1>5
<1>7. DOMAIN ids = 1 .. n
  BY <1>3
<1> HIDE DEF ids
<1>8. ids \in Seq(Nat)
  BY <1>1, <1>6, SeqDef
<1>9. Range(ids) = {pid[i] : i \in Due}
  <2>1. Range(ids) = {ids[k] : k \in 1 .. n}
    BY <1>7 DEF Range
  <2>2. QED
    BY <2>1, <1>3, <1>4, <1>6
<1>10. ASSUME PidsUnique
       PROVE  IsInjective(ids)
  <2>1. Due \subseteq Live
    BY DEF Due, Live
  <2>2. ASSUME NEW a \in 1 .. n, NEW b \in 1 .. n, ids[a] = ids[b]
        PROVE  a = b
    <3>1. woken[a] = woken[b]
      BY <1>3, <1>6, <1>10, <2>1, <2>2 DEF PidsUnique
    <3>2. woken[a] \in Int /\ woken[b] \in Int
      <4>1. woken[a] \in Entries /\ woken[b] \in Entries
        BY <1>1, <1>3
      <4>2. QED
        BY <4>1 DEF Entries
    <3>3. ~(a < b) /\ ~(b < a)
      BY <1>2, <1>3, <3>1, <3>2
    <3>4. QED
      BY <1>1, <3>3
  <2>3. QED
    BY <2>2, <1>7 DEF IsInjective
<1>11. QED
  BY <1>8, <1>9, <1>10 DEF ids

(* What scheduler_run makes ready comes from three places that share no    *)
(* process: those queued before, the one that loses the CPU, the sleepers. *)
LEMMA ReadyQueueFacts ==
  ASSUME KernelInv, NEW woken \in InTableOrder(Due)
  PROVE  /\ ReadyQueue(woken) \in Seq(Nat)
         /\ IsInjective(ReadyQueue(woken))
         /\ Range(ReadyQueue(woken)) \subseteq {pid[i] : i \in Ready \cup Readied}
         /\ {pid[i] : i \in (Ready \cup Readied) \ {0}} \subseteq Range(ReadyQueue(woken))
         /\ Len(ReadyQueue(woken)) <= QUEUE_SIZE
         /\ Ready \cup Readied \subseteq Live
         /\ \E added \in Seq(Nat) :
              /\ ReadyQueue(woken) = run_queue \o added
              /\ Range(added) = Range(Requeued) \cup {pid[i] : i \in Due}
<1> DEFINE ids == [k \in DOMAIN woken |-> pid[woken[k]]]
           gone == {i \in Entries : i = current /\ SliceOver}
<1>1. /\ ids \in Seq(Nat)
      /\ Range(ids) = {pid[i] : i \in Due}
      /\ IsInjective(ids)
  BY WokenFacts DEF KernelInv, TableInv
<1>2. ReadyQueue(woken) = (run_queue \o Requeued) \o ids
  BY ConcatAssociative, <1>1 DEF ReadyQueue
<1> HIDE DEF ids
<1>3. /\ SliceOver => current \in Entries /\ state[current] = "ACTIVE"
      /\ Readied = Due \cup gone
      /\ Due \subseteq Entries
  BY DEF SliceOver, StillActive, KernelInv, TableTypeOK, Readied, Due
<1>4. /\ Ready \subseteq Live /\ Due \subseteq Live /\ gone \subseteq Live
      /\ Ready \cap Due = {} /\ Ready \cap gone = {} /\ Due \cap gone = {}
  BY <1>3 DEF Ready, Due, Live
<1>5. /\ Requeued \in Seq(Nat)
      /\ IsInjective(Requeued)
      /\ Range(Requeued) \subseteq {pid[i] : i \in gone}
      /\ {pid[i] : i \in gone \ {0}} \subseteq Range(Requeued)
  <2>1. CASE SliceOver /\ pid[current] # 0
    <3>1. Requeued = <<pid[current]>> /\ gone = {current} /\ pid[current] \in Nat
      BY <2>1, <1>3 DEF Requeued, KernelInv, TableTypeOK
    <3>2. QED
      BY <3>1 DEF IsInjective, Range
  <2>2. CASE ~(SliceOver /\ pid[current] # 0)
    <3>1. Requeued = <<>>
      BY <2>2 DEF Requeued
    <3>2. gone \subseteq {0}
      BY <2>2, <1>3, <1>4 DEF KernelInv, TableInv, PidsUnique
    <3>3. <<>> \in Seq(Nat) /\ IsInjective(<<>>) /\ Range(<<>>) = {}
      BY DEF IsInjective, Range
    <3>4. QED
      BY <3>1, <3>2, <3>3
  <2>3. QED
    BY <2>1, <2>2
<1> HIDE DEF gone
<1>6. \A i, j \in Live : pid[i] = pid[j] => i = j
  BY DEF KernelInv, TableInv, PidsUnique
<1>7. /\ run_queue \in Seq(Nat)
      /\ IsInjective(run_queue)
      /\ Range(run_queue) \subseteq {pid[i] : i \in Ready}
      /\ {pid[i] : i \in Ready \ {0}} \subseteq Range(run_queue)
  BY DEF KernelInv, TableTypeOK, RunQueueExact
<1>8. /\ run_queue \o Requeued \in Seq(Nat)
      /\ Range(run_queue \o Requeued) = Range(run_queue) \cup Range(Requeued)
      /\ IsInjective(run_queue \o Requeued)
  <2>1. Range(run_queue) \cap Range(Requeued) = {}
    BY <1>4, <1>5, <1>6, <1>7
  <2>2. QED
    BY <2>1, <1>5, <1>7, ConcatFacts
<1>9. /\ ReadyQueue(woken) \in Seq(Nat)
      /\ Range(ReadyQueue(woken)) = Range(run_queue) \cup Range(Requeued) \cup Range(ids)
      /\ IsInjective(ReadyQueue(woken))
  <2> DEFINE queued == run_queue \o Requeued
  <2>1. /\ queued \in Seq(Nat)
        /\ Range(queued) = Range(run_queue) \cup Range(Requeued)
        /\ IsInjective(queued)
        /\ ReadyQueue(woken) = queued \o ids
    BY <1>2, <1>8
  <2> HIDE DEF queued
  <2>2. ASSUME NEW x \in Range(queued), x \in Range(ids)
        PROVE  FALSE
    <3>1. PICK i \in Ready \cup gone : x = pid[i]
      BY <2>1, <1>5, <1>7
    <3>2. PICK j \in Due : x = pid[j]
      BY <2>2, <1>1
    <3>3. i = j
      BY <3>1, <3>2, <1>4, <1>6
    <3>4. QED
      BY <3>3, <1>4
  <2>3. Range(queued) \cap Range(ids) = {}
    BY <2>2
  <2>4. /\ queued \o ids \in Seq(Nat)
        /\ Range(queued \o ids) = Range(queued) \cup Range(ids)
        /\ IsInjective(queued \o ids)
    <3>1. queued \in Seq(Nat) /\ IsInjective(queued)
      BY <2>1
    <3>2. ids \in Seq(Nat) /\ IsInjective(ids)
      BY <1>1
    <3>3. /\ queued \o ids \in Seq(Nat)
          /\ Range(queued \o ids) = Range(queued) \cup Range(ids)
          /\ IsInjective(queued) /\ IsInjective(ids) /\ Range(queued) \cap Range(ids) = {}
               => IsInjective(queued \o ids)
      BY <3>1, <3>2, ConcatFacts
    <3>4. QED
      BY <3>1, <3>2, <3>3, <2>3
  <2>5. QED
    BY <2>1, <2>4
<1>10. /\ Range(ReadyQueue(woken)) \subseteq {pid[i] : i \in Ready \cup Readied}
       /\ {pid[i] : i \in (Ready \cup Readied) \ {0}} \subseteq Range(ReadyQueue(woken))
       /\ Ready \cup Readied \subseteq Live
  BY <1>1, <1>3, <1>4, <1>5, <1>7, <1>9
<1>11. Len(ReadyQueue(woken)) <= QUEUE_SIZE
  <2>1. Ready \cup Readied \in SUBSET Entries
    BY <1>10 DEF Live
  <2>2. /\ Len(ReadyQueue(woken)) <= Cardinality(Ready \cup Readied)
        /\ Cardinality(Ready \cup Readied) <= PROC_MAX
    BY <2>1, <1>9, <1>10, PidQueueBound DEF KernelInv
  <2>3. Cardinality(Ready \cup Readied) \in Nat
    BY <2>1, EntriesFinite, FS_Subset, FS_CardinalityType
  <2>4. Len(ReadyQueue(woken)) \in Nat
    BY <1>9, LenProperties
  <2>5. QED
    BY <2>2, <2>3, <2>4
<1>12. \E added \in Seq(Nat) :
         /\ ReadyQueue(woken) = run_queue \o added
         /\ Range(added) = Range(Requeued) \cup {pid[i] : i \in Due}
  <2>1. (run_queue \o Requeued) \o ids = run_queue \o (Requeued \o ids)
    <3>1. run_queue \in Seq(Nat) /\ Requeued \in Seq(Nat) /\ ids \in Seq(Nat)
      BY <1>1, <1>5, <1>7
    <3>2. QED
      BY <3>1, ConcatAssociative, SMTT(60)
  <2>2. /\ Requeued \o ids \in Seq(Nat)
        /\ Range(Requeued \o ids) = Range(Requeued) \cup Range(ids)
    BY <1>1, <1>5, ConcatFacts
  <2>3. QED
    BY <2>1, <2>2, <1>1, <1>2
<1>13. QED
  BY <1>9, <1>10, <1>11, <1>12

(* scheduler_run keeps the process that runs, or takes the first one from  *)
(* the queue of the ready processes, or falls back on the idle task.       *)
Picks(ready, i) ==
  /\ Dispatch(i)
  /\ \/ /\ StillActive /\ ~SliceOver
        /\ i = current /\ run_queue' = ready
     \/ /\ ~StillActive \/ SliceOver
        /\ ready = <<>> /\ i = 0 /\ run_queue' = <<>>
     \/ /\ ~StillActive \/ SliceOver
        /\ ready # <<>> /\ pid[i] = Head(ready) /\ run_queue' = Tail(ready)

(* scheduler_run always finds a process; none of its panics happens.       *)
LEMMA SchedulerFinds ==
  ASSUME KernelInv, SchedulerRun
  PROVE  /\ kpc' = "user"
         /\ UNCHANGED fault
         /\ \E woken \in InTableOrder(Due), i \in Live : Picks(ReadyQueue(woken), i)
<1>1. PICK woken \in InTableOrder(Due) :
        LET ready == ReadyQueue(woken)
            found == EntriesOf(NextPid(ready))
        IN  \/ /\ StillActive /\ ~SliceOver
               /\ Dispatch(current)
               /\ run_queue' = ready
               /\ Continue("user", Len(ready) <= QUEUE_SIZE, QueueFull)
            \/ /\ ~StillActive \/ SliceOver
               /\ IF found = {}
                  THEN UNCHANGED <<current, state>>
                  ELSE \E i \in found : Dispatch(i)
               /\ run_queue' = IF ready = <<>> THEN ready ELSE Tail(ready)
               /\ IF Len(ready) > QUEUE_SIZE
                  THEN Continue("user", FALSE, QueueFull)
                  ELSE Continue("user", found # {}, Unschedulable)
  BY DEF SchedulerRun
<1> DEFINE ready == ReadyQueue(woken)
<1>2. /\ ready \in Seq(Nat)
      /\ IsInjective(ready)
      /\ Range(ready) \subseteq {pid[j] : j \in Ready \cup Readied}
      /\ Len(ready) \in Nat /\ Len(ready) <= QUEUE_SIZE
      /\ Ready \cup Readied \subseteq Live
  BY ReadyQueueFacts, LenProperties
<1>3. CASE StillActive /\ ~SliceOver
  <2>1. /\ Dispatch(current)
        /\ run_queue' = ready
        /\ Continue("user", Len(ready) <= QUEUE_SIZE, QueueFull)
    BY <1>1, <1>3
  <2>2. kpc' = "user" /\ UNCHANGED fault
    BY <2>1, <1>2 DEF Continue
  <2>3. current \in Live
    BY <1>3 DEF StillActive, KernelInv, TableTypeOK, Live
  <2>4. QED
    BY <1>3, <2>1, <2>2, <2>3 DEF Picks
<1>4. CASE ~StillActive \/ SliceOver
  <2> DEFINE found == EntriesOf(NextPid(ready))
  <2>1. /\ IF found = {}
           THEN UNCHANGED <<current, state>>
           ELSE \E i \in found : Dispatch(i)
        /\ run_queue' = IF ready = <<>> THEN ready ELSE Tail(ready)
        /\ IF Len(ready) > QUEUE_SIZE
           THEN Continue("user", FALSE, QueueFull)
           ELSE Continue("user", found # {}, Unschedulable)
    BY <1>1, <1>4
  <2>2. PICK i \in Live : /\ pid[i] = NextPid(ready)
                          /\ ready = <<>> => i = 0
    <3> HIDE DEF ready
    <3>1. CASE ready = <<>>
      BY <3>1 DEF NextPid, KernelInv, TableInv, PidsUnique
    <3>2. CASE ready # <<>>
      BY <3>2, <1>2, TailFacts DEF NextPid
    <3>3. QED
      BY <3>1, <3>2
  <2>3. found = {i}
    BY <2>2, Lookup DEF KernelInv, TableInv
  <2> HIDE DEF found
  <2>4. Dispatch(i)
    BY <2>1, <2>3
  <2>5. kpc' = "user" /\ UNCHANGED fault
    BY <2>1, <2>3, <1>2 DEF Continue
  <2>6. \/ ready = <<>> /\ i = 0 /\ run_queue' = <<>>
        \/ ready # <<>> /\ pid[i] = Head(ready) /\ run_queue' = Tail(ready)
    BY <2>1, <2>2 DEF NextPid
  <2>7. QED
    BY <1>4, <2>4, <2>5, <2>6 DEF Picks
<1>5. QED
  BY <1>3, <1>4

(* The process that is picked leaves the run queue, and no other does.     *)
LEMMA SchedulerPicks ==
  ASSUME KernelInv, SchedulerRun
  PROVE  \E i \in Live :
           /\ Dispatch(i)
           /\ i = current \/ ~StillActive \/ SliceOver
           /\ run_queue' \in Seq(Nat)
           /\ IsInjective(run_queue')
           /\ Range(run_queue') \subseteq {pid[j] : j \in (Ready \cup Readied) \ {i}}
           /\ {pid[j] : j \in (Ready \cup Readied) \ {0, i}} \subseteq Range(run_queue')
<1>1. PICK woken \in InTableOrder(Due), i \in Live : Picks(ReadyQueue(woken), i)
  BY SchedulerFinds
<1> DEFINE ready == ReadyQueue(woken)
           All == Ready \cup Readied
<1>2. /\ ready \in Seq(Nat)
      /\ IsInjective(ready)
      /\ Range(ready) \subseteq {pid[j] : j \in All}
      /\ {pid[j] : j \in All \ {0}} \subseteq Range(ready)
      /\ All \subseteq Live
  BY ReadyQueueFacts
<1>3. \A j, k \in Live : pid[j] = pid[k] => j = k
  BY DEF KernelInv, TableInv, PidsUnique
<1>4. CASE StillActive /\ ~SliceOver /\ i = current /\ run_queue' = ready
  <2>1. i \notin All
    BY <1>4 DEF StillActive, Ready, Readied, Due
  <2> HIDE DEF ready, All
  <2>2. /\ Range(run_queue') \subseteq {pid[j] : j \in All \ {i}}
        /\ {pid[j] : j \in All \ {0, i}} \subseteq Range(run_queue')
    BY <1>2, <1>4, <2>1
  <2>3. QED
    BY <1>1, <1>2, <1>4, <2>2 DEF All, Picks
<1>5. CASE /\ ~StillActive \/ SliceOver
           /\ ready = <<>> /\ i = 0 /\ run_queue' = <<>>
  <2>1. Range(<<>>) = {} /\ IsInjective(<<>>)
    BY DEF Range, IsInjective
  <2> HIDE DEF ready, All
  <2>2. All \subseteq {0}
    BY <1>2, <1>5, <2>1
  <2>3. QED
    BY <1>1, <1>5, <2>1, <2>2, EmptySeq DEF All, Picks
<1>6. CASE /\ ~StillActive \/ SliceOver
           /\ ready # <<>> /\ pid[i] = Head(ready) /\ run_queue' = Tail(ready)
  <2> HIDE DEF ready, All
  <2>1. /\ run_queue' \in Seq(Nat)
        /\ IsInjective(run_queue')
        /\ Range(run_queue') = Range(ready) \ {pid[i]}
    BY <1>2, <1>6, TailFacts
  <2>2. /\ Range(run_queue') \subseteq {pid[j] : j \in All \ {i}}
        /\ {pid[j] : j \in All \ {0, i}} \subseteq Range(run_queue')
    BY <1>2, <1>3, <2>1
  <2>3. QED
    BY <1>1, <1>6, <2>1, <2>2 DEF All, Picks
<1>7. QED
  BY <1>1, <1>4, <1>5, <1>6 DEF Picks

LEMMA SchedulerStep ==
  ASSUME KernelInv, SchedulerRun
  PROVE  KernelInv' /\ UNCHANGED fault
<1> USE DEF timeVars, tableVars
<1>1. kpc' = "user" /\ UNCHANGED fault
  BY SchedulerFinds
<1>2. PICK i \in Live :
        /\ Dispatch(i)
        /\ i = current \/ ~StillActive \/ SliceOver
        /\ run_queue' \in Seq(Nat)
        /\ IsInjective(run_queue')
        /\ Range(run_queue') \subseteq {pid[j] : j \in (Ready \cup Readied) \ {i}}
        /\ {pid[j] : j \in (Ready \cup Readied) \ {0, i}} \subseteq Range(run_queue')
  BY SchedulerPicks
<1>3. /\ active_time' = [j \in Entries |-> IF j \in Readied THEN 0 ELSE active_time[j]]
      /\ wake_time' = [j \in Entries |-> IF j \in Due THEN 0 ELSE wake_time[j]]
      /\ UNCHANGED <<system_time, next_pid, pid, proc_queue>>
  BY DEF SchedulerRun
<1>4. /\ current' = i
      /\ state' = [j \in Entries |-> IF j = i THEN "ACTIVE"
                                     ELSE IF j \in Readied THEN "RUNNING"
                                     ELSE state[j]]
  BY <1>2 DEF Dispatch
<1>5. /\ i \in Entries
      /\ Readied \subseteq Live
      /\ Due \subseteq Readied
      /\ SliceOver => current \in Readied
  BY <1>2 DEF Readied, Due, SliceOver, StillActive, Live, KernelInv, TableTypeOK
<1>6. Live' = Live /\ Ready' = (Ready \cup Readied) \ {i}
  BY <1>2, <1>4, <1>5 DEF Live, Ready, KernelInv, TableTypeOK
<1>7. TableTypeOK'
  BY <1>1, <1>2, <1>3, <1>4, <1>5 DEF KernelInv, TableTypeOK, States
<1>8. TableInv'
  BY <1>3, <1>6 DEF KernelInv, TableInv, FreeEntriesExact, ClearedHaveNoPid, PidsUnique
<1>9. RunQueueExact'
  <2>1. {pid'[j] : j \in Ready'} = {pid[j] : j \in (Ready \cup Readied) \ {i}}
    BY <1>3, <1>6
  <2>2. {pid'[j] : j \in Ready' \ {0}} = {pid[j] : j \in (Ready \cup Readied) \ {0, i}}
    BY <1>3, <1>6
  <2>3. QED
    BY <1>2, <2>1, <2>2 DEF RunQueueExact
<1>10. CurrentInv'
  <2>1. ASSUME NEW j \in Entries, j # i, state'[j] = "ACTIVE"
        PROVE  FALSE
    <3>1. j \notin Readied /\ state[j] = "ACTIVE"
      BY <1>4, <2>1
    <3>2. j = current /\ StillActive
      BY <3>1, EntriesFinite DEF KernelInv, CurrentInv, OneActive, StillActive
    <3>3. QED
      BY <1>2, <1>5, <2>1, <3>1, <3>2
  <2>2. state'[i] = "ACTIVE" /\ current' # NULL
    BY <1>4, <1>5, EntriesFinite
  <2>3. QED
    BY <1>4, <2>1, <2>2 DEF CurrentInv, OneActive, CurrentNotReady
<1>11. SliceLeft'
  <2>1. ASSUME NEW j \in Entries
        PROVE  active_time'[j] < PROC_TIMESLICE
    <3>1. CASE j \in Readied
      BY <1>3, <3>1
    <3>2. CASE j \notin Readied
      <4>1. active_time'[j] = active_time[j]
        BY <1>3, <3>2
      <4>2. ~(j = current /\ state[j] = "ACTIVE" /\ active_time[j] = PROC_TIMESLICE)
        BY <1>5, <3>2, EntriesFinite DEF SliceOver, StillActive
      <4>3. QED
        BY <4>1, <4>2 DEF KernelInv, SliceLeft
    <3>3. QED
      BY <3>1, <3>2
  <2>2. QED
    BY <2>1 DEF SliceLeft
<1>12. SleepersOnTime'
  <2>1. ASSUME NEW j \in Entries, state'[j] = "SLEEPING"
        PROVE  wake_time'[j] > system_time'
    <3>1. state[j] = "SLEEPING" /\ j \notin Due
      BY <1>4, <1>5, <2>1
    <3>2. ~(wake_time[j] <= system_time) /\ wake_time'[j] = wake_time[j]
      BY <1>3, <3>1 DEF Due
    <3>3. QED
      BY <1>3, <3>2 DEF KernelInv, TableTypeOK
  <2>2. QED
    BY <2>1 DEF SleepersOnTime
<1>13. QED
  BY <1>1, <1>7, <1>8, <1>9, <1>10, <1>11, <1>12 DEF KernelInv

-----------------------------------------------------------------------------
(* The invariant holds at boot and is preserved by every step.             *)

LEMMA InitInv == ProcInit => KernelInv
<1> SUFFICES ASSUME ProcInit
             PROVE  KernelInv
  OBVIOUS
<1> USE DEF ProcInit
<1>1. /\ 0 \in Entries /\ 1 \in Entries /\ NULL \notin Entries
      /\ Entries \ {0, 1} = 2 .. PROC_MAX - 1
  BY EntriesFinite DEF Entries
<1>2. Live = {0, 1} /\ Ready = {0, 1}
  BY <1>1 DEF Live, Ready
<1>3. proc_queue \in Seq(Entries)
  <2>1. PROC_MAX - 2 \in Nat /\ \A k \in 1 .. PROC_MAX - 2 : k + 1 \in Entries
    BY DEF Entries
  <2>2. proc_queue \in [1 .. PROC_MAX - 2 -> Entries]
    BY <2>1
  <2>3. QED
    BY <2>1, <2>2, SeqDef
<1>4. run_queue \in Seq(Nat) /\ Range(run_queue) = {0, 1} /\ IsInjective(run_queue)
  BY DEF BootQueue, Range, IsInjective
<1>5. TableTypeOK
  BY <1>1, <1>3, <1>4 DEF TableTypeOK, States
<1>6. TableInv
  <2>1. FreeEntriesExact
    <3>1. IsInjective(proc_queue)
      BY DEF IsInjective
    <3>2. Range(proc_queue) = {k + 1 : k \in 1 .. PROC_MAX - 2}
      BY DEF Range
    <3>3. {k + 1 : k \in 1 .. PROC_MAX - 2} = 2 .. PROC_MAX - 1
      <4>1. \A j \in 2 .. PROC_MAX - 1 : j - 1 \in 1 .. PROC_MAX - 2 /\ j = (j - 1) + 1
        OBVIOUS
      <4>2. QED
        BY <4>1
    <3>4. QED
      BY <1>1, <1>2, <3>1, <3>2, <3>3 DEF FreeEntriesExact
  <2>2. ClearedHaveNoPid
    BY <1>2 DEF ClearedHaveNoPid
  <2>3. PidsUnique
    BY <1>1, <1>2 DEF PidsUnique
  <2>4. QED
    BY <2>1, <2>2, <2>3 DEF TableInv
<1>7. RunQueueExact
  <2>1. pid[0] = 0 /\ pid[1] = 1
    BY <1>1
  <2>2. QED
    BY <1>2, <1>4, <2>1 DEF RunQueueExact
<1>8. CurrentInv
  BY <1>1 DEF CurrentInv, OneActive, CurrentNotReady
<1>9. SliceLeft
  BY DEF SliceLeft
<1>10. SleepersOnTime
  BY DEF SleepersOnTime
<1>11. QED
  BY <1>5, <1>6, <1>7, <1>8, <1>9, <1>10 DEF KernelInv

(* No step panics but kproc_exit without a process.                        *)
LEMMA NextInv ==
  ASSUME KernelInv, [ProcNext]_procVars
  PROVE  KernelInv' /\ (UNCHANGED fault \/ fault' = InvalidProcess)
<1>1. CASE Timer
  BY <1>1, TimerStep DEF Timer
<1>2. CASE SyscallQuery
  BY <1>2, PhaseStep DEF SyscallQuery
<1>3. CASE SyscallYield
  BY <1>3, YieldStep
<1>4. ASSUME NEW secs \in SleepSecs, SyscallSleep(secs)
      PROVE  KernelInv' /\ UNCHANGED fault
  BY <1>4, SleepStep DEF SyscallSleep
<1>5. CASE SyscallExec
  BY <1>5, ExecStep DEF SyscallExec
<1>6. CASE SyscallExit
  BY <1>6, ExitStep DEF SyscallExit
<1>7. CASE KeyNone
  BY <1>7, PhaseStep DEF KeyNone
<1>8. CASE KeyExec
  BY <1>8, ExecStep DEF KeyExec
<1>9. CASE KeyExit
  BY <1>9, ExitStep DEF KeyExit
<1>10. CASE KeyQuit
  BY <1>10, PhaseStep DEF KeyQuit
<1>11. CASE SchedulerRun
  BY <1>11, SchedulerStep
<1>12. CASE UNCHANGED procVars
  <2>1. UNCHANGED <<timeVars, tableVars, schedVars>> /\ UNCHANGED kpc /\ UNCHANGED fault
    BY <1>12 DEF procVars, kernelVars
  <2>2. TableTypeOK' /\ TableInv'
    BY <2>1 DEF KernelInv, TableTypeOK, TableInv, FreeEntriesExact, ClearedHaveNoPid,
                PidsUnique, Live, timeVars, tableVars, schedVars
  <2>3. RunQueueExact' /\ CurrentInv' /\ SliceLeft' /\ SleepersOnTime'
    BY <2>1 DEF KernelInv, RunQueueExact, Ready, CurrentInv, OneActive, CurrentNotReady,
                SliceLeft, SleepersOnTime, timeVars, tableVars, schedVars
  <2>4. QED
    BY <2>1, <2>2, <2>3 DEF KernelInv
<1>13. QED
  BY <1>1, <1>2, <1>3, <1>4, <1>5, <1>6, <1>7, <1>8, <1>9, <1>10, <1>11, <1>12 DEF ProcNext

(* What holds with the invariant in every state.                           *)
LEMMA SpecInv == ProcSpec => [](KernelInv /\ SchedulerNeverPanics)
<1>1. ProcInit => KernelInv /\ SchedulerNeverPanics
  BY InitInv DEF ProcInit, SchedulerNeverPanics
<1>2. KernelInv /\ SchedulerNeverPanics /\ [ProcNext]_procVars
        => (KernelInv /\ SchedulerNeverPanics)'
  BY NextInv DEF SchedulerNeverPanics
<1>3. QED
  BY <1>1, <1>2, PTL DEF ProcSpec

-----------------------------------------------------------------------------
(* What a step may do, beyond preserving the invariant.                    *)

(* The idle task makes no calls: it never sleeps, and after its turn at    *)
(* boot nothing puts it on the run queue again.                            *)
IdleAlone ==
  /\ state[0] \in {"RUNNING", "ACTIVE"}
  /\ 0 \in Range(run_queue) => run_queue = BootQueue /\ current = NULL /\ kpc = "schedule"

(* Every step but scheduler_run leaves the run queue alone or adds one     *)
(* process at its end, and ends no sleep.                                  *)
LEMMA HandlerSteps ==
  ASSUME KernelInv, [ProcNext]_procVars, ~SchedulerRun
  PROVE  /\ \/ run_queue' = run_queue
            \/ \E x \in Nat \ {0} : run_queue' = Append(run_queue, x)
         /\ state[0] = state'[0]
         /\ SleepersStay
         /\ kpc = "schedule" => UNCHANGED <<schedVars, kpc>>
<1>1. /\ 0 \in Live /\ state \in [Entries -> States]
      /\ pid \in [Entries -> Nat] /\ next_pid \in Nat \ {0}
  BY DEF KernelInv, TableInv, TableTypeOK, PidsUnique, Live
<1>2. ASSUME UNCHANGED <<run_queue, state>>, kpc = "schedule" => UNCHANGED <<schedVars, kpc>>
      PROVE  /\ \/ run_queue' = run_queue
                \/ \E x \in Nat \ {0} : run_queue' = Append(run_queue, x)
             /\ state[0] = state'[0]
             /\ SleepersStay
             /\ kpc = "schedule" => UNCHANGED <<schedVars, kpc>>
  BY <1>2 DEF SleepersStay
<1>3. CASE Timer
  BY <1>2, <1>3 DEF Timer
<1>4. CASE SyscallQuery \/ KeyNone \/ KeyQuit
  BY <1>2, <1>4 DEF SyscallQuery, SystemCall, KeyNone, KeyQuit, schedVars
<1>5. CASE SyscallYield
  <2>1. /\ current \in Live \ {0} /\ current \in Entries
        /\ state[current] = "ACTIVE"
        /\ Len(run_queue) < QUEUE_SIZE
    BY <1>5, CallerFacts DEF SyscallYield, Live
  <2>2. run_queue' = Append(run_queue, pid[current]) /\ pid[current] \in Nat \ {0}
    BY <1>1, <1>5, <2>1 DEF SyscallYield, SystemCall, QueueIn
  <2>3. state' = [state EXCEPT ![current] = "RUNNING"] /\ kpc = "user"
    BY <1>5 DEF SyscallYield, SystemCall
  <2>4. state[0] = state'[0] /\ SleepersStay
    BY <1>1, <2>1, <2>3 DEF SleepersStay
  <2>5. QED
    BY <2>2, <2>3, <2>4
<1>6. ASSUME NEW secs \in SleepSecs, SyscallSleep(secs)
      PROVE  /\ run_queue' = run_queue
             /\ state[0] = state'[0]
             /\ SleepersStay
             /\ kpc = "user"
  <2>1. current \in Live \ {0} /\ current \in Entries /\ state[current] = "ACTIVE"
    BY <1>6, CallerFacts DEF SyscallSleep, Live
  <2>2. /\ state' = [state EXCEPT ![current] = "SLEEPING"]
        /\ run_queue' = run_queue /\ kpc = "user"
    BY <1>6 DEF SyscallSleep, SystemCall
  <2>3. QED
    BY <1>1, <2>1, <2>2 DEF SleepersStay
<1>7. ASSUME NEW next \in {"keyboard", "schedule"}, kproc_exec(next)
      PROVE  /\ \/ run_queue' = run_queue
                \/ \E x \in Nat \ {0} : run_queue' = Append(run_queue, x)
             /\ state[0] = state'[0]
             /\ SleepersStay
  <2>1. CASE proc_queue = <<>>
    BY <1>7, <2>1 DEF kproc_exec, schedVars, SleepersStay
  <2>2. CASE proc_queue # <<>>
    <3>1. Head(proc_queue) \in Entries \ Live
      BY <2>2, TailFacts DEF KernelInv, TableInv, FreeEntriesExact, TableTypeOK
    <3>2. PICK i \in Entries \ Live : state' = [state EXCEPT ![i] = "RUNNING"]
      BY <1>7, <2>2, <3>1 DEF kproc_exec, FillEntry
    <3>3. run_queue' \in {run_queue, Append(run_queue, next_pid)}
      BY <1>7, <2>2 DEF kproc_exec, QueueIn
    <3>4. state[0] = state'[0] /\ SleepersStay
      BY <1>1, <3>2 DEF SleepersStay, Live
    <3>5. QED
      BY <1>1, <3>3, <3>4
  <2>3. QED
    BY <2>1, <2>2
<1>8. ASSUME NEW next \in {"keyboard", "schedule"}, kproc_exit(next)
      PROVE  run_queue' = run_queue /\ state[0] = state'[0] /\ SleepersStay
  <2>1. CASE current = NULL \/ pid[current] = 0
    BY <1>8, <2>1 DEF kproc_exit, schedVars, SleepersStay
  <2>2. CASE ~(current = NULL \/ pid[current] = 0)
    <3>1. current \in Live \ {0} /\ current \in Entries
          /\ state[current] \in {"ACTIVE", "WAITING"}
      BY <2>2 DEF KernelInv, CurrentInv, CurrentNotReady, TableInv, PidsUnique, TableTypeOK, Live
    <3>2. SchedulerRemove(run_queue, pid[current]) = run_queue
      BY <3>1, NotQueued, RemoveAbsent DEF KernelInv, TableInv
    <3>3. run_queue' = run_queue /\ state' = [state EXCEPT ![current] = "NONE"]
      BY <1>8, <2>2, <3>2 DEF kproc_exit, ClearEntry
    <3>4. QED
      BY <1>1, <3>1, <3>3 DEF SleepersStay
  <2>3. QED
    BY <2>1, <2>2
<1>9. CASE SyscallExec \/ KeyExec
  BY <1>7, <1>9 DEF SyscallExec, KeyExec, SystemCall
<1>10. CASE SyscallExit \/ KeyExit
  BY <1>8, <1>10 DEF SyscallExit, KeyExit, SystemCall
<1>11. CASE UNCHANGED procVars
  BY <1>2, <1>11 DEF procVars, schedVars, kernelVars
<1>12. QED
  BY <1>3, <1>4, <1>5, <1>6, <1>9, <1>10, <1>11 DEF ProcNext

(* What scheduler_run does, seen from the run queue and the sleepers.      *)
LEMMA SchedulerTurn ==
  ASSUME KernelInv, IdleAlone, SchedulerRun
  PROVE  IdleAlone' /\ SleepersStay /\ TakesTurns /\ IdleLast
<1>1. PICK woken \in InTableOrder(Due), i \in Live : Picks(ReadyQueue(woken), i)
  BY SchedulerFinds
<1> DEFINE ready == ReadyQueue(woken)
<1>2. /\ ready \in Seq(Nat)
      /\ IsInjective(ready)
      /\ Range(ready) \subseteq {pid[j] : j \in Ready \cup Readied}
      /\ Ready \cup Readied \subseteq Live
  BY ReadyQueueFacts
<1>3. PICK added \in Seq(Nat) : /\ ready = run_queue \o added
                                /\ Range(added) = Range(Requeued) \cup {pid[j] : j \in Due}
  BY ReadyQueueFacts
<1>4. /\ i \in Entries
      /\ current' = i
      /\ state' = [j \in Entries |-> IF j = i THEN "ACTIVE"
                                     ELSE IF j \in Readied THEN "RUNNING"
                                     ELSE state[j]]
  BY <1>1 DEF Picks, Dispatch, Live
<1>5. \/ /\ StillActive /\ ~SliceOver
         /\ i = current /\ run_queue' = ready
      \/ ready = <<>> /\ i = 0 /\ run_queue' = <<>>
      \/ ready # <<>> /\ pid[i] = Head(ready) /\ run_queue' = Tail(ready)
  BY <1>1 DEF Picks
<1>6. /\ 0 \in Live /\ 0 \in Entries
      /\ pid[0] = 0
      /\ \A j \in Live : pid[j] = 0 => j = 0
      /\ \A j, k \in Live : pid[j] = pid[k] => j = k
      /\ run_queue \in Seq(Nat)
  BY DEF KernelInv, TableInv, PidsUnique, TableTypeOK, Live
<1> HIDE DEF ready
<1>7. 0 \notin Range(added)
  <2>1. 0 \notin Range(Requeued)
    BY DEF Requeued, Range
  <2>2. Due \subseteq Live /\ 0 \notin Due
    BY DEF Due, Live, IdleAlone
  <2>3. QED
    BY <2>1, <2>2, <1>3, <1>6
<1>8. Range(ready) = Range(run_queue) \cup Range(added)
  BY <1>3, <1>6, ConcatFacts
<1>9. IdleAlone'
  <2>1. state'[0] \in {"RUNNING", "ACTIVE"}
    BY <1>4, <1>6 DEF IdleAlone
  <2>2. 0 \notin Range(run_queue')
    <3>1. CASE StillActive /\ ~SliceOver /\ i = current /\ run_queue' = ready
      BY <3>1, <1>7, <1>8 DEF IdleAlone, StillActive
    <3>2. CASE ready = <<>> /\ i = 0 /\ run_queue' = <<>>
      <4>1. Range(<<>>) = {}
        BY DEF Range
      <4>2. QED
        BY <4>1, <3>2
    <3>3. CASE ready # <<>> /\ pid[i] = Head(ready) /\ run_queue' = Tail(ready)
      <4>1. Range(run_queue') = Range(ready) \ {Head(ready)}
        BY <3>3, <1>2, TailFacts
      <4>2. CASE 0 \notin Range(run_queue)
        BY <4>1, <4>2, <1>7, <1>8
      <4>3. CASE 0 \in Range(run_queue)
        <5>1. run_queue # <<>> /\ Head(run_queue) = 0
          <6>1. run_queue = <<0, 1>>
            BY <4>3 DEF IdleAlone, BootQueue
          <6>2. <<0, 1>> # <<>> /\ Head(<<0, 1>>) = 0
            OBVIOUS
          <6>3. QED
            BY <6>1, <6>2
        <5>2. Head(ready) = 0
          BY <5>1, <1>3, <1>6, HeadTailOfConcat
        <5>3. QED
          BY <5>2, <4>1
      <4>4. QED
        BY <4>2, <4>3
    <3>4. QED
      BY <1>5, <3>1, <3>2, <3>3
  <2>3. QED
    BY <2>1, <2>2 DEF IdleAlone
<1>10. SleepersStay
  <2> SUFFICES ASSUME NEW j \in Entries, state[j] = "SLEEPING", state'[j] # "SLEEPING"
               PROVE  state'[j] \in {"RUNNING", "ACTIVE"} /\ wake_time[j] <= system_time
    BY DEF SleepersStay
  <2>1. state'[j] \in {"RUNNING", "ACTIVE"} /\ (j = i \/ j \in Readied)
    BY <1>4
  <2>2. j \in Readied => j \in Due
    BY DEF Readied, SliceOver, StillActive
  <2>3. j = i => j \in Readied
    <3>1. CASE StillActive /\ ~SliceOver /\ i = current /\ run_queue' = ready
      BY <3>1 DEF StillActive
    <3>2. CASE ready = <<>> /\ i = 0 /\ run_queue' = <<>>
      BY <3>2 DEF IdleAlone
    <3>3. CASE ready # <<>> /\ pid[i] = Head(ready) /\ run_queue' = Tail(ready)
      <4>1. Head(ready) \in Range(ready)
        BY <3>3, <1>2, TailFacts
      <4>2. i \in Ready \cup Readied
        <5>1. PICK k \in Ready \cup Readied : pid[k] = Head(ready)
          BY <4>1, <1>2
        <5>2. k \in Live /\ i \in Live
          BY <5>1, <1>1, <1>2
        <5>3. i = k
          BY <5>1, <5>2, <3>3, <1>6
        <5>4. QED
          BY <5>1, <5>3
      <4>3. QED
        BY <4>2 DEF Ready
    <3>4. QED
      BY <1>5, <3>1, <3>2, <3>3
  <2>4. QED
    BY <2>1, <2>2, <2>3 DEF Due
<1>11. TakesTurns
  <2>1. /\ SubSeq(run_queue, 0 + 1, Len(run_queue)) = run_queue
        /\ Len(run_queue) <= Len(ready)
        /\ SubSeq(ready, 1, Len(run_queue)) = run_queue
    BY <1>3, <1>6, SubSeqFull, PrefixOfConcat
  <2>2. CASE run_queue' = ready
    BY <2>1, <2>2 DEF TakesTurns
  <2>3. CASE ready = <<>> /\ run_queue' = <<>>
    BY <2>1, <2>3 DEF TakesTurns
  <2>4. CASE ready # <<>> /\ pid[i] = Head(ready) /\ run_queue' = Tail(ready) /\ run_queue = <<>>
    <3>1. /\ SubSeq(run_queue, 0 + 1, Len(run_queue)) = <<>>
          /\ Len(<<>>) = 0
          /\ SubSeq(run_queue', 1, 0) = <<>>
      BY <2>1, <2>4, SubSeqEmpty
    <3>2. Len(run_queue') \in Nat
      BY <2>4, <1>2, HeadTailProperties, LenProperties
    <3>3. LET kept == SubSeq(run_queue, 0 + 1, Len(run_queue))
          IN  Len(kept) <= Len(run_queue') /\ SubSeq(run_queue', 1, Len(kept)) = kept
      BY <3>1, <3>2
    <3>4. QED
      BY <3>3 DEF TakesTurns
  <2>5. CASE ready # <<>> /\ pid[i] = Head(ready) /\ run_queue' = Tail(ready) /\ run_queue # <<>>
    <3>1. /\ Head(ready) = Head(run_queue)
          /\ Tail(ready) = Tail(run_queue) \o added
      BY <2>5, <1>3, <1>6, HeadTailOfConcat
    <3>2. Tail(run_queue) \in Seq(Nat) /\ SubSeq(run_queue, 1 + 1, Len(run_queue)) = Tail(run_queue)
      BY <2>5, <1>6, HeadTailProperties, TailIsSubSeq
    <3>3. /\ Len(Tail(run_queue)) <= Len(run_queue')
          /\ SubSeq(run_queue', 1, Len(Tail(run_queue))) = Tail(run_queue)
      <4> DEFINE rest == Tail(run_queue)
      <4>1. rest \in Seq(Nat) /\ run_queue' = rest \o added
        BY <2>5, <3>1, <3>2
      <4> HIDE DEF rest
      <4>2. /\ Len(rest) <= Len(rest \o added)
            /\ SubSeq(rest \o added, 1, Len(rest)) = rest
        BY <4>1, PrefixOfConcat
      <4>3. QED
        BY <4>1, <4>2 DEF rest
    <3>4. current' # NULL /\ pid[current'] = Head(run_queue)
      BY <1>4, <2>5, <3>1, EntriesFinite
    <3>5. QED
      BY <3>2, <3>3, <3>4 DEF TakesTurns
  <2>6. QED
    BY <1>5, <2>2, <2>3, <2>4, <2>5
<1>12. IdleLast
  <2> SUFFICES ASSUME current' = 0, current # 0
               PROVE  run_queue' = <<>> \/ run_queue = BootQueue
    BY DEF IdleLast
  <2>1. CASE ready # <<>> /\ pid[i] = Head(ready)
    <3>1. 0 \in Range(ready)
      BY <2>1, <1>2, <1>4, <1>6, TailFacts
    <3>2. QED
      BY <3>1, <1>7, <1>8 DEF IdleAlone
  <2>2. QED
    BY <2>1, <1>4, <1>5
<1>13. QED
  BY <1>9, <1>10, <1>11, <1>12

LEMMA StepProperties ==
  ASSUME KernelInv, IdleAlone, [ProcNext]_procVars
  PROVE  IdleAlone' /\ SleepersStay /\ TakesTurns /\ IdleLast
<1>1. CASE SchedulerRun
  BY <1>1, SchedulerTurn
<1>2. CASE ~SchedulerRun
  <2>1. /\ \/ run_queue' = run_queue
           \/ \E x \in Nat \ {0} : run_queue' = Append(run_queue, x)
        /\ state[0] = state'[0]
        /\ SleepersStay
        /\ kpc = "schedule" => UNCHANGED <<schedVars, kpc>>
    BY <1>2, HandlerSteps
  <2>2. run_queue \in Seq(Nat)
    BY DEF KernelInv, TableTypeOK
  <2>3. IdleAlone'
    <3>1. CASE 0 \in Range(run_queue)
      BY <3>1, <2>1 DEF IdleAlone, schedVars
    <3>2. CASE 0 \notin Range(run_queue)
      <4>1. ASSUME NEW x \in Nat \ {0}
            PROVE  0 \notin Range(Append(run_queue, x))
        BY <3>2, <2>2, AppendFacts
      <4>2. 0 \notin Range(run_queue')
        BY <2>1, <3>2, <4>1
      <4>3. QED
        BY <2>1, <4>2 DEF IdleAlone
    <3>3. QED
      BY <3>1, <3>2
  <2>4. TakesTurns
    <3>1. SubSeq(run_queue, 0 + 1, Len(run_queue)) = run_queue
      BY <2>2, SubSeqFull
    <3>2. ASSUME NEW x \in Nat, run_queue' = Append(run_queue, x)
          PROVE  /\ Len(run_queue) <= Len(run_queue')
                 /\ SubSeq(run_queue', 1, Len(run_queue)) = run_queue
      <4>1. run_queue' = run_queue \o <<x>> /\ <<x>> \in Seq(Nat)
        BY <3>2, <2>2, AppendIsConcat
      <4>2. QED
        BY <4>1, <2>2, PrefixOfConcat
    <3>3. Len(run_queue) <= Len(run_queue) /\ SubSeq(run_queue, 1, Len(run_queue)) = run_queue
      BY <2>2, SubSeqFull, LenProperties
    <3>4. QED
      BY <2>1, <3>1, <3>2, <3>3 DEF TakesTurns
  <2>5. IdleLast
    BY <2>1 DEF IdleLast, schedVars
  <2>6. QED
    BY <2>1, <2>3, <2>4, <2>5
<1>3. QED
  BY <1>1, <1>2

LEMMA StepInv == ProcSpec => [](KernelInv /\ IdleAlone)
<1>1. ProcInit => KernelInv /\ IdleAlone
  <2>1. ProcInit => IdleAlone
    BY EntriesFinite DEF ProcInit, IdleAlone
  <2>2. QED
    BY <2>1, InitInv
<1>2. KernelInv /\ IdleAlone /\ [ProcNext]_procVars => (KernelInv /\ IdleAlone)'
  BY NextInv, StepProperties
<1>3. QED
  BY <1>1, <1>2, PTL DEF ProcSpec

-----------------------------------------------------------------------------
(* Steps of the modules that extend this one: calls that block and calls   *)
(* that end the wait of another process.                                   *)

Waiting == {i \in Entries : state[i] = "WAITING"}

(* A process that waits is in the table, under an id that finds it, and is *)
(* neither the idle task nor ready nor running.                            *)
LEMMA WaiterFacts ==
  ASSUME KernelInv, IdleAlone, NEW i \in Waiting
  PROVE  /\ i \in Live \ {0} /\ i \in Entries
         /\ pid[i] \in Nat \ {0}
         /\ EntriesOf(pid[i]) = {i}
         /\ pid[i] \notin Range(run_queue)
         /\ Len(run_queue) < QUEUE_SIZE
         /\ \A j \in Live : pid[j] = pid[i] => j = i
<1>1. i \in Live \ {0} /\ i \in Entries /\ state[i] # "RUNNING"
  BY DEF Waiting, Live, IdleAlone
<1>2. pid[i] \in Nat \ {0} /\ \A j \in Live : pid[j] = pid[i] => j = i
  BY <1>1 DEF KernelInv, TableTypeOK, TableInv, PidsUnique
<1>3. EntriesOf(pid[i]) = {i}
  BY <1>1, Lookup DEF KernelInv, TableInv
<1>4. pid[i] \notin Range(run_queue)
  BY <1>1, NotQueued DEF KernelInv, TableInv
<1>5. Len(run_queue) < QUEUE_SIZE
  BY <1>1, QueueRoom DEF KernelInv
<1>6. QED
  BY <1>1, <1>2, <1>3, <1>4, <1>5

(* Processes that wait are too few to fill a queue while another lives.    *)
LEMMA WaitersFit ==
  ASSUME KernelInv, NEW q \in Seq(Nat), IsInjective(q),
         Range(q) \subseteq {pid[i] : i \in Waiting}, Waiting # Entries
  PROVE  Len(q) < QUEUE_SIZE
<1>1. Waiting \in SUBSET Entries
  BY DEF Waiting
<1>2. Len(q) <= Cardinality(Waiting) /\ Cardinality(Waiting) <= PROC_MAX
  BY <1>1, PidQueueBound DEF KernelInv
<1>3. IsFiniteSet(Waiting) /\ Cardinality(Waiting) # PROC_MAX
  BY <1>1, EntriesFinite, FS_Subset
<1>4. Cardinality(Waiting) \in Nat /\ Len(q) \in Nat
  BY <1>3, FS_CardinalityType, LenProperties
<1>5. QED
  BY <1>2, <1>3, <1>4

(* A call that blocks: the caller waits, and may or may not be forgotten   *)
(* as the current process.                                                 *)
LEMMA BlockStep ==
  ASSUME KernelInv, IdleAlone, SystemCall,
         state' = [state EXCEPT ![current] = "WAITING"],
         current' \in {NULL, current}, kpc' \in {"keyboard", "halted"},
         UNCHANGED <<timeVars, tableVars, active_time, wake_time, run_queue>>
  PROVE  /\ KernelInv' /\ IdleAlone'
         /\ Live' = Live /\ Waiting' = Waiting \cup {current}
<1> USE DEF tableVars, timeVars
<1>1. /\ current \in Live \ {0} /\ current \in Entries /\ current # NULL
      /\ state[current] = "ACTIVE"
      /\ kpc = "user" /\ kpc' # "user"
  BY CallerFacts, EntriesFinite DEF SystemCall, Live
<1>2. Live' = Live /\ Ready' = Ready /\ Waiting' = Waiting \cup {current}
  BY <1>1 DEF KernelInv, TableTypeOK, Live, Ready, Waiting
<1>3. TableTypeOK'
  BY <1>1 DEF KernelInv, TableTypeOK, States
<1>4. TableInv'
  BY <1>2 DEF KernelInv, TableInv, FreeEntriesExact, ClearedHaveNoPid, PidsUnique
<1>5. RunQueueExact'
  BY <1>2 DEF KernelInv, RunQueueExact
<1>6. CurrentInv'
  BY <1>1 DEF KernelInv, CurrentInv, OneActive, CurrentNotReady, TableTypeOK
<1>7. SliceLeft'
  BY <1>1 DEF KernelInv, SliceLeft
<1>8. SleepersOnTime'
  BY <1>1 DEF SleepersOnTime
<1>9. IdleAlone'
  <2>1. state'[0] = state[0]
    BY <1>1, EntriesFinite DEF KernelInv, TableTypeOK
  <2>2. QED
    BY <1>1, <2>1 DEF IdleAlone
<1>10. QED
  BY <1>2, <1>3, <1>4, <1>5, <1>6, <1>7, <1>8, <1>9 DEF KernelInv

(* A call that ends the wait of the process in entry i: the run queue has  *)
(* room for it, so the call does not panic.                                *)
LEMMA UnblockStep ==
  ASSUME KernelInv, IdleAlone, SystemCall, NEW i \in Waiting,
         state' = [state EXCEPT ![i] = "RUNNING"],
         run_queue' = QueueIn(run_queue, pid[i]),
         Continue("keyboard", ~QueueIsFull(run_queue), QueueFull),
         UNCHANGED <<timeVars, tableVars, current, active_time, wake_time>>
  PROVE  /\ KernelInv' /\ IdleAlone'
         /\ UNCHANGED fault
         /\ Live' = Live /\ Waiting' = Waiting \ {i}
<1> USE DEF tableVars, timeVars
<1>1. /\ i \in Live \ {0} /\ i \in Entries
      /\ pid[i] \in Nat \ {0}
      /\ pid[i] \notin Range(run_queue)
      /\ Len(run_queue) < QUEUE_SIZE
      /\ state[i] = "WAITING"
  BY WaiterFacts DEF Waiting
<1>2. /\ current \in Entries /\ state[current] = "ACTIVE" /\ kpc = "user"
      /\ current # i /\ current # NULL
  BY <1>1, CallerFacts, EntriesFinite DEF SystemCall, Live
<1>3. run_queue' = Append(run_queue, pid[i]) /\ kpc' = "keyboard" /\ UNCHANGED fault
  BY <1>1 DEF QueueIn, QueueIsFull, Continue
<1>4. run_queue \in Seq(Nat)
  BY DEF KernelInv, TableTypeOK
<1>5. /\ run_queue' \in Seq(Nat)
      /\ Range(run_queue') = Range(run_queue) \cup {pid[i]}
      /\ IsInjective(run_queue')
  BY <1>1, <1>3, <1>4, AppendFacts DEF KernelInv, RunQueueExact
<1>6. Live' = Live /\ Ready' = Ready \cup {i} /\ Waiting' = Waiting \ {i}
  BY <1>1 DEF KernelInv, TableTypeOK, Live, Ready, Waiting
<1>7. TableTypeOK'
  BY <1>1, <1>3, <1>5 DEF KernelInv, TableTypeOK, States
<1>8. TableInv'
  BY <1>6 DEF KernelInv, TableInv, FreeEntriesExact, ClearedHaveNoPid, PidsUnique
<1>9. RunQueueExact'
  BY <1>5, <1>6 DEF KernelInv, RunQueueExact
<1>10. CurrentInv'
  BY <1>1, <1>2, <1>3 DEF KernelInv, CurrentInv, OneActive, CurrentNotReady, TableTypeOK
<1>11. SliceLeft'
  BY <1>2 DEF KernelInv, SliceLeft
<1>12. SleepersOnTime'
  BY <1>3 DEF SleepersOnTime
<1>13. IdleAlone'
  <2>1. state'[0] = state[0] /\ 0 \notin Range(run_queue')
    BY <1>1, <1>2, <1>5, EntriesFinite DEF KernelInv, TableTypeOK, IdleAlone
  <2>2. QED
    BY <2>1 DEF IdleAlone
<1>14. QED
  BY <1>3, <1>6, <1>7, <1>8, <1>9, <1>10, <1>11, <1>12, <1>13 DEF KernelInv

(* A call that touches neither the scheduler nor the process table.        *)
LEMMA ReturnStep ==
  ASSUME KernelInv, IdleAlone, kpc # "schedule",
         kpc' \in {"keyboard", "schedule", "halted"},
         UNCHANGED <<timeVars, tableVars, schedVars>>
  PROVE  /\ KernelInv' /\ IdleAlone'
         /\ Live' = Live /\ Waiting' = Waiting
<1>1. KernelInv'
  BY PhaseStep
<1>2. QED
  BY <1>1 DEF IdleAlone, Live, Waiting, timeVars, tableVars, schedVars

(* The process that gets the CPU was ready, or due, or ran before, or is   *)
(* the idle task: scheduler_run never picks one that waits.                *)
LEMMA PickedNotWaiting ==
  ASSUME KernelInv, IdleAlone, SchedulerRun
  PROVE  \E i \in Live : Dispatch(i) /\ state[i] # "WAITING"
<1>1. PICK woken \in InTableOrder(Due), i \in Live : Picks(ReadyQueue(woken), i)
  BY SchedulerFinds
<1> DEFINE ready == ReadyQueue(woken)
<1>2. /\ ready \in Seq(Nat)
      /\ IsInjective(ready)
      /\ Range(ready) \subseteq {pid[j] : j \in Ready \cup Readied}
      /\ Ready \cup Readied \subseteq Live
  BY ReadyQueueFacts
<1>3. \A j, k \in Live : pid[j] = pid[k] => j = k
  BY DEF KernelInv, TableInv, PidsUnique
<1>4. Dispatch(i)
  BY <1>1 DEF Picks
<1>5. CASE StillActive /\ i = current
  BY <1>4, <1>5 DEF StillActive
<1>6. CASE i = 0
  BY <1>4, <1>6 DEF IdleAlone
<1>7. CASE ready # <<>> /\ pid[i] = Head(ready)
  <2> HIDE DEF ready
  <2>1. Head(ready) \in Range(ready)
    BY <1>7, <1>2, TailFacts
  <2>2. PICK k \in Ready \cup Readied : pid[k] = Head(ready)
    BY <2>1, <1>2
  <2>3. i = k
    BY <2>2, <1>2, <1>3, <1>7
  <2>4. state[k] # "WAITING"
    BY <2>2 DEF Ready, Readied, Due, SliceOver, StillActive
  <2>5. QED
    BY <1>4, <2>3, <2>4
<1>8. QED
  BY <1>1, <1>5, <1>6, <1>7 DEF Picks

(* What the steps of this module do to processes that wait: nothing, but   *)
(* that the key 'x' may exit one that current still points to.             *)
LEMMA WaitersStay ==
  ASSUME KernelInv, IdleAlone, [ProcNext]_procVars
  PROVE  /\ \/ Waiting' = Waiting
            \/ /\ current \in Waiting
               /\ Waiting' = Waiting \ {current}
               /\ Live' = Live \ {current}
         /\ \A i \in Waiting' : pid'[i] = pid[i]
<1> DEFINE Goal == /\ \/ Waiting' = Waiting
                      \/ /\ current \in Waiting
                         /\ Waiting' = Waiting \ {current}
                         /\ Live' = Live \ {current}
                   /\ \A i \in Waiting' : pid'[i] = pid[i]
<1>1. /\ state \in [Entries -> States] /\ pid \in [Entries -> Nat]
      /\ current \in Entries \cup {NULL}
  BY DEF KernelInv, TableTypeOK
<1>2. ASSUME UNCHANGED <<state, pid>>
      PROVE  Goal
  BY <1>2 DEF Waiting
<1>3. CASE Timer \/ SyscallQuery \/ KeyNone \/ KeyQuit \/ UNCHANGED procVars
  BY <1>2, <1>3 DEF Timer, SyscallQuery, KeyNone, KeyQuit, tableVars, schedVars, procVars
<1>4. CASE SyscallYield \/ \E secs \in SleepSecs : SyscallSleep(secs)
  <2>1. /\ current \in Entries /\ state[current] = "ACTIVE"
        /\ UNCHANGED pid
    BY <1>4, CallerFacts DEF SyscallYield, SyscallSleep, tableVars, Live
  <2>2. PICK s \in {"RUNNING", "SLEEPING"} : state' = [state EXCEPT ![current] = s]
    BY <1>4 DEF SyscallYield, SyscallSleep
  <2>3. QED
    BY <1>1, <2>1, <2>2 DEF Waiting
<1>5. ASSUME NEW next \in {"keyboard", "schedule"}, kproc_exec(next)
      PROVE  Goal
  <2>1. CASE proc_queue = <<>>
    BY <1>2, <1>5, <2>1 DEF kproc_exec, schedVars, tableVars
  <2>2. CASE proc_queue # <<>>
    <3>1. Head(proc_queue) \in Entries \ Live
      BY <2>2, TailFacts DEF KernelInv, TableInv, FreeEntriesExact, TableTypeOK
    <3>2. PICK i \in Entries \ Live : /\ state' = [state EXCEPT ![i] = "RUNNING"]
                                      /\ pid' = [pid EXCEPT ![i] = next_pid]
      BY <1>5, <2>2, <3>1 DEF kproc_exec, FillEntry
    <3>3. QED
      BY <1>1, <3>2 DEF Waiting, Live
  <2>3. QED
    BY <2>1, <2>2
<1>6. ASSUME NEW next \in {"keyboard", "schedule"}, kproc_exit(next)
      PROVE  Goal
  <2>1. CASE current = NULL \/ pid[current] = 0
    BY <1>2, <1>6, <2>1 DEF kproc_exit, schedVars, tableVars
  <2>2. CASE ~(current = NULL \/ pid[current] = 0)
    <3>1. /\ current \in Entries
          /\ state' = [state EXCEPT ![current] = "NONE"]
          /\ pid' = [pid EXCEPT ![current] = 0]
      BY <1>1, <1>6, <2>2 DEF kproc_exit, ClearEntry
    <3>2. Waiting' = Waiting \ {current} /\ Live' = Live \ {current}
      BY <1>1, <3>1 DEF Waiting, Live
    <3>3. \A i \in Waiting' : pid'[i] = pid[i]
      BY <1>1, <3>1, <3>2 DEF Waiting
    <3>4. QED
      BY <3>2, <3>3
  <2>3. QED
    BY <2>1, <2>2
<1>7. CASE SyscallExec \/ KeyExec
  BY <1>5, <1>7 DEF SyscallExec, KeyExec
<1>8. CASE SyscallExit \/ KeyExit
  BY <1>6, <1>8 DEF SyscallExit, KeyExit
<1>9. CASE SchedulerRun
  <2>1. UNCHANGED pid
    BY <1>9 DEF SchedulerRun, tableVars
  <2>2. PICK i \in Entries :
          /\ state[i] # "WAITING"
          /\ state' = [j \in Entries |-> IF j = i THEN "ACTIVE"
                                         ELSE IF j \in Readied THEN "RUNNING"
                                         ELSE state[j]]
    BY <1>9, PickedNotWaiting DEF Dispatch, Live
  <2>3. \A j \in Readied : state[j] # "WAITING"
    BY DEF Readied, Due, SliceOver, StillActive
  <2>4. QED
    BY <1>1, <2>1, <2>2, <2>3 DEF Waiting
<1>10. QED
  BY <1>3, <1>4, <1>7, <1>8, <1>9 DEF ProcNext

(* Ids are given out once: a live process either was there before, under   *)
(* the same id, or is new and has the next one.                            *)
LEMMA IdsStay ==
  ASSUME KernelInv, [ProcNext]_procVars
  PROVE  /\ next_pid' >= next_pid
         /\ \A i \in Live' : \/ i \in Live /\ pid'[i] = pid[i]
                             \/ pid'[i] = next_pid /\ next_pid' > next_pid
<1> DEFINE Goal == /\ next_pid' >= next_pid
                   /\ \A i \in Live' : \/ i \in Live /\ pid'[i] = pid[i]
                                       \/ pid'[i] = next_pid /\ next_pid' > next_pid
<1>1. /\ state \in [Entries -> States] /\ pid \in [Entries -> Nat]
      /\ next_pid \in Nat /\ current \in Entries \cup {NULL}
  BY DEF KernelInv, TableTypeOK
<1>2. ASSUME UNCHANGED <<pid, next_pid>>, Live' = Live
      PROVE  Goal
  BY <1>1, <1>2
<1>3. CASE Timer \/ SyscallQuery \/ KeyNone \/ KeyQuit \/ UNCHANGED procVars
  BY <1>2, <1>3 DEF Timer, SyscallQuery, KeyNone, KeyQuit, tableVars, schedVars, procVars, Live
<1>4. CASE SyscallYield \/ \E secs \in SleepSecs : SyscallSleep(secs)
  <2>1. /\ current \in Entries /\ state[current] = "ACTIVE"
        /\ UNCHANGED <<pid, next_pid>>
    BY <1>4, CallerFacts DEF SyscallYield, SyscallSleep, tableVars, Live
  <2>2. PICK s \in {"RUNNING", "SLEEPING"} : state' = [state EXCEPT ![current] = s]
    BY <1>4 DEF SyscallYield, SyscallSleep
  <2>3. QED
    BY <1>1, <1>2, <2>1, <2>2 DEF Live
<1>5. ASSUME NEW next \in {"keyboard", "schedule"}, kproc_exec(next)
      PROVE  Goal
  <2>1. CASE proc_queue = <<>>
    BY <1>2, <1>5, <2>1 DEF kproc_exec, schedVars, tableVars, Live
  <2>2. CASE proc_queue # <<>>
    <3>1. Head(proc_queue) \in Entries \ Live
      BY <2>2, TailFacts DEF KernelInv, TableInv, FreeEntriesExact, TableTypeOK
    <3>2. PICK i \in Entries \ Live : /\ state' = [state EXCEPT ![i] = "RUNNING"]
                                      /\ pid' = [pid EXCEPT ![i] = next_pid]
                                      /\ next_pid' = next_pid + 1
      BY <1>5, <2>2, <3>1 DEF kproc_exec, FillEntry
    <3>3. QED
      BY <1>1, <3>2 DEF Live
  <2>3. QED
    BY <2>1, <2>2
<1>6. ASSUME NEW next \in {"keyboard", "schedule"}, kproc_exit(next)
      PROVE  Goal
  <2>1. CASE current = NULL \/ pid[current] = 0
    BY <1>2, <1>6, <2>1 DEF kproc_exit, schedVars, tableVars, Live
  <2>2. CASE ~(current = NULL \/ pid[current] = 0)
    <3>1. /\ current \in Entries
          /\ state' = [state EXCEPT ![current] = "NONE"]
          /\ pid' = [pid EXCEPT ![current] = 0]
          /\ next_pid' = next_pid
      BY <1>1, <1>6, <2>2 DEF kproc_exit, ClearEntry
    <3>2. QED
      BY <1>1, <3>1 DEF Live
  <2>3. QED
    BY <2>1, <2>2
<1>7. CASE SyscallExec \/ KeyExec
  BY <1>5, <1>7 DEF SyscallExec, KeyExec
<1>8. CASE SyscallExit \/ KeyExit
  BY <1>6, <1>8 DEF SyscallExit, KeyExit
<1>9. CASE SchedulerRun
  <2>1. UNCHANGED <<pid, next_pid>>
    BY <1>9 DEF SchedulerRun, tableVars
  <2>2. PICK i \in Live : Dispatch(i)
    BY <1>9, SchedulerPicks
  <2>3. Live' = Live
    BY <2>2 DEF Dispatch, Live, Readied, Due, SliceOver, StillActive
  <2>4. QED
    BY <1>2, <2>1, <2>3
<1>10. QED
  BY <1>3, <1>4, <1>7, <1>8, <1>9 DEF ProcNext

-----------------------------------------------------------------------------
(* The theorems.                                                           *)

(* The kernel variables keep their types (KProc, ProcTypeOK).              *)
THEOREM ProcTypes == ProcSpec => []ProcTypeOK
<1>1. KernelInv /\ SchedulerNeverPanics => ProcTypeOK
  BY DEF KernelInv, SchedulerNeverPanics, ProcTypeOK, Faults
<1>2. QED
  BY <1>1, SpecInv, PTL

(* kproc_exec and kproc_exit never leak a table entry, nor give one out    *)
(* twice, however long the kernel runs.                                    *)
THEOREM NoEntryLost == ProcSpec => []FreeEntriesExact
<1>1. KernelInv => FreeEntriesExact
  BY DEF KernelInv, TableInv
<1>2. QED
  BY <1>1, SpecInv, PTL

(* Live processes have different ids, and id 0 stays the idle task's.      *)
THEOREM IdsIdentify == ProcSpec => []PidsUnique
<1>1. KernelInv => PidsUnique
  BY DEF KernelInv, TableInv
<1>2. QED
  BY <1>1, SpecInv, PTL

(* The run queue is exactly the ready processes, each once (scheduler.c).  *)
THEOREM QueueIsReadySet == ProcSpec => []RunQueueExact
<1>1. KernelInv => RunQueueExact
  BY DEF KernelInv
<1>2. QED
  BY <1>1, SpecInv, PTL

(* One process is ACTIVE, the one current points to.                       *)
THEOREM CurrentIsActive == ProcSpec => []OneActive
<1>1. KernelInv => OneActive
  BY DEF KernelInv, CurrentInv
<1>2. QED
  BY <1>1, SpecInv, PTL

(* No process keeps the CPU for more than its time slice.                  *)
THEOREM SliceEnds == ProcSpec => []SliceBounded
<1>1. KernelInv => SliceBounded
  <2> SUFFICES ASSUME KernelInv, NEW i \in Entries
               PROVE  active_time[i] <= PROC_TIMESLICE - (IF kpc = "user" THEN 1 ELSE 0)
    BY DEF SliceBounded
  <2>1. active_time[i] \in Nat
    BY DEF KernelInv, TableTypeOK
  <2>2. QED
    BY <2>1 DEF KernelInv, SliceLeft
<1>2. QED
  BY <1>1, SpecInv, PTL

(* When a process runs, every sleep that is over has ended.                *)
THEOREM WakeOnTime == ProcSpec => []SleepersOnTime
<1>1. KernelInv => SleepersOnTime
  BY DEF KernelInv
<1>2. QED
  BY <1>1, SpecInv, PTL

(* The run queue always has room, and scheduler_run always finds a         *)
(* process: no assertion but that of kproc_exit(NULL) can fail.            *)
THEOREM NoSchedulerPanic == ProcSpec => []SchedulerNeverPanics
BY SpecInv, PTL

(* Only the scheduler ends a sleep, and not before its time (scheduler.c). *)
THEOREM SleepLasts == ProcSpec => SleepNotCutShort
<1>1. KernelInv /\ IdleAlone /\ [ProcNext]_procVars => [SleepersStay]_procVars
  BY StepProperties
<1>2. QED
  BY <1>1, StepInv, PTL DEF ProcSpec, SleepNotCutShort

(* The run queue is first-in, first-out: no process overtakes another.     *)
THEOREM RoundRobinOrder == ProcSpec => RunQueueFifo
<1>1. KernelInv /\ IdleAlone /\ [ProcNext]_procVars => [TakesTurns]_procVars
  BY StepProperties
<1>2. QED
  BY <1>1, StepInv, PTL DEF ProcSpec, RunQueueFifo

(* The idle task displaces a process only when nothing is ready.           *)
THEOREM IdleIsLast == ProcSpec => IdleOnlyByDefault
<1>1. KernelInv /\ IdleAlone /\ [ProcNext]_procVars => [IdleLast]_procVars
  BY StepProperties
<1>2. QED
  BY <1>1, StepInv, PTL DEF ProcSpec, IdleOnlyByDefault

-----------------------------------------------------------------------------
(* KProc implements the round robin of module RoundRobin: every step maps  *)
(* to one step of it, or leaves its variables alone.  First, the mapping   *)
(* of the ids in queues to table entries.                                  *)

EntriesIn(ids) == [k \in DOMAIN ids |-> EntryOf(ids[k])]

MappedQueue == EntriesIn(run_queue)
MappedSleep ==
  [i \in Entries |-> IF state[i] = "SLEEPING" THEN TicksUntil(wake_time[i]) ELSE 0]
MappedPhase == IF kpc \in {"keyboard", "schedule"} THEN "kernel" ELSE kpc

(* The entry of a live process is found by its id.                         *)
LEMMA EntryFound == KernelInv => \A i \in Live : EntryOf(pid[i]) = i
<1> SUFFICES ASSUME KernelInv, NEW i \in Live PROVE EntryOf(pid[i]) = i
  OBVIOUS
<1>1. EntriesOf(pid[i]) = {i}
  BY Lookup DEF KernelInv, TableInv
<1>2. \A j \in Entries : IsEntryOf(j, pid[i]) <=> j = i
  BY <1>1 DEF EntriesOf, Live
<1>3. i \in Entries
  BY DEF Live
<1> QED BY <1>2, <1>3 DEF EntryOf

LEMMA EntryFoundNext == KernelInv' => \A i \in Live' : EntryOf(pid[i])' = i
<1>1. (KernelInv => \A i \in Live : EntryOf(pid[i]) = i)'
  BY EntryFound, PTL
<1> QED BY <1>1

Found == {EntryOf(p) : p \in Nat}

LEMMA EntriesType ==
  ASSUME NEW q \in Seq(Nat)
  PROVE  /\ EntriesIn(q) \in Seq(Found)
         /\ Len(EntriesIn(q)) = Len(q) /\ Len(q) \in Nat
         /\ DOMAIN q = 1 .. Len(q)
         /\ \A k \in 1 .. Len(q) : EntriesIn(q)[k] = EntryOf(q[k])
<1>1. DOMAIN q = 1 .. Len(q) /\ Len(q) \in Nat
  BY LenProperties
<1>2. EntriesIn(q) = [k \in 1 .. Len(q) |-> EntryOf(q[k])]
  BY <1>1 DEF EntriesIn
<1>3. \A k \in 1 .. Len(q) : EntryOf(q[k]) \in Found
  BY <1>1, SMTT(40) DEF Found
<1> QED BY <1>1, <1>2, <1>3

LEMMA EntriesAppend ==
  ASSUME NEW q \in Seq(Nat), NEW p \in Nat
  PROVE  EntriesIn(Append(q, p)) = Append(EntriesIn(q), EntryOf(p))
<1>1. EntriesIn(q) \in Seq(Found) /\ Len(EntriesIn(q)) = Len(q)
  BY EntriesType
<1>2. DOMAIN Append(q, p) = 1 .. Len(q) + 1
  OBVIOUS
<1>3. EntriesIn(Append(q, p)) = [k \in 1 .. Len(q) + 1 |-> EntryOf(Append(q, p)[k])]
  BY <1>2 DEF EntriesIn
<1>4. Append(EntriesIn(q), EntryOf(p)) =
        [k \in 1 .. Len(q) + 1 |-> IF k <= Len(q) THEN EntryOf(q[k]) ELSE EntryOf(p)]
  BY <1>1 DEF EntriesIn
<1> QED BY <1>3, <1>4

LEMMA EntriesConcat ==
  ASSUME NEW p \in Seq(Nat), NEW q \in Seq(Nat)
  PROVE  EntriesIn(p \o q) = EntriesIn(p) \o EntriesIn(q)
<1>3. PICK r \in Seq(Nat) : r = p \o q
  BY ConcatProperties
<1>4. EntriesIn(r) = [k \in 1 .. Len(p) + Len(q) |-> EntryOf(r[k])]
  <2>1. DOMAIN r = 1 .. Len(p) + Len(q)
    BY <1>3
  <2> QED BY <2>1 DEF EntriesIn
<1> DEFINE ep == EntriesIn(p)
           eq == EntriesIn(q)
<1>1. /\ ep \in Seq(Found) /\ Len(ep) = Len(p)
      /\ Len(p) \in Nat
      /\ \A k \in 1 .. Len(p) : ep[k] = EntryOf(p[k])
  BY EntriesType
<1>2. /\ eq \in Seq(Found) /\ Len(eq) = Len(q)
      /\ Len(q) \in Nat
      /\ \A k \in 1 .. Len(q) : eq[k] = EntryOf(q[k])
  BY EntriesType
<1> HIDE DEF ep, eq
<1>5. /\ ep \o eq \in Seq(Found)
      /\ Len(ep \o eq) = Len(p) + Len(q)
      /\ \A k \in 1 .. Len(p) + Len(q) :
           (ep \o eq)[k] = IF k <= Len(p) THEN ep[k] ELSE eq[k - Len(p)]
  <2>1. ep \in Seq(Found) /\ eq \in Seq(Found)
    BY <1>1, <1>2
  <2>2. /\ ep \o eq \in Seq(Found)
        /\ Len(ep \o eq) = Len(ep) + Len(eq)
        /\ \A k \in 1 .. Len(ep) + Len(eq) :
             (ep \o eq)[k] = IF k <= Len(ep) THEN ep[k] ELSE eq[k - Len(ep)]
    BY <2>1, ConcatProperties, Zenon
  <2>3. Len(ep) = Len(p) /\ Len(eq) = Len(q)
    BY <1>1, <1>2
  <2> QED BY <2>2, <2>3, Zenon
<1>6. ASSUME NEW k \in 1 .. Len(p) + Len(q)
      PROVE  EntryOf(r[k]) = (IF k <= Len(p) THEN ep[k] ELSE eq[k - Len(p)])
  <2>1. CASE k <= Len(p)
    <3>1. k \in 1 .. Len(p) /\ r[k] = p[k]
      BY <1>1, <1>3, <2>1
    <3> QED BY <1>1, <2>1, <3>1
  <2>2. CASE ~(k <= Len(p))
    <3>1. k - Len(p) \in 1 .. Len(q) /\ r[k] = q[k - Len(p)]
      BY <1>1, <1>2, <1>3, <2>2
    <3> QED BY <1>2, <2>2, <3>1
  <2> QED BY <2>1, <2>2
<1>7. ep \o eq = [k \in 1 .. Len(p) + Len(q) |-> EntryOf(r[k])]
  <2> DEFINE c == ep \o eq
  <2> HIDE DEF c
  <2>1. c \in Seq(Found) /\ Len(c) = Len(p) + Len(q)
    BY <1>5 DEF c
  <2>2. \A k \in 1 .. Len(p) + Len(q) : c[k] = EntryOf(r[k])
    BY <1>5, <1>6 DEF c
  <2>3. c = [k \in 1 .. Len(p) + Len(q) |-> EntryOf(r[k])]
    BY <2>1, <2>2
  <2> QED BY <2>3 DEF c
<1> QED BY <1>3, <1>4, <1>7 DEF ep, eq

LEMMA EntriesHeadTail ==
  ASSUME NEW q \in Seq(Nat), q # <<>>
  PROVE  /\ EntriesIn(q) # <<>>
         /\ Head(EntriesIn(q)) = EntryOf(Head(q))
         /\ Tail(EntriesIn(q)) = EntriesIn(Tail(q))
<1>1. EntriesIn(q) \in Seq(Found) /\ Len(EntriesIn(q)) = Len(q) /\ Len(q) \in Nat \ {0}
  BY EntriesType
<1>2. Tail(q) \in Seq(Nat) /\ Len(Tail(q)) = Len(q) - 1
  BY <1>1
<1>3. EntriesIn(Tail(q)) = [k \in 1 .. Len(q) - 1 |-> EntryOf(q[k + 1])]
  BY <1>1, <1>2 DEF EntriesIn
<1>4. Tail(EntriesIn(q)) = [k \in 1 .. Len(q) - 1 |-> EntryOf(q[k + 1])]
  BY <1>1 DEF EntriesIn
<1> QED BY <1>1, <1>3, <1>4 DEF EntriesIn

LEMMA EntriesNone == EntriesIn(<<>>) = <<>>
  BY DEF EntriesIn

(* A queue of ids keeps its meaning as long as the processes in it keep    *)
(* their entries.                                                          *)
LEMMA EntriesKept ==
  ASSUME KernelInv, KernelInv', NEW ids \in Seq(Nat),
         \A p \in Range(ids) : \E i \in Live : i \in Live' /\ pid[i] = p /\ pid'[i] = p
  PROVE  EntriesIn(ids)' = EntriesIn(ids)
<1>0. (KernelInv => \A i \in Live : EntryOf(pid[i]) = i)'
  BY EntryFound, PTL
<1>1. ASSUME NEW k \in DOMAIN ids PROVE EntryOf(ids[k])' = EntryOf(ids[k])
  <2>1. ids[k] \in Range(ids)
    BY RangeFacts
  <2>2. PICK i \in Live : i \in Live' /\ pid[i] = ids[k] /\ pid'[i] = ids[k]
    BY <2>1
  <2>3. EntryOf(ids[k]) = i
    BY <2>2, EntryFound
  <2>4. EntryOf(pid[i])' = i
    BY <1>0, <2>2
  <2> QED BY <2>2, <2>3, <2>4
<1> QED BY <1>1 DEF EntriesIn


-----------------------------------------------------------------------------
(* The scheduler and the round robin, handler by handler.                  *)

(* What a step that leaves the run queue, or the sleepers, alone does to   *)
(* what they stand for.                                                    *)
LEMMA QueueStays ==
  ASSUME UNCHANGED <<pid, run_queue>>
  PROVE  UNCHANGED MappedQueue
  BY DEF MappedQueue, EntriesIn, EntryOf, IsEntryOf

LEMMA SleepStays ==
  ASSUME UNCHANGED <<state, wake_time, system_time>>
  PROVE  UNCHANGED MappedSleep
  BY DEF MappedSleep, TicksUntil

(* The caller's id, put on the queue, stands for the caller.               *)
LEMMA QueueGrows ==
  ASSUME KernelInv, NEW i \in Live, run_queue' = Append(run_queue, pid[i]), UNCHANGED pid
  PROVE  MappedQueue' = Append(MappedQueue, i)
<1>1. run_queue \in Seq(Nat) /\ pid[i] \in Nat
  BY DEF KernelInv, TableTypeOK, Live
<1>2. PICK ids \in Seq(Nat) : ids = Append(run_queue, pid[i])
  BY <1>1, AppendProperties
<1>3. MappedQueue' = EntriesIn(ids)
  BY <1>2 DEF MappedQueue, EntriesIn, EntryOf, IsEntryOf
<1>4. EntriesIn(ids) = Append(EntriesIn(run_queue), EntryOf(pid[i]))
  BY <1>1, <1>2, EntriesAppend
<1> QED BY <1>3, <1>4, EntryFound DEF MappedQueue

LEMMA CallMaps ==
  ASSUME KernelInv, SystemCall
  PROVE  /\ MappedPhase = "user"
         /\ current # 0 /\ current \in Entries
         /\ current \in Live
         /\ state[current] = "ACTIVE"
<1>1. current \in Live \ {0} /\ state[current] = "ACTIVE"
  BY CallerFacts
<1> QED BY <1>1 DEF SystemCall, MappedPhase, Live

LEMMA TimerMaps ==
  ASSUME KernelInv, Timer
  PROVE  Scheduler!Tick
<1>1. /\ active_time' = [active_time EXCEPT ![current] = @ + 1]
      /\ system_time' = system_time + 1
      /\ UNCHANGED <<pid, run_queue, state, wake_time, current>>
  BY DEF Timer, tableVars
<1>2. MappedSleep' = [i \in Entries |-> IF MappedSleep[i] > 0 THEN MappedSleep[i] - 1 ELSE 0]
  <2> SUFFICES ASSUME NEW i \in Entries
               PROVE  (IF state[i] = "SLEEPING" THEN TicksUntil(wake_time[i])' ELSE 0)
                        = IF MappedSleep[i] > 0 THEN MappedSleep[i] - 1 ELSE 0
    BY <1>1 DEF MappedSleep, TicksUntil
  <2>1. system_time \in Nat /\ wake_time[i] \in Int
    BY DEF KernelInv, TableTypeOK
  <2> QED BY <1>1, <2>1 DEF MappedSleep, TicksUntil
<1>3. UNCHANGED MappedQueue
  BY <1>1, QueueStays
<1>4. MappedPhase = "user" /\ MappedPhase' = "kernel"
  BY DEF Timer, MappedPhase
<1> QED BY <1>1, <1>2, <1>3, <1>4 DEF Scheduler!Tick, MappedSleep, MappedQueue, MappedPhase, EntriesIn

LEMMA QueryMaps ==
  ASSUME KernelInv, SystemCall, kpc' = "keyboard", UNCHANGED <<timeVars, tableVars, schedVars>>
  PROVE  Scheduler!Query
<1>1. UNCHANGED <<state, current, active_time>> /\ UNCHANGED MappedQueue /\ UNCHANGED MappedSleep
  BY QueueStays, SleepStays DEF timeVars, tableVars, schedVars
<1>2. MappedPhase = "user" /\ MappedPhase' = "kernel" /\ current # 0
  BY CallMaps DEF MappedPhase
<1> QED BY <1>1, <1>2
       DEF Scheduler!Query, Scheduler!Call, MappedSleep, MappedQueue, MappedPhase, EntriesIn

LEMMA YieldMaps ==
  ASSUME KernelInv, SyscallYield
  PROVE  Scheduler!Yield
<1>0. SystemCall
  BY DEF SyscallYield
<1>1. Len(run_queue) < QUEUE_SIZE /\ Len(run_queue) \in Nat
  BY <1>0, CallerFacts, LenProperties DEF KernelInv, TableTypeOK
<1>2. /\ run_queue' = Append(run_queue, pid[current])
      /\ active_time' = [active_time EXCEPT ![current] = 0]
      /\ state' = [state EXCEPT ![current] = "RUNNING"]
      /\ current' = NULL
      /\ kpc' = "keyboard"
      /\ UNCHANGED <<system_time, pid, wake_time>>
  BY <1>1, ProcAssumption DEF SyscallYield, QueueIn, QueueIsFull, Continue, timeVars, tableVars
<1>3. MappedQueue' = Append(MappedQueue, current)
  BY <1>0, <1>2, CallMaps, QueueGrows
<1>4. UNCHANGED MappedSleep
  BY <1>0, <1>2, CallMaps DEF MappedSleep, TicksUntil, KernelInv, TableTypeOK
<1>5. MappedPhase = "user" /\ MappedPhase' = "kernel" /\ current # 0
  BY <1>0, <1>2, CallMaps DEF MappedPhase
<1> QED BY <1>2, <1>3, <1>4, <1>5
       DEF Scheduler!Yield, Scheduler!MakeReady, Scheduler!Call,
           MappedSleep, MappedQueue, MappedPhase, EntriesIn

LEMMA SleepMaps ==
  ASSUME KernelInv, NEW secs \in SleepSecs, SyscallSleep(secs)
  PROVE  Scheduler!Sleep(IF secs > 0 THEN CLK_TCK * secs ELSE 0)
<1> DEFINE ticks == IF secs > 0 THEN CLK_TCK * secs ELSE 0
           length == CLK_TCK * secs
<1>0. SystemCall
  BY DEF SyscallSleep
<1>1. /\ active_time' = [active_time EXCEPT ![current] = 0]
      /\ state' = [state EXCEPT ![current] = "SLEEPING"]
      /\ wake_time' = [wake_time EXCEPT ![current] = system_time + length]
      /\ current' = NULL
      /\ kpc' = "keyboard"
      /\ UNCHANGED <<system_time, pid, run_queue>>
  BY DEF SyscallSleep, timeVars, tableVars
<1>2. /\ length \in Int
      /\ ticks = IF length > 0 THEN length ELSE 0
  <2>1. secs \in Int /\ CLK_TCK \in Nat \ {0}
    BY ProcAssumption
  <2>2. CASE secs > 0
    <3>1. length > 0
      BY <2>1, <2>2
    <3> QED BY <2>1, <2>2, <3>1
  <2>3. CASE ~(secs > 0)
    <3>1. ~(length > 0)
      BY <2>1, <2>3
    <3> QED BY <2>1, <2>3, <3>1
  <2> QED BY <2>2, <2>3
<1> HIDE DEF ticks, length
<1>3. MappedSleep' = [MappedSleep EXCEPT ![current] = ticks]
  <2>1. system_time \in Nat /\ current \in Entries
    BY <1>0, CallMaps DEF KernelInv, TableTypeOK
  <2>2. state'[current] = "SLEEPING" /\ wake_time'[current] = system_time + length
    BY <1>1, <2>1 DEF KernelInv, TableTypeOK
  <2>3. ASSUME NEW i \in Entries
        PROVE  MappedSleep'[i] = IF i = current THEN ticks ELSE MappedSleep[i]
    <3>1. MappedSleep'[i] = IF state'[i] = "SLEEPING"
                            THEN IF wake_time'[i] > system_time
                                 THEN wake_time'[i] - system_time ELSE 0
                            ELSE 0
      BY <1>1 DEF MappedSleep, TicksUntil
    <3>2. CASE i = current
      BY <1>2, <2>1, <2>2, <3>1, <3>2
    <3>3. CASE i # current
      <4>1. state'[i] = state[i] /\ wake_time'[i] = wake_time[i]
        BY <1>1, <3>3 DEF KernelInv, TableTypeOK
      <4> QED BY <3>1, <3>3, <4>1 DEF MappedSleep, TicksUntil
    <3> QED BY <3>2, <3>3
  <2>4. MappedSleep' = [i \in Entries |-> MappedSleep'[i]]
    BY DEF MappedSleep
  <2>5. MappedSleep = [i \in Entries |-> MappedSleep[i]]
    BY DEF MappedSleep
  <2> QED BY <2>1, <2>3, <2>4, <2>5
<1>4. UNCHANGED MappedQueue
  BY <1>1, QueueStays
<1>5. MappedPhase = "user" /\ MappedPhase' = "kernel" /\ current # 0
  BY <1>0, <1>1, CallMaps DEF MappedPhase
<1>6. Scheduler!Sleep(ticks)
  BY <1>1, <1>3, <1>4, <1>5
     DEF Scheduler!Sleep, Scheduler!Call, MappedSleep, MappedQueue, MappedPhase, EntriesIn
<1> QED BY <1>6 DEF ticks


\* Where the kernel is when it starts or exits a process.
InCall(next) ==
  \/ SystemCall /\ next = "keyboard"
  \/ kpc = "keyboard" /\ next = "schedule"

MappedVars == <<state, MappedQueue, current, active_time, MappedSleep, MappedPhase>>

LEMMA InCallMaps ==
  ASSUME KernelInv, NEW next, InCall(next)
  PROVE  /\ \/ MappedPhase = "user" /\ current # 0
            \/ MappedPhase = "kernel"
         /\ next \in {"keyboard", "schedule"}
         /\ kpc' = next => MappedPhase' = "kernel"
         /\ MappedPhase = "user" => SystemCall /\ next = "keyboard"
  BY CallMaps DEF InCall, MappedPhase, SystemCall

(* A call or key that fails is a query, or part of an entry under way.     *)
LEMMA NothingMaps ==
  ASSUME KernelInv, NEW next, InCall(next), kpc' = next,
         UNCHANGED <<timeVars, tableVars, schedVars>>
  PROVE  Scheduler!Query \/ UNCHANGED MappedVars
<1>1. CASE SystemCall
  <2>1. next = "keyboard"
    BY <1>1 DEF InCall, SystemCall
  <2> QED BY <1>1, <2>1, QueryMaps
<1>2. CASE ~SystemCall
  <2>1. MappedPhase = "kernel" /\ MappedPhase' = "kernel"
    BY <1>2, InCallMaps
  <2>2. UNCHANGED <<state, current, active_time>> /\ UNCHANGED MappedQueue /\ UNCHANGED MappedSleep
    BY QueueStays, SleepStays DEF timeVars, tableVars, schedVars
  <2> QED BY <2>1, <2>2 DEF MappedVars
<1> QED BY <1>1, <1>2

(* A panic or the key 'q'.                                                 *)
LEMMA HaltMaps ==
  ASSUME KernelInv, NEW next, InCall(next), kpc' = "halted",
         UNCHANGED <<timeVars, tableVars, schedVars>>
  PROVE  Scheduler!Halt
<1>1. UNCHANGED <<state, current, active_time>> /\ UNCHANGED MappedQueue /\ UNCHANGED MappedSleep
  BY QueueStays, SleepStays DEF timeVars, tableVars, schedVars
<1>2. (MappedPhase = "user" /\ current # 0) \/ MappedPhase = "kernel"
  BY InCallMaps
<1>3. MappedPhase' = "halted"
  BY DEF MappedPhase
<1> QED BY <1>1, <1>2, <1>3
       DEF Scheduler!Halt, Scheduler!Entered, MappedSleep, MappedQueue, MappedPhase, EntriesIn

(* What happens to a queue that is left alone, or that gets one more       *)
(* process at its end, in a step in which the ready processes stay.        *)
ReadyStay == \A j \in Ready : j \in Live' /\ pid'[j] = pid[j]

LEMMA ReadyMeanTheSame ==
  ASSUME KernelInv, KernelInv', ReadyStay, NEW ids \in Seq(Nat), Range(ids) \subseteq Range(run_queue)
  PROVE  EntriesIn(ids)' = EntriesIn(ids)
<1>1. \A p \in Range(ids) : \E j \in Ready : pid[j] = p
  BY DEF KernelInv, RunQueueExact
<1>2. \A p \in Range(ids) : \E j \in Live : j \in Live' /\ pid[j] = p /\ pid'[j] = p
  <2> SUFFICES ASSUME NEW p \in Range(ids)
               PROVE  \E j \in Live : j \in Live' /\ pid[j] = p /\ pid'[j] = p
    OBVIOUS
  <2>1. PICK j \in Ready : pid[j] = p
    BY <1>1
  <2>2. j \in Live /\ j \in Live' /\ pid'[j] = p
    BY <2>1 DEF ReadyStay, Ready, Live
  <2> QED BY <2>1, <2>2
<1> QED BY <1>2, EntriesKept

LEMMA QueueKept ==
  ASSUME KernelInv, KernelInv', ReadyStay, run_queue' = run_queue
  PROVE  UNCHANGED MappedQueue
<1>1. PICK old \in Seq(Nat) : old = run_queue
  BY DEF KernelInv, TableTypeOK
<1>2. EntriesIn(old)' = EntriesIn(old)
  BY <1>1, ReadyMeanTheSame
<1>3. MappedQueue' = EntriesIn(old)'
  BY <1>1 DEF MappedQueue, EntriesIn
<1> QED BY <1>1, <1>2, <1>3 DEF MappedQueue

LEMMA QueueKeptGrows ==
  ASSUME KernelInv, KernelInv', ReadyStay, NEW i, i \in Live', run_queue' = Append(run_queue, pid'[i])
  PROVE  MappedQueue' = Append(MappedQueue, i)
<1>1. PICK old \in Seq(Nat) : old = run_queue
  BY DEF KernelInv, TableTypeOK
<1>2. PICK p \in Nat : p = pid'[i]
  <2>1. pid' \in [Entries -> Nat] /\ i \in Entries
    BY DEF KernelInv, TableTypeOK, Live
  <2> QED BY <2>1
<1>3. EntryOf(p)' = i
  <2>1. EntryOf(pid[i])' = i
    BY EntryFoundNext
  <2> QED BY <1>2, <2>1
<1>4. EntriesIn(old)' = EntriesIn(old)
  BY <1>1, ReadyMeanTheSame
<1>5. PICK ids \in Seq(Nat) : ids = Append(old, p)
  BY <1>1, <1>2
<1>6. MappedQueue' = EntriesIn(ids)'
  BY <1>1, <1>2, <1>5 DEF MappedQueue, EntriesIn
<1>7. EntriesIn(ids)' = [k \in DOMAIN ids |-> EntryOf(ids[k])']
  BY DEF EntriesIn
<1>8. /\ EntriesIn(old) \in Seq(Found) /\ Len(EntriesIn(old)) = Len(old) /\ Len(old) \in Nat
      /\ DOMAIN old = 1 .. Len(old)
  BY EntriesType
<1>9. \A k \in 1 .. Len(old) : EntryOf(old[k])' = EntriesIn(old)[k]
  <2>1. EntriesIn(old)' = [k \in DOMAIN old |-> EntryOf(old[k])']
    BY DEF EntriesIn
  <2> QED BY <1>4, <1>8, <2>1
<1>10. /\ DOMAIN ids = 1 .. Len(old) + 1
       /\ \A k \in 1 .. Len(old) : ids[k] = old[k]
       /\ ids[Len(old) + 1] = p
  BY <1>5, <1>8
<1>11. \A k \in DOMAIN ids :
         EntryOf(ids[k])' = IF k \in 1 .. Len(old) THEN EntriesIn(old)[k] ELSE i
  <2> SUFFICES ASSUME NEW k \in DOMAIN ids
               PROVE  EntryOf(ids[k])' = IF k \in 1 .. Len(old) THEN EntriesIn(old)[k] ELSE i
    OBVIOUS
  <2>1. CASE k \in 1 .. Len(old)
    BY <1>9, <1>10, <2>1
  <2>2. CASE k \notin 1 .. Len(old)
    <3>1. k = Len(old) + 1
      BY <1>8, <1>10, <2>2
    <3> QED BY <1>3, <1>10, <2>2, <3>1
  <2> QED BY <2>1, <2>2
<1> DEFINE e == EntriesIn(old)
<1> HIDE DEF e
<1>12. Append(e, i) = [k \in 1 .. Len(old) + 1 |-> IF k \in 1 .. Len(old) THEN e[k] ELSE i]
  <2>1. e \in Seq(Found) /\ Len(e) = Len(old) /\ Len(old) \in Nat
    BY <1>8 DEF e
  <2>2. e \in Seq(Found \cup {i})
    BY <2>1, SeqMonotonic
  <2> DEFINE longer == Append(e, i)
  <2>3. /\ longer \in Seq(Found \cup {i})
        /\ Len(longer) = Len(old) + 1
        /\ \A k \in 1 .. Len(old) : longer[k] = e[k]
        /\ longer[Len(old) + 1] = i
    BY <2>1, <2>2, AppendProperties
  <2> HIDE DEF longer
  <2>4. longer = [k \in 1 .. Len(old) + 1 |-> longer[k]]
    BY <2>3, LenProperties
  <2>5. \A k \in 1 .. Len(old) + 1 : longer[k] = IF k \in 1 .. Len(old) THEN e[k] ELSE i
    BY <2>1, <2>3
  <2>6. longer = [k \in 1 .. Len(old) + 1 |-> IF k \in 1 .. Len(old) THEN e[k] ELSE i]
    BY <2>4, <2>5
  <2> QED BY <2>6 DEF longer
<1>13. EntriesIn(ids)' = Append(e, i)
  BY <1>7, <1>10, <1>11, <1>12 DEF e
<1> QED BY <1>1, <1>6, <1>13 DEF e, MappedQueue

(* The entry taken from proc_queue is a cleared one, and the new process   *)
(* gets in line behind all that are ready.                                 *)
LEMMA ExecMaps ==
  ASSUME KernelInv, KernelInv', UNCHANGED timeVars, NEW next, InCall(next), kproc_exec(next)
  PROVE  \/ \E t \in Entries : Scheduler!Exec(t)
         \/ Scheduler!Query \/ UNCHANGED MappedVars
<1>1. CASE proc_queue = <<>>
  <2>1. UNCHANGED <<timeVars, tableVars, schedVars>> /\ kpc' = next
    BY <1>1 DEF kproc_exec
  <2> QED BY <2>1, NothingMaps
<1>2. CASE proc_queue # <<>>
  <2> DEFINE i == Head(proc_queue)
  <2>1. /\ FillEntry(i)
        /\ run_queue' = QueueIn(run_queue, next_pid)
        /\ Continue(next, ~QueueIsFull(run_queue), QueueFull)
        /\ UNCHANGED <<current, system_time>>
    BY <1>2 DEF kproc_exec, timeVars
  <2>2. i \in Entries \ Live
    BY <1>2, TailFacts DEF KernelInv, TableInv, FreeEntriesExact, TableTypeOK
  <2>3. PICK t \in Entries \ Live : t = i
    BY <2>2
  <2> HIDE DEF i
  <2>4. state[t] = "NONE" /\ t \in Entries
    BY <2>3 DEF Live
  <2>5. Len(run_queue) < QUEUE_SIZE /\ Len(run_queue) \in Nat
    BY <2>4, QueueRoom, LenProperties DEF KernelInv, TableTypeOK
  <2>6. run_queue' = Append(run_queue, next_pid) /\ kpc' = next
    BY <2>1, <2>5, ProcAssumption DEF QueueIn, Continue, QueueIsFull
  <2>7. /\ pid' = [pid EXCEPT ![t] = next_pid]
        /\ state' = [state EXCEPT ![t] = "RUNNING"]
        /\ active_time' = [active_time EXCEPT ![t] = 0]
        /\ wake_time' = [wake_time EXCEPT ![t] = 0]
    BY <2>1, <2>3 DEF FillEntry
  <2>8. /\ pid \in [Entries -> Nat] /\ state \in [Entries -> States]
        /\ wake_time \in [Entries -> Int]
    BY DEF KernelInv, TableTypeOK
  <2>9. pid'[t] = next_pid /\ state'[t] = "RUNNING" /\ t \in Live'
    BY <2>4, <2>7, <2>8 DEF Live
  <2>10. ReadyStay
    <3> SUFFICES ASSUME NEW j \in Ready PROVE j \in Live' /\ pid'[j] = pid[j]
      BY DEF ReadyStay
    <3>1. j \in Entries /\ j # t /\ state[j] = "RUNNING"
      BY <2>4 DEF Ready
    <3> QED BY <2>7, <2>8, <3>1 DEF Live
  <2>11. MappedQueue' = Append(MappedQueue, t)
    BY <2>6, <2>9, <2>10, QueueKeptGrows
  <2>12. MappedSleep' = [MappedSleep EXCEPT ![t] = 0]
    <3>1. ASSUME NEW j \in Entries
          PROVE  MappedSleep'[j] = IF j = t THEN 0 ELSE MappedSleep[j]
      <4>1. MappedSleep'[j] = IF state'[j] = "SLEEPING"
                              THEN IF wake_time'[j] > system_time
                                   THEN wake_time'[j] - system_time ELSE 0
                              ELSE 0
        BY <2>1 DEF MappedSleep, TicksUntil
      <4>2. CASE j = t
        BY <2>9, <4>1, <4>2
      <4>3. CASE j # t
        <5>1. state'[j] = state[j] /\ wake_time'[j] = wake_time[j]
          BY <2>7, <2>8, <4>3
        <5> QED BY <4>1, <4>3, <5>1 DEF MappedSleep, TicksUntil
      <4> QED BY <4>2, <4>3
    <3>2. MappedSleep' = [j \in Entries |-> MappedSleep'[j]]
      BY DEF MappedSleep
    <3>3. MappedSleep = [j \in Entries |-> MappedSleep[j]]
      BY DEF MappedSleep
    <3> QED BY <2>4, <3>1, <3>2, <3>3
  <2>13. /\ (MappedPhase = "user" /\ current # 0) \/ MappedPhase = "kernel"
         /\ MappedPhase' = "kernel"
    BY <2>6, InCallMaps
  <2>14. Scheduler!Exec(t)
    BY <2>1, <2>4, <2>7, <2>11, <2>12, <2>13
       DEF Scheduler!Exec, Scheduler!Entered, Scheduler!MakeReady,
           MappedSleep, MappedQueue, MappedPhase, EntriesIn
  <2> QED BY <2>4, <2>14
<1> QED BY <1>1, <1>2

(* kproc_exit: the process is not on the run queue, and its entry is       *)
(* cleared; without a process it is a panic, for the idle task nothing.    *)
LEMMA ExitMaps ==
  ASSUME KernelInv, KernelInv', UNCHANGED timeVars, NEW next, InCall(next), kproc_exit(next)
  PROVE  Scheduler!Exit \/ Scheduler!Halt \/ Scheduler!Query \/ UNCHANGED MappedVars
<1>1. CASE current = NULL
  <2>1. UNCHANGED <<timeVars, tableVars, schedVars>> /\ kpc' = "halted"
    BY <1>1, EntriesFinite DEF kproc_exit, Continue
  <2> QED BY <2>1, HaltMaps
<1>2. CASE current # NULL /\ pid[current] = 0
  <2>1. UNCHANGED <<timeVars, tableVars, schedVars>> /\ kpc' = next
    BY <1>2 DEF kproc_exit
  <2> QED BY <2>1, NothingMaps
<1>3. CASE current # NULL /\ pid[current] # 0
  <2>1. /\ current \in Live \ {0} /\ current \in Entries
        /\ state[current] # "RUNNING"
    BY <1>3 DEF KernelInv, CurrentInv, CurrentNotReady, TableInv, PidsUnique, ClearedHaveNoPid, TableTypeOK, Live
  <2>2. SchedulerRemove(run_queue, pid[current]) = run_queue
    BY <2>1, NotQueued, RemoveAbsent DEF KernelInv, TableInv
  <2>3. PICK t \in Entries : t = current
    BY <2>1
  <2>4. /\ run_queue' = run_queue
        /\ current' = NULL
        /\ kpc' = next
        /\ UNCHANGED system_time
        /\ pid' = [pid EXCEPT ![t] = 0]
        /\ state' = [state EXCEPT ![t] = "NONE"]
        /\ active_time' = [active_time EXCEPT ![t] = 0]
        /\ wake_time' = [wake_time EXCEPT ![t] = 0]
    BY <1>3, <2>2, <2>3 DEF kproc_exit, ClearEntry, timeVars
  <2>5. /\ pid \in [Entries -> Nat] /\ state \in [Entries -> States]
        /\ wake_time \in [Entries -> Int]
    BY DEF KernelInv, TableTypeOK
  <2>6. ReadyStay
    <3> SUFFICES ASSUME NEW j \in Ready PROVE j \in Live' /\ pid'[j] = pid[j]
      BY DEF ReadyStay
    <3>1. j \in Entries /\ j # t /\ state[j] = "RUNNING"
      BY <2>1, <2>3 DEF Ready
    <3> QED BY <2>4, <2>5, <3>1 DEF Live
  <2>7. UNCHANGED MappedQueue
    BY <2>4, <2>6, QueueKept
  <2>8. MappedSleep' = [MappedSleep EXCEPT ![t] = 0]
    <3>1. ASSUME NEW j \in Entries
          PROVE  MappedSleep'[j] = IF j = t THEN 0 ELSE MappedSleep[j]
      <4>1. MappedSleep'[j] = IF state'[j] = "SLEEPING"
                              THEN IF wake_time'[j] > system_time
                                   THEN wake_time'[j] - system_time ELSE 0
                              ELSE 0
        BY <2>4 DEF MappedSleep, TicksUntil
      <4>2. CASE j = t
        <5>1. state'[j] = "NONE"
          BY <2>3, <2>4, <2>5, <4>2
        <5> QED BY <4>1, <4>2, <5>1
      <4>3. CASE j # t
        <5>1. state'[j] = state[j] /\ wake_time'[j] = wake_time[j]
          BY <2>4, <2>5, <4>3
        <5> QED BY <4>1, <4>3, <5>1 DEF MappedSleep, TicksUntil
      <4> QED BY <4>2, <4>3
    <3>2. MappedSleep' = [j \in Entries |-> MappedSleep'[j]]
      BY DEF MappedSleep
    <3>3. MappedSleep = [j \in Entries |-> MappedSleep[j]]
      BY DEF MappedSleep
    <3> QED BY <3>1, <3>2, <3>3
  <2>9. /\ (MappedPhase = "user" /\ current # 0) \/ MappedPhase = "kernel"
        /\ MappedPhase' = "kernel"
    BY <2>4, InCallMaps
  <2>10. Scheduler!Exit
    BY <2>1, <2>3, <2>4, <2>7, <2>8, <2>9, <1>3
       DEF Scheduler!Exit, Scheduler!Entered, MappedSleep, MappedQueue, MappedPhase, EntriesIn
  <2> QED BY <2>10
<1> QED BY <1>1, <1>2, <1>3


-----------------------------------------------------------------------------
(* scheduler_run.                                                          *)

(* What the round robin calls woken, expired and preempted.                *)
LEMMA TurnMaps ==
  ASSUME KernelInv
  PROVE  /\ Scheduler!Woken = Due
         /\ Scheduler!Runs <=> StillActive
         /\ Scheduler!Expired <=> SliceOver
         /\ Scheduler!Preempted = EntriesIn(Requeued)
<1>1. Scheduler!Woken = Due
  <2>1. ASSUME NEW t \in Entries, state[t] = "SLEEPING"
        PROVE  MappedSleep[t] = 0 <=> wake_time[t] <= system_time
    <3>1. wake_time[t] \in Int /\ system_time \in Nat
      BY DEF KernelInv, TableTypeOK
    <3>2. MappedSleep[t] = IF wake_time[t] > system_time THEN wake_time[t] - system_time ELSE 0
      BY <2>1 DEF MappedSleep, TicksUntil
    <3> QED BY <3>1, <3>2
  <2> QED BY <2>1 DEF Scheduler!Woken, Due, MappedSleep
<1>2. (Scheduler!Runs <=> StillActive) /\ (Scheduler!Expired <=> SliceOver)
  BY DEF Scheduler!Runs, Scheduler!Expired, StillActive, SliceOver
<1>3. Scheduler!Preempted = EntriesIn(Requeued)
  <2>1. CASE ~SliceOver
    BY <1>2, <2>1, EntriesNone DEF Scheduler!Preempted, Requeued
  <2>2. CASE SliceOver
    <3>1. current \in Live
      BY <2>2 DEF SliceOver, StillActive, KernelInv, TableTypeOK, Live
    <3>2. pid[current] = 0 <=> current = 0
      BY <3>1 DEF KernelInv, TableInv, PidsUnique
    <3>3. CASE current = 0
      BY <1>2, <3>2, <3>3, EntriesNone DEF Scheduler!Preempted, Requeued
    <3>4. CASE current # 0
      <4>1. EntryOf(pid[current]) = current
        BY <3>1, EntryFound
      <4>2. EntriesIn(<<pid[current]>>) = <<current>>
        BY <4>1 DEF EntriesIn
      <4> QED BY <1>2, <2>2, <3>2, <3>4, <4>2 DEF Scheduler!Preempted, Requeued
    <3> QED BY <3>3, <3>4
  <2> QED BY <2>1, <2>2
<1> QED BY <1>1, <1>2, <1>3

(* The order of the process table is one order in which sleepers may wake. *)
LEMMA WokenMaps ==
  ASSUME KernelInv, NEW woken \in InTableOrder(Due)
  PROVE  /\ woken \in Scheduler!Orders(Due)
         /\ [k \in DOMAIN woken |-> pid[woken[k]]] \in Seq(Nat)
         /\ EntriesIn([k \in DOMAIN woken |-> pid[woken[k]]]) = woken
<1>1. /\ woken \in [1 .. Cardinality(Due) -> Due]
      /\ DOMAIN woken = 1 .. Cardinality(Due)
      /\ \A a, b \in DOMAIN woken : a < b => woken[a] < woken[b]
  BY DEF InTableOrder
<1>2. Cardinality(Due) \in Nat
  <2>1. IsFiniteSet(Due)
    BY EntriesFinite, FS_Subset DEF Due
  <2> QED BY <2>1, FS_CardinalityType
<1>3. \A k \in DOMAIN woken : woken[k] \in Due /\ woken[k] \in Live /\ woken[k] \in Int
  BY <1>1 DEF Due, Live, Entries
<1>4. IsInjective(woken)
  <2>1. \A a, b \in DOMAIN woken : woken[a] = woken[b] => a = b
    BY <1>1, <1>2, <1>3
  <2> QED BY <2>1 DEF IsInjective
<1>5. EntriesIn([k \in DOMAIN woken |-> pid[woken[k]]]) = woken
  <2>1. \A k \in DOMAIN woken : EntryOf(pid[woken[k]]) = woken[k]
    BY <1>3, EntryFound
  <2>2. woken = [k \in DOMAIN woken |-> woken[k]]
    BY <1>1
  <2> QED BY <2>1, <2>2 DEF EntriesIn
<1>6. [k \in DOMAIN woken |-> pid[woken[k]]] \in Seq(Nat)
  BY WokenFacts DEF KernelInv, TableInv
<1>7. woken \in Scheduler!Orders(Due)
  <2>1. Scheduler!Cardinality(Due) = Cardinality(Due)
    BY DEF Scheduler!Cardinality, Cardinality
  <2>2. Scheduler!IsInjective(woken)
    BY <1>4 DEF Scheduler!IsInjective, IsInjective
  <2> QED BY <1>1, <2>1, <2>2 DEF Scheduler!Orders
<1> QED BY <1>5, <1>6, <1>7

LEMMA ReadyQueueMaps ==
  ASSUME KernelInv, NEW woken \in InTableOrder(Due)
  PROVE  EntriesIn(ReadyQueue(woken)) = MappedQueue \o Scheduler!Preempted \o woken
<1> DEFINE ids == [k \in DOMAIN woken |-> pid[woken[k]]]
<1>1. ids \in Seq(Nat) /\ EntriesIn(ids) = woken
  BY WokenMaps
<1> HIDE DEF ids
<1>2. run_queue \in Seq(Nat) /\ Requeued \in Seq(Nat)
  BY DEF KernelInv, TableTypeOK, Requeued, SliceOver, StillActive
<1>3. PICK first \in Seq(Nat) : first = run_queue \o Requeued
  BY <1>2, ConcatProperties
<1>4. EntriesIn(first) = EntriesIn(run_queue) \o EntriesIn(Requeued)
  BY <1>2, <1>3, EntriesConcat
<1>5. EntriesIn(first \o ids) = EntriesIn(first) \o EntriesIn(ids)
  BY <1>1, <1>3, EntriesConcat
<1>6. ReadyQueue(woken) = first \o ids
  BY <1>3 DEF ReadyQueue, ids
<1> QED BY <1>1, <1>4, <1>5, <1>6, TurnMaps DEF MappedQueue

(* The process that gets the CPU does not lose sleep by it.                *)
LEMMA PickedIsDue ==
  ASSUME KernelInv, IdleAlone, NEW woken \in InTableOrder(Due), NEW i \in Live,
         Picks(ReadyQueue(woken), i), state[i] = "SLEEPING"
  PROVE  i \in Due
<1> DEFINE ready == ReadyQueue(woken)
<1>1. /\ ready \in Seq(Nat)
      /\ IsInjective(ready)
      /\ Range(ready) \subseteq {pid[j] : j \in Ready \cup Readied}
      /\ Ready \cup Readied \subseteq Live
  BY ReadyQueueFacts
<1>2. \A j, k \in Live : pid[j] = pid[k] => j = k
  BY DEF KernelInv, TableInv, PidsUnique
<1>3. ~(StillActive /\ i = current) /\ i # 0
  BY DEF StillActive, IdleAlone
<1>4. ready # <<>> /\ pid[i] = Head(ready)
  BY <1>3 DEF Picks
<1> HIDE DEF ready
<1>5. Head(ready) \in Range(ready)
  BY <1>1, <1>4, TailFacts
<1>6. PICK k \in Ready \cup Readied : pid[k] = Head(ready)
  BY <1>1, <1>5
<1>7. i = k
  BY <1>1, <1>2, <1>4, <1>6
<1> QED BY <1>6, <1>7 DEF Ready, Readied, SliceOver, StillActive

LEMMA ScheduleMaps ==
  ASSUME KernelInv, IdleAlone, SchedulerRun
  PROVE  Scheduler!Schedule
<1>1. PICK woken \in InTableOrder(Due), i \in Live : Picks(ReadyQueue(woken), i)
  BY SchedulerFinds
<1>2. /\ kpc = "schedule" /\ kpc' = "user"
      /\ active_time' = [j \in Entries |-> IF j \in Readied THEN 0 ELSE active_time[j]]
      /\ wake_time' = [j \in Entries |-> IF j \in Due THEN 0 ELSE wake_time[j]]
      /\ UNCHANGED <<system_time, pid>>
  BY SchedulerFinds DEF SchedulerRun, timeVars, tableVars
<1>3. MappedPhase = "kernel" /\ MappedPhase' = "user"
  BY <1>2 DEF MappedPhase
<1>4. /\ current' = i
      /\ state' = [j \in Entries |-> IF j = i THEN "ACTIVE"
                                     ELSE IF j \in Readied THEN "RUNNING"
                                     ELSE state[j]]
  BY <1>1 DEF Picks, Dispatch
<1>5. \A j \in Entries : j \in Readied <=> j \in Due \/ (SliceOver /\ j = current)
  BY DEF Readied
<1>6. Scheduler!Give(i)
  BY <1>4, <1>5, TurnMaps DEF Scheduler!Give
<1>7. UNCHANGED MappedSleep
  <2>1. ASSUME NEW j \in Entries
        PROVE  MappedSleep'[j] = MappedSleep[j]
    <3>1. /\ MappedSleep'[j] = IF state'[j] = "SLEEPING"
                               THEN IF wake_time'[j] > system_time
                                    THEN wake_time'[j] - system_time ELSE 0
                               ELSE 0
          /\ MappedSleep[j] = IF state[j] = "SLEEPING"
                              THEN IF wake_time[j] > system_time
                                   THEN wake_time[j] - system_time ELSE 0
                              ELSE 0
      BY <1>2 DEF MappedSleep, TicksUntil
    <3>2. CASE j \in Due
      <4>1. j \in Readied /\ state[j] = "SLEEPING" /\ wake_time[j] <= system_time
        BY <1>5, <3>2 DEF Due
      <4>2. state'[j] # "SLEEPING"
        BY <1>4, <4>1
      <4>3. wake_time[j] \in Int /\ system_time \in Nat
        BY DEF KernelInv, TableTypeOK
      <4> QED BY <3>1, <4>1, <4>2, <4>3
    <3>3. CASE j \notin Due /\ (j = i \/ j \in Readied)
      <4>1. state[j] # "SLEEPING"
        BY <1>1, <1>5, <3>3, PickedIsDue DEF SliceOver, StillActive
      <4>2. state'[j] # "SLEEPING"
        BY <1>4, <3>3
      <4> QED BY <3>1, <4>1, <4>2
    <3>4. CASE j \notin Due /\ j # i /\ j \notin Readied
      <4>1. state'[j] = state[j] /\ wake_time'[j] = wake_time[j]
        BY <1>2, <1>4, <3>4
      <4> QED BY <3>1, <4>1
    <3> QED BY <3>2, <3>3, <3>4
  <2>2. MappedSleep' = [j \in Entries |-> MappedSleep'[j]]
    BY DEF MappedSleep
  <2>3. MappedSleep = [j \in Entries |-> MappedSleep[j]]
    BY DEF MappedSleep
  <2> QED BY <2>1, <2>2, <2>3
<1>8. active_time' = [j \in Entries |-> IF j \in Scheduler!Woken \/ (Scheduler!Expired /\ j = current)
                                        THEN 0 ELSE active_time[j]]
  BY <1>2, <1>5, TurnMaps
<1>9. PICK ready \in Seq(Nat) : ready = ReadyQueue(woken)
  BY ReadyQueueFacts
<1>10. EntriesIn(ready) = MappedQueue \o Scheduler!Preempted \o woken
  BY <1>9, ReadyQueueMaps
<1>11. ASSUME NEW q \in Seq(Nat), run_queue' = q
       PROVE  MappedQueue' = EntriesIn(q)
  BY <1>2, <1>11 DEF MappedQueue, EntriesIn, EntryOf, IsEntryOf
<1> DEFINE mapped == MappedQueue \o Scheduler!Preempted \o woken
<1>12. \/ Scheduler!Runs /\ ~Scheduler!Expired /\ Scheduler!Give(current) /\ MappedQueue' = mapped
       \/ /\ ~Scheduler!Runs \/ Scheduler!Expired
          /\ \/ mapped = <<>> /\ Scheduler!Give(0) /\ MappedQueue' = mapped
             \/ mapped # <<>> /\ Scheduler!Give(Head(mapped)) /\ MappedQueue' = Tail(mapped)
  <2> HIDE DEF mapped
  <2>1. EntriesIn(ready) = mapped
    BY <1>10 DEF mapped
  <2>2. CASE StillActive /\ ~SliceOver
    <3>1. i = current /\ run_queue' = ready
      BY <1>1, <1>9, <2>2 DEF Picks
    <3> QED BY <1>6, <1>11, <2>1, <2>2, <3>1, TurnMaps
  <2>3. CASE (~StillActive \/ SliceOver) /\ ready = <<>>
    <3>1. i = 0 /\ run_queue' = ready
      BY <1>1, <1>9, <2>3 DEF Picks
    <3>2. mapped = <<>>
      BY <2>1, <2>3, EntriesNone
    <3> QED BY <1>6, <1>11, <2>1, <2>3, <3>1, <3>2, TurnMaps
  <2>4. CASE (~StillActive \/ SliceOver) /\ ready # <<>>
    <3>1. pid[i] = Head(ready) /\ run_queue' = Tail(ready)
      BY <1>1, <1>9, <2>4 DEF Picks
    <3>2. /\ mapped # <<>>
          /\ Head(mapped) = EntryOf(Head(ready))
          /\ Tail(mapped) = EntriesIn(Tail(ready))
      BY <2>1, <2>4, EntriesHeadTail
    <3>3. Head(mapped) = i
      BY <3>1, <3>2, EntryFound
    <3>4. Tail(ready) \in Seq(Nat)
      BY <2>4
    <3>5. MappedQueue' = Tail(mapped)
      BY <1>11, <3>1, <3>2, <3>4
    <3> QED BY <1>6, <2>4, <3>2, <3>3, <3>5, TurnMaps
  <2> QED BY <2>2, <2>3, <2>4
<1>13. woken \in Scheduler!Orders(Scheduler!Woken)
  BY WokenMaps, TurnMaps
<1> QED
  BY <1>3, <1>7, <1>8, <1>12, <1>13
     DEF Scheduler!Schedule, MappedSleep, MappedQueue, MappedPhase, EntriesIn


-----------------------------------------------------------------------------
(* The refinement of the round robin.                                      *)

\* A step of the round robin, or none.
RoundRobinStep ==
  \/ Scheduler!Tick
  \/ Scheduler!Query
  \/ Scheduler!Yield
  \/ \E secs \in SleepSecs : Scheduler!Sleep(IF secs > 0 THEN CLK_TCK * secs ELSE 0)
  \/ \E t \in Entries : Scheduler!Exec(t)
  \/ Scheduler!Exit
  \/ Scheduler!Halt
  \/ Scheduler!Schedule
  \/ UNCHANGED MappedVars

LEMMA ProcMaps ==
  ASSUME KernelInv, KernelInv', IdleAlone, [ProcNext]_procVars
  PROVE  RoundRobinStep
<1>1. CASE Timer
  BY <1>1, TimerMaps DEF RoundRobinStep
<1>2. CASE SyscallQuery
  <2>1. SystemCall /\ kpc' = "keyboard" /\ UNCHANGED <<timeVars, tableVars, schedVars>>
    BY <1>2 DEF SyscallQuery
  <2> QED BY <2>1, QueryMaps DEF RoundRobinStep
<1>3. CASE SyscallYield
  BY <1>3, YieldMaps DEF RoundRobinStep
<1>4. CASE \E secs \in SleepSecs : SyscallSleep(secs)
  <2>1. PICK secs \in SleepSecs : SyscallSleep(secs)
    BY <1>4
  <2>2. Scheduler!Sleep(IF secs > 0 THEN CLK_TCK * secs ELSE 0)
    BY <2>1, SleepMaps
  <2> QED BY <2>2 DEF RoundRobinStep
<1>5. CASE SyscallExec
  <2>1. InCall("keyboard") /\ kproc_exec("keyboard") /\ UNCHANGED timeVars
    BY <1>5 DEF SyscallExec, InCall
  <2> QED BY <2>1, ExecMaps DEF RoundRobinStep
<1>6. CASE SyscallExit
  <2>1. InCall("keyboard") /\ kproc_exit("keyboard") /\ UNCHANGED timeVars
    BY <1>6 DEF SyscallExit, InCall
  <2> QED BY <2>1, ExitMaps DEF RoundRobinStep
<1>7. CASE KeyNone
  <2>1. InCall("schedule") /\ kpc' = "schedule" /\ UNCHANGED <<timeVars, tableVars, schedVars>>
    BY <1>7 DEF KeyNone, InCall
  <2> QED BY <2>1, NothingMaps DEF RoundRobinStep
<1>8. CASE KeyExec
  <2>1. InCall("schedule") /\ kproc_exec("schedule") /\ UNCHANGED timeVars
    BY <1>8 DEF KeyExec, InCall
  <2> QED BY <2>1, ExecMaps DEF RoundRobinStep
<1>9. CASE KeyExit
  <2>1. InCall("schedule") /\ kproc_exit("schedule") /\ UNCHANGED timeVars
    BY <1>9 DEF KeyExit, InCall
  <2> QED BY <2>1, ExitMaps DEF RoundRobinStep
<1>10. CASE KeyQuit
  <2>1. InCall("schedule") /\ kpc' = "halted" /\ UNCHANGED <<timeVars, tableVars, schedVars>>
    BY <1>10 DEF KeyQuit, InCall
  <2> QED BY <2>1, HaltMaps DEF RoundRobinStep
<1>11. CASE SchedulerRun
  BY <1>11, ScheduleMaps DEF RoundRobinStep
<1>12. CASE UNCHANGED procVars
  <2>1. /\ UNCHANGED <<state, current, active_time, kpc>>
        /\ UNCHANGED MappedQueue /\ UNCHANGED MappedSleep
    BY <1>12, QueueStays, SleepStays DEF procVars, timeVars, tableVars, schedVars, kernelVars
  <2>2. UNCHANGED MappedPhase
    BY <2>1 DEF MappedPhase
  <2> QED BY <2>1, <2>2 DEF RoundRobinStep, MappedVars
<1> QED
  BY <1>1, <1>2, <1>3, <1>4, <1>5, <1>6, <1>7, <1>8, <1>9, <1>10, <1>11, <1>12 DEF ProcNext

LEMMA BootMaps == ProcInit => Scheduler!RRInit
<1> SUFFICES ASSUME ProcInit PROVE Scheduler!RRInit
  OBVIOUS
<1>1. /\ system_time = 0 /\ current = NULL /\ kpc = "schedule"
      /\ pid = [i \in Entries |-> IF i = 1 THEN 1 ELSE 0]
      /\ state = [i \in Entries |-> IF i \in {0, 1} THEN "RUNNING" ELSE "NONE"]
      /\ active_time = [i \in Entries |-> 0]
      /\ run_queue = <<0, 1>>
  BY DEF ProcInit, BootQueue
<1>2. EntryOf(0) = 0 /\ EntryOf(1) = 1
  <2>1. 0 \in Live /\ 1 \in Live /\ pid[0] = 0 /\ pid[1] = 1
    BY <1>1, EntriesFinite DEF Live
  <2>2. KernelInv
    BY InitInv
  <2> QED BY <2>1, <2>2, EntryFound
<1>3. MappedQueue = <<0, 1>>
  <2>1. DOMAIN <<0, 1>> = {1, 2}
    OBVIOUS
  <2> QED BY <1>1, <1>2, <2>1 DEF MappedQueue, EntriesIn
<1>4. MappedSleep = [i \in Entries |-> 0]
  BY <1>1 DEF MappedSleep
<1>5. MappedPhase = "kernel"
  BY <1>1 DEF MappedPhase
<1> QED
  BY <1>1, <1>3, <1>4, <1>5
     DEF Scheduler!RRInit, MappedQueue, MappedSleep, MappedPhase, EntriesIn

(* scheduler.c, kproc.c and the process calls of ksyscall.c do what the    *)
(* round robin does, for every size of the process table, every time slice *)
(* and every sleep (KProc, SchedulesRoundRobin).                           *)
THEOREM SchedulesRR == ProcSpec => SchedulesRoundRobin
<1>1. KernelInv /\ IdleAlone /\ (KernelInv /\ IdleAlone)' /\ [ProcNext]_procVars
        => [Scheduler!RRNext]_(Scheduler!rrVars)
  <2> SUFFICES ASSUME KernelInv, IdleAlone, KernelInv', [ProcNext]_procVars
               PROVE  [Scheduler!RRNext]_(Scheduler!rrVars)
    OBVIOUS
  <2>1. RoundRobinStep
    BY ProcMaps
  <2>2. CASE \E secs \in SleepSecs : Scheduler!Sleep(IF secs > 0 THEN CLK_TCK * secs ELSE 0)
    BY <2>2 DEF Scheduler!RRNext
  <2>3. CASE UNCHANGED MappedVars
    BY <2>3 DEF MappedVars, MappedQueue, MappedSleep, MappedPhase, EntriesIn, Scheduler!rrVars
  <2> QED BY <2>1, <2>2, <2>3 DEF RoundRobinStep, Scheduler!RRNext
<1> QED
  BY <1>1, BootMaps, StepInv, PTL DEF ProcSpec, SchedulesRoundRobin, Scheduler!RRSafeSpec

=============================================================================
