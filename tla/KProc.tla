-------------------------------- MODULE KProc -------------------------------
(***************************************************************************)
(* The process table, the run queue and the scheduler: kproc.c,            *)
(* scheduler.c, the process calls of ksyscall.c, the timer of kisr.c and   *)
(* the kernel entry kernel_run of kernel.c.                                *)
(*                                                                         *)
(* One CPU.  The kernel is entered through interrupt gates and runs with   *)
(* interrupts off, so one entry is a fixed sequence, which kpc walks       *)
(* through:                                                                *)
(*                                                                         *)
(*   "user"       a process (or the idle task) executes; the next step is  *)
(*                a timer tick or a system call of that process            *)
(*   "keyboard"   irq_handler has returned; the keyboard is polled         *)
(*   "schedule"   scheduler_run is next, then the context switch to "user" *)
(*   "halted"     panic() has aborted, or 'q' has called exit()            *)
(*                                                                         *)
(* queue_t values are sequences, as module Queue shows they may be.        *)
(* Modules KMutex and KMbox extend this one with the calls that block.     *)
(*                                                                         *)
(* A definition <name>_<change> is a mutated form of <name> that some      *)
(* property refutes; the model does not use it.                            *)
(***************************************************************************)
EXTENDS Integers, Sequences, FiniteSets, Functions

CONSTANTS
  PROC_MAX,        \* kproc.h: 24 process table entries
  QUEUE_SIZE,      \* queue.h: 64
  PROC_TIMESLICE,  \* kproc.h: 5 ticks
  CLK_TCK,         \* ticks per second
  SleepSecs,       \* the arguments programs pass to sleep()
  Keys,            \* the keys that may be pressed: "exec", "exit", "quit"
  NULL,            \* the null process pointer
  MaxTime,         \* bound on system_time
  MaxPid           \* bound on next_pid

ASSUME ProcAssumption ==
  /\ PROC_MAX \in Nat /\ PROC_MAX >= 2
  /\ QUEUE_SIZE \in Nat /\ QUEUE_SIZE >= PROC_MAX
  /\ PROC_TIMESLICE \in Nat \ {0}
  /\ CLK_TCK \in Nat \ {0}
  /\ SleepSecs \subseteq Int
  /\ NULL \notin 0 .. PROC_MAX - 1
  /\ MaxTime \in Nat /\ MaxPid \in Nat

VARIABLES
  system_time,   \* ticks since boot
  next_pid,      \* the next process id, never reused
  current,       \* the table entry of the current process, or NULL
  pid,           \* proc_table[i].pid; a cleared entry has pid 0
  state,         \* proc_table[i].state
  active_time,   \* proc_table[i].active_time
  wake_time,     \* proc_table[i].wake_time
  proc_queue,    \* free table entries
  run_queue,     \* process ids ready to run
  kpc,           \* where the kernel is
  fault          \* the message of the panic that halted the kernel

timeVars == <<system_time>>
tableVars == <<next_pid, pid, proc_queue>>
schedVars == <<current, state, active_time, wake_time, run_queue>>
kernelVars == <<kpc, fault>>
procVars == <<timeVars, tableVars, schedVars, kernelVars>>

Entries == 0 .. PROC_MAX - 1
States == {"NONE", "RUNNING", "ACTIVE", "SLEEPING", "WAITING"}

\* The panics of this module that a wrong table, queue or call would reach.
NoFault == "none"
InvalidProcess == "Invalid process!"                        \* kproc.c:99
QueueFull == "Unable to add the process to the scheduler"   \* scheduler.c:108
Unschedulable == "Unable to schedule a process!"            \* scheduler.c:95
Faults == {NoFault, InvalidProcess, QueueFull, Unschedulable}

-----------------------------------------------------------------------------
(* Operators the handlers share.                                           *)

\* queue_in on the abstract contents: a full queue refuses the item.
QueueIn(q, x) == IF Len(q) = QUEUE_SIZE THEN q ELSE Append(q, x)
QueueIsFull(q) == Len(q) = QUEUE_SIZE

IsEntryOf_StopsEarly(i, p) ==
  i < PROC_MAX - 1 /\ pid[i] = p /\ \A j \in 0 .. i - 1 : pid[j] # p

\* The search loop "proc_table[i].pid == pid": it stops at the first match.
IsEntryOf(i, p) == pid[i] = p /\ \A j \in 0 .. i - 1 : pid[j] # p
EntriesOf(p) == {i \in Entries : IsEntryOf(i, p)}

SchedulerRemove_OneShort(q, p) ==
  IF q = <<>> THEN q ELSE SubSeq(q, Len(q), Len(q)) \o SubSeq(q, 1, Len(q) - 1)

\* scheduler_remove turns the queue round by one item at a time, and stops
\* at the process it looks for; without a match the queue ends as it began.
SchedulerRemove(q, p) ==
  IF p \in Range(q)
  THEN LET n == CHOOSE n \in 1 .. Len(q) :
                  q[n] = p /\ \A m \in 1 .. n - 1 : q[m] # p
       IN  SubSeq(q, n + 1, Len(q)) \o SubSeq(q, 1, n - 1)
  ELSE q

\* A handler that may meet an assertion goes on, or halts the kernel there.
Continue(next, ok, message) ==
  IF ok
  THEN kpc' = next /\ UNCHANGED fault
  ELSE kpc' = "halted" /\ fault' = message

FillEntry_ClearedLast(i) ==
  /\ pid' = [pid EXCEPT ![i] = 0]
  /\ state' = [state EXCEPT ![i] = "RUNNING"]
  /\ active_time' = [active_time EXCEPT ![i] = 0]
  /\ wake_time' = [wake_time EXCEPT ![i] = 0]

FillEntry(i) ==
  /\ pid' = [pid EXCEPT ![i] = next_pid]
  /\ state' = [state EXCEPT ![i] = "RUNNING"]
  /\ active_time' = [active_time EXCEPT ![i] = 0]
  /\ wake_time' = [wake_time EXCEPT ![i] = 0]

ClearEntry_KeepsState(i) ==
  /\ pid' = [pid EXCEPT ![i] = 0]
  /\ active_time' = [active_time EXCEPT ![i] = 0]
  /\ wake_time' = [wake_time EXCEPT ![i] = 0]
  /\ UNCHANGED state

\* memset(proc, 0, sizeof(proc_t))
ClearEntry(i) ==
  /\ pid' = [pid EXCEPT ![i] = 0]
  /\ state' = [state EXCEPT ![i] = "NONE"]
  /\ active_time' = [active_time EXCEPT ![i] = 0]
  /\ wake_time' = [wake_time EXCEPT ![i] = 0]

\* kproc_exec: take a free entry, fill it in and make the process ready.
\* Without a free entry the call fails and changes nothing.
kproc_exec(next) ==
  \/ /\ proc_queue = <<>>
     /\ kpc' = next
     /\ UNCHANGED <<tableVars, schedVars, fault>>
  \/ /\ proc_queue # <<>>
     /\ next_pid < MaxPid
     /\ LET i == Head(proc_queue) IN
        /\ proc_queue' = Tail(proc_queue)
        /\ next_pid' = next_pid + 1
        /\ FillEntry(i)
        /\ run_queue' = QueueIn(run_queue, next_pid)
     /\ Continue(next, ~QueueIsFull(run_queue), QueueFull)
     /\ UNCHANGED current

kproc_exit_QueuesPid(next) ==
  /\ current # NULL /\ pid[current] # 0
  /\ run_queue' = SchedulerRemove(run_queue, pid[current])
  /\ proc_queue' = QueueIn(proc_queue, pid[current])
  /\ ClearEntry(current)
  /\ current' = NULL
  /\ kpc' = next
  /\ UNCHANGED <<next_pid, fault>>

\* kproc_exit(current): clear the entry and give it back.  The idle task
\* stays; a NULL pointer is a panic.  The search for the entry cannot fail:
\* it stops at current itself at the latest.
kproc_exit(next) ==
  \/ /\ current = NULL
     /\ Continue(next, FALSE, InvalidProcess)
     /\ UNCHANGED <<tableVars, schedVars>>
  \/ /\ current # NULL
     /\ pid[current] = 0
     /\ kpc' = next
     /\ UNCHANGED <<tableVars, schedVars, fault>>
  \/ /\ current # NULL
     /\ pid[current] # 0
     /\ run_queue' = SchedulerRemove(run_queue, pid[current])
     /\ \E i \in EntriesOf(pid[current]) : proc_queue' = QueueIn(proc_queue, i)
     /\ ClearEntry(current)
     /\ current' = NULL
     /\ kpc' = next
     /\ UNCHANGED <<next_pid, fault>>

-----------------------------------------------------------------------------
(* irq_handler: a timer tick, or a system call of the current process.     *)

Timer ==
  /\ kpc = "user"
  /\ system_time < MaxTime
  /\ system_time' = system_time + 1
  /\ active_time' = [active_time EXCEPT ![current] = @ + 1]
  /\ kpc' = "keyboard"
  /\ UNCHANGED <<tableVars, current, state, wake_time, run_queue, fault>>

\* Every process but the idle task, which only halts the CPU, makes calls.
SystemCall ==
  /\ kpc = "user"
  /\ pid[current] # 0

\* sys_get_time, proc_get_pid, proc_get_name, and any call that returns an
\* error before it changes anything: the kernel is entered all the same.
SyscallQuery ==
  /\ SystemCall
  /\ kpc' = "keyboard"
  /\ UNCHANGED <<timeVars, tableVars, schedVars, fault>>

SyscallYield ==
  /\ SystemCall
  /\ active_time' = [active_time EXCEPT ![current] = 0]
  /\ run_queue' = QueueIn(run_queue, pid[current])
  /\ state' = [state EXCEPT ![current] = "RUNNING"]
  /\ current' = NULL
  /\ Continue("keyboard", ~QueueIsFull(run_queue), QueueFull)
  /\ UNCHANGED <<timeVars, tableVars, wake_time>>

SyscallSleep_InTicks(secs) ==
  /\ SystemCall
  /\ state' = [state EXCEPT ![current] = "SLEEPING"]
  /\ active_time' = [active_time EXCEPT ![current] = 0]
  /\ wake_time' = [wake_time EXCEPT ![current] = system_time + secs]
  /\ current' = NULL
  /\ kpc' = "keyboard"
  /\ UNCHANGED <<timeVars, tableVars, run_queue, fault>>

SyscallSleep(secs) ==
  /\ SystemCall
  /\ state' = [state EXCEPT ![current] = "SLEEPING"]
  /\ active_time' = [active_time EXCEPT ![current] = 0]
  /\ wake_time' = [wake_time EXCEPT ![current] = system_time + CLK_TCK * secs]
  /\ current' = NULL
  /\ kpc' = "keyboard"
  /\ UNCHANGED <<timeVars, tableVars, run_queue, fault>>

SyscallExec ==
  /\ SystemCall
  /\ kproc_exec("keyboard")
  /\ UNCHANGED timeVars

SyscallExit ==
  /\ SystemCall
  /\ kproc_exit("keyboard")
  /\ UNCHANGED timeVars

-----------------------------------------------------------------------------
(* The keyboard poll of kernel_run.                                        *)

\* No key, or one that starts nothing: 'b', 's' and the rest.
KeyNone ==
  /\ kpc = "keyboard"
  /\ kpc' = "schedule"
  /\ UNCHANGED <<timeVars, tableVars, schedVars, fault>>

\* 'n', 'p' and 'c' start a program.
KeyExec ==
  /\ kpc = "keyboard"
  /\ "exec" \in Keys
  /\ kproc_exec("schedule")
  /\ UNCHANGED timeVars

\* 'x' exits whatever process current points to by now.
KeyExit ==
  /\ kpc = "keyboard"
  /\ "exit" \in Keys
  /\ kproc_exit("schedule")
  /\ UNCHANGED timeVars

KeyQuit ==
  /\ kpc = "keyboard"
  /\ "quit" \in Keys
  /\ kpc' = "halted"
  /\ UNCHANGED <<timeVars, tableVars, schedVars, fault>>

-----------------------------------------------------------------------------
(* scheduler_run and the context switch.                                   *)

\* A current process that is no longer ACTIVE has been unscheduled.
StillActive == current # NULL /\ state[current] = "ACTIVE"
SliceOver_Late == StillActive /\ active_time[current] > PROC_TIMESLICE
SliceOver == StillActive /\ active_time[current] >= PROC_TIMESLICE

Requeued_IdleToo == IF SliceOver THEN <<pid[current]>> ELSE <<>>

\* The idle task is made RUNNING again but never put on the run queue.
Requeued == IF SliceOver /\ pid[current] # 0 THEN <<pid[current]>> ELSE <<>>

Due_Late == {i \in Entries : state[i] = "SLEEPING" /\ wake_time[i] < system_time}
Due_Early == {i \in Entries : state[i] = "SLEEPING" /\ wake_time[i] <= system_time + 1}
Due == {i \in Entries : state[i] = "SLEEPING" /\ wake_time[i] <= system_time}

\* Sleepers are woken in the order of the process table.
InTableOrder(S) ==
  {s \in [1 .. Cardinality(S) -> S] :
     /\ Range(s) = S
     /\ \A a, b \in DOMAIN s : a < b => s[a] < s[b]}

ReadyQueue_ForgetsCurrent(woken) == run_queue \o [k \in DOMAIN woken |-> pid[woken[k]]]

\* The run queue once the process whose slice is over and the sleepers that
\* are due have been added, in that order.
ReadyQueue(woken) == run_queue \o Requeued \o [k \in DOMAIN woken |-> pid[woken[k]]]

Readied_NotCurrent == Due

\* The entries scheduler_run makes RUNNING before it picks the next process.
Readied == Due \cup (IF SliceOver THEN {current} ELSE {})

Dispatch(i) ==
  /\ current' = i
  /\ state' = [j \in Entries |-> IF j = i THEN "ACTIVE"
                                 ELSE IF j \in Readied THEN "RUNNING"
                                 ELSE state[j]]

\* The process at the head of the queue; an empty queue stands for the
\* idle task, process 0.
NextPid(queue) == IF queue = <<>> THEN 0 ELSE Head(queue)

SchedulerRun ==
  /\ kpc = "schedule"
  /\ \E woken \in InTableOrder(Due) :
       LET ready == ReadyQueue(woken)
           found == EntriesOf(NextPid(ready))
       IN  \/ /\ StillActive /\ ~SliceOver
              /\ Dispatch(current)
              /\ run_queue' = ready
              /\ Continue("user", Len(ready) <= QUEUE_SIZE, QueueFull)
           \/ /\ ~StillActive \/ SliceOver
              /\ IF found = {}
                 THEN UNCHANGED <<current, state>>
                 ELSE \E i \in found : Dispatch(i)
              /\ run_queue' = IF ready = <<>> THEN ready ELSE Tail(ready)
              /\ IF Len(ready) > QUEUE_SIZE
                 THEN Continue("user", FALSE, QueueFull)
                 ELSE Continue("user", found # {}, Unschedulable)
  /\ active_time' = [i \in Entries |-> IF i \in Readied THEN 0 ELSE active_time[i]]
  /\ wake_time' = [i \in Entries |-> IF i \in Due THEN 0 ELSE wake_time[i]]
  /\ UNCHANGED <<timeVars, tableVars>>

-----------------------------------------------------------------------------

\* kproc_exec puts the idle task on the run queue as well, once.
BootQueue == <<0, 1>>

\* kernel_init has executed the idle task and the init task, both through
\* the run queue, and is about to call scheduler_run for the first time.
ProcInit ==
  /\ system_time = 0
  /\ next_pid = 2
  /\ current = NULL
  /\ pid = [i \in Entries |-> IF i = 1 THEN 1 ELSE 0]
  /\ state = [i \in Entries |-> IF i \in {0, 1} THEN "RUNNING" ELSE "NONE"]
  /\ active_time = [i \in Entries |-> 0]
  /\ wake_time = [i \in Entries |-> 0]
  /\ proc_queue = [k \in 1 .. PROC_MAX - 2 |-> k + 1]
  /\ run_queue = BootQueue
  /\ kpc = "schedule"
  /\ fault = NoFault

ProcNext ==
  \/ Timer
  \/ SyscallQuery
  \/ SyscallYield
  \/ \E secs \in SleepSecs : SyscallSleep(secs)
  \/ SyscallExec
  \/ SyscallExit
  \/ KeyNone
  \/ KeyExec
  \/ KeyExit
  \/ KeyQuit
  \/ SchedulerRun

ProcSpec == ProcInit /\ [][ProcNext]_procVars

-----------------------------------------------------------------------------
(* Properties.                                                             *)

Live == {i \in Entries : state[i] # "NONE"}
Ready == {i \in Entries : state[i] = "RUNNING"}

\* The variables without fault, to which other modules add values.
TableTypeOK ==
  /\ system_time \in Nat
  /\ next_pid \in Nat
  /\ current \in Entries \cup {NULL}
  /\ pid \in [Entries -> Nat]
  /\ state \in [Entries -> States]
  /\ active_time \in [Entries -> Nat]
  /\ wake_time \in [Entries -> Int]
  /\ proc_queue \in Seq(Entries)
  /\ run_queue \in Seq(Nat)
  /\ kpc \in {"user", "keyboard", "schedule", "halted"}

(* Types of the kernel variables.                                          *)
ProcTypeOK == TableTypeOK /\ fault \in Faults

(* No process entry leaks and none is handed out twice: proc_queue lists   *)
(* exactly the cleared entries, each once (kproc_exec, kproc_exit).        *)
FreeEntriesExact ==
  /\ IsInjective(proc_queue)
  /\ Range(proc_queue) = Entries \ Live

(* Looking a process up by id finds that process: live entries have        *)
(* different ids, all given out already, and id 0 is the idle task's.      *)
PidsUnique ==
  /\ 0 \in Live
  /\ \A i \in Live : pid[i] < next_pid /\ (pid[i] = 0 <=> i = 0)
  /\ \A i, j \in Live : pid[i] = pid[j] => i = j

(* The run queue holds every ready process except the idle task, and       *)
(* nothing else, each once: no wake-up, yield, exit or expired time slice  *)
(* queues a process a second time or forgets it (scheduler.c).             *)
RunQueueExact ==
  /\ IsInjective(run_queue)
  /\ Range(run_queue) \subseteq {pid[i] : i \in Ready}
  /\ {pid[i] : i \in Ready \ {0}} \subseteq Range(run_queue)

(* While a process runs it is the one current points to and the only       *)
(* ACTIVE one; kernel_run and kisr_timer follow current without a check.   *)
OneActive ==
  /\ \A i \in Entries : state[i] = "ACTIVE" => i = current
  /\ kpc = "user" => current # NULL /\ state[current] = "ACTIVE"

(* No process is given the CPU for more than PROC_TIMESLICE ticks before   *)
(* the scheduler takes it away (scheduler_run, kisr_timer).                *)
SliceBounded ==
  \A i \in Entries :
    active_time[i] <= PROC_TIMESLICE - (IF kpc = "user" THEN 1 ELSE 0)

(* A sleeper is never late: when a process runs, every sleep that is over  *)
(* has already ended (the wake-up loop of scheduler_run).                  *)
SleepersOnTime ==
  kpc = "user" => \A i \in Entries : state[i] = "SLEEPING" => wake_time[i] > system_time

(* The assertions of kproc.c and scheduler.c hold: the run queue is never  *)
(* too full for a process and there is always a process to schedule.  The  *)
(* one panic left is kproc_exit(NULL), a key press away (ExitHasProcess).   *)
SchedulerNeverPanics == fault \in {NoFault, InvalidProcess}

(* kproc_exit is never called without a process ("Invalid process!").      *)
ExitHasProcess == fault # InvalidProcess

\* What a step may do to sleepers, to the run queue and to the idle task.
SleepersStay ==
  \A i \in Entries :
    state[i] = "SLEEPING" /\ state'[i] # "SLEEPING" =>
      state'[i] \in {"RUNNING", "ACTIVE"} /\ wake_time[i] <= system_time

TakesTurns ==
  \E n \in {0, 1} :
    LET kept == SubSeq(run_queue, n + 1, Len(run_queue))
    IN  /\ Len(kept) <= Len(run_queue')
        /\ SubSeq(run_queue', 1, Len(kept)) = kept
        /\ n = 1 => current' # NULL /\ pid[current'] = Head(run_queue)

IdleLast ==
  kpc = "schedule" /\ current' = 0 /\ current # 0 =>
    run_queue' = <<>> \/ run_queue = BootQueue

(* sleep() lasts: only the scheduler ends it, and not before its time.     *)
SleepNotCutShort == [][SleepersStay]_procVars

(* Round robin: the run queue is first-in, first-out.  A step adds at its  *)
(* end and takes at most the head away, which then runs: no process ever   *)
(* overtakes another, and scheduler_remove's rotation leaves no trace.     *)
RunQueueFifo == [][TakesTurns]_procVars

(* The idle task gets the CPU from another process only when no process is *)
(* ready; at boot it takes its one turn through the run queue.             *)
IdleOnlyByDefault == [][IdleLast]_procVars

\* The entries behind the ids in the run queue, and the ticks left to sleep.
EntryOf(p) == CHOOSE i \in Entries : IsEntryOf(i, p)
TicksUntil(time) == IF time > system_time THEN time - system_time ELSE 0

Scheduler == INSTANCE RoundRobin WITH
  Tasks <- Entries, Idle <- 0, InitTask <- 1, SLICE <- PROC_TIMESLICE,
  SleepTicks <- {IF secs > 0 THEN CLK_TCK * secs ELSE 0 : secs \in SleepSecs},
  status <- state,
  queue <- [k \in DOMAIN run_queue |-> EntryOf(run_queue[k])],
  running <- current,
  used <- active_time,
  sleeping <- [i \in Entries |-> IF state[i] = "SLEEPING" THEN TicksUntil(wake_time[i]) ELSE 0],
  phase <- IF kpc \in {"keyboard", "schedule"} THEN "kernel" ELSE kpc

(* scheduler.c, kproc.c and ksyscall.c, with their ids, searches and       *)
(* absolute wake times, do what the round robin of module RoundRobin does. *)
SchedulesRoundRobin == Scheduler!RRSafeSpec

=============================================================================
