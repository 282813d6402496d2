------------------------------- MODULE KMutex -------------------------------
(***************************************************************************)
(* Mutexes: kmutex.c and its system calls, on top of the process table and *)
(* the scheduler of module KProc.  A call that blocks leaves the process   *)
(* WAITING, with its id in the wait queue of the mutex, until an unlock    *)
(* hands the mutex over.                                                   *)
(*                                                                         *)
(* The kernel asks little of its callers: any process may lock, unlock or  *)
(* free any id.  AllocatedOnly limits processes to ids that mutex_alloc    *)
(* has given out, which the programs of prog.c mean to do.                 *)
(*                                                                         *)
(* A definition <name>_<change> is a mutated form of <name> that some      *)
(* property refutes; the model does not use it.                            *)
(***************************************************************************)
EXTENDS KProc

CONSTANTS
  MUTEX_MAX,      \* kmutex.h: 16
  MutexArgs,      \* the ids processes pass to the mutex calls
  AllocatedOnly   \* whether processes lock and free allocated ids only

Mutexes == 0 .. MUTEX_MAX - 1

ASSUME MutexAssumption ==
  /\ MUTEX_MAX \in 1 .. QUEUE_SIZE
  /\ MutexArgs \subseteq Int
  /\ AllocatedOnly \in BOOLEAN

VARIABLES
  allocated,     \* mutexes[m].allocated, as a truth value
  lock_count,    \* mutexes[m].lock_count
  owner,         \* mutexes[m].owner: a table entry, or NULL
  wait_queue,    \* mutexes[m].wait_queue: ids of waiting processes
  mutex_queue,   \* mutex ids to be allocated
  holders        \* the processes whose lock call ended and that have not
                 \* called unlock since; not a variable of the code

mutexVars == <<allocated, lock_count, owner, wait_queue, mutex_queue, holders>>
mutexSysVars == <<procVars, mutexVars>>

\* mutexes[MUTEX_MAX] lies beyond the array: nothing is known from here on.
OutOfBounds == "mutexes[MUTEX_MAX]"
MutexFaults == Faults \cup {OutOfBounds}

-----------------------------------------------------------------------------

\* A call that returns to its caller, having touched neither scheduler nor
\* process table.
Returns ==
  /\ kpc' = "keyboard"
  /\ UNCHANGED <<timeVars, tableVars, schedVars, fault>>

\* memset(mutex, 0, sizeof(mutex_t)), then the allocated flag.
Reset(m, isAllocated) ==
  /\ allocated' = [allocated EXCEPT ![m] = isAllocated]
  /\ lock_count' = [lock_count EXCEPT ![m] = 0]
  /\ owner' = [owner EXCEPT ![m] = NULL]
  /\ wait_queue' = [wait_queue EXCEPT ![m] = <<>>]

kmutex_alloc ==
  /\ SystemCall
  /\ Returns
  /\ UNCHANGED holders
  /\ \/ /\ mutex_queue = <<>>
        /\ UNCHANGED mutexVars
     \/ /\ mutex_queue # <<>>
        /\ mutex_queue' = Tail(mutex_queue)
        /\ Reset(Head(mutex_queue), TRUE)

MayUse(id) == AllocatedOnly /\ id \in Mutexes => allocated[id]

kmutex_free_NoLockTest(id) ==
  /\ SystemCall
  /\ id \in MutexArgs /\ MayUse(id)
  /\ Returns
  /\ UNCHANGED holders
  /\ id \in Mutexes
  /\ mutex_queue' = Append(mutex_queue, id)
  /\ Reset(id, FALSE)

kmutex_free_TestsLate(id) ==
  /\ SystemCall
  /\ id \in MutexArgs /\ MayUse(id)
  /\ Returns
  /\ UNCHANGED holders
  /\ IF id \in Mutexes => QueueIsFull(mutex_queue)
     THEN UNCHANGED mutexVars
     ELSE /\ mutex_queue' = Append(mutex_queue, id)
          /\ IF lock_count[id] > 0
             THEN UNCHANGED <<allocated, lock_count, owner, wait_queue>>
             ELSE Reset(id, FALSE)

kmutex_free_KeepsEntry(id) ==
  /\ SystemCall
  /\ id \in MutexArgs /\ MayUse(id)
  /\ Returns
  /\ id \in Mutexes
  /\ lock_count[id] = 0
  /\ mutex_queue' = Append(mutex_queue, id)
  /\ UNCHANGED <<allocated, lock_count, owner, wait_queue, holders>>

\* Whether the mutex was allocated at all is not asked.
kmutex_free(id) ==
  /\ SystemCall
  /\ id \in MutexArgs /\ MayUse(id)
  /\ Returns
  /\ UNCHANGED holders
  /\ LET refused == id \in Mutexes => lock_count[id] > 0 \/ QueueIsFull(mutex_queue)
     IN \/ /\ refused
           /\ UNCHANGED mutexVars
        \/ /\ ~refused
           /\ mutex_queue' = Append(mutex_queue, id)
           /\ Reset(id, FALSE)

LockBlocks_NoState(m) ==
  /\ wait_queue' = [wait_queue EXCEPT ![m] = QueueIn(@, pid[current])]
  /\ run_queue' = SchedulerRemove(run_queue, pid[current])
  /\ current' = NULL
  /\ kpc' = "keyboard"
  /\ UNCHANGED <<timeVars, tableVars, state, active_time, wake_time, fault, owner, holders>>

\* The mutex is held: the caller queues up and waits, whoever holds it.
LockBlocks(m) ==
  /\ wait_queue' = [wait_queue EXCEPT ![m] = QueueIn(@, pid[current])]
  /\ state' = [state EXCEPT ![current] = "WAITING"]
  /\ run_queue' = SchedulerRemove(run_queue, pid[current])
  /\ current' = NULL
  /\ kpc' = "keyboard"
  /\ UNCHANGED <<timeVars, tableVars, active_time, wake_time, fault, owner, holders>>

LockTakes(m) ==
  /\ owner' = [owner EXCEPT ![m] = current]
  /\ holders' = [holders EXCEPT ![m] = @ \cup {pid[current]}]
  /\ Returns
  /\ UNCHANGED wait_queue

\* An id is refused when it is negative or greater than MUTEX_MAX.
kmutex_lock(id) ==
  /\ SystemCall
  /\ id \in MutexArgs /\ MayUse(id)
  /\ \/ /\ id < 0 \/ id > MUTEX_MAX
        /\ Returns
        /\ UNCHANGED mutexVars
     \/ /\ id = MUTEX_MAX
        /\ Continue("keyboard", FALSE, OutOfBounds)
        /\ UNCHANGED <<timeVars, tableVars, schedVars, mutexVars>>
     \/ /\ id \in Mutexes
        /\ \/ lock_count[id] > 0 /\ LockBlocks(id)
           \/ lock_count[id] = 0 /\ LockTakes(id)
        /\ lock_count' = [lock_count EXCEPT ![id] = @ + 1]
        /\ UNCHANGED <<allocated, mutex_queue>>

ReleaseLast_KeepsOwner(m) ==
  /\ holders' = [holders EXCEPT ![m] = @ \ {pid[current]}]
  /\ Returns
  /\ UNCHANGED <<owner, wait_queue>>

\* Nobody waits: the mutex is free.
ReleaseLast(m) ==
  /\ owner' = [owner EXCEPT ![m] = NULL]
  /\ holders' = [holders EXCEPT ![m] = @ \ {pid[current]}]
  /\ Returns
  /\ UNCHANGED wait_queue

HandOver_KeepsOwner(m, i) ==
  /\ holders' = [holders EXCEPT ![m] = (@ \ {pid[current]}) \cup {pid[i]}]
  /\ run_queue' = QueueIn(run_queue, pid[i])
  /\ state' = [state EXCEPT ![i] = "RUNNING"]
  /\ Continue("keyboard", ~QueueIsFull(run_queue), QueueFull)
  /\ UNCHANGED owner

HandOver_First(m, i) ==
  /\ owner' = [owner EXCEPT ![m] = i]
  /\ holders' = [holders EXCEPT ![m] = (@ \ {pid[current]}) \cup {pid[i]}]
  /\ run_queue' = <<pid[i]>> \o run_queue
  /\ state' = [state EXCEPT ![i] = "RUNNING"]
  /\ Continue("keyboard", ~QueueIsFull(run_queue), QueueFull)

\* The process in entry i, taken from the wait queue, gets the mutex.
HandOver(m, i) ==
  /\ owner' = [owner EXCEPT ![m] = i]
  /\ holders' = [holders EXCEPT ![m] = (@ \ {pid[current]}) \cup {pid[i]}]
  /\ run_queue' = QueueIn(run_queue, pid[i])
  /\ state' = [state EXCEPT ![i] = "RUNNING"]
  /\ Continue("keyboard", ~QueueIsFull(run_queue), QueueFull)

\* Take the first process off the wait queue and look its entry up.  An
\* empty queue is an error, and an id without an entry goes unnoticed.
ReleaseToWaiter(m) ==
  LET found == IF wait_queue[m] = <<>> THEN {} ELSE EntriesOf(Head(wait_queue[m]))
  IN  /\ wait_queue' = [wait_queue EXCEPT ![m] = IF @ = <<>> THEN @ ELSE Tail(@)]
      /\ IF found = {}
         THEN /\ holders' = [holders EXCEPT ![m] = @ \ {pid[current]}]
              /\ kpc' = "keyboard"
              /\ UNCHANGED <<owner, run_queue, state, fault>>
         ELSE \E i \in found : HandOver(m, i)
      /\ UNCHANGED <<timeVars, tableVars, current, active_time, wake_time>>

\* An invalid id, a mutex nobody holds, or a caller that is not its owner:
\* the call changes nothing.
kmutex_unlock(id) ==
  /\ SystemCall
  /\ id \in MutexArgs
  /\ LET ignored == id \in Mutexes => lock_count[id] = 0 \/ owner[id] # current
     IN \/ /\ ignored
           /\ Returns
           /\ UNCHANGED mutexVars
        \/ /\ ~ignored
           /\ lock_count' = [lock_count EXCEPT ![id] = @ - 1]
           /\ \/ lock_count[id] = 1 /\ ReleaseLast(id)
              \/ lock_count[id] > 1 /\ ReleaseToWaiter(id)
           /\ UNCHANGED <<allocated, mutex_queue>>

-----------------------------------------------------------------------------

\* kernel_init fills mutex_queue; kmutex_init, which is never called, would
\* do the same.  The table itself is zero from the start.
MutexInit ==
  /\ ProcInit
  /\ allocated = [m \in Mutexes |-> FALSE]
  /\ lock_count = [m \in Mutexes |-> 0]
  /\ owner = [m \in Mutexes |-> NULL]
  /\ wait_queue = [m \in Mutexes |-> <<>>]
  /\ mutex_queue = [k \in 1 .. MUTEX_MAX |-> k - 1]
  /\ holders = [m \in Mutexes |-> {}]

MutexNext ==
  \/ ProcNext /\ UNCHANGED mutexVars
  \/ kmutex_alloc
  \/ \E id \in MutexArgs : kmutex_free(id)
  \/ \E id \in MutexArgs : kmutex_lock(id)
  \/ \E id \in MutexArgs : kmutex_unlock(id)

MutexSpec == MutexInit /\ [][MutexNext]_mutexSysVars

-----------------------------------------------------------------------------
(* Properties.                                                             *)

\* The mutex table without fault, to which other modules add values.
MutexTableOK ==
  /\ allocated \in [Mutexes -> BOOLEAN]
  /\ lock_count \in [Mutexes -> Nat]
  /\ owner \in [Mutexes -> Entries \cup {NULL}]
  /\ wait_queue \in [Mutexes -> Seq(Nat)]
  /\ mutex_queue \in Seq(Mutexes)
  /\ holders \in [Mutexes -> SUBSET Nat]

(* Types of the mutex table and of the pool of ids.                        *)
MutexTypeOK == MutexTableOK /\ fault \in MutexFaults

(* lock_count, owner and the wait queue, which every lock and unlock       *)
(* updates separately, tell the same story: the owner and the waiting      *)
(* processes are what is counted, and nobody waits for a free mutex.       *)
LockCountExact ==
  \A m \in Mutexes :
    /\ lock_count[m] = Len(wait_queue[m]) + (IF owner[m] = NULL THEN 0 ELSE 1)
    /\ owner[m] = NULL => wait_queue[m] = <<>>

(* No process is lost: a WAITING process stands in the wait queue of one   *)
(* mutex, once, and a queued id is that of a WAITING process (kmutex.c,    *)
(* against scheduler.c and kproc.c, which also change states).             *)
WaitersExact ==
  /\ \A m \in Mutexes : IsInjective(wait_queue[m])
  /\ \A m, n \in Mutexes :
       m # n => Range(wait_queue[m]) \cap Range(wait_queue[n]) = {}
  /\ UNION {Range(wait_queue[m]) : m \in Mutexes}
       = {pid[i] : i \in {j \in Entries : state[j] = "WAITING"}}

(* Mutual exclusion: of the live processes at most one has locked a mutex  *)
(* and not unlocked it, however alloc, free and process exits interleave.  *)
MutualExclusion ==
  \A m \in Mutexes : \A p, q \in holders[m] \cap {pid[i] : i \in Live} : p = q

(* mutex_queue lists exactly the ids that are not allocated, each once: no *)
(* id leaks and none is given out twice (kmutex_alloc, kmutex_free).       *)
MutexIdsExact ==
  /\ IsInjective(mutex_queue)
  /\ Range(mutex_queue) = {m \in Mutexes : ~allocated[m]}

(* The table is never indexed beyond its end (kmutex.h: an error is -1).   *)
LockInBounds == fault # OutOfBounds

(* "Only the owner may unlock the mutex" (kmutex.c:179): the process whose *)
(* unlock call is carried out is one whose lock call was.                  *)
UnlockByHolder ==
  [][\A m \in Mutexes : lock_count'[m] < lock_count[m] => pid[current] \in holders[m]]_mutexSysVars

\* Who holds a mutex and who waits for it, as table entries.
LineOf(m) ==
  IF owner[m] = NULL THEN <<>>
  ELSE <<owner[m]>> \o [k \in DOMAIN wait_queue[m] |-> EntryOf(wait_queue[m][k])]

Service == INSTANCE LockService WITH
  Tasks <- Entries, Idle <- 0, InitTask <- 1, SLICE <- PROC_TIMESLICE,
  SleepTicks <- {IF secs > 0 THEN CLK_TCK * secs ELSE 0 : secs \in SleepSecs},
  status <- state,
  queue <- [k \in DOMAIN run_queue |-> EntryOf(run_queue[k])],
  running <- current,
  used <- active_time,
  sleeping <- [i \in Entries |-> IF state[i] = "SLEEPING" THEN TicksUntil(wake_time[i]) ELSE 0],
  phase <- IF kpc \in {"keyboard", "schedule"} THEN "kernel" ELSE kpc,
  Locks <- Mutexes,
  line <- [m \in Mutexes |-> LineOf(m)]

(* lock_count, owner and wait queue of kmutex.c act as one first-come line *)
(* per mutex, and the callers wait and become ready as the line says, even *)
(* when processes lock ids that were never allocated.                      *)
LocksServe == Service!LockSpec

=============================================================================
