----------------------------- MODULE KMutexProofs ---------------------------
(***************************************************************************)
(* The mutexes of kmutex.c, for every number of mutexes and processes and  *)
(* whatever ids processes pass.  Two things depend on what the callers do: *)
(* that no process that waits is forgotten, and mutual exclusion.  They    *)
(* hold as long as processes lock and free only ids they have allocated.   *)
(***************************************************************************)
EXTENDS KMutex, KProcProofs

USE MutexAssumption

-----------------------------------------------------------------------------
(* The inductive invariant.                                                *)

(* A call that blocks forgets the caller at once, so whoever is current    *)
(* when a key is polled or the scheduler starts does not wait for a mutex. *)
RunnerActive == current # NULL => state[current] = "ACTIVE"

(* Wait queues list processes that wait, each in one place and once.       *)
WaitersKnown ==
  /\ \A m \in Mutexes : IsInjective(wait_queue[m])
  /\ \A m, n \in Mutexes :
       m # n => Range(wait_queue[m]) \cap Range(wait_queue[n]) = {}
  /\ \A m \in Mutexes : Range(wait_queue[m]) \subseteq {pid[i] : i \in Waiting}

(* A mutex is held by ids that have been given out: the next process gets  *)
(* an id that holds nothing.                                               *)
HoldersKnown == \A m \in Mutexes : \A p \in holders[m] : 0 < p /\ p < next_pid

LockInv ==
  /\ KernelInv /\ IdleAlone
  /\ MutexTableOK
  /\ LockCountExact
  /\ WaitersKnown
  /\ HoldersKnown

(* What callers that stick to the ids they have allocated keep true as     *)
(* well: an id in the pool is not in use, so that alloc clears a mutex     *)
(* nobody waits for.                                                       *)
HolderIsOwner == \A m \in Mutexes : \A i \in Live : pid[i] \in holders[m] => owner[m] = i
FreeUnused == \A m \in Mutexes : ~allocated[m] => lock_count[m] = 0

PoolInv ==
  /\ MutexIdsExact
  /\ HolderIsOwner
  /\ FreeUnused

MutexesInv == LockInv /\ (AllocatedOnly => PoolInv)

(* The processes that wait and stand in no wait queue of a mutex.  Without *)
(* mailboxes there should be none.                                         *)
Elsewhere == {i \in Waiting : \A m \in Mutexes : pid[i] \notin Range(wait_queue[m])}

MutexInv ==
  /\ MutexesInv
  /\ RunnerActive
  /\ fault \in MutexFaults
  /\ AllocatedOnly => Elsewhere = {}

(* What a mutex call keeps and promises.  Those that wait for something    *)
(* else are none of its business.                                          *)
CallKeeps ==
  /\ MutexesInv'
  /\ RunnerActive'
  /\ fault' \in {fault, OutOfBounds}
  /\ UNCHANGED <<pid, next_pid>> /\ Live' = Live
  /\ Waiting' \subseteq Waiting \cup {current}
  /\ Elsewhere \subseteq Elsewhere'
  /\ AllocatedOnly => Elsewhere' = Elsewhere

-----------------------------------------------------------------------------
(* Consequences of the invariant that the steps rest on.                   *)

LEMMA MutexTypes ==
  ASSUME MutexTableOK, NEW m \in Mutexes
  PROVE  /\ allocated[m] \in BOOLEAN
         /\ lock_count[m] \in Nat
         /\ owner[m] \in Entries \cup {NULL}
         /\ wait_queue[m] \in Seq(Nat)
         /\ Len(wait_queue[m]) \in Nat
         /\ holders[m] \in SUBSET Nat
<1>1. wait_queue[m] \in Seq(Nat)
  BY DEF MutexTableOK
<1>2. QED
  BY <1>1, LenProperties DEF MutexTableOK

(* What the count of a mutex says of its owner and its queue.              *)
LEMMA CountFacts ==
  ASSUME MutexTableOK, LockCountExact, NEW m \in Mutexes
  PROVE  /\ lock_count[m] = 0 => owner[m] = NULL /\ wait_queue[m] = <<>>
         /\ lock_count[m] > 0 => owner[m] \in Entries
         /\ lock_count[m] > 0 => lock_count[m] = Len(wait_queue[m]) + 1
         /\ lock_count[m] > 1 => wait_queue[m] # <<>>
<1>1. /\ lock_count[m] \in Nat
      /\ owner[m] \in Entries \cup {NULL}
      /\ wait_queue[m] \in Seq(Nat)
      /\ Len(wait_queue[m]) \in Nat
  BY MutexTypes
<1>2. Len(<<>>) = 0
  OBVIOUS
<1>3. CASE owner[m] = NULL
  <2>1. wait_queue[m] = <<>>
    BY <1>3 DEF LockCountExact
  <2>2. lock_count[m] = Len(wait_queue[m]) + 0
    BY <1>3 DEF LockCountExact
  <2>3. lock_count[m] = 0
    BY <1>1, <1>2, <2>1, <2>2
  <2>4. QED
    BY <1>3, <2>1, <2>3
<1>4. CASE owner[m] # NULL
  <2>1. lock_count[m] = Len(wait_queue[m]) + 1
    BY <1>4 DEF LockCountExact
  <2>2. owner[m] \in Entries
    BY <1>1, <1>4
  <2>3. lock_count[m] > 1 => wait_queue[m] # <<>>
    BY <1>1, <1>2, <2>1
  <2>4. QED
    BY <1>1, <2>1, <2>2, <2>3
<1>5. QED
  BY <1>3, <1>4

(* The process that makes a call stands in no wait queue, and no wait      *)
(* queue is full while it lives.                                           *)
LEMMA CallerNotQueued ==
  ASSUME LockInv, SystemCall
  PROVE  /\ current \in Live \ {0} /\ current \in Entries /\ current # NULL
         /\ current \notin Waiting /\ state[current] = "ACTIVE"
         /\ 0 < pid[current] /\ pid[current] < next_pid
         /\ \A m \in Mutexes : /\ pid[current] \notin Range(wait_queue[m])
                               /\ Len(wait_queue[m]) < QUEUE_SIZE
         /\ kpc = "user"
<1>1. /\ current \in Live \ {0} /\ current \in Entries /\ current # NULL
      /\ current \notin Waiting /\ state[current] = "ACTIVE"
  BY CallerFacts, EntriesFinite DEF LockInv, Live, Waiting
<1>2. 0 < pid[current] /\ pid[current] < next_pid
  BY <1>1 DEF LockInv, KernelInv, TableTypeOK, TableInv, PidsUnique
<1>3. \A i \in Waiting : pid[i] # pid[current]
  BY <1>1 DEF LockInv, KernelInv, TableInv, PidsUnique, Waiting, Live
<1>4. ASSUME NEW m \in Mutexes
      PROVE  pid[current] \notin Range(wait_queue[m]) /\ Len(wait_queue[m]) < QUEUE_SIZE
  <2>1. /\ wait_queue[m] \in Seq(Nat)
        /\ IsInjective(wait_queue[m])
        /\ Range(wait_queue[m]) \subseteq {pid[i] : i \in Waiting}
    BY MutexTypes DEF LockInv, WaitersKnown
  <2>2. Waiting # Entries
    BY <1>1
  <2>3. Len(wait_queue[m]) < QUEUE_SIZE
    BY <2>1, <2>2, WaitersFit DEF LockInv
  <2>4. QED
    BY <1>3, <2>1, <2>3
<1>5. QED
  BY <1>1, <1>2, <1>4 DEF SystemCall

(* The first process in a wait queue is one that waits, and the search for *)
(* its id finds it.                                                        *)
LEMMA FirstWaiter ==
  ASSUME LockInv, NEW m \in Mutexes, wait_queue[m] # <<>>
  PROVE  \E i \in Waiting :
           /\ Head(wait_queue[m]) = pid[i]
           /\ EntriesOf(Head(wait_queue[m])) = {i}
           /\ \A j \in Live : pid[j] = pid[i] => j = i
           /\ Tail(wait_queue[m]) \in Seq(Nat)
           /\ IsInjective(Tail(wait_queue[m]))
           /\ Range(Tail(wait_queue[m])) = Range(wait_queue[m]) \ {pid[i]}
           /\ pid[i] \in Range(wait_queue[m])
           /\ Len(Tail(wait_queue[m])) = Len(wait_queue[m]) - 1
<1> DEFINE q == wait_queue[m]
<1>1. q \in Seq(Nat) /\ IsInjective(q) /\ q # <<>> /\ Range(q) \subseteq {pid[i] : i \in Waiting}
  BY MutexTypes DEF LockInv, WaitersKnown
<1> HIDE DEF q
<1>2. /\ Head(q) \in Range(q)
      /\ Tail(q) \in Seq(Nat)
      /\ IsInjective(Tail(q))
      /\ Range(Tail(q)) = Range(q) \ {Head(q)}
  BY <1>1, TailFacts
<1>3. Len(Tail(q)) = Len(q) - 1
  BY <1>1, HeadTailProperties
<1>4. PICK i \in Waiting : Head(q) = pid[i]
  BY <1>1, <1>2
<1>5. EntriesOf(pid[i]) = {i} /\ \A j \in Live : pid[j] = pid[i] => j = i
  BY WaiterFacts DEF LockInv
<1>6. QED
  BY <1>2, <1>3, <1>4, <1>5 DEF q

(* What is left to show of a step that only writes the mutex table.        *)
LEMMA TableOnly ==
  ASSUME LockInv, SystemCall, kpc' \in {"keyboard", "halted"},
         UNCHANGED <<timeVars, tableVars, schedVars>>
  PROVE  /\ KernelInv' /\ IdleAlone' /\ RunnerActive'
         /\ Live' = Live /\ Waiting' = Waiting
         /\ UNCHANGED <<pid, next_pid, current>>
<1>1. KernelInv' /\ IdleAlone' /\ Live' = Live /\ Waiting' = Waiting
  BY ReturnStep DEF LockInv, SystemCall
<1>2. UNCHANGED <<pid, next_pid, current, state>>
  BY DEF tableVars, schedVars
<1>3. QED
  BY <1>1, <1>2, CallerNotQueued DEF RunnerActive

-----------------------------------------------------------------------------
(* One lemma per action: it preserves the invariant.                       *)

(* The steps of module KProc leave the wait queues right: they neither end *)
(* a wait nor reuse the id of a process that waits or holds.  A process    *)
(* that exits while it waits must wait elsewhere.                          *)
LEMMA ProcessStep ==
  ASSUME MutexesInv, [ProcNext]_procVars, UNCHANGED mutexVars,
         current \in Waiting => current \in Elsewhere
  PROVE  /\ MutexesInv'
         /\ Elsewhere' = Elsewhere \cap Waiting'
<1> USE DEF mutexVars
<1>1. KernelInv /\ IdleAlone
  BY DEF MutexesInv, LockInv
<1>2. KernelInv' /\ IdleAlone'
  BY <1>1, NextInv, StepProperties
<1>3. /\ \/ Waiting' = Waiting
         \/ current \in Waiting /\ Waiting' = Waiting \ {current}
      /\ \A i \in Waiting' : pid'[i] = pid[i]
  BY <1>1, WaitersStay
<1>4. /\ next_pid' >= next_pid
      /\ \A i \in Live' : \/ i \in Live /\ pid'[i] = pid[i]
                          \/ pid'[i] = next_pid /\ next_pid' > next_pid
  BY <1>1, IdsStay
<1>5. MutexTableOK' /\ LockCountExact'
  BY DEF MutexesInv, LockInv, MutexTableOK, LockCountExact
<1>6. WaitersKnown'
  <2> SUFFICES ASSUME NEW m \in Mutexes, NEW p \in Range(wait_queue[m])
               PROVE  \E i \in Waiting' : p = pid'[i]
    BY DEF MutexesInv, LockInv, WaitersKnown
  <2>1. PICK i \in Waiting : p = pid[i]
    BY DEF MutexesInv, LockInv, WaitersKnown
  <2>2. i \notin Elsewhere
    BY <2>1 DEF Elsewhere
  <2>3. i \in Waiting'
    BY <2>2, <1>3
  <2>4. QED
    BY <2>1, <2>3, <1>3
<1>7. HoldersKnown'
  <2>1. next_pid \in Nat /\ next_pid' \in Nat
    BY <1>1, <1>2 DEF KernelInv, TableTypeOK
  <2> SUFFICES ASSUME NEW m \in Mutexes, NEW p \in holders[m]
               PROVE  0 < p /\ p < next_pid'
    BY DEF HoldersKnown
  <2>2. p \in Nat /\ 0 < p /\ p < next_pid
    BY MutexTypes DEF MutexesInv, LockInv, HoldersKnown
  <2>3. QED
    BY <1>4, <2>1, <2>2
<1>8. ASSUME PoolInv
      PROVE  PoolInv'
  <2>1. MutexIdsExact' /\ FreeUnused'
    BY <1>8 DEF PoolInv, MutexIdsExact, FreeUnused
  <2>2. HolderIsOwner'
    <3> SUFFICES ASSUME NEW m \in Mutexes, NEW i \in Live', pid'[i] \in holders[m]
                 PROVE  owner[m] = i
      BY DEF HolderIsOwner
    <3>1. pid'[i] < next_pid /\ next_pid \in Nat
      BY <1>1 DEF MutexesInv, LockInv, HoldersKnown, KernelInv, TableTypeOK
    <3>2. i \in Live /\ pid'[i] = pid[i]
      BY <3>1, <1>4
    <3>3. QED
      BY <3>2, <1>8 DEF PoolInv, HolderIsOwner
  <2>3. QED
    BY <2>1, <2>2 DEF PoolInv
<1>9. Elsewhere' = Elsewhere \cap Waiting'
  BY <1>3 DEF Elsewhere
<1>10. QED
  BY <1>2, <1>5, <1>6, <1>7, <1>8, <1>9 DEF MutexesInv, LockInv

(* A blocked call leaves no current process, and scheduler_run never makes *)
(* a process current that waits.                                           *)
LEMMA RunnerStep ==
  ASSUME KernelInv, IdleAlone, RunnerActive, [ProcNext]_procVars
  PROVE  RunnerActive' /\ Waiting' = Waiting
<1>1. current \notin Waiting
  BY EntriesFinite DEF RunnerActive, Waiting
<1>2. KernelInv'
  BY NextInv
<1>3. Waiting' = Waiting
  BY <1>1, WaitersStay
<1>4. current' # NULL => state'[current'] \in {"ACTIVE", "WAITING"} /\ current' \in Entries
  BY <1>2 DEF KernelInv, CurrentInv, CurrentNotReady, TableTypeOK
<1>5. current' # NULL => current' \notin Waiting
  <2>1. CASE SchedulerRun
    <3>1. PICK i \in Live : Dispatch(i) /\ state[i] # "WAITING"
      BY <2>1, PickedNotWaiting
    <3>2. QED
      BY <3>1 DEF Dispatch, Waiting
  <2>2. CASE ~SchedulerRun
    <3>1. current' \in {current, NULL}
      BY <2>2 DEF ProcNext, Timer, SyscallQuery, SyscallYield, SyscallSleep, SyscallExec,
                  SyscallExit, KeyNone, KeyExec, KeyExit, KeyQuit, kproc_exec, kproc_exit,
                  schedVars, procVars
    <3>2. QED
      BY <3>1, <1>1
  <2>3. QED
    BY <2>1, <2>2
<1>6. QED
  BY <1>3, <1>4, <1>5 DEF RunnerActive, Waiting

(* A call that is refused, or ignored, or leaves the array.                *)
LEMMA RefusedStep ==
  ASSUME MutexesInv, SystemCall, kpc' \in {"keyboard", "halted"},
         fault' \in {fault, OutOfBounds},
         UNCHANGED <<timeVars, tableVars, schedVars, mutexVars>>
  PROVE  CallKeeps
<1> USE DEF mutexVars
<1>1. /\ KernelInv' /\ IdleAlone' /\ RunnerActive'
      /\ Live' = Live /\ Waiting' = Waiting
      /\ UNCHANGED <<pid, next_pid, current>>
  BY TableOnly DEF MutexesInv
<1>2. LockInv'
  BY <1>1 DEF MutexesInv, LockInv, MutexTableOK, LockCountExact, WaitersKnown, HoldersKnown
<1>3. PoolInv => PoolInv'
  BY <1>1 DEF PoolInv, MutexIdsExact, HolderIsOwner, FreeUnused
<1>4. Elsewhere' = Elsewhere
  BY <1>1 DEF Elsewhere
<1>5. QED
  BY <1>1, <1>2, <1>3, <1>4 DEF MutexesInv, CallKeeps

(* Clearing an entry of the mutex table forgets its wait queue, which is   *)
(* what callers that stick to allocated ids make sure is empty.            *)
LEMMA ResetStep ==
  ASSUME MutexesInv, SystemCall, Returns, UNCHANGED holders,
         NEW m \in Mutexes, NEW isAllocated \in BOOLEAN, Reset(m, isAllocated),
         mutex_queue' \in Seq(Mutexes)
  PROVE  /\ LockInv' /\ RunnerActive'
         /\ fault' = fault /\ UNCHANGED <<pid, next_pid>> /\ Live' = Live
         /\ Waiting' = Waiting
         /\ Elsewhere \subseteq Elsewhere'
         /\ PoolInv /\ lock_count[m] = 0 => HolderIsOwner' /\ FreeUnused' /\ Elsewhere' = Elsewhere
<1>1. /\ KernelInv' /\ IdleAlone' /\ RunnerActive'
      /\ Live' = Live /\ Waiting' = Waiting
      /\ UNCHANGED <<pid, next_pid, current>>
  BY TableOnly DEF MutexesInv, Returns
<1>2. /\ allocated' = [allocated EXCEPT ![m] = isAllocated]
      /\ lock_count' = [lock_count EXCEPT ![m] = 0]
      /\ owner' = [owner EXCEPT ![m] = NULL]
      /\ wait_queue' = [wait_queue EXCEPT ![m] = <<>>]
      /\ holders' = holders
      /\ fault' = fault
  BY DEF Reset, Returns
<1>3. Range(<<>>) = {} /\ IsInjective(<<>>) /\ Len(<<>>) = 0 /\ <<>> \in Seq(Nat)
  BY DEF Range, IsInjective
<1>4. /\ wait_queue'[m] = <<>> /\ owner'[m] = NULL /\ lock_count'[m] = 0
      /\ \A n \in Mutexes \ {m} : /\ wait_queue'[n] = wait_queue[n]
                                  /\ owner'[n] = owner[n]
                                  /\ lock_count'[n] = lock_count[n]
                                  /\ allocated'[n] = allocated[n]
  BY <1>2 DEF MutexesInv, LockInv, MutexTableOK
<1>5. MutexTableOK'
  BY <1>2, <1>3 DEF MutexesInv, LockInv, MutexTableOK
<1>6. LockCountExact'
  <2> SUFFICES ASSUME NEW n \in Mutexes
               PROVE  /\ lock_count'[n] = Len(wait_queue'[n]) + (IF owner'[n] = NULL THEN 0 ELSE 1)
                      /\ owner'[n] = NULL => wait_queue'[n] = <<>>
    BY DEF LockCountExact
  <2>1. CASE n = m
    BY <2>1, <1>3, <1>4
  <2>2. CASE n # m
    BY <2>2, <1>4 DEF MutexesInv, LockInv, LockCountExact
  <2>3. QED
    BY <2>1, <2>2
<1>7. WaitersKnown'
  BY <1>1, <1>3, <1>4, ZenonT(60) DEF MutexesInv, LockInv, WaitersKnown
<1>8. HoldersKnown'
  BY <1>1, <1>2 DEF MutexesInv, LockInv, HoldersKnown
<1>9. ASSUME PoolInv, lock_count[m] = 0
      PROVE  HolderIsOwner' /\ FreeUnused' /\ Elsewhere' = Elsewhere
  <2>1. owner[m] = NULL /\ wait_queue[m] = <<>>
    BY <1>9, CountFacts DEF MutexesInv, LockInv
  <2>2. wait_queue' = wait_queue /\ owner' = owner
    BY <1>2, <2>1 DEF MutexesInv, LockInv, MutexTableOK
  <2>3. HolderIsOwner' /\ Elsewhere' = Elsewhere
    BY <1>1, <1>2, <1>9, <2>2 DEF PoolInv, HolderIsOwner, Elsewhere
  <2>4. FreeUnused'
    BY <1>4, <1>9 DEF PoolInv, FreeUnused
  <2>5. QED
    BY <2>3, <2>4
<1>10. Elsewhere \subseteq Elsewhere'
  BY <1>1, <1>3, <1>4 DEF Elsewhere
<1>11. QED
  BY <1>1, <1>2, <1>5, <1>6, <1>7, <1>8, <1>9, <1>10 DEF LockInv

LEMMA AllocStep ==
  ASSUME MutexesInv, kmutex_alloc
  PROVE  CallKeeps
<1>1. CASE UNCHANGED mutexVars
  BY <1>1, RefusedStep DEF kmutex_alloc, Returns
<1>2. CASE /\ mutex_queue # <<>>
           /\ mutex_queue' = Tail(mutex_queue)
           /\ Reset(Head(mutex_queue), TRUE)
  <2> DEFINE m == Head(mutex_queue)
  <2>1. mutex_queue \in Seq(Mutexes)
    BY DEF MutexesInv, LockInv, MutexTableOK
  <2>2. m \in Mutexes /\ mutex_queue' \in Seq(Mutexes)
    BY <1>2, <2>1, HeadTailProperties
  <2>3. Reset(m, TRUE) /\ SystemCall /\ Returns /\ UNCHANGED holders
    BY <1>2 DEF kmutex_alloc
  <2> HIDE DEF m
  <2>4. /\ LockInv' /\ RunnerActive'
        /\ fault' = fault /\ UNCHANGED <<pid, next_pid>> /\ Live' = Live
        /\ Waiting' = Waiting
        /\ Elsewhere \subseteq Elsewhere'
        /\ PoolInv /\ lock_count[m] = 0 => HolderIsOwner' /\ FreeUnused' /\ Elsewhere' = Elsewhere
    BY <2>2, <2>3, ResetStep
  <2>5. ASSUME PoolInv
        PROVE  PoolInv' /\ Elsewhere' = Elsewhere
    <3>1. /\ m \in Range(mutex_queue)
          /\ IsInjective(Tail(mutex_queue))
          /\ Range(Tail(mutex_queue)) = Range(mutex_queue) \ {m}
      BY <1>2, <2>1, <2>5, TailFacts DEF m, PoolInv, MutexIdsExact
    <3>2. lock_count[m] = 0
      BY <3>1, <2>2, <2>5 DEF PoolInv, MutexIdsExact, FreeUnused
    <3>3. allocated' = [allocated EXCEPT ![m] = TRUE] /\ allocated \in [Mutexes -> BOOLEAN]
      BY <2>3 DEF Reset, MutexesInv, LockInv, MutexTableOK
    <3>4. {n \in Mutexes : ~allocated'[n]} = {n \in Mutexes : ~allocated[n]} \ {m}
      BY <3>3
    <3>5. MutexIdsExact'
      BY <1>2, <2>5, <3>1, <3>4 DEF PoolInv, MutexIdsExact
    <3>6. QED
      BY <2>4, <2>5, <3>2, <3>5 DEF PoolInv
  <2>6. QED
    BY <2>4, <2>5 DEF MutexesInv, CallKeeps
<1>3. QED
  BY <1>1, <1>2 DEF kmutex_alloc

LEMMA FreeStep ==
  ASSUME MutexesInv, NEW id \in MutexArgs, kmutex_free(id)
  PROVE  CallKeeps
<1>1. CASE UNCHANGED mutexVars
  BY <1>1, RefusedStep DEF kmutex_free, Returns
<1>2. CASE /\ id \in Mutexes /\ lock_count[id] <= 0 /\ ~QueueIsFull(mutex_queue)
           /\ mutex_queue' = Append(mutex_queue, id)
           /\ Reset(id, FALSE)
  <2>1. mutex_queue \in Seq(Mutexes) /\ mutex_queue' \in Seq(Mutexes)
    <3>1. mutex_queue \in Seq(Mutexes)
      BY DEF MutexesInv, LockInv, MutexTableOK
    <3>2. QED
      BY <1>2, <3>1, AppendProperties
  <2>2. SystemCall /\ Returns /\ UNCHANGED holders /\ lock_count[id] = 0
    BY <1>2, MutexTypes DEF kmutex_free, MutexesInv, LockInv
  <2>3. /\ LockInv' /\ RunnerActive'
        /\ fault' = fault /\ UNCHANGED <<pid, next_pid>> /\ Live' = Live
        /\ Waiting' = Waiting
        /\ Elsewhere \subseteq Elsewhere'
        /\ PoolInv => HolderIsOwner' /\ FreeUnused' /\ Elsewhere' = Elsewhere
    BY <1>2, <2>1, <2>2, ResetStep
  <2>4. ASSUME PoolInv, AllocatedOnly
        PROVE  PoolInv' /\ Elsewhere' = Elsewhere
    <3>1. id \notin Range(mutex_queue)
      BY <1>2, <2>4 DEF kmutex_free, MayUse, PoolInv, MutexIdsExact
    <3>2. /\ Range(Append(mutex_queue, id)) = Range(mutex_queue) \cup {id}
          /\ IsInjective(Append(mutex_queue, id))
      BY <1>2, <2>1, <2>4, <3>1, AppendFacts DEF PoolInv, MutexIdsExact
    <3>3. allocated' = [allocated EXCEPT ![id] = FALSE] /\ allocated \in [Mutexes -> BOOLEAN]
      BY <1>2 DEF Reset, MutexesInv, LockInv, MutexTableOK
    <3>4. {n \in Mutexes : ~allocated'[n]} = {n \in Mutexes : ~allocated[n]} \cup {id}
      BY <3>3, <1>2
    <3>5. MutexIdsExact'
      BY <1>2, <2>4, <3>2, <3>4 DEF PoolInv, MutexIdsExact
    <3>6. QED
      BY <2>3, <2>4, <3>5 DEF PoolInv
  <2>5. QED
    BY <2>3, <2>4 DEF MutexesInv, CallKeeps
<1>3. QED
  <2>1. id \in Mutexes => (~(lock_count[id] > 0) <=> lock_count[id] <= 0)
    BY MutexTypes DEF MutexesInv, LockInv
  <2>2. QED
    BY <1>1, <1>2, <2>1 DEF kmutex_free

(* mutex_lock on a mutex somebody holds: the caller is neither forgotten   *)
(* nor queued twice, and the wait queue has room for it.                   *)
LEMMA BlockingLock ==
  ASSUME MutexesInv, NEW m \in Mutexes, SystemCall, lock_count[m] > 0, LockBlocks(m),
         lock_count' = [lock_count EXCEPT ![m] = @ + 1],
         UNCHANGED <<allocated, mutex_queue>>
  PROVE  CallKeeps
<1> DEFINE p == pid[current]
           q == wait_queue[m]
<1>1. /\ current \in Live \ {0} /\ current \in Entries /\ current # NULL
      /\ current \notin Waiting
      /\ \A n \in Mutexes : p \notin Range(wait_queue[n])
      /\ Len(q) < QUEUE_SIZE
      /\ p \in Nat
      /\ p \notin Range(run_queue)
  <2>1. p \in Nat
    BY CallerNotQueued DEF MutexesInv, LockInv, KernelInv, TableTypeOK
  <2>2. QED
    BY <2>1, CallerNotQueued, CallerFacts DEF MutexesInv, LockInv
<1>2. /\ q \in Seq(Nat) /\ IsInjective(q) /\ Len(q) \in Nat
      /\ owner[m] \in Entries
      /\ lock_count[m] = Len(q) + 1
  BY MutexTypes, CountFacts DEF MutexesInv, LockInv, WaitersKnown
<1>3. /\ wait_queue' = [wait_queue EXCEPT ![m] = Append(q, p)]
      /\ state' = [state EXCEPT ![current] = "WAITING"]
      /\ run_queue' = run_queue
      /\ current' = NULL
      /\ kpc' = "keyboard"
      /\ UNCHANGED <<timeVars, tableVars, active_time, wake_time, fault, owner, holders>>
  <2>1. QueueIn(q, p) = Append(q, p)
    BY <1>1 DEF QueueIn
  <2>2. SchedulerRemove(run_queue, p) = run_queue
    BY <1>1, RemoveAbsent
  <2>3. QED
    BY <2>1, <2>2 DEF LockBlocks
<1>4. /\ KernelInv' /\ IdleAlone'
      /\ Live' = Live /\ Waiting' = Waiting \cup {current}
  BY <1>3, BlockStep DEF MutexesInv, LockInv
<1>5. UNCHANGED <<pid, next_pid>>
  BY <1>3 DEF tableVars
<1> DEFINE r == Append(q, p)
<1>6. /\ r \in Seq(Nat) /\ Len(r) = Len(q) + 1
      /\ Range(r) = Range(q) \cup {p}
      /\ IsInjective(r)
  BY <1>1, <1>2, AppendFacts, AppendProperties
<1>7. r # <<>>
  BY <1>2, <1>6, EmptySeq
<1>8. /\ wait_queue'[m] = r
      /\ \A n \in Mutexes \ {m} : wait_queue'[n] = wait_queue[n]
  BY <1>3 DEF MutexesInv, LockInv, MutexTableOK
<1> HIDE DEF q, r
<1>9. RunnerActive'
  BY <1>3 DEF RunnerActive
<1>10. MutexTableOK'
  <2>1. wait_queue' \in [Mutexes -> Seq(Nat)]
    BY <1>3, <1>6 DEF MutexesInv, LockInv, MutexTableOK, r
  <2>2. QED
    BY <2>1, <1>3 DEF MutexesInv, LockInv, MutexTableOK
<1>11. LockCountExact'
  <2> SUFFICES ASSUME NEW n \in Mutexes
               PROVE  /\ lock_count'[n] = Len(wait_queue'[n]) + (IF owner'[n] = NULL THEN 0 ELSE 1)
                      /\ owner'[n] = NULL => wait_queue'[n] = <<>>
    BY DEF LockCountExact
  <2>1. CASE n = m
    <3>1. lock_count'[m] = lock_count[m] + 1 /\ owner'[m] # NULL
      BY <1>2, <1>3, EntriesFinite DEF MutexesInv, LockInv, MutexTableOK
    <3>2. QED
      BY <2>1, <3>1, <1>2, <1>6, <1>8
  <2>2. CASE n # m
    <3>1. /\ lock_count'[n] = lock_count[n] /\ owner'[n] = owner[n]
          /\ wait_queue'[n] = wait_queue[n]
      BY <2>2, <1>3, <1>8 DEF MutexesInv, LockInv, MutexTableOK
    <3>2. QED
      BY <3>1 DEF MutexesInv, LockInv, LockCountExact
  <2>3. QED
    BY <2>1, <2>2
<1>12. WaitersKnown'
  <2>1. \A n \in Mutexes : IsInjective(wait_queue'[n])
    BY <1>6, <1>8 DEF MutexesInv, LockInv, WaitersKnown
  <2>2. \A n \in Mutexes : Range(wait_queue'[n]) = IF n = m THEN Range(q) \cup {p}
                                                   ELSE Range(wait_queue[n])
    BY <1>6, <1>8
  <2>3. \A n \in Mutexes : Range(wait_queue'[n]) \subseteq {pid'[i] : i \in Waiting'}
    BY <2>2, <1>4, <1>5 DEF MutexesInv, LockInv, WaitersKnown, q
  <2>4. \A n, k \in Mutexes :
          n # k => Range(wait_queue'[n]) \cap Range(wait_queue'[k]) = {}
    <3> SUFFICES ASSUME NEW n \in Mutexes, NEW k \in Mutexes, n # k
                 PROVE  Range(wait_queue'[n]) \cap Range(wait_queue'[k]) = {}
      OBVIOUS
    <3>1. Range(wait_queue[n]) \cap Range(wait_queue[k]) = {}
      BY DEF MutexesInv, LockInv, WaitersKnown
    <3>2. p \notin Range(wait_queue[n]) /\ p \notin Range(wait_queue[k])
      BY <1>1
    <3> HIDE DEF p
    <3>3. QED
      BY <2>2, <3>1, <3>2 DEF q
  <2>5. QED
    BY <2>1, <2>3, <2>4 DEF WaitersKnown
<1>13. HoldersKnown'
  BY <1>3, <1>5 DEF MutexesInv, LockInv, HoldersKnown
<1>14. ASSUME PoolInv
       PROVE  PoolInv'
  <2>2. MutexIdsExact' /\ HolderIsOwner'
    BY <1>3, <1>4, <1>5, <1>14 DEF PoolInv, MutexIdsExact, HolderIsOwner
  <2>3. FreeUnused'
    <3>1. \A n \in Mutexes \ {m} : lock_count'[n] = lock_count[n]
      BY DEF MutexesInv, LockInv, MutexTableOK
    <3>2. QED
      BY <3>1, <1>14 DEF PoolInv, FreeUnused
  <2>4. QED
    BY <2>2, <2>3 DEF PoolInv
<1>15. Elsewhere' = Elsewhere
  <2>1. \A n \in Mutexes : Range(wait_queue'[n]) = IF n = m THEN Range(wait_queue[n]) \cup {p}
                                                   ELSE Range(wait_queue[n])
    BY <1>6, <1>8 DEF q
  <2>2. \A i \in Waiting : pid[i] # p
    BY <1>1 DEF MutexesInv, LockInv, KernelInv, TableInv, PidsUnique, Waiting, Live
  <2>3. QED
    BY <2>1, <2>2, <1>4, <1>5 DEF Elsewhere
<1>16. QED
  BY <1>3, <1>4, <1>5, <1>9, <1>10, <1>11, <1>12, <1>13, <1>14, <1>15
  DEF MutexesInv, LockInv, CallKeeps

(* mutex_lock on a mutex nobody holds.                                     *)
LEMMA TakingLock ==
  ASSUME MutexesInv, NEW m \in Mutexes, SystemCall, lock_count[m] = 0, LockTakes(m),
         AllocatedOnly => allocated[m],
         lock_count' = [lock_count EXCEPT ![m] = @ + 1],
         UNCHANGED <<allocated, mutex_queue>>
  PROVE  CallKeeps
<1>1. /\ owner' = [owner EXCEPT ![m] = current]
      /\ holders' = [holders EXCEPT ![m] = @ \cup {pid[current]}]
      /\ kpc' = "keyboard"
      /\ UNCHANGED <<timeVars, tableVars, schedVars, fault, wait_queue>>
  BY DEF LockTakes, Returns
<1>2. /\ KernelInv' /\ IdleAlone' /\ RunnerActive'
      /\ Live' = Live /\ Waiting' = Waiting
      /\ UNCHANGED <<pid, next_pid, current>>
  BY <1>1, TableOnly DEF MutexesInv
<1>3. /\ current \in Live /\ current \in Entries /\ current # NULL
      /\ 0 < pid[current] /\ pid[current] < next_pid
      /\ pid[current] \in Nat
      /\ \A i \in Live : pid[i] = pid[current] => i = current
  BY CallerNotQueued DEF MutexesInv, LockInv, KernelInv, TableTypeOK, TableInv, PidsUnique
<1>4. wait_queue[m] = <<>> /\ owner[m] = NULL
  BY CountFacts DEF MutexesInv, LockInv
<1>5. /\ owner'[m] = current /\ lock_count'[m] = 1
      /\ holders'[m] = holders[m] \cup {pid[current]}
      /\ \A n \in Mutexes \ {m} : /\ owner'[n] = owner[n]
                                  /\ lock_count'[n] = lock_count[n]
                                  /\ holders'[n] = holders[n]
  BY <1>1 DEF MutexesInv, LockInv, MutexTableOK
<1>6. MutexTableOK'
  <2>1. holders' \in [Mutexes -> SUBSET Nat]
    BY <1>1, <1>3 DEF MutexesInv, LockInv, MutexTableOK
  <2>2. owner' \in [Mutexes -> Entries \cup {NULL}] /\ lock_count' \in [Mutexes -> Nat]
    BY <1>1, <1>3 DEF MutexesInv, LockInv, MutexTableOK
  <2>3. QED
    BY <2>1, <2>2, <1>1 DEF MutexesInv, LockInv, MutexTableOK
<1>7. LockCountExact'
  <2> SUFFICES ASSUME NEW n \in Mutexes
               PROVE  /\ lock_count'[n] = Len(wait_queue'[n]) + (IF owner'[n] = NULL THEN 0 ELSE 1)
                      /\ owner'[n] = NULL => wait_queue'[n] = <<>>
    BY DEF LockCountExact
  <2>1. CASE n = m
    <3>1. Len(wait_queue'[m]) = 0
      BY <1>1, <1>4
    <3>2. QED
      BY <2>1, <3>1, <1>3, <1>5
  <2>2. CASE n # m
    BY <2>2, <1>1, <1>5 DEF MutexesInv, LockInv, LockCountExact
  <2>3. QED
    BY <2>1, <2>2
<1>8. WaitersKnown'
  BY <1>1, <1>2 DEF MutexesInv, LockInv, WaitersKnown
<1>9. HoldersKnown'
  BY <1>2, <1>3, <1>5 DEF MutexesInv, LockInv, HoldersKnown
<1>10. ASSUME PoolInv, AllocatedOnly
       PROVE  PoolInv'
  <2>1. MutexIdsExact'
    BY <1>10 DEF PoolInv, MutexIdsExact
  <2>2. HolderIsOwner'
    <3> SUFFICES ASSUME NEW n \in Mutexes, NEW i \in Live, pid[i] \in holders'[n]
                 PROVE  owner'[n] = i
      BY <1>2 DEF HolderIsOwner
    <3>1. CASE n = m
      <4>1. pid[i] \notin holders[m]
        BY <1>4, <1>10, EntriesFinite DEF PoolInv, HolderIsOwner, Live
      <4>2. QED
        BY <3>1, <4>1, <1>3, <1>5
    <3>2. CASE n # m
      BY <3>2, <1>5, <1>10 DEF PoolInv, HolderIsOwner
    <3>3. QED
      BY <3>1, <3>2
  <2>3. FreeUnused'
    BY <1>5, <1>10 DEF PoolInv, FreeUnused
  <2>4. QED
    BY <2>1, <2>2, <2>3 DEF PoolInv
<1>11. Elsewhere' = Elsewhere
  BY <1>1, <1>2 DEF Elsewhere
<1>12. QED
  BY <1>1, <1>2, <1>6, <1>7, <1>8, <1>9, <1>10, <1>11 DEF MutexesInv, LockInv, CallKeeps

LEMMA LockStep ==
  ASSUME MutexesInv, NEW id \in MutexArgs, kmutex_lock(id)
  PROVE  CallKeeps
<1>1. SystemCall /\ MayUse(id)
  BY DEF kmutex_lock
<1>2. CASE Returns /\ UNCHANGED mutexVars
  BY <1>1, <1>2, RefusedStep DEF Returns
<1>3. CASE /\ Continue("keyboard", FALSE, OutOfBounds)
           /\ UNCHANGED <<timeVars, tableVars, schedVars, mutexVars>>
  BY <1>1, <1>3, RefusedStep DEF Continue
<1>4. CASE /\ id \in Mutexes
           /\ \/ lock_count[id] > 0 /\ LockBlocks(id)
              \/ lock_count[id] = 0 /\ LockTakes(id)
           /\ lock_count' = [lock_count EXCEPT ![id] = @ + 1]
           /\ UNCHANGED <<allocated, mutex_queue>>
  <2>1. CASE lock_count[id] > 0 /\ LockBlocks(id)
    BY <1>1, <1>4, <2>1, BlockingLock
  <2>2. CASE lock_count[id] = 0 /\ LockTakes(id)
    BY <1>1, <1>4, <2>2, TakingLock DEF MayUse
  <2>3. QED
    BY <1>4, <2>1, <2>2
<1>5. QED
  BY <1>2, <1>3, <1>4 DEF kmutex_lock

(* mutex_unlock by the owner while nobody waits.                           *)
LEMMA LastRelease ==
  ASSUME MutexesInv, NEW m \in Mutexes, SystemCall, lock_count[m] = 1, owner[m] = current,
         ReleaseLast(m), lock_count' = [lock_count EXCEPT ![m] = @ - 1],
         UNCHANGED <<allocated, mutex_queue>>
  PROVE  CallKeeps
<1>1. /\ owner' = [owner EXCEPT ![m] = NULL]
      /\ holders' = [holders EXCEPT ![m] = @ \ {pid[current]}]
      /\ kpc' = "keyboard"
      /\ UNCHANGED <<timeVars, tableVars, schedVars, fault, wait_queue>>
  BY DEF ReleaseLast, Returns
<1>2. /\ KernelInv' /\ IdleAlone' /\ RunnerActive'
      /\ Live' = Live /\ Waiting' = Waiting
      /\ UNCHANGED <<pid, next_pid, current>>
  BY <1>1, TableOnly DEF MutexesInv
<1>3. wait_queue[m] = <<>>
  <2>1. Len(wait_queue[m]) = 0 /\ wait_queue[m] \in Seq(Nat)
    BY MutexTypes, CountFacts DEF MutexesInv, LockInv
  <2>2. QED
    BY <2>1, EmptySeq
<1>4. /\ owner'[m] = NULL /\ lock_count'[m] = 0
      /\ holders'[m] = holders[m] \ {pid[current]}
      /\ \A n \in Mutexes \ {m} : /\ owner'[n] = owner[n]
                                  /\ lock_count'[n] = lock_count[n]
                                  /\ holders'[n] = holders[n]
  BY <1>1 DEF MutexesInv, LockInv, MutexTableOK
<1>5. MutexTableOK'
  <2>1. owner' \in [Mutexes -> Entries \cup {NULL}]
    BY <1>1 DEF MutexesInv, LockInv, MutexTableOK
  <2>2. holders' \in [Mutexes -> SUBSET Nat]
    BY <1>1 DEF MutexesInv, LockInv, MutexTableOK
  <2>3. lock_count' \in [Mutexes -> Nat]
    BY <1>1 DEF MutexesInv, LockInv, MutexTableOK
  <2>4. QED
    BY <2>1, <2>2, <2>3, <1>1 DEF MutexesInv, LockInv, MutexTableOK
<1>6. LockCountExact'
  <2> SUFFICES ASSUME NEW n \in Mutexes
               PROVE  /\ lock_count'[n] = Len(wait_queue'[n]) + (IF owner'[n] = NULL THEN 0 ELSE 1)
                      /\ owner'[n] = NULL => wait_queue'[n] = <<>>
    BY DEF LockCountExact
  <2>1. CASE n = m
    <3>1. Len(wait_queue'[m]) = 0
      BY <1>1, <1>3
    <3>2. QED
      BY <2>1, <3>1, <1>1, <1>3, <1>4
  <2>2. CASE n # m
    BY <2>2, <1>1, <1>4 DEF MutexesInv, LockInv, LockCountExact
  <2>3. QED
    BY <2>1, <2>2
<1>7. WaitersKnown'
  BY <1>1, <1>2 DEF MutexesInv, LockInv, WaitersKnown
<1>8. HoldersKnown'
  BY <1>2, <1>4 DEF MutexesInv, LockInv, HoldersKnown
<1>9. ASSUME PoolInv
      PROVE  PoolInv'
  <2>1. MutexIdsExact'
    BY <1>9 DEF PoolInv, MutexIdsExact
  <2>2. HolderIsOwner'
    <3> SUFFICES ASSUME NEW n \in Mutexes, NEW i \in Live, pid[i] \in holders'[n]
                 PROVE  owner'[n] = i
      BY <1>2 DEF HolderIsOwner
    <3>1. owner[n] = i /\ (n = m => i # current)
      BY <1>4, <1>9 DEF PoolInv, HolderIsOwner
    <3>2. QED
      BY <3>1, <1>4
  <2>3. FreeUnused'
    BY <1>4, <1>9 DEF PoolInv, FreeUnused
  <2>4. QED
    BY <2>1, <2>2, <2>3 DEF PoolInv
<1>10. Elsewhere' = Elsewhere
  BY <1>1, <1>2 DEF Elsewhere
<1>11. QED
  BY <1>1, <1>2, <1>5, <1>6, <1>7, <1>8, <1>9, <1>10 DEF MutexesInv, LockInv, CallKeeps

(* mutex_unlock by the owner while others wait: the first of them gets the *)
(* mutex, leaves the wait queue and becomes ready.                         *)
LEMMA HandingOver ==
  ASSUME MutexesInv, NEW m \in Mutexes, SystemCall, lock_count[m] > 1, owner[m] = current,
         ReleaseToWaiter(m), lock_count' = [lock_count EXCEPT ![m] = @ - 1],
         UNCHANGED <<allocated, mutex_queue>>
  PROVE  CallKeeps
<1> DEFINE q == wait_queue[m]
           r == Tail(q)
<1>1. /\ q \in Seq(Nat) /\ Len(q) \in Nat /\ q # <<>>
      /\ lock_count[m] = Len(q) + 1
  BY MutexTypes, CountFacts DEF MutexesInv, LockInv
<1>2. PICK i \in Waiting :
        /\ Head(q) = pid[i]
        /\ EntriesOf(Head(q)) = {i}
        /\ \A j \in Live : pid[j] = pid[i] => j = i
        /\ r \in Seq(Nat)
        /\ IsInjective(r)
        /\ Range(r) = Range(q) \ {pid[i]}
        /\ pid[i] \in Range(q)
        /\ Len(r) = Len(q) - 1
  BY <1>1, FirstWaiter DEF MutexesInv, LockInv
<1>3. HandOver(m, i)
  BY <1>1, <1>2 DEF ReleaseToWaiter
<1>4. /\ wait_queue' = [wait_queue EXCEPT ![m] = r]
      /\ UNCHANGED <<timeVars, tableVars, current, active_time, wake_time>>
  BY <1>1 DEF ReleaseToWaiter
<1>5. /\ owner' = [owner EXCEPT ![m] = i]
      /\ holders' = [holders EXCEPT ![m] = (@ \ {pid[current]}) \cup {pid[i]}]
      /\ run_queue' = QueueIn(run_queue, pid[i])
      /\ state' = [state EXCEPT ![i] = "RUNNING"]
      /\ Continue("keyboard", ~QueueIsFull(run_queue), QueueFull)
  BY <1>3 DEF HandOver
<1>6. /\ KernelInv' /\ IdleAlone'
      /\ UNCHANGED fault
      /\ Live' = Live /\ Waiting' = Waiting \ {i}
  BY <1>4, <1>5, UnblockStep DEF MutexesInv, LockInv
<1>7. /\ current \in Live /\ current \in Entries /\ current \notin Waiting
      /\ i \in Live /\ i \in Entries /\ i # current
      /\ pid[i] \in Nat \ {0} /\ pid[i] < next_pid
      /\ \A j \in Live : pid[j] = pid[i] => j = i
  <2>1. current \in Live /\ current \in Entries /\ current \notin Waiting
    BY CallerNotQueued DEF MutexesInv, LockInv
  <2>2. i \in Live /\ i \in Entries /\ pid[i] \in Nat \ {0}
    BY WaiterFacts DEF MutexesInv, LockInv
  <2>3. pid[i] < next_pid
    BY <2>2 DEF MutexesInv, LockInv, KernelInv, TableInv, PidsUnique
  <2>4. QED
    BY <1>2, <2>1, <2>2, <2>3
<1>8. UNCHANGED <<pid, next_pid>>
  BY <1>4 DEF tableVars
<1>9. /\ wait_queue'[m] = r /\ owner'[m] = i
      /\ lock_count'[m] = lock_count[m] - 1
      /\ holders'[m] = (holders[m] \ {pid[current]}) \cup {pid[i]}
      /\ \A n \in Mutexes \ {m} : /\ wait_queue'[n] = wait_queue[n]
                                  /\ owner'[n] = owner[n]
                                  /\ lock_count'[n] = lock_count[n]
                                  /\ holders'[n] = holders[n]
  BY <1>4, <1>5 DEF MutexesInv, LockInv, MutexTableOK
<1> HIDE DEF q, r
<1>10. RunnerActive'
  BY <1>4, <1>5, <1>7, CallerNotQueued
  DEF MutexesInv, LockInv, RunnerActive, KernelInv, TableTypeOK
<1>11. MutexTableOK'
  <2>1. owner' \in [Mutexes -> Entries \cup {NULL}]
    BY <1>5, <1>7 DEF MutexesInv, LockInv, MutexTableOK
  <2>2. holders' \in [Mutexes -> SUBSET Nat]
    BY <1>5, <1>7 DEF MutexesInv, LockInv, MutexTableOK
  <2>3. lock_count' \in [Mutexes -> Nat]
    BY <1>1 DEF MutexesInv, LockInv, MutexTableOK
  <2>4. wait_queue' \in [Mutexes -> Seq(Nat)]
    BY <1>2, <1>4 DEF MutexesInv, LockInv, MutexTableOK
  <2>5. QED
    BY <2>1, <2>2, <2>3, <2>4, <1>6 DEF MutexesInv, LockInv, MutexTableOK
<1>12. LockCountExact'
  <2> SUFFICES ASSUME NEW n \in Mutexes
               PROVE  /\ lock_count'[n] = Len(wait_queue'[n]) + (IF owner'[n] = NULL THEN 0 ELSE 1)
                      /\ owner'[n] = NULL => wait_queue'[n] = <<>>
    BY DEF LockCountExact
  <2>1. CASE n = m
    <3>1. owner'[m] # NULL
      BY <1>7, <1>9, EntriesFinite
    <3>2. QED
      BY <2>1, <3>1, <1>1, <1>2, <1>9
  <2>2. CASE n # m
    BY <2>2, <1>9 DEF MutexesInv, LockInv, LockCountExact
  <2>3. QED
    BY <2>1, <2>2
<1>13. \A n \in Mutexes : Range(wait_queue'[n]) = Range(wait_queue[n]) \ {pid[i]}
  <2>1. \A n \in Mutexes \ {m} : pid[i] \notin Range(wait_queue[n])
    BY <1>2 DEF MutexesInv, LockInv, WaitersKnown, q
  <2>2. QED
    BY <2>1, <1>2, <1>9 DEF q
<1>14. WaitersKnown'
  <2>1. \A n \in Mutexes : IsInjective(wait_queue'[n])
    BY <1>2, <1>9 DEF MutexesInv, LockInv, WaitersKnown
  <2>2. \A n \in Mutexes : Range(wait_queue'[n]) \subseteq {pid'[j] : j \in Waiting'}
    BY <1>6, <1>8, <1>13 DEF MutexesInv, LockInv, WaitersKnown
  <2>3. \A n, k \in Mutexes :
          n # k => Range(wait_queue'[n]) \cap Range(wait_queue'[k]) = {}
    BY <1>13 DEF MutexesInv, LockInv, WaitersKnown
  <2>4. QED
    BY <2>1, <2>2, <2>3 DEF WaitersKnown
<1>15. HoldersKnown'
  BY <1>7, <1>8, <1>9 DEF MutexesInv, LockInv, HoldersKnown
<1>16. ASSUME PoolInv
       PROVE  PoolInv'
  <2>2. HolderIsOwner'
    <3> SUFFICES ASSUME NEW n \in Mutexes, NEW j \in Live, pid[j] \in holders'[n]
                 PROVE  owner'[n] = j
      BY <1>6, <1>8 DEF HolderIsOwner
    <3>1. CASE n = m
      <4>1. ASSUME pid[j] # pid[i]
            PROVE  FALSE
        <5>1. pid[j] \in holders[m] /\ pid[j] # pid[current]
          BY <3>1, <4>1, <1>9
        <5>2. QED
          BY <5>1, <1>16 DEF PoolInv, HolderIsOwner
      <4>2. QED
        BY <3>1, <4>1, <1>7, <1>9
    <3>2. CASE n # m
      BY <3>2, <1>9, <1>16 DEF PoolInv, HolderIsOwner
    <3>3. QED
      BY <3>1, <3>2
  <2>3. MutexIdsExact'
    BY <1>16 DEF PoolInv, MutexIdsExact
  <2>4. FreeUnused'
    <3>1. allocated[m]
      BY <1>1, <1>16 DEF PoolInv, FreeUnused
    <3>2. QED
      BY <3>1, <1>9, <1>16 DEF PoolInv, FreeUnused
  <2>5. QED
    BY <2>2, <2>3, <2>4 DEF PoolInv
<1>17. Elsewhere' = Elsewhere
  <2>1. \A j \in Waiting \ {i} : pid[j] # pid[i]
    BY <1>7 DEF Waiting, Live
  <2>2. i \notin Elsewhere
    BY <1>2 DEF Elsewhere, q
  <2>3. QED
    BY <2>1, <2>2, <1>6, <1>8, <1>13 DEF Elsewhere
<1>18. QED
  BY <1>6, <1>8, <1>10, <1>11, <1>12, <1>14, <1>15, <1>16, <1>17
  DEF MutexesInv, LockInv, CallKeeps

LEMMA UnlockStep ==
  ASSUME MutexesInv, NEW id \in MutexArgs, kmutex_unlock(id)
  PROVE  CallKeeps
<1>1. SystemCall
  BY DEF kmutex_unlock
<1>2. CASE Returns /\ UNCHANGED mutexVars
  BY <1>1, <1>2, RefusedStep DEF Returns
<1>3. CASE /\ id \in Mutexes /\ owner[id] = current
           /\ lock_count' = [lock_count EXCEPT ![id] = @ - 1]
           /\ \/ lock_count[id] = 1 /\ ReleaseLast(id)
              \/ lock_count[id] > 1 /\ ReleaseToWaiter(id)
           /\ UNCHANGED <<allocated, mutex_queue>>
  <2>1. CASE lock_count[id] = 1 /\ ReleaseLast(id)
    BY <1>1, <1>3, <2>1, LastRelease
  <2>2. CASE lock_count[id] > 1 /\ ReleaseToWaiter(id)
    BY <1>1, <1>3, <2>2, HandingOver
  <2>3. QED
    BY <1>3, <2>1, <2>2
<1>4. QED
  BY <1>2, <1>3 DEF kmutex_unlock

-----------------------------------------------------------------------------
(* The invariant holds at boot and is preserved by every step.             *)

LEMMA MutexInitInv == MutexInit => MutexInv
<1> SUFFICES ASSUME MutexInit
             PROVE  MutexInv
  OBVIOUS
<1>1. KernelInv /\ IdleAlone /\ current = NULL /\ Waiting = {} /\ fault = NoFault
  <2>1. ProcInit
    BY DEF MutexInit
  <2>2. IdleAlone /\ Waiting = {}
    BY <2>1, EntriesFinite DEF ProcInit, IdleAlone, Waiting
  <2>3. QED
    BY <2>1, <2>2, InitInv DEF ProcInit
<1>2. /\ allocated = [m \in Mutexes |-> FALSE]
      /\ lock_count = [m \in Mutexes |-> 0]
      /\ owner = [m \in Mutexes |-> NULL]
      /\ wait_queue = [m \in Mutexes |-> <<>>]
      /\ mutex_queue = [k \in 1 .. MUTEX_MAX |-> k - 1]
      /\ holders = [m \in Mutexes |-> {}]
  BY DEF MutexInit
<1>3. MUTEX_MAX \in Nat /\ \A k \in 1 .. MUTEX_MAX : k - 1 \in Mutexes
  BY DEF Mutexes
<1>4. mutex_queue \in [1 .. MUTEX_MAX -> Mutexes]
  BY <1>2, <1>3
<1>5. mutex_queue \in Seq(Mutexes)
  BY <1>3, <1>4, SeqDef
<1>6. <<>> \in Seq(Nat) /\ Len(<<>>) = 0 /\ Range(<<>>) = {} /\ IsInjective(<<>>)
  BY DEF Range, IsInjective
<1>7. MutexTableOK
  BY <1>2, <1>5, <1>6 DEF MutexTableOK
<1>8. LockCountExact
  BY <1>2, <1>6 DEF LockCountExact
<1>9. WaitersKnown /\ HoldersKnown /\ RunnerActive
  BY <1>1, <1>2, <1>6 DEF WaitersKnown, HoldersKnown, RunnerActive
<1>10. MutexIdsExact
  <2>1. IsInjective(mutex_queue)
    BY <1>2, <1>3 DEF IsInjective
  <2>2. Range(mutex_queue) = {k - 1 : k \in 1 .. MUTEX_MAX}
    BY <1>2 DEF Range
  <2>3. \A m \in Mutexes : m + 1 \in 1 .. MUTEX_MAX /\ m = (m + 1) - 1
    BY <1>3 DEF Mutexes
  <2>4. Range(mutex_queue) = Mutexes
    BY <1>3, <2>2, <2>3
  <2>5. QED
    BY <1>2, <2>1, <2>4 DEF MutexIdsExact
<1>11. PoolInv
  BY <1>2, <1>10 DEF PoolInv, HolderIsOwner, FreeUnused
<1>12. Elsewhere = {} /\ fault \in MutexFaults
  BY <1>1 DEF Elsewhere, MutexFaults, Faults
<1>13. QED
  BY <1>1, <1>7, <1>8, <1>9, <1>11, <1>12 DEF MutexInv, MutexesInv, LockInv

LEMMA MutexNextInv ==
  ASSUME MutexInv, [MutexNext]_mutexSysVars
  PROVE  MutexInv'
<1>1. MutexesInv
  BY DEF MutexInv
<1>2. CASE [ProcNext]_procVars /\ UNCHANGED mutexVars
  <2>1. KernelInv /\ IdleAlone /\ RunnerActive
    BY DEF MutexInv, MutexesInv, LockInv
  <2>2. RunnerActive' /\ Waiting' = Waiting
    BY <1>2, <2>1, RunnerStep
  <2>3. current \notin Waiting
    BY <2>1, EntriesFinite DEF RunnerActive, Waiting
  <2>4. MutexesInv' /\ Elsewhere' = Elsewhere \cap Waiting'
    BY <1>1, <1>2, <2>3, ProcessStep
  <2>5. fault' \in Faults \cup {fault}
    BY <1>2, <2>1, NextInv DEF SchedulerNeverPanics, Faults
  <2>6. QED
    BY <2>2, <2>4, <2>5 DEF MutexInv, MutexFaults
<1>3. ASSUME CallKeeps
      PROVE  MutexInv'
  BY <1>3 DEF CallKeeps, MutexInv, MutexFaults
<1>4. CASE kmutex_alloc
  BY <1>1, <1>3, <1>4, AllocStep
<1>5. CASE \E id \in MutexArgs : kmutex_free(id)
  BY <1>1, <1>3, <1>5, FreeStep
<1>6. CASE \E id \in MutexArgs : kmutex_lock(id)
  BY <1>1, <1>3, <1>6, LockStep
<1>7. CASE \E id \in MutexArgs : kmutex_unlock(id)
  BY <1>1, <1>3, <1>7, UnlockStep
<1>8. CASE UNCHANGED mutexSysVars
  BY <1>2, <1>8 DEF mutexSysVars
<1>9. QED
  BY <1>2, <1>4, <1>5, <1>6, <1>7, <1>8 DEF MutexNext

LEMMA MutexSpecInv == MutexSpec => []MutexInv
BY MutexInitInv, MutexNextInv, PTL DEF MutexSpec

-----------------------------------------------------------------------------
(* The theorems.                                                           *)

(* The mutex table and the pool of ids keep their types, whatever ids      *)
(* processes pass (KMutex, MutexTypeOK).                                   *)
THEOREM MutexTypesKept == MutexSpec => []MutexTypeOK
<1>1. MutexInv => MutexTypeOK
  BY DEF MutexInv, MutexesInv, LockInv, MutexTypeOK
<1>2. QED
  BY <1>1, MutexSpecInv, PTL

(* lock_count, owner and wait queue never disagree, even when processes    *)
(* lock ids that were never allocated or free them twice (kmutex.c).       *)
THEOREM CountsAgree == MutexSpec => []LockCountExact
<1>1. MutexInv => LockCountExact
  BY DEF MutexInv, MutexesInv, LockInv
<1>2. QED
  BY <1>1, MutexSpecInv, PTL

(* Callers that stick to allocated ids: every process that waits stands in *)
(* one wait queue, once, and no other process does.                        *)
THEOREM NoWaiterLost == AllocatedOnly /\ MutexSpec => []WaitersExact
<1> SUFFICES ASSUME AllocatedOnly
             PROVE  MutexSpec => []WaitersExact
  OBVIOUS
<1>1. MutexInv => WaitersExact
  <2> SUFFICES ASSUME LockInv, Elsewhere = {}
               PROVE  UNION {Range(wait_queue[m]) : m \in Mutexes} = {pid[i] : i \in Waiting}
    BY DEF MutexInv, MutexesInv, LockInv, WaitersExact, WaitersKnown, Waiting
  <2>1. UNION {Range(wait_queue[m]) : m \in Mutexes} \subseteq {pid[i] : i \in Waiting}
    BY DEF LockInv, WaitersKnown
  <2>2. {pid[i] : i \in Waiting} \subseteq UNION {Range(wait_queue[m]) : m \in Mutexes}
    BY DEF Elsewhere
  <2>3. QED
    BY <2>1, <2>2
<1>2. QED
  BY <1>1, MutexSpecInv, PTL

(* Callers that stick to allocated ids: no two live processes have locked  *)
(* the same mutex, whoever exits or reuses a table entry meanwhile.        *)
THEOREM LocksExclude == AllocatedOnly /\ MutexSpec => []MutualExclusion
<1> SUFFICES ASSUME AllocatedOnly
             PROVE  MutexSpec => []MutualExclusion
  OBVIOUS
<1>1. MutexInv => MutualExclusion
  BY DEF MutexInv, MutexesInv, PoolInv, HolderIsOwner, MutualExclusion
<1>2. QED
  BY <1>1, MutexSpecInv, PTL

(* Callers that stick to allocated ids: mutex_queue and the allocated      *)
(* flags agree on which ids are free.                                      *)
THEOREM NoIdLost == AllocatedOnly /\ MutexSpec => []MutexIdsExact
<1> SUFFICES ASSUME AllocatedOnly
             PROVE  MutexSpec => []MutexIdsExact
  OBVIOUS
<1>1. MutexInv => MutexIdsExact
  BY DEF MutexInv, MutexesInv, PoolInv
<1>2. QED
  BY <1>1, MutexSpecInv, PTL

-----------------------------------------------------------------------------
(* KMutex implements the lines of module LockService, call by call.        *)

MappedLine == [m \in Mutexes |-> LineOf(m)]

(* The round robin under the lines is the one under the scheduler.         *)
LEMMA SameRoundRobin ==
  /\ Service!Tick <=> Scheduler!Tick
  /\ Service!Query <=> Scheduler!Query
  /\ Service!Yield <=> Scheduler!Yield
  /\ \A n : Service!Sleep(n) <=> Scheduler!Sleep(n)
  /\ \A t : Service!Exec(t) <=> Scheduler!Exec(t)
  /\ Service!Exit <=> Scheduler!Exit
  /\ Service!Halt <=> Scheduler!Halt
  /\ Service!Schedule <=> Scheduler!Schedule
  /\ Service!RRInit <=> Scheduler!RRInit
<1>1. Service!Tick <=> Scheduler!Tick
  BY DEF Service!Tick, Scheduler!Tick
<1>2. Service!Query <=> Scheduler!Query
  BY DEF Service!Query, Service!Call, Scheduler!Query, Scheduler!Call
<1>3. Service!Yield <=> Scheduler!Yield
  BY DEF Service!Yield, Service!Call, Service!MakeReady,
         Scheduler!Yield, Scheduler!Call, Scheduler!MakeReady
<1>4. \A n : Service!Sleep(n) <=> Scheduler!Sleep(n)
  BY DEF Service!Sleep, Service!Call, Scheduler!Sleep, Scheduler!Call
<1>5. \A t : Service!Exec(t) <=> Scheduler!Exec(t)
  BY DEF Service!Exec, Service!Entered, Service!MakeReady,
         Scheduler!Exec, Scheduler!Entered, Scheduler!MakeReady
<1>6. Service!Exit <=> Scheduler!Exit
  BY DEF Service!Exit, Service!Entered, Scheduler!Exit, Scheduler!Entered
<1>7. Service!Halt <=> Scheduler!Halt
  BY DEF Service!Halt, Service!Entered, Scheduler!Halt, Scheduler!Entered
<1>8. Service!Schedule <=> Scheduler!Schedule
  <2>1. \A S : Service!Cardinality(S) = Scheduler!Cardinality(S)
    BY DEF Service!Cardinality, Scheduler!Cardinality
  <2>2. \A s : Service!IsInjective(s) <=> Scheduler!IsInjective(s)
    BY DEF Service!IsInjective, Scheduler!IsInjective
  <2>3. \A S : Service!Orders(S) = Scheduler!Orders(S)
    BY <2>1, <2>2 DEF Service!Orders, Scheduler!Orders
  <2>4. Service!Woken = Scheduler!Woken
    BY DEF Service!Woken, Scheduler!Woken
  <2>5. (Service!Runs <=> Scheduler!Runs) /\ (Service!Expired <=> Scheduler!Expired)
    BY DEF Service!Runs, Scheduler!Runs, Service!Expired, Scheduler!Expired
  <2>6. Service!Preempted = Scheduler!Preempted
    BY <2>5 DEF Service!Preempted, Scheduler!Preempted
  <2>7. \A t : Service!Give(t) <=> Scheduler!Give(t)
    BY <2>4, <2>5 DEF Service!Give, Scheduler!Give
  <2> QED BY <2>3, <2>4, <2>5, <2>6, <2>7 DEF Service!Schedule, Scheduler!Schedule
<1>9. Service!RRInit <=> Scheduler!RRInit
  BY DEF Service!RRInit, Scheduler!RRInit
<1> QED BY <1>1, <1>2, <1>3, <1>4, <1>5, <1>6, <1>7, <1>8, <1>9

(* The sequences of a line: the holder, then those who wait.               *)
LEMMA LineFacts ==
  ASSUME NEW S, NEW o \in S, NEW e \in Seq(S)
  PROVE  /\ <<o>> \o e # <<>>
         /\ Head(<<o>> \o e) = o
         /\ Tail(<<o>> \o e) = e
         /\ Len(<<o>> \o e) = Len(e) + 1 /\ Len(e) \in Nat
         /\ e # <<>> => (<<o>> \o e)[2] = Head(e)
         /\ \A x \in S : Append(<<o>> \o e, x) = <<o>> \o Append(e, x)
<1> DEFINE c == <<o>> \o e
<1>1. /\ c \in Seq(S) /\ Len(c) = Len(e) + 1 /\ Len(e) \in Nat
      /\ c[1] = o
      /\ \A k \in 1 .. Len(e) : c[k + 1] = e[k]
  OBVIOUS
<1>2. Tail(c) = e
  OBVIOUS
<1>3. ASSUME NEW x \in S PROVE Append(c, x) = <<o>> \o Append(e, x)
  OBVIOUS
<1>4. e # <<>> => c[2] = Head(e)
  BY <1>1
<1> QED BY <1>1, <1>2, <1>3, <1>4


LEMMA LineShape ==
  ASSUME LockInv, NEW m \in Mutexes
  PROVE  /\ lock_count[m] = 0 <=> LineOf(m) = <<>>
         /\ lock_count[m] > 0 =>
              /\ owner[m] \in Entries
              /\ wait_queue[m] \in Seq(Nat)
              /\ EntriesIn(wait_queue[m]) \in Seq(Found)
              /\ LineOf(m) = <<owner[m]>> \o EntriesIn(wait_queue[m])
<1>1. /\ lock_count[m] \in Nat /\ wait_queue[m] \in Seq(Nat)
      /\ lock_count[m] = 0 => owner[m] = NULL
      /\ lock_count[m] > 0 => owner[m] \in Entries
  BY MutexTypes, CountFacts DEF LockInv
<1>2. EntriesIn(wait_queue[m]) \in Seq(Found)
  BY <1>1, EntriesType
<1>3. CASE lock_count[m] = 0
  BY <1>1, <1>3 DEF LineOf
<1>4. CASE lock_count[m] > 0
  <2>1. owner[m] \in Entries /\ owner[m] # NULL
    BY <1>1, <1>4, EntriesFinite
  <2>2. LineOf(m) = <<owner[m]>> \o EntriesIn(wait_queue[m])
    BY <2>1 DEF LineOf, EntriesIn
  <2>3. LineOf(m) # <<>>
    <3> DEFINE e == EntriesIn(wait_queue[m])
    <3>1. e \in Seq(Found \cup Entries)
      BY <1>2, SeqMonotonic
    <3> HIDE DEF e
    <3>2. <<owner[m]>> \o e # <<>>
      BY <2>1, <3>1, LineFacts
    <3> QED BY <2>2, <3>2 DEF e
  <2> QED BY <1>1, <1>2, <1>4, <2>1, <2>2, <2>3
<1> QED BY <1>1, <1>3, <1>4

(* The line of a mutex whose fields stay, in a call, which changes no id.  *)
LEMMA LineStays ==
  ASSUME UNCHANGED pid, NEW m \in Mutexes,
         owner'[m] = owner[m], wait_queue'[m] = wait_queue[m]
  PROVE  LineOf(m)' = LineOf(m)
  BY DEF LineOf, EntryOf, IsEntryOf

LEMMA LinesStay ==
  ASSUME UNCHANGED <<pid, owner, wait_queue>>
  PROVE  UNCHANGED MappedLine
<1>1. \A m \in Mutexes : LineOf(m)' = LineOf(m)
  BY LineStays
<1> QED BY <1>1 DEF MappedLine

(* A step of a call that changes one line.                                 *)
LEMMA OneLine ==
  ASSUME UNCHANGED pid, NEW m \in Mutexes, NEW l, LineOf(m)' = l,
         \A n \in Mutexes \ {m} : owner'[n] = owner[n] /\ wait_queue'[n] = wait_queue[n]
  PROVE  MappedLine' = [MappedLine EXCEPT ![m] = l]
<1>1. \A n \in Mutexes \ {m} : LineOf(n)' = LineOf(n)
  BY LineStays
<1>2. MappedLine' = [n \in Mutexes |-> LineOf(n)']
  BY DEF MappedLine
<1>3. MappedLine = [n \in Mutexes |-> LineOf(n)]
  BY DEF MappedLine
<1> HIDE DEF MappedLine
<1> QED BY <1>1, <1>2, <1>3

\* A step of the lines, or none.
LineStep ==
  \/ \E m \in Mutexes : Service!Acquire(m) \/ Service!Release(m) \/ Service!Clear(m)
  \/ RoundRobinStep /\ UNCHANGED MappedLine

(* A call that is refused, or that finds no mutex, changes no line.        *)
LEMMA RefusalMaps ==
  ASSUME KernelInv, SystemCall, UNCHANGED <<timeVars, tableVars, schedVars, mutexVars>>,
         kpc' \in {"keyboard", "halted"}
  PROVE  LineStep
<1>1. UNCHANGED MappedLine
  BY LinesStay DEF tableVars, mutexVars
<1>2. CASE kpc' = "keyboard"
  BY <1>1, <1>2, QueryMaps DEF LineStep, RoundRobinStep
<1>3. CASE kpc' = "halted"
  <2>1. InCall("keyboard")
    BY DEF InCall
  <2> QED BY <1>1, <1>3, <2>1, HaltMaps DEF LineStep, RoundRobinStep
<1> QED BY <1>2, <1>3

(* mutex_alloc and mutex_free clear the entry.                             *)
LEMMA ResetMaps ==
  ASSUME LockInv, SystemCall, Returns, NEW m \in Mutexes, NEW isAllocated, Reset(m, isAllocated)
  PROVE  LineStep
<1>1. /\ owner' = [owner EXCEPT ![m] = NULL]
      /\ wait_queue' = [wait_queue EXCEPT ![m] = <<>>]
      /\ UNCHANGED <<timeVars, tableVars, schedVars>> /\ kpc' = "keyboard"
  BY DEF Reset, Returns
<1>2. DOMAIN owner = Mutexes /\ DOMAIN wait_queue = Mutexes
  BY DEF LockInv, MutexTableOK
<1>3. LineOf(m)' = <<>>
  BY <1>1, <1>2 DEF LineOf
<1>4. MappedLine' = [MappedLine EXCEPT ![m] = <<>>]
  BY <1>1, <1>2, <1>3, OneLine DEF tableVars
<1>5. Service!Query
  BY <1>1, QueryMaps, SameRoundRobin DEF LockInv
<1>6. Service!Clear(m)
  BY <1>4, <1>5 DEF Service!Clear, MappedLine
<1> QED BY <1>6 DEF LineStep

(* What a call maps to: its caller runs and is not the idle task.          *)
LEMMA LockCallMaps ==
  ASSUME KernelInv, SystemCall, kpc' = "keyboard"
  PROVE  Service!Call
<1>1. MappedPhase = "user" /\ current # 0 /\ MappedPhase' = "kernel"
  BY CallMaps DEF MappedPhase
<1> QED BY <1>1 DEF Service!Call, MappedPhase

LEMMA LockBlocksMaps ==
  ASSUME LockInv, NEW m \in Mutexes, SystemCall, lock_count[m] > 0, LockBlocks(m)
  PROVE  Service!Acquire(m)
<1>1. /\ current \in Live \ {0} /\ current \in Entries /\ current # NULL
      /\ state[current] = "ACTIVE"
      /\ Len(wait_queue[m]) < QUEUE_SIZE
      /\ KernelInv
  BY CallerNotQueued DEF LockInv
<1>2. pid[current] \notin Range(run_queue) /\ EntryOf(pid[current]) = current
      /\ pid[current] \in Nat
  BY <1>1, CallerFacts, EntryFound DEF KernelInv, TableTypeOK
<1>3. /\ state' = [state EXCEPT ![current] = "WAITING"]
      /\ current' = NULL /\ run_queue' = run_queue
      /\ kpc' = "keyboard"
      /\ UNCHANGED <<system_time, pid, active_time, wake_time, owner>>
  BY <1>2, RemoveAbsent DEF LockBlocks, timeVars, tableVars
<1>4. /\ wait_queue[m] \in Seq(Nat) /\ Len(wait_queue[m]) \in Nat
      /\ owner[m] \in Entries /\ owner[m] # NULL
      /\ EntriesIn(wait_queue[m]) \in Seq(Found)
      /\ LineOf(m) = <<owner[m]>> \o EntriesIn(wait_queue[m])
      /\ LineOf(m) # <<>>
  BY LineShape, MutexTypes, EntriesFinite DEF LockInv
<1>5. wait_queue' = [wait_queue EXCEPT ![m] = Append(@, pid[current])]
  <2>1. QueueIn(wait_queue[m], pid[current]) = Append(wait_queue[m], pid[current])
    BY <1>1, <1>4, ProcAssumption DEF QueueIn
  <2> QED BY <2>1 DEF LockBlocks
<1>6. LineOf(m)' = Append(LineOf(m), current)
  <2>1. PICK ids \in Seq(Nat) : ids = Append(wait_queue[m], pid[current])
    <3>1. wait_queue[m] \in Seq(Nat) /\ pid[current] \in Nat
      BY <1>2, <1>4, Zenon
    <3>2. \A q \in Seq(Nat), p \in Nat : Append(q, p) \in Seq(Nat)
      OBVIOUS
    <3> QED BY <3>1, <3>2, Zenon
  <2>2. wait_queue'[m] = ids /\ owner'[m] = owner[m]
    <3>1. DOMAIN wait_queue = Mutexes
      BY DEF LockInv, MutexTableOK
    <3>2. wait_queue' = [wait_queue EXCEPT ![m] = ids]
      BY <1>5, <2>1
    <3> QED BY <1>3, <3>1, <3>2
  <2>3. LineOf(m)' = <<owner[m]>> \o EntriesIn(ids)
    BY <1>3, <1>4, <2>2 DEF LineOf, EntriesIn, EntryOf, IsEntryOf
  <2>4. EntriesIn(ids) = Append(EntriesIn(wait_queue[m]), current)
    BY <1>2, <1>4, <2>1, EntriesAppend
  <2> DEFINE e == EntriesIn(wait_queue[m])
  <2>5. e \in Seq(Found \cup Entries)
    BY <1>4, SeqMonotonic
  <2> HIDE DEF e
  <2>6. Append(<<owner[m]>> \o e, current) = <<owner[m]>> \o Append(e, current)
    BY <1>1, <1>4, <2>5, LineFacts, SMTT(40)
  <2> QED BY <1>4, <2>3, <2>4, <2>6 DEF e
<1>7. MappedLine' = [MappedLine EXCEPT ![m] = Append(@, current)]
  <2>1. \A n \in Mutexes \ {m} : owner'[n] = owner[n] /\ wait_queue'[n] = wait_queue[n]
    BY <1>3, <1>5 DEF LockInv, MutexTableOK
  <2>2. MappedLine' = [MappedLine EXCEPT ![m] = Append(LineOf(m), current)]
    BY <1>3, <1>6, <2>1, OneLine
  <2>3. MappedLine[m] = LineOf(m)
    BY DEF MappedLine
  <2> QED BY <2>2, <2>3
<1>8. UNCHANGED MappedQueue
  BY <1>3, QueueStays
<1>9. UNCHANGED MappedSleep
  BY <1>1, <1>3 DEF MappedSleep, TicksUntil, KernelInv, TableTypeOK
<1>10. Service!Call
  BY <1>1, <1>3, LockCallMaps
<1>11. MappedLine[m] # <<>>
  BY <1>4 DEF MappedLine
<1> QED
  BY <1>3, <1>7, <1>8, <1>9, <1>10, <1>11
     DEF Service!Acquire, MappedLine, MappedQueue, MappedSleep, EntriesIn


LEMMA LockTakesMaps ==
  ASSUME LockInv, NEW m \in Mutexes, SystemCall, lock_count[m] = 0, LockTakes(m)
  PROVE  Service!Acquire(m)
<1>1. current \in Entries /\ current # NULL /\ KernelInv
  BY CallerNotQueued DEF LockInv
<1>2. /\ owner' = [owner EXCEPT ![m] = current]
      /\ UNCHANGED <<timeVars, tableVars, schedVars, wait_queue>>
      /\ kpc' = "keyboard"
  BY DEF LockTakes, Returns
<1>3. UNCHANGED <<pid, state, current, active_time>>
  BY <1>2 DEF tableVars, schedVars
<1>4. LineOf(m) = <<>> /\ wait_queue[m] = <<>>
  BY LineShape, CountFacts DEF LockInv
<1>5. DOMAIN owner = Mutexes
  BY DEF LockInv, MutexTableOK
<1>6. LineOf(m)' = <<current>>
  <2>1. PICK t \in Entries : t = current
    BY <1>1
  <2>2. owner'[m] = t /\ wait_queue'[m] = <<>> /\ t # NULL
    BY <1>1, <1>2, <1>4, <1>5, <2>1
  <2>3. LineOf(m)' = <<t>> \o [k \in DOMAIN <<>> |-> EntryOf(<<>>[k])']
    BY <2>2 DEF LineOf
  <2>4. [k \in DOMAIN <<>> |-> EntryOf(<<>>[k])'] = <<>>
    OBVIOUS
  <2>5. <<t>> \o <<>> = <<t>>
    OBVIOUS
  <2> QED BY <2>1, <2>3, <2>4, <2>5
<1>7. MappedLine' = [MappedLine EXCEPT ![m] = Append(@, current)]
  <2>1. \A n \in Mutexes \ {m} : owner'[n] = owner[n] /\ wait_queue'[n] = wait_queue[n]
    BY <1>2, <1>5
  <2>2. MappedLine' = [MappedLine EXCEPT ![m] = <<current>>]
    BY <1>3, <1>6, <2>1, OneLine
  <2>3. MappedLine[m] = <<>>
    BY <1>4 DEF MappedLine
  <2>4. Append(<<>>, current) = <<current>>
    OBVIOUS
  <2> QED BY <2>2, <2>3, <2>4
<1>8. UNCHANGED MappedQueue /\ UNCHANGED MappedSleep
  BY <1>2, QueueStays, SleepStays DEF timeVars, tableVars, schedVars
<1>9. Service!Call
  BY <1>1, <1>2, LockCallMaps
<1>10. MappedLine[m] = <<>>
  BY <1>4 DEF MappedLine
<1> QED
  BY <1>3, <1>7, <1>8, <1>9, <1>10
     DEF Service!Acquire, MappedLine, MappedQueue, MappedSleep, EntriesIn

LEMMA ReleaseLastMaps ==
  ASSUME LockInv, NEW m \in Mutexes, SystemCall, lock_count[m] = 1, owner[m] = current,
         ReleaseLast(m)
  PROVE  Service!Release(m)
<1>1. current \in Entries /\ current # NULL /\ KernelInv
  BY CallerNotQueued DEF LockInv
<1>2. /\ owner' = [owner EXCEPT ![m] = NULL]
      /\ UNCHANGED <<timeVars, tableVars, schedVars, wait_queue>>
      /\ kpc' = "keyboard"
  BY DEF ReleaseLast, Returns
<1>3. UNCHANGED <<pid, state, current, active_time, run_queue>>
  BY <1>2 DEF tableVars, schedVars
<1>4. wait_queue[m] = <<>>
  <2>1. Len(wait_queue[m]) = 0 /\ wait_queue[m] \in Seq(Nat)
    <3>1. lock_count[m] = Len(wait_queue[m]) + 1 /\ Len(wait_queue[m]) \in Nat
      BY CountFacts, MutexTypes DEF LockInv
    <3> QED BY <3>1, MutexTypes DEF LockInv
  <2> QED BY <2>1
<1>5. DOMAIN owner = Mutexes
  BY DEF LockInv, MutexTableOK
<1>6. LineOf(m) = <<current>>
  <2>1. LineOf(m) = <<current>> \o EntriesIn(<<>>)
    BY <1>1, <1>4 DEF LineOf, EntriesIn
  <2>2. <<current>> \o <<>> = <<current>>
    OBVIOUS
  <2> QED BY <2>1, <2>2, EntriesNone
<1>7. LineOf(m)' = <<>>
  BY <1>2, <1>5 DEF LineOf
<1>8. MappedLine[m] = <<current>>
  BY <1>6 DEF MappedLine
<1>9. MappedLine' = [MappedLine EXCEPT ![m] = Tail(@)]
  <2>1. \A n \in Mutexes \ {m} : owner'[n] = owner[n] /\ wait_queue'[n] = wait_queue[n]
    BY <1>2, <1>5
  <2>2. MappedLine' = [MappedLine EXCEPT ![m] = <<>>]
    BY <1>3, <1>7, <2>1, OneLine
  <2>3. Tail(<<current>>) = <<>>
    OBVIOUS
  <2> QED BY <1>8, <2>2, <2>3
<1>10. UNCHANGED MappedQueue /\ UNCHANGED MappedSleep
  BY <1>2, QueueStays, SleepStays DEF timeVars, tableVars, schedVars
<1>11. Service!Call
  BY <1>1, <1>2, LockCallMaps
<1>12. Service!Holds(current, m) /\ Len(MappedLine[m]) = 1
  <2>1. Len(<<current>>) = 1 /\ Head(<<current>>) = current /\ <<current>> # <<>>
    OBVIOUS
  <2> QED BY <1>8, <2>1 DEF Service!Holds, MappedLine
<1> QED
  BY <1>3, <1>9, <1>10, <1>11, <1>12
     DEF Service!Release, MappedLine, MappedQueue, MappedSleep, EntriesIn

(* The first process that waits gets the mutex, and is ready behind all    *)
(* that are.                                                               *)
LEMMA HandOverMaps ==
  ASSUME LockInv, NEW m \in Mutexes, SystemCall, lock_count[m] > 1, owner[m] = current,
         ReleaseToWaiter(m)
  PROVE  Service!Release(m)
<1>1. /\ current \in Entries /\ current # NULL /\ KernelInv
      /\ wait_queue[m] # <<>> /\ lock_count[m] \in Nat
  BY CallerNotQueued, CountFacts, MutexTypes DEF LockInv
<1>2. PICK i \in Waiting :
        /\ Head(wait_queue[m]) = pid[i]
        /\ EntriesOf(Head(wait_queue[m])) = {i}
        /\ Tail(wait_queue[m]) \in Seq(Nat)
  BY <1>1, FirstWaiter
<1>3. /\ i \in Entries /\ i \in Live /\ state[i] = "WAITING" /\ i # NULL
      /\ Len(run_queue) < QUEUE_SIZE /\ Len(run_queue) \in Nat
  BY <1>1, WaiterFacts, EntriesFinite, LenProperties
     DEF LockInv, Waiting, Live, KernelInv, TableTypeOK
<1>4. HandOver(m, i) /\ UNCHANGED <<timeVars, tableVars, current, active_time, wake_time>>
      /\ wait_queue' = [wait_queue EXCEPT ![m] = Tail(@)]
  BY <1>1, <1>2 DEF ReleaseToWaiter
<1>5. /\ owner' = [owner EXCEPT ![m] = i]
      /\ run_queue' = Append(run_queue, pid[i])
      /\ state' = [state EXCEPT ![i] = "RUNNING"]
      /\ kpc' = "keyboard"
      /\ UNCHANGED <<system_time, pid>>
  BY <1>3, <1>4, ProcAssumption DEF HandOver, QueueIn, QueueIsFull, Continue, timeVars, tableVars
<1>6. DOMAIN owner = Mutexes /\ DOMAIN wait_queue = Mutexes
  BY DEF LockInv, MutexTableOK
<1>7. PICK q \in Seq(Nat) : q = wait_queue[m]
  BY MutexTypes DEF LockInv
<1> DEFINE e == EntriesIn(q)
<1>8. e \in Seq(Found \cup Entries)
  <2>1. e \in Seq(Found)
    BY EntriesType
  <2> QED BY <2>1, SeqMonotonic
<1>9. e # <<>> /\ Head(e) = i /\ Tail(e) = EntriesIn(Tail(q))
  <2>1. EntryOf(pid[i]) = i
    BY <1>1, <1>3, EntryFound
  <2> QED BY <1>1, <1>2, <1>7, <2>1, EntriesHeadTail
<1>10. LineOf(m) = <<current>> \o e
  BY <1>1, <1>7 DEF LineOf, EntriesIn
<1>11. LineOf(m)' = <<i>> \o Tail(e)
  <2>1. PICK r \in Seq(Nat) : r = Tail(q)
    BY <1>2, <1>7, Zenon
  <2>2. owner'[m] = i /\ wait_queue'[m] = r
    BY <1>4, <1>5, <1>6, <1>7, <2>1
  <2>3. LineOf(m)' = <<i>> \o EntriesIn(r)
    BY <1>3, <1>5, <2>2 DEF LineOf, EntriesIn, EntryOf, IsEntryOf
  <2>4. EntriesIn(r) = Tail(e)
    BY <1>9, <2>1
  <2> QED BY <2>3, <2>4
<1> HIDE DEF e
<1>12. /\ <<current>> \o e # <<>>
       /\ Head(<<current>> \o e) = current
       /\ Tail(<<current>> \o e) = e
       /\ Len(<<current>> \o e) # 1
       /\ (<<current>> \o e)[2] = i
  <2>1. /\ Len(<<current>> \o e) = Len(e) + 1 /\ Len(e) \in Nat
        /\ <<current>> \o e # <<>>
        /\ Head(<<current>> \o e) = current
        /\ Tail(<<current>> \o e) = e
        /\ (<<current>> \o e)[2] = Head(e)
    BY <1>1, <1>8, <1>9, LineFacts
  <2>2. Len(e) # 0
    BY <1>8, <1>9
  <2>3. Len(<<current>> \o e) # 1
    BY <2>1, <2>2
  <2> QED BY <1>9, <2>1, <2>3
<1>13. <<i>> \o Tail(e) = e
  <2>1. \A s \in Seq(Found \cup Entries) : s # <<>> => <<Head(s)>> \o Tail(s) = s
    OBVIOUS
  <2> QED BY <1>8, <1>9, <2>1
<1>14. MappedLine[m] = <<current>> \o e
  BY <1>10 DEF MappedLine
<1>15. MappedLine' = [MappedLine EXCEPT ![m] = Tail(@)]
  <2>1. \A n \in Mutexes \ {m} : owner'[n] = owner[n] /\ wait_queue'[n] = wait_queue[n]
    BY <1>4, <1>5, <1>6
  <2>2. LineOf(m)' = e
    BY <1>11, <1>13
  <2>3. MappedLine' = [MappedLine EXCEPT ![m] = e]
    BY <1>5, <2>1, <2>2, OneLine
  <2> QED BY <1>12, <1>14, <2>3
<1>16. MappedQueue' = Append(MappedQueue, i)
  BY <1>1, <1>3, <1>5, QueueGrows
<1>17. UNCHANGED MappedSleep
  BY <1>3, <1>4, <1>5 DEF MappedSleep, TicksUntil
<1>18. Service!Call
  BY <1>1, <1>5, LockCallMaps
<1>19. /\ Service!Holds(current, m)
       /\ Len(MappedLine[m]) # 1
       /\ MappedLine[m][2] = i
  BY <1>12, <1>14 DEF Service!Holds, MappedLine
<1> QED
  BY <1>4, <1>5, <1>15, <1>16, <1>17, <1>18, <1>19
     DEF Service!Release, Service!MakeReady, MappedLine, MappedQueue, MappedSleep, EntriesIn


LEMMA AllocMaps ==
  ASSUME LockInv, kmutex_alloc
  PROVE  LineStep
<1>1. SystemCall /\ Returns
  BY DEF kmutex_alloc
<1>2. CASE UNCHANGED mutexVars
  BY <1>1, <1>2, RefusalMaps DEF LockInv, Returns
<1>3. CASE mutex_queue # <<>> /\ Reset(Head(mutex_queue), TRUE)
  <2>1. mutex_queue \in Seq(Mutexes)
    BY DEF LockInv, MutexTableOK
  <2>2. Head(mutex_queue) \in Mutexes
    BY <1>3, <2>1
  <2> QED BY <1>1, <1>3, <2>2, ResetMaps
<1> QED BY <1>2, <1>3 DEF kmutex_alloc

LEMMA MutexCallMaps ==
  ASSUME LockInv, NEW id \in MutexArgs,
         kmutex_free(id) \/ kmutex_lock(id) \/ kmutex_unlock(id)
  PROVE  LineStep
<1>0. KernelInv /\ SystemCall /\ (id \in Mutexes => lock_count[id] \in Nat)
  BY MutexTypes DEF LockInv, kmutex_free, kmutex_lock, kmutex_unlock
<1>1. CASE Returns /\ UNCHANGED mutexVars
  BY <1>0, <1>1, RefusalMaps DEF Returns
<1>2. CASE kmutex_free(id)
  <2>1. CASE id \in Mutexes /\ Returns /\ Reset(id, FALSE)
    BY <1>0, <2>1, ResetMaps
  <2> QED BY <1>1, <1>2, <2>1 DEF kmutex_free
<1>3. CASE kmutex_lock(id)
  <2>1. CASE /\ Continue("keyboard", FALSE, OutOfBounds)
             /\ UNCHANGED <<timeVars, tableVars, schedVars, mutexVars>>
    BY <1>0, <2>1, RefusalMaps DEF Continue
  <2>2. CASE id \in Mutexes /\ lock_count[id] > 0 /\ LockBlocks(id)
    BY <1>0, <2>2, LockBlocksMaps DEF LineStep
  <2>3. CASE id \in Mutexes /\ lock_count[id] = 0 /\ LockTakes(id)
    BY <1>0, <2>3, LockTakesMaps DEF LineStep
  <2> QED BY <1>1, <1>3, <2>1, <2>2, <2>3 DEF kmutex_lock
<1>4. CASE kmutex_unlock(id)
  <2>1. CASE id \in Mutexes /\ owner[id] = current /\ lock_count[id] = 1 /\ ReleaseLast(id)
    BY <1>0, <2>1, ReleaseLastMaps DEF LineStep
  <2>2. CASE id \in Mutexes /\ owner[id] = current /\ lock_count[id] > 1 /\ ReleaseToWaiter(id)
    BY <1>0, <2>2, HandOverMaps DEF LineStep
  <2> QED BY <1>1, <1>4, <2>1, <2>2 DEF kmutex_unlock
<1> QED BY <1>2, <1>3, <1>4

(* The steps of module KProc leave the lines alone: processes that wait    *)
(* keep their entries, and an exit leaves the owner pointer as it is.      *)
LEMMA OtherStepsMap ==
  ASSUME MutexInv, MutexInv', [ProcNext]_procVars, UNCHANGED mutexVars
  PROVE  RoundRobinStep /\ UNCHANGED MappedLine
<1>1. /\ KernelInv /\ IdleAlone /\ RunnerActive /\ WaitersKnown /\ KernelInv'
      /\ MutexTableOK
  BY DEF MutexInv, MutexesInv, LockInv
<1>2. RoundRobinStep
  BY <1>1, ProcMaps
<1>3. Waiting' = Waiting /\ \A i \in Waiting' : pid'[i] = pid[i]
  BY <1>1, RunnerStep, WaitersStay
<1>4. ASSUME NEW m \in Mutexes
      PROVE  LineOf(m)' = LineOf(m)
  <2>1. owner'[m] = owner[m] /\ wait_queue'[m] = wait_queue[m]
    BY DEF mutexVars
  <2>2. PICK ids \in Seq(Nat) : ids = wait_queue[m]
    BY <1>1, MutexTypes
  <2>3. ASSUME NEW p \in Range(ids)
        PROVE  \E i \in Live : i \in Live' /\ pid[i] = p /\ pid'[i] = p
    <3>1. PICK i \in Waiting : pid[i] = p
      BY <1>1, <2>2 DEF WaitersKnown
    <3>2. i \in Live /\ i \in Live'
      BY <1>3 DEF Waiting, Live
    <3> QED BY <1>3, <3>1, <3>2
  <2>4. EntriesIn(ids)' = EntriesIn(ids)
    BY <1>1, <2>3, EntriesKept
  <2>5. LineOf(m) = IF owner[m] = NULL THEN <<>> ELSE <<owner[m]>> \o EntriesIn(ids)
    BY <2>2 DEF LineOf, EntriesIn
  <2>6. LineOf(m)' = IF owner[m] = NULL THEN <<>> ELSE <<owner[m]>> \o EntriesIn(ids)'
    BY <2>1, <2>2 DEF LineOf, EntriesIn
  <2> QED BY <2>4, <2>5, <2>6
<1> QED BY <1>2, <1>4 DEF MappedLine

LEMMA LinesAtBoot == MutexInit => Service!LockInit
<1> SUFFICES ASSUME MutexInit PROVE Service!LockInit
  OBVIOUS
<1>1. Service!RRInit
  BY BootMaps, SameRoundRobin DEF MutexInit
<1>2. MappedLine = [m \in Mutexes |-> <<>>]
  BY DEF MutexInit, MappedLine, LineOf
<1> QED BY <1>1, <1>2 DEF Service!LockInit, MappedLine

LEMMA LineStepAllowed == LineStep => [Service!LockNext]_(Service!lockServiceVars)
<1> SUFFICES ASSUME LineStep PROVE [Service!LockNext]_(Service!lockServiceVars)
  OBVIOUS
<1>1. CASE \E m \in Mutexes : Service!Acquire(m) \/ Service!Release(m) \/ Service!Clear(m)
  BY <1>1 DEF Service!LockNext
<1>2. CASE RoundRobinStep /\ UNCHANGED MappedLine
  <2>1. CASE \E secs \in SleepSecs : Scheduler!Sleep(IF secs > 0 THEN CLK_TCK * secs ELSE 0)
    <3>1. \E secs \in SleepSecs : Service!Sleep(IF secs > 0 THEN CLK_TCK * secs ELSE 0)
      BY <2>1, SameRoundRobin
    <3> QED BY <1>2, <3>1 DEF Service!LockNext, MappedLine
  <2>2. CASE \E t \in Entries : Scheduler!Exec(t)
    <3>1. \E t \in Entries : Service!Exec(t)
      BY <2>2, SameRoundRobin
    <3> QED BY <1>2, <3>1 DEF Service!LockNext, MappedLine
  <2>3. CASE UNCHANGED MappedVars
    BY <1>2, <2>3
       DEF MappedVars, MappedQueue, MappedSleep, MappedPhase, MappedLine, EntriesIn,
           Service!rrVars, Service!lockServiceVars
  <2>4. CASE \/ Scheduler!Tick \/ Scheduler!Query \/ Scheduler!Yield
             \/ Scheduler!Exit \/ Scheduler!Halt \/ Scheduler!Schedule
    <3>1. \/ Service!Tick \/ Service!Query \/ Service!Yield
          \/ Service!Exit \/ Service!Halt \/ Service!Schedule
      BY <2>4, SameRoundRobin
    <3> QED BY <1>2, <3>1 DEF Service!LockNext, MappedLine
  <2> QED BY <1>2, <2>1, <2>2, <2>3, <2>4 DEF RoundRobinStep
<1> QED BY <1>1, <1>2 DEF LineStep

(* kmutex.c serves each mutex first come, first served, whatever ids       *)
(* processes lock, unlock and free, and the callers wait and become ready  *)
(* as the line says (KMutex, LocksServe).                                  *)
THEOREM LocksServeInLine == MutexSpec => LocksServe
<1>1. MutexInv /\ MutexInv' /\ [MutexNext]_mutexSysVars
        => [Service!LockNext]_(Service!lockServiceVars)
  <2> SUFFICES ASSUME MutexInv, MutexInv', [MutexNext]_mutexSysVars
               PROVE  LineStep
    BY LineStepAllowed
  <2>1. LockInv
    BY DEF MutexInv, MutexesInv
  <2>2. CASE [ProcNext]_procVars /\ UNCHANGED mutexVars
    BY <2>2, OtherStepsMap DEF LineStep
  <2>3. CASE kmutex_alloc
    BY <2>1, <2>3, AllocMaps
  <2>4. CASE \E id \in MutexArgs : kmutex_free(id) \/ kmutex_lock(id) \/ kmutex_unlock(id)
    BY <2>1, <2>4, MutexCallMaps
  <2> QED BY <2>2, <2>3, <2>4 DEF MutexNext, mutexSysVars
<1> QED
  BY <1>1, LinesAtBoot, MutexSpecInv, PTL DEF MutexSpec, LocksServe, Service!LockSpec

=============================================================================
