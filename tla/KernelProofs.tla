---------------------------- MODULE KernelProofs ----------------------------
(***************************************************************************)
(* Mutexes and mailboxes on one scheduler: that no call of either disturbs *)
(* those who wait at the other, and that a caller can rely on the answers  *)
(* it gets.                                                                *)
(***************************************************************************)
EXTENDS Kernel, KMutexProofs, KMboxProofs

-----------------------------------------------------------------------------
(* The inductive invariant of the wait queues.                             *)

(* Whoever is not in the queue of a mutex waits for a message, and whoever *)
(* waits for a message is in the queue of no mutex.  The second half needs *)
(* callers that stick to the ids they have allocated: mutex_alloc forgets  *)
(* those who wait for a mutex that was not.                                *)
WaitsApart ==
  /\ Waiting \subseteq Elsewhere \cup Unheard
  /\ AllocatedOnly => Elsewhere \cap Unheard = {}

(* A receiver that blocks stays current until the scheduler runs, and the  *)
(* key that exits may end it: it must not stand in the queue of a mutex.   *)
CurrentElsewhere == current \in Waiting => current \in Elsewhere

WaitInv ==
  /\ MutexesInv
  /\ MailInv
  /\ WaitsApart
  /\ CurrentElsewhere

-----------------------------------------------------------------------------
(* Each call leaves those who wait elsewhere alone.                        *)

LEMMA WaitMutexCall ==
  ASSUME WaitInv, CallKeeps, UNCHANGED mboxVars
  PROVE  WaitInv'
<1> USE DEF mboxVars
<1>1. /\ MutexesInv' /\ RunnerActive'
      /\ UNCHANGED <<pid, next_pid>> /\ Live' = Live
      /\ Elsewhere \subseteq Elsewhere'
      /\ AllocatedOnly => Elsewhere' = Elsewhere
  BY DEF CallKeeps
<1>2. /\ Waiting \subseteq Live /\ Waiting' \subseteq Live
      /\ Elsewhere' \subseteq Waiting' /\ Unheard \subseteq Waiting
  BY <1>1 DEF Waiting, Live, Elsewhere, Unheard
<1>3. MailInv'
  <2>1. KernelInv' /\ IdleAlone'
    BY <1>1 DEF MutexesInv, LockInv
  <2>2. MboxTableOK' /\ MailCounted' /\ NoIdleMail' /\ (RoomOnly => RingsExact')
    BY DEF WaitInv, MailInv, MboxTableOK, MailCounted, NoIdleMail, RingsExact
  <2>3. ASSUME NEW b \in Mboxes, NEW i \in Live, pid[i] \in Range(recv_queue[b])
        PROVE  i \in Waiting'
    <3>1. i \in Waiting /\ i \notin Unheard
      BY <2>3 DEF WaitInv, MailInv, ReceiversKnown, Unheard
    <3>2. i \in Elsewhere
      BY <3>1 DEF WaitInv, WaitsApart
    <3>3. QED
      BY <3>2, <1>1, <1>2
  <2>4. ReceiversKnown'
    BY <1>1, <2>3 DEF WaitInv, MailInv, ReceiversKnown
  <2>5. QED
    BY <2>1, <2>2, <2>4 DEF MailInv
<1>4. /\ Unheard \cap Waiting' \subseteq Unheard'
      /\ Unheard' \cap Waiting \subseteq Unheard
  BY <1>1 DEF Unheard
<1>5. Waiting' \subseteq Elsewhere' \cup Unheard'
  <2> SUFFICES ASSUME NEW i \in Waiting', i \notin Unheard'
               PROVE  i \in Elsewhere'
    OBVIOUS
  <2>1. PICK b \in Mboxes : pid[i] \in Range(recv_queue[b])
    BY <1>1 DEF Unheard
  <2>2. i \in Waiting /\ i \notin Unheard
    BY <1>2, <2>1 DEF WaitInv, MailInv, ReceiversKnown, Unheard
  <2>3. QED
    BY <2>2, <1>1 DEF WaitInv, WaitsApart
<1>6. AllocatedOnly => Elsewhere' \cap Unheard' = {}
  BY <1>1, <1>2, <1>4 DEF WaitInv, WaitsApart, Elsewhere
<1>7. CurrentElsewhere'
  BY <1>1, EntriesFinite DEF RunnerActive, CurrentElsewhere, Waiting
<1>8. QED
  BY <1>1, <1>3, <1>5, <1>6, <1>7 DEF WaitInv, WaitsApart

LEMMA WaitMailCall ==
  ASSUME WaitInv, MailKeeps, SystemCall, current' = current, UNCHANGED mutexVars
  PROVE  WaitInv'
<1> USE DEF mutexVars
<1>1. /\ MailInv' /\ UNCHANGED <<pid, next_pid>> /\ Live' = Live
      /\ Unheard' = Unheard
  BY DEF MailKeeps
<1>2. /\ Waiting \subseteq Live /\ Waiting' \subseteq Live
      /\ Unheard \subseteq Waiting /\ Unheard' \subseteq Waiting'
      /\ Elsewhere \subseteq Waiting
  BY <1>1 DEF Waiting, Live, Unheard, Elsewhere
<1>3. KernelInv' /\ IdleAlone'
  BY <1>1 DEF MailInv
<1>4. ASSUME NEW i \in Live, NEW m \in Mutexes, pid[i] \in Range(wait_queue[m])
      PROVE  i \in Waiting' /\ i \in Unheard /\ i \notin Elsewhere
  <2>1. i \in Waiting
    <3>1. PICK j \in Waiting : pid[j] = pid[i]
      BY <1>4 DEF WaitInv, MutexesInv, LockInv, WaitersKnown
    <3>2. QED
      BY <3>1, <1>2 DEF WaitInv, MutexesInv, LockInv, KernelInv, TableInv, PidsUnique
  <2>2. i \notin Elsewhere
    BY <1>4 DEF Elsewhere
  <2>3. QED
    BY <2>1, <2>2, <1>1, <1>2 DEF WaitInv, WaitsApart
<1>5. MutexesInv'
  <2>1. MutexTableOK' /\ LockCountExact' /\ HoldersKnown'
    BY <1>1 DEF WaitInv, MutexesInv, LockInv, MutexTableOK, LockCountExact, HoldersKnown
  <2>2. WaitersKnown'
    <3>1. ASSUME NEW m \in Mutexes, NEW p \in Range(wait_queue[m])
          PROVE  p \in {pid[i] : i \in Waiting'}
      <4>1. PICK i \in Waiting : p = pid[i]
        BY DEF WaitInv, MutexesInv, LockInv, WaitersKnown
      <4>2. QED
        BY <4>1, <1>2, <1>4
    <3>2. QED
      BY <3>1, <1>1 DEF WaitInv, MutexesInv, LockInv, WaitersKnown
  <2>3. PoolInv => PoolInv'
    BY <1>1 DEF PoolInv, MutexIdsExact, HolderIsOwner, FreeUnused
  <2>4. QED
    BY <1>3, <2>1, <2>2, <2>3 DEF WaitInv, MutexesInv, LockInv
<1>6. Waiting' \subseteq Elsewhere' \cup Unheard'
  <2> SUFFICES ASSUME NEW i \in Waiting', i \notin Elsewhere'
               PROVE  i \in Unheard'
    OBVIOUS
  <2>1. PICK m \in Mutexes : pid[i] \in Range(wait_queue[m])
    BY <1>1 DEF Elsewhere
  <2>2. QED
    BY <2>1, <1>1, <1>2, <1>4
<1>7. AllocatedOnly => Elsewhere' \cap Unheard' = {}
  <2> SUFFICES ASSUME AllocatedOnly, NEW i \in Unheard
               PROVE  i \notin Elsewhere'
    BY <1>1
  <2>1. i \in Waiting /\ i \notin Elsewhere
    BY <1>2 DEF WaitInv, WaitsApart
  <2>2. QED
    BY <2>1, <1>1 DEF Elsewhere
<1>8. CurrentElsewhere'
  <2>1. current \in Live /\ current \notin Waiting
    BY CallerNotListed DEF WaitInv
  <2>2. current \notin Unheard'
    BY <2>1, <1>1, <1>2
  <2>3. QED
    BY <2>2, <1>6 DEF CurrentElsewhere
<1>9. QED
  BY <1>1, <1>5, <1>6, <1>7, <1>8 DEF WaitInv, WaitsApart

(* The processes among themselves, ticks, keys and the scheduler.          *)
LEMMA WaitProcStep ==
  ASSUME WaitInv, [ProcNext]_procVars, UNCHANGED <<mutexVars, mboxVars>>
  PROVE  WaitInv'
<1>1. KernelInv /\ IdleAlone
  BY DEF WaitInv, MailInv
<1>2. /\ MutexesInv' /\ Elsewhere' = Elsewhere \cap Waiting'
      /\ MailInv' /\ Unheard' = Unheard \cap Waiting'
  BY ProcessStep, MailProcStep DEF WaitInv, CurrentElsewhere
<1>3. Waiting' \subseteq Waiting
  BY <1>1, WaitersStay
<1>4. WaitsApart'
  BY <1>2, <1>3 DEF WaitInv, WaitsApart
<1>5. current' \in Waiting' => current' = current
  <2>1. CASE SchedulerRun
    <3>1. PICK i \in Live : Dispatch(i) /\ state[i] # "WAITING"
      BY <1>1, <2>1, PickedNotWaiting
    <3>2. current' = i /\ state'[i] = "ACTIVE"
      BY <3>1 DEF Dispatch, Live
    <3>3. QED
      BY <3>2 DEF Waiting
  <2>2. CASE ~SchedulerRun
    <3>1. current' \in {current, NULL}
      BY <2>2 DEF ProcNext, Timer, SyscallQuery, SyscallYield, SyscallSleep, SyscallExec,
                  SyscallExit, KeyNone, KeyExec, KeyExit, KeyQuit, kproc_exec, kproc_exit,
                  procVars, schedVars
    <3>2. QED
      BY <3>1, EntriesFinite DEF Waiting
  <2>3. QED
    BY <2>1, <2>2
<1>6. CurrentElsewhere'
  BY <1>2, <1>3, <1>5 DEF WaitInv, CurrentElsewhere
<1>7. QED
  BY <1>2, <1>4, <1>6 DEF WaitInv

-----------------------------------------------------------------------------
(* The steps of the kernel.                                                *)

\* What a step of KernelNext is, in the terms of the modules below it.
MutexStep ==
  \/ kmutex_alloc
  \/ \E id \in MutexArgs : kmutex_free(id) \/ kmutex_lock(id) \/ kmutex_unlock(id)

MailStep == \E b \in MboxArgs : ksyscall_msg_send(b) \/ ksyscall_msg_recv(b)

LEMMA KernelSteps ==
  ASSUME [KernelNext]_kernelSysVars
  PROVE  \/ [ProcNext]_procVars /\ UNCHANGED <<mutexVars, mboxVars>>
         \/ MutexStep /\ UNCHANGED mboxVars
         \/ MailStep /\ UNCHANGED mutexVars
<1>1. CASE NotACall /\ UNCHANGED <<mutexVars, mboxVars>>
  BY <1>1 DEF NotACall, ProcNext
<1>2. CASE ProcCall /\ UNCHANGED <<mutexVars, mboxVars>>
  BY <1>2 DEF ProcCall, Enter, ProcNext
<1>3. CASE MutexCall /\ UNCHANGED mboxVars
  BY <1>3 DEF MutexCall, Enter, MutexStep
<1>4. CASE MailCall /\ UNCHANGED mutexVars
  BY <1>4 DEF MailCall, Enter, MailStep
<1>5. CASE UNCHANGED kernelSysVars
  BY <1>5 DEF kernelSysVars
<1>6. QED
  BY <1>1, <1>2, <1>3, <1>4, <1>5 DEF KernelNext

LEMMA MutexStepKeeps ==
  ASSUME MutexesInv, MutexStep
  PROVE  CallKeeps
BY AllocStep, FreeStep, LockStep, UnlockStep DEF MutexStep

LEMMA MailStepKeeps ==
  ASSUME MailInv, MailStep
  PROVE  MailKeeps /\ SystemCall /\ current' = current
<1>1. MailKeeps
  BY SendStep, RecvStep DEF MailStep
<1>2. SystemCall
  BY DEF MailStep, ksyscall_msg_send, ksyscall_msg_recv
<1>3. current' = current
  BY DEF MailStep, ksyscall_msg_send, ksyscall_msg_recv, Refused, Deposit, Deliver, Misdeliver,
         schedVars
<1>4. QED
  BY <1>1, <1>2, <1>3

LEMMA WaitInitInv == KernelInit => WaitInv
<1> SUFFICES ASSUME KernelInit
             PROVE  WaitInv
  OBVIOUS
<1>1. MutexInv /\ MboxInv
  BY MutexInitInv, MboxInitInv DEF KernelInit
<1>2. Waiting = {}
  BY DEF KernelInit, MutexInit, ProcInit, Waiting
<1>3. QED
  BY <1>1, <1>2 DEF MutexInv, MboxInv, WaitInv, WaitsApart, CurrentElsewhere, Elsewhere

LEMMA WaitNextInv ==
  ASSUME WaitInv, [KernelNext]_kernelSysVars
  PROVE  WaitInv'
<1>1. CASE MutexStep /\ UNCHANGED mboxVars
  BY <1>1, MutexStepKeeps, WaitMutexCall DEF WaitInv
<1>2. CASE MailStep /\ UNCHANGED mutexVars
  BY <1>2, MailStepKeeps, WaitMailCall DEF WaitInv
<1>3. QED
  BY <1>1, <1>2, KernelSteps, WaitProcStep

LEMMA WaitSpecInv == KernelSpec => []WaitInv
BY WaitInitInv, WaitNextInv, PTL DEF KernelSpec

(* One place to wait: exactly one mutex or exactly one mailbox.            *)
LEMMA OnePlace ==
  ASSUME WaitInv, AllocatedOnly
  PROVE  WaitsOnce
<1> SUFFICES ASSUME NEW i \in Live
             PROVE  Cardinality(WaitsAt(i)) = (IF state[i] = "WAITING" THEN 1 ELSE 0)
  BY DEF WaitsOnce
<1>1. /\ \A m \in Mutexes : pid[i] \in Range(wait_queue[m]) => i \in Waiting
      /\ \A b \in Mboxes : pid[i] \in Range(recv_queue[b]) => i \in Waiting
  BY DEF WaitInv, MutexesInv, LockInv, WaitersKnown, MailInv, ReceiversKnown,
         KernelInv, TableInv, PidsUnique, Waiting, Live
<1>2. CASE i \notin Waiting
  <2>1. WaitsAt(i) = {}
    BY <1>1, <1>2 DEF WaitsAt
  <2>2. QED
    BY <1>2, <2>1, FS_EmptySet DEF Waiting, Live
<1>3. CASE i \in Waiting
  <2>1. \E place : WaitsAt(i) = {place}
    <3>1. CASE i \in Elsewhere
      <4>1. i \notin Unheard
        BY <3>1 DEF WaitInv, WaitsApart
      <4>2. PICK b \in Mboxes : pid[i] \in Range(recv_queue[b])
        BY <1>3, <4>1 DEF Unheard
      <4>3. \A c \in Mboxes : pid[i] \in Range(recv_queue[c]) => c = b
        BY <4>2 DEF WaitInv, MailInv, ReceiversKnown
      <4>4. \A m \in Mutexes : pid[i] \notin Range(wait_queue[m])
        BY <3>1 DEF Elsewhere
      <4>5. WaitsAt(i) = {<<"mailbox", b>>}
        BY <4>2, <4>3, <4>4 DEF WaitsAt
      <4>6. QED
        BY <4>5
    <3>2. CASE i \notin Elsewhere
      <4>1. i \in Unheard
        BY <1>3, <3>2 DEF WaitInv, WaitsApart
      <4>2. PICK m \in Mutexes : pid[i] \in Range(wait_queue[m])
        BY <1>3, <3>2 DEF Elsewhere
      <4>3. \A n \in Mutexes : pid[i] \in Range(wait_queue[n]) => n = m
        BY <4>2 DEF WaitInv, MutexesInv, LockInv, WaitersKnown
      <4>4. \A b \in Mboxes : pid[i] \notin Range(recv_queue[b])
        BY <4>1 DEF Unheard
      <4>5. WaitsAt(i) = {<<"mutex", m>>}
        BY <4>2, <4>3, <4>4 DEF WaitsAt
      <4>6. QED
        BY <4>5
    <3>3. QED
      BY <3>1, <3>2
  <2>2. QED
    BY <1>3, <2>1, FS_Singleton DEF Waiting
<1>4. QED
  BY <1>2, <1>3

-----------------------------------------------------------------------------
(* Calls that report an error.                                             *)

\* The step of a call that is answered with an error while it runs on.
Fails ==
  /\ kpc = "user" /\ kpc' = "keyboard" /\ system_time' = system_time
  /\ current' = current
  /\ eax'[current] = Error

LEMMA ProcCallFails ==
  ASSUME WaitInv, ProcCall, UNCHANGED <<mutexVars, mboxVars>>, Fails
  PROVE  UNCHANGED <<tableVars, schedVars, mutexVars, mboxVars>>
<1>1. /\ current \in Live \ {0} /\ current \in Entries /\ current # NULL
      /\ SystemCall
  <2>1. SystemCall
    BY DEF ProcCall, Enter, SyscallQuery, SyscallYield, SyscallSleep, SyscallExec, SyscallExit
  <2>2. QED
    BY <2>1, CallerNotListed, EntriesFinite DEF WaitInv
<1>2. CASE SyscallQuery
  BY <1>2 DEF SyscallQuery
<1>3. CASE SyscallYield
  BY <1>3, <1>1 DEF SyscallYield, Fails
<1>4. CASE \E secs \in SleepSecs : SyscallSleep(secs)
  BY <1>4, <1>1 DEF SyscallSleep, Fails
<1>5. CASE Enter(PROC_EXEC, 0, ExecResult, SyscallExec)
  <2>1. CASE proc_queue = <<>>
    BY <1>5, <2>1 DEF Enter, SyscallExec, kproc_exec
  <2>2. CASE proc_queue # <<>>
    <3>1. /\ proc_queue \in Seq(Entries) /\ Head(proc_queue) \notin Live
          /\ pid \in [Entries -> Nat] /\ next_pid \in Nat
      <4>1. proc_queue \in Seq(Entries) /\ Range(proc_queue) = Entries \ Live
        BY DEF WaitInv, MailInv, KernelInv, TableTypeOK, TableInv, FreeEntriesExact
      <4>2. Head(proc_queue) \in Range(proc_queue)
        BY <4>1, <2>2, TailFacts DEF WaitInv, MailInv, KernelInv, TableInv, FreeEntriesExact
      <4>3. QED
        BY <4>1, <4>2 DEF WaitInv, MailInv, KernelInv, TableTypeOK
    <3>2. pid' = [pid EXCEPT ![Head(proc_queue)] = next_pid]
      BY <1>5, <2>2 DEF Enter, SyscallExec, kproc_exec, FillEntry
    <3>3. pid'[current] = pid[current]
      BY <1>1, <3>1, <3>2
    <3>4. eax'[current] = next_pid
      BY <1>1, <1>5, <2>2, <3>3 DEF Enter, Records, NewProcess, ExecResult, Fails
    <3>5. QED
      BY <3>1, <3>4 DEF Fails, Error
  <2>3. QED
    BY <2>1, <2>2
<1>6. CASE SyscallExit
  <2>1. pid[current] # 0
    BY <1>1 DEF SystemCall
  <2>2. QED
    BY <1>1, <1>6, <2>1 DEF SyscallExit, kproc_exit, Fails
<1>7. QED
  BY <1>2, <1>3, <1>4, <1>5, <1>6 DEF ProcCall, Enter

LEMMA MutexCallFails ==
  ASSUME WaitInv, MutexCall, UNCHANGED mboxVars, Fails
  PROVE  UNCHANGED <<tableVars, schedVars, mutexVars, mboxVars>>
<1>1. MutexStep
  BY DEF MutexCall, Enter, MutexStep
<1>2. /\ SystemCall /\ current \in Entries /\ current # NULL
      /\ MutexTableOK /\ LockCountExact
  <2>1. SystemCall
    BY <1>1 DEF MutexStep, kmutex_alloc, kmutex_free, kmutex_lock, kmutex_unlock
  <2>2. QED
    BY <2>1, CallerNotListed, EntriesFinite DEF WaitInv, MutexesInv, LockInv
<1>3. pid' = pid
  BY <1>1, MutexStepKeeps DEF WaitInv, CallKeeps
<1>4. CASE Enter(MUTEX_ALLOC, 0, AllocResult, kmutex_alloc)
  <2>1. AllocResult = Error
    BY <1>2, <1>3, <1>4 DEF Enter, Records, NewProcess, Fails
  <2>2. mutex_queue # <<>> => Head(mutex_queue) \in Mutexes
    BY <1>2 DEF MutexTableOK
  <2>3. mutex_queue = <<>>
    BY <2>1, <2>2, MutexAssumption, ProcAssumption DEF AllocResult, Error, Mutexes
  <2>4. QED
    BY <2>3, <1>4 DEF Enter, kmutex_alloc, Returns, mutexVars
<1>5. ASSUME NEW id \in MutexArgs, Enter(MUTEX_FREE, id, FreeResult(id), kmutex_free(id))
      PROVE  UNCHANGED <<tableVars, schedVars, mutexVars, mboxVars>>
  <2>1. FreeResult(id) = Error
    BY <1>2, <1>3, <1>5 DEF Enter, Records, NewProcess, Fails
  <2>2. id \in Mutexes => lock_count[id] > 0 \/ QueueIsFull(mutex_queue)
    BY <2>1 DEF FreeResult, Error
  <2>3. QED
    BY <2>2, <1>5 DEF Enter, kmutex_free, Returns, mutexVars
<1>6. ASSUME NEW id \in MutexArgs, Enter(MUTEX_LOCK, id, LockResult(id), kmutex_lock(id))
      PROVE  UNCHANGED <<tableVars, schedVars, mutexVars, mboxVars>>
  <2>1. LockResult(id) = Error
    BY <1>2, <1>3, <1>6 DEF Enter, Records, NewProcess, Fails
  <2>2. id \notin Mutexes
    BY <2>1, <1>2, MutexTypes DEF LockResult, Error
  <2>3. QED
    BY <2>2, <1>6 DEF Enter, kmutex_lock, Returns, mutexVars
<1>7. ASSUME NEW id \in MutexArgs, Enter(MUTEX_UNLOCK, id, UnlockResult(id), kmutex_unlock(id))
      PROVE  UNCHANGED <<tableVars, schedVars, mutexVars, mboxVars>>
  <2>1. UnlockResult(id) = Error
    BY <1>2, <1>3, <1>7 DEF Enter, Records, NewProcess, Fails
  <2>2. id \in Mutexes => lock_count[id] = 0 \/ owner[id] # current
    <3> SUFFICES ASSUME id \in Mutexes, lock_count[id] # 0, owner[id] = current
                 PROVE  FALSE
      OBVIOUS
    <3>1. lock_count[id] \in Nat /\ (lock_count[id] > 1 => wait_queue[id] # <<>>)
      BY <1>2, MutexTypes, CountFacts
    <3>2. UnlockResult(id) = lock_count[id] - 1
      BY <3>1 DEF UnlockResult
    <3>3. QED
      BY <2>1, <3>1, <3>2 DEF Error
  <2>3. QED
    BY <2>2, <1>7 DEF Enter, kmutex_unlock, Returns, mutexVars
<1>8. QED
  BY <1>4, <1>5, <1>6, <1>7 DEF MutexCall

LEMMA MailCallFails ==
  ASSUME WaitInv, MailCall, UNCHANGED mutexVars, Fails
  PROVE  UNCHANGED <<tableVars, schedVars, mutexVars, mboxVars>>
<1>1. MailStep
  BY DEF MailCall, Enter, MailStep
<1>2. pid' = pid /\ current \in Entries /\ current # NULL
  BY <1>1, MailStepKeeps, CallerNotListed, EntriesFinite DEF WaitInv, MailKeeps
<1>3. ASSUME NEW b \in MboxArgs,
             \/ Enter(MSG_SEND, b, MailResult(b), ksyscall_msg_send(b))
             \/ Enter(MSG_RECV, b, MailResult(b), ksyscall_msg_recv(b))
      PROVE  UNCHANGED <<tableVars, schedVars, mutexVars, mboxVars>>
  <2>1. MailResult(b) = Error
    BY <1>2, <1>3 DEF Enter, Records, NewProcess, Fails
  <2>2. b \notin Mboxes
    BY <2>1 DEF MailResult, Error
  <2>3. Refused(b)
    BY <1>3, <2>2 DEF Enter, ksyscall_msg_send, ksyscall_msg_recv
  <2>4. QED
    BY <2>3 DEF Refused
<1>4. QED
  BY <1>3 DEF MailCall

LEMMA ErrorStep ==
  ASSUME WaitInv, [KernelNext]_kernelSysVars, Fails
  PROVE  UNCHANGED <<tableVars, schedVars, mutexVars, mboxVars>>
<1>1. CASE NotACall
  <2>1. system_time \in Nat
    BY DEF WaitInv, MailInv, KernelInv, TableTypeOK
  <2>2. QED
    BY <1>1, <2>1
    DEF NotACall, Timer, KeyNone, KeyExec, KeyExit, KeyQuit, SchedulerRun, Fails
<1>2. CASE UNCHANGED kernelSysVars
  BY <1>2 DEF kernelSysVars, procVars
<1>3. QED
  BY <1>1, <1>2, ProcCallFails, MutexCallFails, MailCallFails DEF KernelNext

-----------------------------------------------------------------------------
(* What the answers of the mutex calls mean.                               *)

(* A process whose last call was mutex_lock holds the mutex or stands in   *)
(* its wait queue, where nobody else stands; one whose last call was       *)
(* mutex_unlock does not hold it.                                          *)
LocksAnswered ==
  \A i \in Live, m \in Mutexes :
    /\ asked[i] = <<MUTEX_LOCK, m>> => owner[m] = i \/ pid[i] \in Range(wait_queue[m])
    /\ asked[i] = <<MUTEX_UNLOCK, m>> => owner[m] # i
    /\ pid[i] \in Range(wait_queue[m]) => asked[i] = <<MUTEX_LOCK, m>>

(* What a mutex call does to the others: nobody but the caller loses a     *)
(* mutex or a place in a wait queue, save to get what he waits for.        *)
OthersServed ==
  \A m \in Mutexes, i \in Live \ {current} :
    /\ owner[m] = i => owner'[m] = i
    /\ owner'[m] = i => owner[m] = i \/ pid[i] \in Range(wait_queue[m])
    /\ pid[i] \in Range(wait_queue[m])
         => owner'[m] = i \/ pid[i] \in Range(wait_queue'[m])
    /\ pid[i] \in Range(wait_queue'[m]) => pid[i] \in Range(wait_queue[m])

(* What it does to the caller.                                             *)
CallerServed(call, id) ==
  \A m \in Mutexes :
    /\ pid[current] \in Range(wait_queue'[m]) => call = MUTEX_LOCK /\ m = id
    /\ call = MUTEX_LOCK /\ m = id
         => owner'[m] = current \/ pid[current] \in Range(wait_queue'[m])
    /\ call = MUTEX_UNLOCK /\ m = id => owner'[m] # current

Served(call, id) == OthersServed /\ CallerServed(call, id)

LEMMA UntouchedServed ==
  ASSUME MutexesInv, SystemCall, UNCHANGED <<owner, wait_queue>>,
         NEW call, NEW id,
         call = MUTEX_LOCK => id \notin Mutexes,
         call = MUTEX_UNLOCK /\ id \in Mutexes => owner[id] # current
  PROVE  Served(call, id)
<1>1. \A m \in Mutexes : pid[current] \notin Range(wait_queue[m])
  BY CallerNotQueued DEF MutexesInv
<1>2. QED
  BY <1>1 DEF Served, OthersServed, CallerServed

LEMMA ResetServed ==
  ASSUME MutexesInv, SystemCall, NEW m \in Mutexes, lock_count[m] = 0,
         NEW isAllocated, Reset(m, isAllocated)
  PROVE  UNCHANGED <<owner, wait_queue>>
<1>1. owner[m] = NULL /\ wait_queue[m] = <<>>
  BY CountFacts DEF MutexesInv, LockInv
<1>2. QED
  BY <1>1 DEF Reset, MutexesInv, LockInv, MutexTableOK

LEMMA AllocServed ==
  ASSUME MutexesInv, AllocatedOnly, kmutex_alloc
  PROVE  Served(MUTEX_ALLOC, 0)
<1>1. CASE UNCHANGED mutexVars
  BY <1>1, UntouchedServed DEF kmutex_alloc, mutexVars, MUTEX_ALLOC, MUTEX_LOCK, MUTEX_UNLOCK
<1>2. CASE mutex_queue # <<>> /\ Reset(Head(mutex_queue), TRUE)
  <2>1. Head(mutex_queue) \in Mutexes /\ Head(mutex_queue) \in Range(mutex_queue)
    <3>1. mutex_queue \in Seq(Mutexes) /\ IsInjective(mutex_queue)
      BY DEF MutexesInv, LockInv, MutexTableOK, PoolInv, MutexIdsExact
    <3>2. QED
      BY <1>2, <3>1, TailFacts, HeadTailProperties
  <2>2. lock_count[Head(mutex_queue)] = 0
    BY <2>1 DEF MutexesInv, PoolInv, MutexIdsExact, FreeUnused
  <2>3. SystemCall
    BY DEF kmutex_alloc
  <2>4. UNCHANGED <<owner, wait_queue>>
    BY <1>2, <2>1, <2>2, <2>3, ResetServed
  <2>5. QED
    BY <2>3, <2>4, UntouchedServed DEF MUTEX_ALLOC, MUTEX_LOCK, MUTEX_UNLOCK
<1>3. QED
  BY <1>1, <1>2 DEF kmutex_alloc

LEMMA FreeServed ==
  ASSUME MutexesInv, NEW id \in MutexArgs, kmutex_free(id)
  PROVE  Served(MUTEX_FREE, id)
<1>1. SystemCall
  BY DEF kmutex_free
<1>2. UNCHANGED <<owner, wait_queue>>
  <2>1. CASE UNCHANGED mutexVars
    BY <2>1 DEF mutexVars
  <2>2. CASE ~(id \in Mutexes => lock_count[id] > 0 \/ QueueIsFull(mutex_queue))
             /\ Reset(id, FALSE)
    <3>1. id \in Mutexes /\ lock_count[id] = 0
      BY <2>2, MutexTypes DEF MutexesInv, LockInv
    <3>2. QED
      BY <1>1, <2>2, <3>1, ResetServed
  <2>3. QED
    BY <2>1, <2>2 DEF kmutex_free
<1>3. QED
  BY <1>1, <1>2, UntouchedServed DEF MUTEX_FREE, MUTEX_LOCK, MUTEX_UNLOCK

LEMMA LockServed ==
  ASSUME MutexesInv, NEW id \in MutexArgs, kmutex_lock(id)
  PROVE  Served(MUTEX_LOCK, id)
<1>1. SystemCall
  BY DEF kmutex_lock
<1>2. /\ current \in Entries /\ current # NULL
      /\ \A m \in Mutexes : /\ pid[current] \notin Range(wait_queue[m])
                            /\ Len(wait_queue[m]) < QUEUE_SIZE
                            /\ wait_queue[m] \in Seq(Nat)
      /\ pid[current] \in Nat
      /\ \A i \in Live : pid[i] = pid[current] => i = current
      /\ NULL \notin Live
      /\ MutexTableOK
  BY <1>1, CallerNotQueued, EntriesFinite
  DEF MutexesInv, LockInv, MutexTableOK, KernelInv, TableTypeOK, TableInv, PidsUnique, Live
<1>3. CASE id \notin Mutexes
  <2>1. UNCHANGED mutexVars
    BY <1>3 DEF kmutex_lock
  <2>2. QED
    BY <1>1, <1>3, <2>1, UntouchedServed DEF mutexVars, MUTEX_LOCK, MUTEX_UNLOCK
<1>4. CASE id \in Mutexes /\ LockBlocks(id)
  <2>1. /\ owner' = owner
        /\ wait_queue' = [wait_queue EXCEPT ![id] = QueueIn(@, pid[current])]
    BY <1>4 DEF LockBlocks
  <2>2. QueueIn(wait_queue[id], pid[current]) = Append(wait_queue[id], pid[current])
    BY <1>2, <1>4 DEF QueueIn
  <2>3. Range(Append(wait_queue[id], pid[current])) = Range(wait_queue[id]) \cup {pid[current]}
    BY <1>2, <1>4, AppendFacts
  <2>4. \A m \in Mutexes :
          Range(wait_queue'[m]) = IF m = id THEN Range(wait_queue[m]) \cup {pid[current]}
                                  ELSE Range(wait_queue[m])
    BY <1>2, <1>4, <2>1, <2>2, <2>3 DEF MutexTableOK
  <2>5. OthersServed
    <3> SUFFICES ASSUME NEW m \in Mutexes, NEW i \in Live \ {current}
                 PROVE  /\ owner'[m] = owner[m]
                        /\ pid[i] \in Range(wait_queue[m]) <=> pid[i] \in Range(wait_queue'[m])
      BY DEF OthersServed
    <3>1. pid[i] # pid[current]
      BY <1>2
    <3>2. Range(wait_queue'[m]) \in {Range(wait_queue[m]),
                                     Range(wait_queue[m]) \cup {pid[current]}}
      BY <2>4
    <3>3. QED
      BY <2>1, <3>1, <3>2
  <2>6. CallerServed(MUTEX_LOCK, id)
    <3>1. MUTEX_LOCK # MUTEX_UNLOCK
      BY DEF MUTEX_LOCK, MUTEX_UNLOCK
    <3>2. \A m \in Mutexes : pid[current] \in Range(wait_queue'[m]) <=> m = id
      BY <1>2, <2>4
    <3>3. QED
      BY <3>1, <3>2 DEF CallerServed
  <2>7. QED
    BY <2>5, <2>6 DEF Served
<1>5. CASE id \in Mutexes /\ lock_count[id] = 0 /\ LockTakes(id)
  <2>1. owner[id] = NULL
    BY <1>5, CountFacts DEF MutexesInv, LockInv
  <2>2. /\ owner' = [owner EXCEPT ![id] = current]
        /\ wait_queue' = wait_queue
    BY <1>5 DEF LockTakes
  <2>3. \A m \in Mutexes : owner'[m] = IF m = id THEN current ELSE owner[m]
    BY <1>2, <1>5, <2>2 DEF MutexTableOK
  <2>4. QED
    BY <1>2, <2>1, <2>2, <2>3
    DEF Served, OthersServed, CallerServed, MUTEX_LOCK, MUTEX_UNLOCK
<1>6. QED
  <2>1. id \in Mutexes => ~(id < 0 \/ id > MUTEX_MAX) /\ id # MUTEX_MAX
    BY MutexAssumption, ProcAssumption DEF Mutexes
  <2>2. QED
    BY <1>3, <1>4, <1>5, <2>1 DEF kmutex_lock

LEMMA UnlockServed ==
  ASSUME MutexesInv, NEW id \in MutexArgs, kmutex_unlock(id)
  PROVE  Served(MUTEX_UNLOCK, id)
<1>1. SystemCall
  BY DEF kmutex_unlock
<1>2. /\ current \in Entries /\ current # NULL /\ current \notin Waiting
      /\ \A m \in Mutexes : pid[current] \notin Range(wait_queue[m])
      /\ NULL \notin Live
      /\ MutexTableOK
  BY <1>1, CallerNotQueued, EntriesFinite DEF MutexesInv, LockInv, Live
<1>3. CASE UNCHANGED mutexVars /\ (id \in Mutexes => lock_count[id] = 0 \/ owner[id] # current)
  <2>1. id \in Mutexes => owner[id] # current
    BY <1>2, <1>3, CountFacts DEF MutexesInv, LockInv
  <2>2. QED
    BY <1>1, <1>3, <2>1, UntouchedServed DEF mutexVars, MUTEX_LOCK, MUTEX_UNLOCK
<1>4. CASE id \in Mutexes /\ owner[id] = current /\ ReleaseLast(id)
  <2>1. /\ owner' = [owner EXCEPT ![id] = NULL]
        /\ wait_queue' = wait_queue
    BY <1>4 DEF ReleaseLast
  <2>2. \A m \in Mutexes : owner'[m] = IF m = id THEN NULL ELSE owner[m]
    BY <1>2, <1>4, <2>1 DEF MutexTableOK
  <2>3. QED
    BY <1>2, <1>4, <2>1, <2>2
    DEF Served, OthersServed, CallerServed, MUTEX_LOCK, MUTEX_UNLOCK
<1>5. CASE id \in Mutexes /\ owner[id] = current /\ lock_count[id] > 1 /\ ReleaseToWaiter(id)
  <2>1. wait_queue[id] # <<>>
    BY <1>5, CountFacts DEF MutexesInv, LockInv
  <2>2. PICK i \in Waiting :
          /\ EntriesOf(Head(wait_queue[id])) = {i}
          /\ \A j \in Live : pid[j] = pid[i] => j = i
          /\ Range(Tail(wait_queue[id])) = Range(wait_queue[id]) \ {pid[i]}
          /\ pid[i] \in Range(wait_queue[id])
    BY <1>5, <2>1, FirstWaiter DEF MutexesInv
  <2>3. /\ wait_queue' = [wait_queue EXCEPT ![id] = Tail(@)]
        /\ owner' = [owner EXCEPT ![id] = i]
    BY <1>2, <1>5, <2>1, <2>2 DEF ReleaseToWaiter, HandOver, MutexTableOK
  <2>4. \A m \in Mutexes :
          /\ owner'[m] = IF m = id THEN i ELSE owner[m]
          /\ Range(wait_queue'[m]) = IF m = id THEN Range(wait_queue[m]) \ {pid[i]}
                                     ELSE Range(wait_queue[m])
    BY <1>2, <1>5, <2>2, <2>3 DEF MutexTableOK
  <2>5. OthersServed
    <3> SUFFICES ASSUME NEW m \in Mutexes, NEW j \in Live \ {current}
                 PROVE  /\ owner[m] = j => owner'[m] = j
                        /\ owner'[m] = j => owner[m] = j \/ pid[j] \in Range(wait_queue[m])
                        /\ pid[j] \in Range(wait_queue[m])
                             => owner'[m] = j \/ pid[j] \in Range(wait_queue'[m])
                        /\ pid[j] \in Range(wait_queue'[m]) => pid[j] \in Range(wait_queue[m])
      BY DEF OthersServed
    <3>1. CASE m = id
      <4>1. owner'[m] = i /\ Range(wait_queue'[m]) = Range(wait_queue[m]) \ {pid[i]}
        BY <2>4, <3>1
      <4>2. owner[m] # j /\ (pid[j] = pid[i] => j = i)
        BY <1>5, <2>2, <3>1
      <4>3. QED
        BY <4>1, <4>2, <2>2, <3>1
    <3>2. CASE m # id
      BY <2>4, <3>2
    <3>3. QED
      BY <3>1, <3>2
  <2>6. CallerServed(MUTEX_UNLOCK, id)
    <3>1. MUTEX_LOCK # MUTEX_UNLOCK
      BY DEF MUTEX_LOCK, MUTEX_UNLOCK
    <3>2. owner'[id] # current
      BY <1>2, <1>5, <2>4
    <3>3. \A m \in Mutexes : pid[current] \notin Range(wait_queue'[m])
      BY <1>2, <2>4
    <3>4. QED
      BY <3>1, <3>2, <3>3 DEF CallerServed
  <2>7. QED
    BY <2>5, <2>6 DEF Served
<1>6. QED
  BY <1>3, <1>4, <1>5 DEF kmutex_unlock

(* What a mutex call makes the last call of its caller, and whom it serves. *)
LEMMA MutexCallServes ==
  ASSUME WaitInv, MutexCall
  PROVE  \E call \in {MUTEX_ALLOC, MUTEX_FREE, MUTEX_LOCK, MUTEX_UNLOCK}, id \in Int :
           /\ AllocatedOnly => Served(call, id)
           /\ \A i \in Entries : asked'[i] = IF i = current THEN <<call, id>> ELSE asked[i]
<1> DEFINE Done(call, id) ==
             /\ AllocatedOnly => Served(call, id)
             /\ \A i \in Entries : asked'[i] = IF i = current THEN <<call, id>> ELSE asked[i]
           Calls == {MUTEX_ALLOC, MUTEX_FREE, MUTEX_LOCK, MUTEX_UNLOCK}
<1>1. UNCHANGED pid
  <2>1. MutexStep
    BY DEF MutexCall, Enter, MutexStep
  <2>2. QED
    BY <2>1, MutexStepKeeps DEF WaitInv, CallKeeps
<1>2. CASE Enter(MUTEX_ALLOC, 0, AllocResult, kmutex_alloc)
  <2>1. AllocatedOnly => Served(MUTEX_ALLOC, 0)
    BY <1>2, AllocServed DEF Enter, WaitInv
  <2>2. \A i \in Entries : asked'[i] = IF i = current THEN <<MUTEX_ALLOC, 0>> ELSE asked[i]
    BY <1>1, <1>2 DEF Enter, Records, NewProcess
  <2>3. QED
    BY <2>1, <2>2, MutexAssumption
<1>3. ASSUME NEW id \in MutexArgs, Enter(MUTEX_FREE, id, FreeResult(id), kmutex_free(id))
      PROVE  \E call \in Calls, arg \in Int : Done(call, arg)
  <2>1. AllocatedOnly => Served(MUTEX_FREE, id)
    BY <1>3, FreeServed DEF Enter, WaitInv
  <2>2. \A i \in Entries : asked'[i] = IF i = current THEN <<MUTEX_FREE, id>> ELSE asked[i]
    BY <1>1, <1>3 DEF Enter, Records, NewProcess
  <2>3. QED
    BY <2>1, <2>2, MutexAssumption
<1>4. ASSUME NEW id \in MutexArgs, Enter(MUTEX_LOCK, id, LockResult(id), kmutex_lock(id))
      PROVE  \E call \in Calls, arg \in Int : Done(call, arg)
  <2>1. AllocatedOnly => Served(MUTEX_LOCK, id)
    BY <1>4, LockServed DEF Enter, WaitInv
  <2>2. \A i \in Entries : asked'[i] = IF i = current THEN <<MUTEX_LOCK, id>> ELSE asked[i]
    BY <1>1, <1>4 DEF Enter, Records, NewProcess
  <2>3. QED
    BY <2>1, <2>2, MutexAssumption
<1>5. ASSUME NEW id \in MutexArgs, Enter(MUTEX_UNLOCK, id, UnlockResult(id), kmutex_unlock(id))
      PROVE  \E call \in Calls, arg \in Int : Done(call, arg)
  <2>1. AllocatedOnly => Served(MUTEX_UNLOCK, id)
    BY <1>5, UnlockServed DEF Enter, WaitInv
  <2>2. \A i \in Entries : asked'[i] = IF i = current THEN <<MUTEX_UNLOCK, id>> ELSE asked[i]
    BY <1>1, <1>5 DEF Enter, Records, NewProcess
  <2>3. QED
    BY <2>1, <2>2, MutexAssumption
<1>6. QED
  BY <1>2, <1>3, <1>4, <1>5 DEF MutexCall

LEMMA AskedMutexCall ==
  ASSUME WaitInv, AllocatedOnly, LocksAnswered, MutexCall
  PROVE  LocksAnswered'
<1>1. MutexStep
  BY DEF MutexCall, Enter, MutexStep
<1>2. UNCHANGED pid /\ Live' = Live
  BY <1>1, MutexStepKeeps DEF WaitInv, CallKeeps
<1>3. PICK call \in {MUTEX_ALLOC, MUTEX_FREE, MUTEX_LOCK, MUTEX_UNLOCK}, id \in Int :
        /\ Served(call, id)
        /\ \A i \in Entries : asked'[i] = IF i = current THEN <<call, id>> ELSE asked[i]
  BY MutexCallServes
<1>4. SUFFICES ASSUME NEW i \in Live, NEW m \in Mutexes
               PROVE  /\ asked'[i] = <<MUTEX_LOCK, m>>
                           => owner'[m] = i \/ pid[i] \in Range(wait_queue'[m])
                      /\ asked'[i] = <<MUTEX_UNLOCK, m>> => owner'[m] # i
                      /\ pid[i] \in Range(wait_queue'[m]) => asked'[i] = <<MUTEX_LOCK, m>>
  BY <1>2 DEF LocksAnswered
<1>5. i \in Entries
  BY DEF Live
<1>6. CASE i = current
  BY <1>3, <1>5, <1>6 DEF Served, CallerServed
<1>7. CASE i # current
  <2>1. asked'[i] = asked[i]
    BY <1>3, <1>5, <1>7
  <2>2. MUTEX_LOCK # MUTEX_UNLOCK
    BY DEF MUTEX_LOCK, MUTEX_UNLOCK
  <2>3. /\ owner[m] = i => owner'[m] = i
        /\ owner'[m] = i => owner[m] = i \/ pid[i] \in Range(wait_queue[m])
        /\ pid[i] \in Range(wait_queue[m])
             => owner'[m] = i \/ pid[i] \in Range(wait_queue'[m])
        /\ pid[i] \in Range(wait_queue'[m]) => pid[i] \in Range(wait_queue[m])
    BY <1>3, <1>7 DEF Served, OthersServed
  <2>4. QED
    BY <2>1, <2>2, <2>3 DEF LocksAnswered
<1>8. QED
  BY <1>6, <1>7

(* What a step makes the last calls of the processes: a process that       *)
(* starts has made none, and its id is new.                                *)
LEMMA AskedStep ==
  ASSUME WaitInv, [KernelNext]_kernelSysVars
  PROVE  \A i \in Live' :
           \/ /\ i \in Live /\ pid'[i] = pid[i]
              /\ \/ asked'[i] = asked[i]
                 \/ /\ i = current /\ SystemCall
                    /\ ~MutexCall => asked'[i][1] \notin {MUTEX_LOCK, MUTEX_UNLOCK}
                    /\ ~MailCall => asked'[i][1] # MSG_RECV
           \/ pid'[i] = next_pid /\ asked'[i] = NoCall
<1> USE DEF SYS_GET_TIME, PROC_EXEC, PROC_EXIT, PROC_GET_NAME, PROC_GET_PID, SLEEP, YIELD,
            MUTEX_ALLOC, MUTEX_FREE, MUTEX_LOCK, MUTEX_UNLOCK, MSG_SEND, MSG_RECV
<1>1. SUFFICES ASSUME NEW i \in Live'
               PROVE  \/ /\ i \in Live /\ pid'[i] = pid[i]
                         /\ \/ asked'[i] = asked[i]
                            \/ /\ i = current /\ SystemCall
                               /\ ~MutexCall => asked'[i][1] \notin {MUTEX_LOCK, MUTEX_UNLOCK}
                               /\ ~MailCall => asked'[i][1] # MSG_RECV
                      \/ pid'[i] = next_pid /\ asked'[i] = NoCall
  OBVIOUS
<1>2. i \in Entries
  BY DEF Live
<1>3. \/ i \in Live /\ pid'[i] = pid[i]
      \/ pid'[i] = next_pid /\ next_pid' > next_pid
  <2>1. CASE [ProcNext]_procVars
    BY <2>1, IdsStay DEF WaitInv, MailInv
  <2>2. CASE MutexStep
    BY <2>2, MutexStepKeeps DEF WaitInv, CallKeeps
  <2>3. CASE MailStep
    BY <2>3, MailStepKeeps DEF WaitInv, MailKeeps
  <2>4. QED
    BY <2>1, <2>2, <2>3, KernelSteps
<1>4. pid'[i] = next_pid => NewProcess(i)
  <2>1. /\ \A j \in Live : pid[j] < next_pid /\ next_pid \in Nat /\ pid[j] \in Nat
        /\ i \notin Live => pid[i] = 0
        /\ 0 \in Live
    BY <1>2 DEF WaitInv, MailInv, KernelInv, TableInv, ClearedHaveNoPid, PidsUnique, TableTypeOK, Live
  <2>2. pid[i] # next_pid
    BY <2>1
  <2>3. QED
    BY <2>2 DEF NewProcess
<1>5. CASE UNCHANGED kernelSysVars
  <2>1. pid' = pid /\ state' = state /\ asked' = asked
    BY <1>5 DEF kernelSysVars, procVars, tableVars, schedVars, callVars
  <2>2. QED
    BY <2>1 DEF Live
<1>6. CASE NotACall
  BY <1>2, <1>3, <1>4, <1>6 DEF NotACall, NewProcess
<1>7. CASE ProcCall
  <2>1. SystemCall
    BY <1>7 DEF ProcCall, Enter, SyscallQuery, SyscallYield, SyscallSleep, SyscallExec, SyscallExit
  <2>2. PICK call \in Int \ {MUTEX_LOCK, MUTEX_UNLOCK, MSG_RECV}, arg \in Int :
          asked' = [j \in Entries |->
                      IF NewProcess(j) THEN NoCall
                      ELSE IF j = current THEN <<call, arg>>
                      ELSE asked[j]]
    BY <1>7, ProcAssumption DEF ProcCall, Enter, Records
  <2>3. QED
    BY <1>2, <1>3, <1>4, <2>1, <2>2 DEF NewProcess
<1>8. CASE MailCall
  <2>1. SystemCall
    BY <1>8 DEF MailCall, Enter, ksyscall_msg_send, ksyscall_msg_recv
  <2>2. PICK call \in Int \ {MUTEX_LOCK, MUTEX_UNLOCK}, arg \in Int :
          asked' = [j \in Entries |->
                      IF NewProcess(j) THEN NoCall
                      ELSE IF j = current THEN <<call, arg>>
                      ELSE asked[j]]
    <3>1. PICK call \in {MSG_SEND, MSG_RECV}, b \in MboxArgs : Records(call, b, MailResult(b))
      BY <1>8, Zenon DEF MailCall, Enter
    <3>2. call \in Int \ {MUTEX_LOCK, MUTEX_UNLOCK} /\ b \in Int
      BY KMboxAssumption
    <3> QED BY <3>1, <3>2 DEF Records
  <2>3. QED
    BY <1>2, <1>3, <1>4, <1>8, <2>1, <2>2 DEF NewProcess
<1>9. CASE MutexCall
  <2>1. SystemCall
    BY <1>9 DEF MutexCall, Enter, kmutex_alloc, kmutex_free, kmutex_lock, kmutex_unlock
  <2>2. PICK call \in Int \ {MSG_RECV}, arg \in Int :
          asked' = [j \in Entries |->
                      IF NewProcess(j) THEN NoCall
                      ELSE IF j = current THEN <<call, arg>>
                      ELSE asked[j]]
    BY <1>9, MutexAssumption DEF MutexCall, Enter, Records
  <2>3. QED
    BY <1>2, <1>3, <1>4, <1>9, <2>1, <2>2 DEF NewProcess
<1>10. QED
  BY <1>5, <1>6, <1>7, <1>8, <1>9 DEF KernelNext

LEMMA LocksNextInv ==
  ASSUME WaitInv, AllocatedOnly, LocksAnswered, [KernelNext]_kernelSysVars
  PROVE  LocksAnswered'
<1>1. CASE MutexCall
  BY <1>1, AskedMutexCall
<1>2. CASE ~MutexCall
  <2>1. UNCHANGED <<owner, wait_queue>>
    BY <1>2 DEF KernelNext, mutexVars, kernelSysVars
  <2>2. SUFFICES ASSUME NEW i \in Live', NEW m \in Mutexes
                 PROVE  /\ asked'[i] = <<MUTEX_LOCK, m>>
                             => owner[m] = i \/ pid'[i] \in Range(wait_queue[m])
                        /\ asked'[i] = <<MUTEX_UNLOCK, m>> => owner[m] # i
                        /\ pid'[i] \in Range(wait_queue[m]) => asked'[i] = <<MUTEX_LOCK, m>>
    BY <2>1 DEF LocksAnswered
  <2>3. CASE i \in Live /\ pid'[i] = pid[i] /\ asked'[i] = asked[i]
    BY <2>3 DEF LocksAnswered
  <2>4. CASE /\ i = current /\ SystemCall /\ pid'[i] = pid[i]
             /\ asked'[i][1] \notin {MUTEX_LOCK, MUTEX_UNLOCK}
    <3>1. pid[i] \notin Range(wait_queue[m])
      BY <2>4, CallerNotQueued DEF WaitInv, MutexesInv
    <3>2. QED
      BY <2>4, <3>1
  <2>5. CASE pid'[i] = next_pid /\ asked'[i] = NoCall
    <3>1. next_pid \notin Range(wait_queue[m])
      <4>1. \A j \in Waiting : pid[j] # next_pid
        <5>1. Waiting \subseteq Live
          BY DEF Waiting, Live
        <5>2. \A j \in Live : pid[j] \in Nat /\ next_pid \in Nat /\ pid[j] < next_pid
          BY DEF WaitInv, MailInv, KernelInv, TableInv, PidsUnique, TableTypeOK, Live
        <5>3. QED
          BY <5>1, <5>2
      <4>2. Range(wait_queue[m]) \subseteq {pid[j] : j \in Waiting}
        BY DEF WaitInv, MutexesInv, LockInv, WaitersKnown
      <4>3. QED
        BY <4>1, <4>2
    <3>2. NoCall[1] # MUTEX_LOCK /\ NoCall[1] # MUTEX_UNLOCK
      BY DEF NoCall, MUTEX_LOCK, MUTEX_UNLOCK
    <3>3. QED
      BY <2>5, <3>1, <3>2
  <2>6. QED
    BY <1>2, <2>3, <2>4, <2>5, AskedStep
<1>3. QED
  BY <1>1, <1>2

-----------------------------------------------------------------------------
(* What the answers of the mailbox calls mean.                             *)

\* The process in entry i has received a message from b since its last call,
\* and no message of another mailbox has gone into its buffer.
Got(i, b) == asked[i] = <<MSG_RECV, b>> /\ i \notin Waiting /\ i \notin Spoilt(b)

(* A message is in its mailbox once, and a number that has not been sent   *)
(* is in none.                                                             *)
MailListed ==
  \A b \in Mboxes : IsInjective(pending[b]) /\ Range(pending[b]) \subseteq 1 .. sent[b]

(* Those who have asked for a message and wait stand in the wait queue of  *)
(* that mailbox, and no other live process does.                           *)
ReceiversAsked ==
  \A i \in Live, b \in Mboxes :
    /\ pid[i] \in Range(recv_queue[b]) => asked[i] = <<MSG_RECV, b>>
    /\ asked[i] = <<MSG_RECV, b>> /\ i \in Waiting => pid[i] \in Range(recv_queue[b])

(* A message that a process has got is in the mailbox no more, and nobody  *)
(* else has got it.                                                        *)
MailGot ==
  \A b \in Mboxes, i \in Live :
    Got(i, b) => /\ inbox[i] \in 1 .. sent[b]
                 /\ inbox[i] \notin Range(pending[b])
                 /\ \A j \in Live \ {i} : Got(j, b) => inbox[j] # inbox[i]

\* The panics of msg_send and msg_recv leave a call half done.
MailAnswered == MailListed /\ (kpc # "halted" => ReceiversAsked /\ MailGot)

(* A step that leaves the mailboxes alone wakes no receiver.               *)
LEMMA MailUntouched ==
  ASSUME MailAnswered, UNCHANGED mboxVars, kpc = "halted" => kpc' = "halted",
         \A i \in Live', b \in Mboxes :
           asked'[i] = <<MSG_RECV, b>> =>
             /\ i \in Live /\ pid'[i] = pid[i] /\ asked[i] = asked'[i]
             /\ i \in Waiting' => i \in Waiting
             /\ i \in Waiting \ Unheard => i \in Waiting',
         \A i \in Live', b \in Mboxes :
           pid'[i] \in Range(recv_queue[b]) =>
             i \in Live /\ pid'[i] = pid[i] /\ asked[i] = asked'[i]
  PROVE  MailAnswered'
<1> USE DEF mboxVars
<1>1. MailListed'
  BY DEF MailAnswered, MailListed
<1>2. ASSUME kpc' # "halted"
      PROVE  ReceiversAsked' /\ MailGot'
  <2>1. ReceiversAsked /\ MailGot
    BY <1>2 DEF MailAnswered
  <2>2. ASSUME NEW i \in Live', NEW b \in Mboxes, asked'[i] = <<MSG_RECV, b>>
        PROVE  i \in Live /\ pid'[i] = pid[i] /\ asked[i] = <<MSG_RECV, b>>
               /\ (i \in Waiting <=> i \in Waiting')
    <3>1. i \in Live /\ asked[i] = <<MSG_RECV, b>>
      BY <2>2
    <3>2. i \in Waiting => i \notin Unheard
      BY <2>1, <3>1 DEF ReceiversAsked, Unheard
    <3>3. QED
      BY <2>2, <3>1, <3>2
  <2>3. MailGot'
    <3>1. \A i \in Live', b \in Mboxes : Got(i, b)' => i \in Live /\ Got(i, b)
      BY <2>2 DEF Got, Spoilt
    <3> QED BY <2>1, <3>1 DEF MailGot
  <2>4. ReceiversAsked'
    BY <2>1, <2>2 DEF ReceiversAsked
  <2>5. QED
    BY <2>3, <2>4
<1>3. QED
  BY <1>1, <1>2 DEF MailAnswered

LEMMA GotMutexCall ==
  ASSUME WaitInv, MailAnswered, MutexCall, UNCHANGED mboxVars
  PROVE  MailAnswered'
<1>1. MutexStep
  BY DEF MutexCall, Enter, MutexStep
<1>2. /\ UNCHANGED pid /\ Live' = Live
      /\ Waiting' \subseteq Waiting \cup {current}
      /\ Elsewhere \subseteq Waiting'
  BY <1>1, MutexStepKeeps DEF WaitInv, CallKeeps, Elsewhere
<1>3. PICK call \in {MUTEX_ALLOC, MUTEX_FREE, MUTEX_LOCK, MUTEX_UNLOCK}, id \in Int :
        \A i \in Entries : asked'[i] = IF i = current THEN <<call, id>> ELSE asked[i]
  BY MutexCallServes
<1>4. call # MSG_RECV
  BY DEF MUTEX_ALLOC, MUTEX_FREE, MUTEX_LOCK, MUTEX_UNLOCK, MSG_RECV
<1>5. \A b \in Mboxes : pid[current] \notin Range(recv_queue[b])
  <2>1. SystemCall
    BY <1>1 DEF MutexStep, kmutex_alloc, kmutex_free, kmutex_lock, kmutex_unlock
  <2>2. QED
    BY <2>1, CallerNotListed DEF WaitInv
<1>6. Waiting \ Unheard \subseteq Elsewhere
  BY DEF WaitInv, WaitsApart
<1>7. kpc # "halted"
  BY <1>1 DEF MutexStep, kmutex_alloc, kmutex_free, kmutex_lock, kmutex_unlock, SystemCall
<1>8. Live \subseteq Entries
  BY DEF Live
<1>9. ASSUME NEW i \in Live', NEW b \in Mboxes, asked'[i] = <<MSG_RECV, b>>
      PROVE  /\ i \in Live /\ pid'[i] = pid[i] /\ asked[i] = asked'[i]
             /\ i \in Waiting' => i \in Waiting
             /\ i \in Waiting \ Unheard => i \in Waiting'
  <2>1. i # current
    BY <1>2, <1>3, <1>4, <1>8, <1>9
  <2>2. QED
    BY <2>1, <1>2, <1>3, <1>6, <1>8
<1>10. ASSUME NEW i \in Live', NEW b \in Mboxes, pid'[i] \in Range(recv_queue[b])
       PROVE  i \in Live /\ pid'[i] = pid[i] /\ asked[i] = asked'[i]
  <2>1. i # current
    BY <1>2, <1>5, <1>10
  <2>2. QED
    BY <2>1, <1>2, <1>3, <1>8
<1>11. QED
  BY <1>7, <1>9, <1>10, MailUntouched

LEMMA GotProcStep ==
  ASSUME WaitInv, MailAnswered, [KernelNext]_kernelSysVars, ~MailCall,
         [ProcNext]_procVars, UNCHANGED <<mutexVars, mboxVars>>
  PROVE  MailAnswered'
<1>1. KernelInv /\ IdleAlone
  BY DEF WaitInv, MailInv
<1>2. /\ Waiting' \subseteq Waiting
      /\ \A i \in Waiting \cap Live' : i \in Waiting'
  BY <1>1, WaitersStay
<1>3. \A i \in Live' :
        \/ /\ i \in Live /\ pid'[i] = pid[i]
           /\ \/ asked'[i] = asked[i]
              \/ /\ i = current /\ SystemCall
                 /\ asked'[i][1] # MSG_RECV
        \/ pid'[i] = next_pid /\ asked'[i] = NoCall
  BY AskedStep
<1>4. NoCall[1] # MSG_RECV
  BY DEF NoCall, MSG_RECV
<1>5. SystemCall => \A b \in Mboxes : pid[current] \notin Range(recv_queue[b])
  BY CallerNotListed DEF WaitInv
<1>6. \A b \in Mboxes : next_pid \notin Range(recv_queue[b])
  <2>1. \A b \in Mboxes : \A p \in Range(recv_queue[b]) : p < next_pid
    BY DEF WaitInv, MailInv, ReceiversKnown
  <2>2. next_pid \in Nat
    BY <1>1 DEF KernelInv, TableTypeOK
  <2>3. QED
    BY <2>1, <2>2
<1>7. kpc = "halted" => kpc' = "halted"
  BY DEF ProcNext, Timer, SyscallQuery, SyscallYield, SyscallSleep, SyscallExec, SyscallExit,
         SystemCall, KeyNone, KeyExec, KeyExit, KeyQuit, SchedulerRun, procVars, kernelVars
<1>8. ASSUME NEW i \in Live', NEW b \in Mboxes, asked'[i] = <<MSG_RECV, b>>
      PROVE  /\ i \in Live /\ pid'[i] = pid[i] /\ asked[i] = asked'[i]
             /\ i \in Waiting' => i \in Waiting
             /\ i \in Waiting \ Unheard => i \in Waiting'
  BY <1>2, <1>3, <1>4, <1>8
<1>9. ASSUME NEW i \in Live', NEW b \in Mboxes, pid'[i] \in Range(recv_queue[b])
      PROVE  i \in Live /\ pid'[i] = pid[i] /\ asked[i] = asked'[i]
  BY <1>3, <1>5, <1>6, <1>9
<1>10. QED
  BY <1>7, <1>8, <1>9, MailUntouched

LEMMA MailListedStep ==
  ASSUME MailInv, MailListed, NEW b \in Mboxes, NEW mail \in Seq(1 .. MaxSent),
         IsInjective(mail), Range(mail) \subseteq 1 .. sent'[b],
         pending' = [pending EXCEPT ![b] = mail],
         \A c \in Mboxes \ {b} : sent'[c] = sent[c]
  PROVE  MailListed'
<1>1. pending \in [Mboxes -> Seq(1 .. MaxSent)]
  BY DEF MailInv, MboxTableOK
<1>2. QED
  BY <1>1 DEF MailListed

(* msg_send and msg_recv on a mailbox that is none.                        *)
LEMMA GotRefused ==
  ASSUME WaitInv, MailAnswered, SystemCall, NEW b \in MboxArgs \ Mboxes, Refused(b), NEW call,
         \A i \in Entries : asked'[i] = IF i = current THEN <<call, b>> ELSE asked[i]
  PROVE  MailAnswered'
<1>1. /\ UNCHANGED <<pid, state>> /\ UNCHANGED mboxVars
      /\ kpc # "halted"
  BY DEF Refused, tableVars, schedVars, SystemCall
<1>2. Live' = Live /\ Waiting' = Waiting /\ Live \subseteq Entries
  BY <1>1 DEF Live, Waiting
<1>3. \A c \in Mboxes : pid[current] \notin Range(recv_queue[c])
  BY CallerNotListed DEF WaitInv
<1>4. ASSUME NEW i \in Live', NEW c \in Mboxes, asked'[i] = <<MSG_RECV, c>>
      PROVE  asked[i] = asked'[i]
  BY <1>2, <1>4
<1>5. ASSUME NEW i \in Live', NEW c \in Mboxes, pid'[i] \in Range(recv_queue[c])
      PROVE  asked[i] = asked'[i]
  BY <1>1, <1>2, <1>3, <1>5
<1>6. QED
  BY <1>1, <1>2, <1>4, <1>5, MailUntouched

\* Messages, those in new for the first time, come to mailbox b or leave it,
\* one of them for the buffer of entry to.
Moved(b, new, to) ==
  /\ Live' = Live
  /\ \A c \in Mboxes : 1 .. sent[c] \subseteq 1 .. sent'[c]
  /\ \A c \in Mboxes \ {b} : pending'[c] = pending[c]
  /\ new \cap 1 .. sent[b] = {} /\ Range(pending'[b]) \subseteq Range(pending[b]) \cup new
  /\ \A i \in Live \ {to} : inbox'[i] = inbox[i]
  /\ to \in Live => /\ inbox'[to] \in 1 .. sent'[b] /\ inbox'[to] \notin Range(pending'[b])
                    /\ inbox'[to] \in Range(pending[b]) \cup new
  /\ \A i \in Live, c \in Mboxes : Got(i, c)' => IF i = to THEN c = b ELSE Got(i, c)

LEMMA MailGotStep ==
  ASSUME MailGot, NEW b \in Mboxes, NEW new, NEW to, Moved(b, new, to)
  PROVE  MailGot'
<1> USE DEF Moved
<1>1. ASSUME NEW c \in Mboxes, NEW i \in Live \ {to}, Got(i, c)'
      PROVE  /\ Got(i, c) /\ inbox'[i] = inbox[i]
             /\ inbox[i] \in 1 .. sent[c] /\ inbox[i] \notin Range(pending[c])
  BY <1>1 DEF MailGot
<1>2. ASSUME NEW c \in Mboxes, NEW i \in Live \ {to}, Got(i, c)', to \in Live, Got(to, c)'
      PROVE  inbox'[i] # inbox'[to]
  <2>1. c = b
    BY <1>2
  <2>2. inbox'[i] \in 1 .. sent[b] /\ inbox'[i] \notin Range(pending[b])
    BY <1>1, <1>2, <2>1
  <2> QED BY <1>2, <2>2
<1> SUFFICES ASSUME NEW c \in Mboxes, NEW i \in Live, Got(i, c)'
             PROVE  /\ inbox'[i] \in 1 .. sent'[c]
                    /\ inbox'[i] \notin Range(pending'[c])
                    /\ \A j \in Live \ {i} : Got(j, c)' => inbox'[j] # inbox'[i]
  BY DEF MailGot
<1>3. CASE i = to
  <2>1. c = b
    BY <1>3
  <2> QED BY <1>2, <1>3, <2>1
<1>4. CASE i # to
  <2>1. /\ Got(i, c) /\ inbox'[i] = inbox[i]
        /\ inbox[i] \in 1 .. sent[c] /\ inbox[i] \notin Range(pending[c])
    BY <1>1, <1>4
  <2>2. inbox[i] \notin Range(pending'[c])
    <3>1. CASE c = b
      BY <2>1, <3>1
    <3>2. CASE c # b
      BY <2>1, <3>2
    <3> QED BY <3>1, <3>2
  <2>3. ASSUME NEW j \in Live \ {i}, Got(j, c)' PROVE inbox'[j] # inbox'[i]
    <3>1. CASE j = to
      BY <1>2, <1>4, <2>3, <3>1
    <3>2. CASE j # to
      <4>1. Got(j, c) /\ inbox'[j] = inbox[j]
        BY <1>1, <2>3, <3>2
      <4> QED BY <2>1, <4>1 DEF MailGot
    <3> QED BY <3>1, <3>2
  <2> QED BY <2>1, <2>2, <2>3
<1> QED BY <1>3, <1>4

(* The message that is sent, and the one that goes out when it is put in.  *)
LEMMA FrontFacts ==
  ASSUME WaitInv, RoomOnly, MailListed, NEW b \in Mboxes, sent[b] < MaxSent,
         mailboxes[b].size < MBOX_SIZE, sent' = [sent EXCEPT ![b] = @ + 1]
  PROVE  LET msg == sent[b] + 1
             all == Append(pending[b], msg)
             front == mbox_front(mbox_queue_in(mailboxes[b], msg))
         IN  /\ {msg} \cap 1 .. sent[b] = {} /\ sent'[b] = msg
             /\ \A c \in Mboxes : 1 .. sent[c] \subseteq 1 .. sent'[c]
             /\ \A c \in Mboxes \ {b} : sent'[c] = sent[c]
             /\ all \in Seq(1 .. MaxSent) /\ IsInjective(all)
             /\ Range(all) = Range(pending[b]) \cup {msg} /\ Range(all) \subseteq 1 .. msg
             /\ Tail(all) \in Seq(1 .. MaxSent) /\ IsInjective(Tail(all))
             /\ Range(Tail(all)) = Range(all) \ {front}
             /\ front \in Range(all) /\ front \in 1 .. msg
<1> DEFINE msg == sent[b] + 1
           all == Append(pending[b], msg)
           front == mbox_front(mbox_queue_in(mailboxes[b], msg))
<1>1. /\ sent[b] \in Nat /\ sent \in [Mboxes -> 0 .. MaxSent]
      /\ pending[b] \in Seq(1 .. MaxSent)
      /\ IsInjective(pending[b]) /\ Range(pending[b]) \subseteq 1 .. sent[b]
  BY MailTypes DEF WaitInv, MailInv, MboxTableOK, MailListed
<1>2. /\ msg \in 1 .. MaxSent
      /\ all \in Seq(1 .. MaxSent) /\ all # <<>>
      /\ front = Head(all)
  BY PassThrough DEF WaitInv
<1>3. /\ {msg} \cap 1 .. sent[b] = {} /\ msg \notin 1 .. sent[b] /\ sent'[b] = msg
      /\ 1 .. sent[b] \subseteq 1 .. msg /\ msg \in 1 .. msg
      /\ \A c \in Mboxes \ {b} : sent'[c] = sent[c]
  BY <1>1
<1>4. Range(all) = Range(pending[b]) \cup {msg} /\ IsInjective(all)
  <2>1. msg \notin Range(pending[b])
    BY <1>1, <1>3
  <2>2. pending[b] \in Seq(1 .. MaxSent) /\ IsInjective(pending[b])
    BY <1>1
  <2>3. msg \in 1 .. MaxSent
    BY <1>2, Zenon
  <2> HIDE DEF msg
  <2>4. Range(Append(pending[b], msg)) = Range(pending[b]) \cup {msg}
    <3> DEFINE S == 1 .. MaxSent
    <3>1. pending[b] \in Seq(S) /\ msg \in S
      BY <2>2, <2>3
    <3> HIDE DEF S
    <3> QED BY <3>1, AppendFacts
  <2>5. IsInjective(Append(pending[b], msg))
    BY <2>1, <2>2, <2>3, AppendFacts
  <2> QED BY <2>4, <2>5
<1> HIDE DEF msg, all, front
<1>5. /\ Tail(all) \in Seq(1 .. MaxSent) /\ IsInjective(Tail(all))
      /\ Range(Tail(all)) = Range(all) \ {Head(all)} /\ Head(all) \in Range(all)
  BY <1>2, <1>4, TailFacts
<1>6. \A c \in Mboxes : 1 .. sent[c] \subseteq 1 .. sent'[c]
  BY <1>3
<1>7. Range(all) \subseteq 1 .. msg
  BY <1>1, <1>3, <1>4
<1>8. front \in Range(all) /\ front \in 1 .. msg /\ Range(Tail(all)) = Range(all) \ {front}
  BY <1>2, <1>5, <1>7
<1> QED BY <1>2, <1>3, <1>4, <1>5, <1>6, <1>7, <1>8 DEF msg, all, front

(* The first receiver leaves a wait queue, and waits no more if it lives.  *)
LEMMA AskedFirstLeaves ==
  ASSUME WaitInv, ReceiversAsked, SystemCall, NEW b \in Mboxes, recv_queue[b] # <<>>,
         recv_queue' = [recv_queue EXCEPT ![b] = Tail(@)], UNCHANGED pid, Live' = Live,
         Waiting' = {i \in Waiting : pid[i] # Head(recv_queue[b])},
         \A i \in Live : asked'[i] = IF i = current THEN <<MSG_SEND, b>> ELSE asked[i]
  PROVE  ReceiversAsked'
<1> DEFINE p == Head(recv_queue[b])
<1>1. recv_queue \in [Mboxes -> Seq(Nat)]
  BY DEF WaitInv, MailInv, MboxTableOK
<1>2. /\ Range(recv_queue'[b]) = Range(recv_queue[b]) \ {p}
      /\ \A c \in Mboxes \ {b} : recv_queue'[c] = recv_queue[c]
  BY <1>1, FirstReceiver DEF WaitInv
<1> HIDE DEF p
<1>3. \A c \in Mboxes : /\ Range(recv_queue'[c]) \subseteq Range(recv_queue[c])
                        /\ Range(recv_queue[c]) \ {p} \subseteq Range(recv_queue'[c])
  BY <1>2
<1>4. /\ \A c \in Mboxes : pid[current] \notin Range(recv_queue[c])
      /\ MSG_SEND # MSG_RECV
  BY CallerNotListed DEF WaitInv, MSG_SEND, MSG_RECV
<1> SUFFICES ASSUME NEW j \in Live, NEW c \in Mboxes
             PROVE  /\ pid[j] \in Range(recv_queue'[c]) => asked'[j] = <<MSG_RECV, c>>
                    /\ asked'[j] = <<MSG_RECV, c>> /\ j \in Waiting'
                         => pid[j] \in Range(recv_queue'[c])
  BY DEF ReceiversAsked
<1>5. pid[j] \in Range(recv_queue'[c]) => asked'[j] = <<MSG_RECV, c>>
  BY <1>3, <1>4 DEF ReceiversAsked
<1>6. ASSUME asked'[j] = <<MSG_RECV, c>>, j \in Waiting' PROVE pid[j] \in Range(recv_queue'[c])
  <2>1. j # current /\ asked[j] = <<MSG_RECV, c>> /\ j \in Waiting /\ pid[j] # p
    BY <1>4, <1>6 DEF p
  <2>2. pid[j] \in Range(recv_queue[c])
    BY <2>1 DEF ReceiversAsked
  <2> QED BY <1>3, <2>1, <2>2
<1> QED BY <1>5, <1>6

LEMMA GotDeposit ==
  ASSUME WaitInv, RoomOnly, MailAnswered, SystemCall, NEW b \in Mboxes, sent[b] < MaxSent,
         mailboxes[b].size < MBOX_SIZE,
         sent' = [sent EXCEPT ![b] = @ + 1], Deposit(b, sent[b] + 1),
         \A i \in Entries : asked'[i] = IF i = current THEN <<MSG_SEND, b>> ELSE asked[i]
  PROVE  MailAnswered'
<1> DEFINE msg == sent[b] + 1
           all == Append(pending[b], msg)
<1>1. /\ UNCHANGED <<pid, state, inbox, recv_queue, strayed>>
      /\ pending' = [pending EXCEPT ![b] = all]
      /\ kpc # "halted"
  BY DEF Deposit, tableVars, schedVars, SystemCall
<1>2. Live' = Live /\ Waiting' = Waiting /\ Live \subseteq Entries /\ NULL \notin Live
  BY <1>1, EntriesFinite DEF Live, Waiting
<1>3. ReceiversAsked /\ MailGot /\ MailListed
  BY <1>1 DEF MailAnswered
<1>4. /\ {msg} \cap 1 .. sent[b] = {} /\ sent'[b] = msg
      /\ \A c \in Mboxes : 1 .. sent[c] \subseteq 1 .. sent'[c]
      /\ \A c \in Mboxes \ {b} : sent'[c] = sent[c]
      /\ all \in Seq(1 .. MaxSent) /\ IsInjective(all)
      /\ Range(all) = Range(pending[b]) \cup {msg} /\ Range(all) \subseteq 1 .. msg
  BY <1>3, FrontFacts
<1> HIDE DEF msg, all
<1>5. pending'[b] = all /\ \A c \in Mboxes \ {b} : pending'[c] = pending[c]
  BY <1>1 DEF WaitInv, MailInv, MboxTableOK
<1>6. MailListed'
  BY <1>1, <1>3, <1>4, MailListedStep DEF WaitInv
<1>7. \A i \in Live : asked'[i] # asked[i] => i = current /\ asked'[i] = <<MSG_SEND, b>>
  BY <1>2
<1>8. MSG_SEND # MSG_RECV
  BY DEF MSG_SEND, MSG_RECV
<1>9. \A i \in Live, c \in Mboxes : Got(i, c)' => Got(i, c) /\ i # NULL
  BY <1>1, <1>2, <1>7, <1>8 DEF Got, Spoilt
<1>10. MailGot'
  <2>1. Moved(b, {msg}, NULL)
    BY <1>1, <1>2, <1>4, <1>5, <1>9 DEF Moved
  <2> QED BY <1>3, <2>1, MailGotStep
<1>11. ReceiversAsked'
  <2>1. \A c \in Mboxes : pid[current] \notin Range(recv_queue[c])
    BY CallerNotListed DEF WaitInv
  <2> QED BY <1>1, <1>2, <1>3, <1>7, <1>8, <2>1 DEF ReceiversAsked
<1> QED BY <1>6, <1>10, <1>11 DEF MailAnswered

(* The receiver that a sender wakes gets the oldest message.               *)
LEMMA GotDeliver ==
  ASSUME WaitInv, RoomOnly, MailAnswered, SystemCall, NEW b \in Mboxes, sent[b] < MaxSent,
         mailboxes[b].size < MBOX_SIZE,
         sent' = [sent EXCEPT ![b] = @ + 1], Deliver(b, sent[b] + 1),
         UNCHANGED pid, Live' = Live,
         \A i \in Entries : asked'[i] = IF i = current THEN <<MSG_SEND, b>> ELSE asked[i]
  PROVE  MailAnswered'
<1> DEFINE msg == sent[b] + 1
           all == Append(pending[b], msg)
           front == mbox_front(mbox_queue_in(mailboxes[b], msg))
           p == Head(recv_queue[b])
<1>1. /\ recv_queue[b] # <<>>
      /\ recv_queue' = [recv_queue EXCEPT ![b] = Tail(@)]
      /\ pending' = [pending EXCEPT ![b] = Tail(all)]
      /\ UNCHANGED strayed
      /\ kpc # "halted"
  BY DEF Deliver, SystemCall
<1>2. PICK i \in EntriesOf(p) : HandMessage(b, msg, i)
  BY DEF Deliver
<1>3. /\ inbox' = [inbox EXCEPT ![i] = front]
      /\ state' = [state EXCEPT ![i] = "RUNNING"]
  BY <1>2 DEF HandMessage
<1>4. ReceiversAsked /\ MailGot /\ MailListed
  BY <1>1 DEF MailAnswered
<1>5. /\ {msg} \cap 1 .. sent[b] = {} /\ sent'[b] = msg
      /\ \A c \in Mboxes : 1 .. sent[c] \subseteq 1 .. sent'[c]
      /\ \A c \in Mboxes \ {b} : sent'[c] = sent[c]
      /\ Range(all) = Range(pending[b]) \cup {msg} /\ Range(all) \subseteq 1 .. msg
      /\ Tail(all) \in Seq(1 .. MaxSent) /\ IsInjective(Tail(all))
      /\ Range(Tail(all)) = Range(all) \ {front}
      /\ front \in Range(all) /\ front \in 1 .. msg
  BY <1>4, FrontFacts
<1> HIDE DEF msg, all, front
<1>6. pending'[b] = Tail(all) /\ \A c \in Mboxes \ {b} : pending'[c] = pending[c]
  BY <1>1 DEF WaitInv, MailInv, MboxTableOK
<1>7. MailListed'
  <2>1. Range(Tail(all)) \subseteq 1 .. sent'[b]
    BY <1>5
  <2> QED BY <1>1, <1>4, <1>5, <2>1, MailListedStep DEF WaitInv
<1>8. /\ i \in Waiting /\ i \in Live /\ i \in Entries /\ pid[i] = p /\ p \in Range(recv_queue[b])
      /\ \A j \in Live : pid[j] = p <=> j = i
  BY <1>1, FirstReceiver DEF WaitInv, Waiting, Live
<1>9. Waiting' = Waiting \ {i} /\ Waiting' = {j \in Waiting : pid[j] # p}
  <2>1. Waiting' = Waiting \ {i}
    BY <1>3, <1>8 DEF WaitInv, MailInv, KernelInv, TableTypeOK, Waiting
  <2> QED BY <1>8, <2>1 DEF Waiting, Live
<1>10. /\ inbox'[i] = front /\ \A j \in Live \ {i} : inbox'[j] = inbox[j]
       /\ Live \subseteq Entries
  BY <1>3, <1>8 DEF Live, WaitInv, MailInv, MboxTableOK
<1>11. asked[i] = <<MSG_RECV, b>>
  BY <1>4, <1>8 DEF ReceiversAsked
<1>12. /\ MSG_SEND # MSG_RECV
       /\ \A j \in Live : asked'[j] = IF j = current THEN <<MSG_SEND, b>> ELSE asked[j]
  BY <1>10 DEF MSG_SEND, MSG_RECV
<1>13. \A j \in Live, c \in Mboxes : Got(j, c)' => IF j = i THEN c = b ELSE Got(j, c)
  <2> SUFFICES ASSUME NEW j \in Live, NEW c \in Mboxes, Got(j, c)'
               PROVE  IF j = i THEN c = b ELSE Got(j, c)
    OBVIOUS
  <2>1. asked[j] = <<MSG_RECV, c>> /\ j \notin Waiting' /\ j \notin Spoilt(c)
    BY <1>1, <1>12 DEF Got, Spoilt
  <2>2. CASE j = i
    BY <1>11, <2>1, <2>2
  <2>3. CASE j # i
    BY <1>9, <2>1, <2>3 DEF Got
  <2> QED BY <2>2, <2>3
<1>14. MailGot'
  <2>1. Range(pending'[b]) \subseteq Range(pending[b]) \cup {msg}
    BY <1>5, <1>6
  <2>2. /\ inbox'[i] \in 1 .. sent'[b] /\ inbox'[i] \notin Range(pending'[b])
        /\ inbox'[i] \in Range(pending[b]) \cup {msg}
    BY <1>5, <1>6, <1>10
  <2>3. Moved(b, {msg}, i)
    BY <1>5, <1>6, <1>10, <1>13, <2>1, <2>2 DEF Moved
  <2> QED BY <1>4, <2>3, MailGotStep
<1>15. ReceiversAsked'
  BY <1>1, <1>4, <1>9, <1>12, AskedFirstLeaves DEF p
<1> QED BY <1>7, <1>14, <1>15 DEF MailAnswered

(* The send that finds a receiver gone.                                    *)
LEMMA GotMisdeliver ==
  ASSUME WaitInv, RoomOnly, MailAnswered, SystemCall, NEW b \in Mboxes, sent[b] < MaxSent,
         mailboxes[b].size < MBOX_SIZE,
         sent' = [sent EXCEPT ![b] = @ + 1], Misdeliver(b, sent[b] + 1),
         UNCHANGED pid, Live' = Live,
         \A i \in Entries : asked'[i] = IF i = current THEN <<MSG_SEND, b>> ELSE asked[i]
  PROVE  MailAnswered'
<1> DEFINE msg == sent[b] + 1
           all == Append(pending[b], msg)
           front == mbox_front(mbox_queue_in(mailboxes[b], msg))
           p == Head(recv_queue[b])
<1>1. /\ recv_queue[b] # <<>> /\ EntriesOf(p) = {}
      /\ recv_queue' = [recv_queue EXCEPT ![b] = Tail(@)]
      /\ strayed' = strayed \cup {b}
      /\ UNCHANGED state
      /\ kpc # "halted"
  BY DEF Misdeliver, SystemCall, schedVars, tableVars
<1>2. \/ /\ pending' = [pending EXCEPT ![b] = all]
         /\ UNCHANGED inbox
      \/ /\ pending' = [pending EXCEPT ![b] = Tail(all)]
         /\ \/ UNCHANGED inbox
            \/ /\ state[LastEntry] # "NONE"
               /\ inbox' = [inbox EXCEPT ![LastEntry] = front]
  BY DEF Misdeliver, Keep, Stray
<1>3. ReceiversAsked /\ MailGot /\ MailListed
  BY <1>1 DEF MailAnswered
<1>4. /\ {msg} \cap 1 .. sent[b] = {} /\ sent'[b] = msg
      /\ \A c \in Mboxes : 1 .. sent[c] \subseteq 1 .. sent'[c]
      /\ \A c \in Mboxes \ {b} : sent'[c] = sent[c]
      /\ all \in Seq(1 .. MaxSent) /\ IsInjective(all)
      /\ Range(all) = Range(pending[b]) \cup {msg} /\ Range(all) \subseteq 1 .. msg
      /\ Tail(all) \in Seq(1 .. MaxSent) /\ IsInjective(Tail(all))
      /\ Range(Tail(all)) = Range(all) \ {front}
      /\ front \in Range(all) /\ front \in 1 .. msg
  BY <1>3, FrontFacts
<1> HIDE DEF msg, all, front
<1>5. PICK mail : mail \in {all, Tail(all)} /\ pending' = [pending EXCEPT ![b] = mail]
  BY <1>2
<1>6. /\ mail \in Seq(1 .. MaxSent) /\ IsInjective(mail)
      /\ Range(mail) \subseteq Range(pending[b]) \cup {msg} /\ Range(mail) \subseteq 1 .. sent'[b]
      /\ pending'[b] = mail /\ \A c \in Mboxes \ {b} : pending'[c] = pending[c]
  <2>1. pending'[b] = mail /\ \A c \in Mboxes \ {b} : pending'[c] = pending[c]
    BY <1>5 DEF WaitInv, MailInv, MboxTableOK
  <2>2. mail \in Seq(1 .. MaxSent) /\ IsInjective(mail) /\ Range(mail) \subseteq Range(all)
    BY <1>4, <1>5
  <2> QED BY <1>4, <2>1, <2>2
<1>7. MailListed'
  BY <1>3, <1>4, <1>5, <1>6, MailListedStep DEF WaitInv
<1>8. Waiting' = Waiting /\ Waiting' = {j \in Waiting : pid[j] # p}
  <2>1. Waiting' = Waiting
    BY <1>1 DEF Waiting
  <2>2. \A j \in Live : pid[j] # p
    BY <1>1, FirstReceiver DEF WaitInv
  <2> QED BY <2>1, <2>2 DEF Waiting, Live
<1>9. /\ MSG_SEND # MSG_RECV /\ Live \subseteq Entries /\ NULL \notin Live
      /\ \A j \in Live : asked'[j] = IF j = current THEN <<MSG_SEND, b>> ELSE asked[j]
  BY EntriesFinite DEF MSG_SEND, MSG_RECV, Live
<1>10. ASSUME NEW j \in Live, NEW c \in Mboxes, Got(j, c)'
       PROVE  Got(j, c) /\ (j = LastEntry => c = b)
  <2>1. asked[j] = <<MSG_RECV, c>> /\ j \notin Waiting
    BY <1>8, <1>9, <1>10 DEF Got
  <2>2. /\ j \notin Spoilt(c)
        /\ j = LastEntry => c = b
    BY <1>1, <1>10 DEF Got, Spoilt
  <2> QED BY <2>1, <2>2 DEF Got
<1>11. MailGot'
  <2>1. CASE UNCHANGED inbox
    <3>1. \A i \in Live, c \in Mboxes : Got(i, c)' => IF i = NULL THEN c = b ELSE Got(i, c)
      BY <1>9, <1>10
    <3>2. Moved(b, {msg}, NULL)
      BY <1>4, <1>6, <1>9, <2>1, <3>1 DEF Moved
    <3> QED BY <1>3, <3>2, MailGotStep
  <2>2. CASE /\ pending' = [pending EXCEPT ![b] = Tail(all)]
             /\ state[LastEntry] # "NONE"
             /\ inbox' = [inbox EXCEPT ![LastEntry] = front]
    <3>1. LastEntry \in Entries
      BY ProcAssumption DEF LastEntry, Entries
    <3>2. inbox'[LastEntry] = front /\ \A i \in Live \ {LastEntry} : inbox'[i] = inbox[i]
      BY <1>9, <2>2, <3>1 DEF WaitInv, MailInv, MboxTableOK
    <3>3. pending'[b] = Tail(all)
      BY <2>2 DEF WaitInv, MailInv, MboxTableOK
    <3>4. /\ inbox'[LastEntry] \in 1 .. sent'[b] /\ inbox'[LastEntry] \notin Range(pending'[b])
          /\ inbox'[LastEntry] \in Range(pending[b]) \cup {msg}
      BY <1>4, <3>2, <3>3
    <3>5. \A i \in Live, c \in Mboxes :
            Got(i, c)' => IF i = LastEntry THEN c = b ELSE Got(i, c)
      BY <1>10
    <3>6. Moved(b, {msg}, LastEntry)
      BY <1>4, <1>6, <3>2, <3>4, <3>5 DEF Moved
    <3> QED BY <1>3, <3>6, MailGotStep
  <2> QED BY <1>2, <2>1, <2>2
<1>12. ReceiversAsked'
  BY <1>1, <1>3, <1>8, <1>9, AskedFirstLeaves DEF p
<1> QED BY <1>7, <1>11, <1>12 DEF MailAnswered

LEMMA GotAwait ==
  ASSUME WaitInv, MailAnswered, SystemCall, NEW b \in Mboxes, Await(b),
         UNCHANGED <<sent, strayed, pid>>, Live' = Live,
         \A i \in Entries : asked'[i] = IF i = current THEN <<MSG_RECV, b>> ELSE asked[i]
  PROVE  MailAnswered'
<1>1. /\ recv_queue' = [recv_queue EXCEPT ![b] = QueueIn(@, pid[current])]
      /\ Continue("keyboard", ~QueueIsFull(recv_queue[b]), WaitQueueFull)
      /\ IF QueueIsFull(recv_queue[b])
         THEN UNCHANGED <<state, run_queue>>
         ELSE /\ state' = [state EXCEPT ![current] = "WAITING"]
              /\ run_queue' = SchedulerRemove(run_queue, pid[current])
      /\ UNCHANGED <<inbox, pending>>
      /\ kpc # "halted"
  BY DEF Await, SystemCall
<1>2. ReceiversAsked /\ MailGot /\ MailListed
  BY <1>1 DEF MailAnswered
<1>3. MailListed'
  BY <1>1, <1>2 DEF MailListed
<1>4. ASSUME kpc' # "halted"
      PROVE  MailGot' /\ ReceiversAsked'
  <2>1. ~QueueIsFull(recv_queue[b])
    BY <1>1, <1>4 DEF Continue
  <2>2. current \in Live /\ current \in Entries /\ pid[current] \in Nat /\ Live \subseteq Entries
        /\ \A i \in Live : pid[i] = pid[current] => i = current
    BY CallerNotListed DEF WaitInv, Live
  <2>3. Waiting' = Waiting \cup {current}
    BY <1>1, <2>1, <2>2 DEF WaitInv, MailInv, KernelInv, TableTypeOK, Waiting
  <2>4. \A c \in Mboxes :
          Range(recv_queue'[c]) = IF c = b THEN Range(recv_queue[c]) \cup {pid[current]}
                                  ELSE Range(recv_queue[c])
    <3>1. recv_queue \in [Mboxes -> Seq(Nat)]
      BY DEF WaitInv, MailInv, MboxTableOK
    <3>2. QueueIn(recv_queue[b], pid[current]) = Append(recv_queue[b], pid[current])
      BY <2>1 DEF QueueIn, QueueIsFull
    <3>3. Range(Append(recv_queue[b], pid[current])) = Range(recv_queue[b]) \cup {pid[current]}
      BY <2>2, <3>1, AppendFacts
    <3>4. QED
      BY <1>1, <3>1, <3>2, <3>3
  <2>5. asked'[current] = <<MSG_RECV, b>> /\ \A i \in Live \ {current} : asked'[i] = asked[i]
    BY <2>2
  <2>6. \A c \in Mboxes, i \in Live : Got(i, c)' => Got(i, c)
    BY <2>3, <2>5 DEF Got, Spoilt
  <2>7. MailGot'
    BY <1>1, <1>2, <2>6 DEF MailGot
  <2>8. ReceiversAsked'
    <3> SUFFICES ASSUME NEW i \in Live, NEW c \in Mboxes
                 PROVE  /\ pid[i] \in Range(recv_queue'[c]) => asked'[i] = <<MSG_RECV, c>>
                        /\ asked'[i] = <<MSG_RECV, c>> /\ i \in Waiting'
                             => pid[i] \in Range(recv_queue'[c])
      BY DEF ReceiversAsked
    <3>1. CASE i = current
      <4>1. pid[i] \notin Range(recv_queue[c])
        BY <3>1, CallerNotListed DEF WaitInv
      <4>2. pid[i] \in Range(recv_queue'[c]) <=> c = b
        BY <2>4, <3>1, <4>1
      <4>3. asked'[i] = <<MSG_RECV, c>> <=> c = b
        BY <2>5, <3>1
      <4>4. QED
        BY <4>2, <4>3
    <3>2. CASE i # current
      <4>1. pid[i] \in Range(recv_queue'[c]) <=> pid[i] \in Range(recv_queue[c])
        BY <2>2, <2>4, <3>2
      <4>2. asked'[i] = asked[i] /\ (i \in Waiting' <=> i \in Waiting)
        BY <2>3, <2>5, <3>2
      <4>3. QED
        BY <1>2, <4>1, <4>2 DEF ReceiversAsked
    <3>3. QED
      BY <3>1, <3>2
  <2>9. QED
    BY <2>7, <2>8
<1>5. QED
  BY <1>3, <1>4 DEF MailAnswered

LEMMA GotTake ==
  ASSUME WaitInv, RoomOnly, MailAnswered, SystemCall, NEW b \in Mboxes, Take(b),
         UNCHANGED <<sent, strayed, pid>>, Live' = Live,
         \A i \in Entries : asked'[i] = IF i = current THEN <<MSG_RECV, b>> ELSE asked[i]
  PROVE  MailAnswered'
<1>1. /\ mailboxes[b].size # 0
      /\ inbox' = [inbox EXCEPT ![current] = mbox_front(mailboxes[b])]
      /\ pending' = [pending EXCEPT ![b] = Tail(@)]
      /\ UNCHANGED <<state, recv_queue>>
      /\ kpc # "halted"
  BY DEF Take, SystemCall
<1>2. ReceiversAsked /\ MailGot /\ MailListed
  BY <1>1 DEF MailAnswered
<1>3. current \in Live /\ Live \subseteq Entries
      /\ \A c \in Mboxes : pid[current] \notin Range(recv_queue[c])
  BY CallerNotListed DEF WaitInv, Live
<1>4. /\ mailboxes[b] \in Box /\ mailboxes[b].size > 0
      /\ pending[b] \in Seq(1 .. MaxSent)
      /\ Holds(mailboxes[b], pending[b])
  BY <1>1, MailTypes DEF WaitInv, MailInv, RingsExact
<1>5. pending[b] # <<>> /\ mbox_front(mailboxes[b]) = Head(pending[b])
  BY <1>4, GetHolds
<1>6. /\ Head(pending[b]) \in Range(pending[b])
      /\ Tail(pending[b]) \in Seq(1 .. MaxSent)
      /\ IsInjective(Tail(pending[b]))
      /\ Range(Tail(pending[b])) = Range(pending[b]) \ {Head(pending[b])}
  BY <1>2, <1>4, <1>5, TailFacts DEF MailListed
<1>7. /\ pending \in [Mboxes -> Seq(1 .. MaxSent)] /\ inbox \in [Entries -> 0 .. MaxSent]
      /\ Range(pending[b]) \subseteq 1 .. sent[b]
  BY <1>2 DEF WaitInv, MailInv, MboxTableOK, MailListed
<1>8. /\ pending'[b] = Tail(pending[b])
      /\ \A c \in Mboxes : Range(pending'[c]) \subseteq Range(pending[c])
      /\ Head(pending[b]) \notin Range(pending'[b])
  BY <1>1, <1>6, <1>7
<1>9. MailListed'
  BY <1>1, <1>2, <1>6, <1>7, <1>8, MailListedStep DEF WaitInv
<1>10. Waiting' = Waiting
  BY <1>1 DEF Waiting
<1>11. /\ inbox'[current] = Head(pending[b])
       /\ \A i \in Live \ {current} : inbox'[i] = inbox[i] /\ asked'[i] = asked[i]
       /\ asked'[current] = <<MSG_RECV, b>>
  BY <1>1, <1>3, <1>5, <1>7
<1>12. MailGot'
  <2>1. \A i \in Live, c \in Mboxes : Got(i, c)' => IF i = current THEN c = b ELSE Got(i, c)
    BY <1>10, <1>11 DEF Got, Spoilt
  <2>2. /\ inbox'[current] \in 1 .. sent'[b] /\ inbox'[current] \notin Range(pending'[b])
        /\ inbox'[current] \in Range(pending[b]) \cup {}
    BY <1>6, <1>7, <1>8, <1>11
  <2>3. \A c \in Mboxes \ {b} : pending'[c] = pending[c]
    BY <1>1, <1>7
  <2>4. Range(pending'[b]) \subseteq Range(pending[b]) \cup {}
    BY <1>8
  <2>5. Moved(b, {}, current)
    BY <1>11, <2>1, <2>2, <2>3, <2>4 DEF Moved
  <2> QED BY <1>2, <2>5, MailGotStep
<1>13. ReceiversAsked'
  <2> SUFFICES ASSUME NEW i \in Live, NEW c \in Mboxes
               PROVE  /\ pid[i] \in Range(recv_queue[c]) => asked'[i] = <<MSG_RECV, c>>
                      /\ asked'[i] = <<MSG_RECV, c>> /\ i \in Waiting
                           => pid[i] \in Range(recv_queue[c])
    BY <1>1, <1>10 DEF ReceiversAsked
  <2>1. CASE i = current
    <3>1. i \notin Waiting
      BY <2>1, CallerNotListed DEF WaitInv
    <3>2. QED
      BY <1>3, <2>1, <3>1
  <2>2. CASE i # current
    BY <1>2, <1>11, <2>2 DEF ReceiversAsked
  <2>3. QED
    BY <2>1, <2>2
<1>14. QED
  BY <1>9, <1>12, <1>13 DEF MailAnswered

LEMMA GotMailCall ==
  ASSUME WaitInv, RoomOnly, MailAnswered, MailCall
  PROVE  MailAnswered'
<1>1. MailStep
  BY DEF MailCall, Enter, MailStep
<1>2. SystemCall /\ UNCHANGED pid /\ Live' = Live
  BY <1>1, MailStepKeeps DEF WaitInv, MailKeeps
<1>3. ASSUME NEW b \in MboxArgs, Enter(MSG_SEND, b, MailResult(b), ksyscall_msg_send(b))
      PROVE  MailAnswered'
  <2>1. \A i \in Entries : asked'[i] = IF i = current THEN <<MSG_SEND, b>> ELSE asked[i]
    BY <1>2, <1>3 DEF Enter, Records, NewProcess
  <2>2. CASE Refused(b)
    <3>1. b \notin Mboxes
      BY <2>2 DEF Refused
    <3>2. QED
      BY <1>2, <2>1, <2>2, <3>1, GotRefused DEF MSG_SEND
  <2>3. CASE /\ b \in Mboxes /\ sent[b] < MaxSent
             /\ mailboxes[b].size < MBOX_SIZE
             /\ sent' = [sent EXCEPT ![b] = @ + 1]
             /\ \/ Deposit(b, sent[b] + 1)
                \/ Deliver(b, sent[b] + 1)
                \/ Misdeliver(b, sent[b] + 1)
    BY <1>2, <2>1, <2>3, GotDeposit, GotDeliver, GotMisdeliver
  <2>4. QED
    BY <1>3, <2>2, <2>3 DEF Enter, ksyscall_msg_send
<1>4. ASSUME NEW b \in MboxArgs, Enter(MSG_RECV, b, MailResult(b), ksyscall_msg_recv(b))
      PROVE  MailAnswered'
  <2>1. \A i \in Entries : asked'[i] = IF i = current THEN <<MSG_RECV, b>> ELSE asked[i]
    BY <1>2, <1>4 DEF Enter, Records, NewProcess
  <2>2. CASE Refused(b)
    <3>1. b \notin Mboxes
      BY <2>2 DEF Refused
    <3>2. QED
      BY <1>2, <2>1, <2>2, <3>1, GotRefused DEF MSG_RECV
  <2>3. CASE b \in Mboxes /\ (Await(b) \/ Take(b)) /\ UNCHANGED <<sent, strayed>>
    BY <1>2, <2>1, <2>3, GotAwait, GotTake
  <2>4. QED
    BY <1>4, <2>2, <2>3 DEF Enter, ksyscall_msg_recv
<1>5. QED
  BY <1>3, <1>4 DEF MailCall

LEMMA GotNextInv ==
  ASSUME WaitInv, RoomOnly, MailAnswered, [KernelNext]_kernelSysVars
  PROVE  MailAnswered'
<1>1. CASE MailCall
  BY <1>1, GotMailCall
<1>2. CASE MutexCall /\ UNCHANGED mboxVars
  BY <1>2, GotMutexCall
<1>3. CASE ~MailCall /\ [ProcNext]_procVars /\ UNCHANGED <<mutexVars, mboxVars>>
  BY <1>3, GotProcStep
<1>4. QED
  BY <1>1, <1>2, <1>3
  DEF KernelNext, NotACall, ProcCall, Enter, ProcNext, kernelSysVars

-----------------------------------------------------------------------------
(* The theorems.                                                           *)

\* The answers, for callers that stick to what they have allocated and that
\* leave full mailboxes alone.
AnswerInv ==
  /\ WaitInv
  /\ AllocatedOnly => LocksAnswered
  /\ RoomOnly => MailAnswered

LEMMA AnswerSpecInv == KernelSpec => []AnswerInv
<1>1. KernelInit => AnswerInv
  <2> SUFFICES ASSUME KernelInit
               PROVE  AnswerInv
    OBVIOUS
  <2>1. /\ asked = [i \in Entries |-> NoCall]
        /\ \A m \in Mutexes : wait_queue[m] = <<>>
        /\ \A b \in Mboxes : recv_queue[b] = <<>> /\ pending[b] = <<>>
    BY DEF KernelInit, MutexInit, MboxInit
  <2>2. NoCall[1] # MUTEX_LOCK /\ NoCall[1] # MUTEX_UNLOCK /\ NoCall[1] # MSG_RECV
    BY DEF NoCall, MUTEX_LOCK, MUTEX_UNLOCK, MSG_RECV
  <2>3. \A i \in Live : asked[i] = NoCall
    BY <2>1 DEF Live
  <2>4. Range(<<>>) = {} /\ IsInjective(<<>>)
    BY DEF Range, IsInjective
  <2>5. LocksAnswered
    BY <2>1, <2>2, <2>3, <2>4 DEF LocksAnswered
  <2>6. MailAnswered
    BY <2>1, <2>2, <2>3, <2>4 DEF MailAnswered, MailListed, ReceiversAsked, MailGot, Got
  <2>7. QED
    BY <2>5, <2>6, WaitInitInv DEF AnswerInv
<1>2. AnswerInv /\ [KernelNext]_kernelSysVars => AnswerInv'
  BY WaitNextInv, LocksNextInv, GotNextInv DEF AnswerInv
<1>3. QED
  BY <1>1, <1>2, PTL DEF KernelSpec

(* Callers that stick to allocated ids: whoever waits stands in the queue  *)
(* of one mutex or of one mailbox, and nobody else stands in any (kmutex.c *)
(* and ksyscall.c on one scheduler).                                       *)
THEOREM OnePlaceToWait == AllocatedOnly /\ KernelSpec => []WaitsOnce
<1> SUFFICES ASSUME AllocatedOnly
             PROVE  KernelSpec => []WaitsOnce
  OBVIOUS
<1>1. AnswerInv => WaitsOnce
  BY OnePlace DEF AnswerInv
<1>2. QED
  BY <1>1, AnswerSpecInv, PTL

(* The process that executes waits for nothing.                            *)
LEMMA RunnerFacts ==
  ASSUME WaitInv, kpc = "user"
  PROVE  /\ current \in Live /\ current \notin Waiting /\ current # NULL
         /\ \A m \in Mutexes : pid[current] \notin Range(wait_queue[m])
<1>1. KernelInv
  BY DEF WaitInv, MailInv
<1>2. current \in Live /\ current \notin Waiting /\ current # NULL
  BY <1>1 DEF KernelInv, CurrentInv, OneActive, TableTypeOK, Live, Waiting
<1>3. \A i \in Waiting : pid[i] # pid[current]
  <2>1. Waiting \subseteq Live
    BY DEF Waiting, Live
  <2>2. QED
    BY <1>1, <1>2, <2>1 DEF KernelInv, TableInv, PidsUnique
<1>4. QED
  BY <1>2, <1>3 DEF WaitInv, MutexesInv, LockInv, WaitersKnown

(* Callers that stick to allocated ids: mutex_lock comes back with the     *)
(* mutex and mutex_unlock without it, whoever ran in between (kmutex.c,    *)
(* kisr_syscall).                                                          *)
THEOREM LockAnswersTrue == AllocatedOnly /\ KernelSpec => []LockMeansHeld
<1> SUFFICES ASSUME AllocatedOnly
             PROVE  KernelSpec => []LockMeansHeld
  OBVIOUS
<1>1. AnswerInv => LockMeansHeld
  <2> SUFFICES ASSUME AnswerInv, kpc = "user"
               PROVE  LockMeansHeld
    BY DEF LockMeansHeld, Answered
  <2>1. /\ current \in Live /\ LocksAnswered
        /\ \A m \in Mutexes : pid[current] \notin Range(wait_queue[m])
    BY RunnerFacts DEF AnswerInv
  <2>2. QED
    BY <2>1 DEF LocksAnswered, LockMeansHeld, Answered
<1>2. QED
  BY <1>1, AnswerSpecInv, PTL

(* Callers that leave full mailboxes alone: msg_recv comes back with a     *)
(* message that nobody else gets (ksyscall_msg_recv, ksyscall_msg_send).   *)
THEOREM RecvAnswersTrue == RoomOnly /\ KernelSpec => []RecvMeansMail
<1> SUFFICES ASSUME RoomOnly
             PROVE  KernelSpec => []RecvMeansMail
  OBVIOUS
<1>1. AnswerInv => RecvMeansMail
  <2> SUFFICES ASSUME AnswerInv, kpc = "user"
               PROVE  RecvMeansMail
    BY DEF RecvMeansMail, Answered
  <2>1. current \in Live /\ current \notin Waiting
    BY RunnerFacts DEF AnswerInv
  <2>2. MailGot /\ \A i \in Live : i \in Waiting <=> state[i] = "WAITING"
    BY DEF AnswerInv, MailAnswered, Live, Waiting
  <2>3. QED
    BY <2>1, <2>2 DEF RecvMeansMail, Answered, MailGot, Got
<1>2. QED
  BY <1>1, AnswerSpecInv, PTL

(* Whatever processes call with whatever ids: a call that reports an error *)
(* has changed nothing (ksyscall.c).                                       *)
THEOREM ErrorsLeaveNothing == KernelSpec => ErrorsChangeNothing
<1> DEFINE Unharmed ==
      kpc = "user" /\ kpc' = "keyboard" /\ system_time' = system_time
        /\ current' = current /\ eax'[current] = Error
      => UNCHANGED <<tableVars, schedVars, mutexVars, mboxVars>>
<1>1. WaitInv /\ [KernelNext]_kernelSysVars => [Unharmed]_kernelSysVars
  BY ErrorStep DEF Fails
<1>2. QED
  BY <1>1, WaitSpecInv, PTL DEF KernelSpec, ErrorsChangeNothing

=============================================================================
