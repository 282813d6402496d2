-------------------------------- MODULE Kernel -------------------------------
(***************************************************************************)
(* The kernel as its callers see it: mutexes and mailboxes together on one *)
(* scheduler, and what each system call returns.  kisr_syscall passes the  *)
(* registers of the caller's trapframe to ksyscall_handler and stores the  *)
(* result in eax, unless the handler has reset current: then the caller    *)
(* finds the number of its call there when it runs again.                  *)
(***************************************************************************)
EXTENDS KMutex, KMbox

VARIABLES
  eax,     \* eax[i]: the register in the trapframe of entry i
  asked    \* asked[i]: its last call and the argument; not in the code

callVars == <<eax, asked>>
kernelSysVars == <<procVars, mutexVars, mboxVars, callVars>>

\* syscall_defs.h
SYS_GET_TIME == 0
PROC_EXEC == 1
PROC_EXIT == 2
PROC_GET_NAME == 3
PROC_GET_PID == 4
SLEEP == 5
YIELD == 6
MUTEX_ALLOC == 7
MUTEX_FREE == 8
MUTEX_LOCK == 9
MUTEX_UNLOCK == 10
MSG_SEND == 11
MSG_RECV == 12

NoCall == <<-1, 0>>

-----------------------------------------------------------------------------

\* A process that starts finds its stack, trapframe included, cleared.
NewProcess(i) == pid'[i] # pid[i]

\* What a call of the current process leaves in the registers, once the
\* handler has returned.
Records(number, arg, result) ==
  /\ eax' = [i \in Entries |->
               IF NewProcess(i) THEN 0
               ELSE IF i # current THEN eax[i]
               ELSE IF current' = NULL THEN number
               ELSE result]
  /\ asked' = [i \in Entries |->
                 IF NewProcess(i) THEN NoCall
                 ELSE IF i = current THEN <<number, arg>>
                 ELSE asked[i]]

\* A system call: its number, its argument, what the handler returns and
\* what it does.
Enter(number, arg, result, Handler) == Handler /\ Records(number, arg, result)

Error == -1

ExecResult == IF proc_queue = <<>> THEN Error ELSE next_pid

AllocResult == IF mutex_queue = <<>> THEN Error ELSE Head(mutex_queue)

FreeResult(id) ==
  IF id \in Mutexes => lock_count[id] > 0 \/ QueueIsFull(mutex_queue) THEN Error ELSE 0

\* The count before the call.
LockResult(id) == IF id \in Mutexes THEN lock_count[id] ELSE Error

\* The count after the call.
UnlockResult(id) ==
  IF id \notin Mutexes THEN Error
  ELSE IF lock_count[id] = 0 THEN 0
  ELSE IF owner[id] # current \/ (lock_count[id] > 1 /\ wait_queue[id] = <<>>) THEN Error
  ELSE lock_count[id] - 1

\* A receiver that blocks is told 0 at once, as current still points to it.
MailResult(b) == IF b \in Mboxes THEN 0 ELSE Error

\* The calls the programs make.
ProcCall ==
  \/ Enter(SYS_GET_TIME, 0, system_time \div CLK_TCK, SyscallQuery)
  \/ Enter(PROC_GET_PID, 0, pid[current], SyscallQuery)
  \/ Enter(PROC_GET_NAME, 0, 0, SyscallQuery)
  \/ Enter(YIELD, 0, 0, SyscallYield)
  \/ \E secs \in SleepSecs : Enter(SLEEP, secs, 0, SyscallSleep(secs))
  \/ Enter(PROC_EXEC, 0, ExecResult, SyscallExec)
  \/ Enter(PROC_EXIT, 0, 0, SyscallExit)

MutexCall ==
  \/ Enter(MUTEX_ALLOC, 0, AllocResult, kmutex_alloc)
  \/ \E id \in MutexArgs : Enter(MUTEX_FREE, id, FreeResult(id), kmutex_free(id))
  \/ \E id \in MutexArgs : Enter(MUTEX_LOCK, id, LockResult(id), kmutex_lock(id))
  \/ \E id \in MutexArgs : Enter(MUTEX_UNLOCK, id, UnlockResult(id), kmutex_unlock(id))

MailCall ==
  \/ \E b \in MboxArgs : Enter(MSG_SEND, b, MailResult(b), ksyscall_msg_send(b))
  \/ \E b \in MboxArgs : Enter(MSG_RECV, b, MailResult(b), ksyscall_msg_recv(b))

\* The rest of kernel_run, and the ticks, write no result.
NotACall ==
  /\ Timer \/ KeyNone \/ KeyExec \/ KeyExit \/ KeyQuit \/ SchedulerRun
  /\ eax' = [i \in Entries |-> IF NewProcess(i) THEN 0 ELSE eax[i]]
  /\ asked' = [i \in Entries |-> IF NewProcess(i) THEN NoCall ELSE asked[i]]

-----------------------------------------------------------------------------

KernelInit ==
  /\ MutexInit
  /\ MboxInit
  /\ eax = [i \in Entries |-> 0]
  /\ asked = [i \in Entries |-> NoCall]

KernelNext ==
  \/ NotACall /\ UNCHANGED <<mutexVars, mboxVars>>
  \/ ProcCall /\ UNCHANGED <<mutexVars, mboxVars>>
  \/ MutexCall /\ UNCHANGED mboxVars
  \/ MailCall /\ UNCHANGED mutexVars

KernelSpec == KernelInit /\ [][KernelNext]_kernelSysVars

-----------------------------------------------------------------------------
(* Properties.                                                             *)

\* The wait queues that list the process in entry i.
WaitsAt(i) ==
  {<<"mutex", m>> : m \in {n \in Mutexes : pid[i] \in Range(wait_queue[n])}}
    \cup {<<"mailbox", b>> : b \in {c \in Mboxes : pid[i] \in Range(recv_queue[c])}}

(* A process waits for one thing, and is listed where it waits: no call    *)
(* wakes a process out of the queue of another mutex or mailbox, and none  *)
(* leaves one WAITING that nobody can find (kmutex.c against ksyscall.c).  *)
WaitsOnce ==
  \A i \in Live : Cardinality(WaitsAt(i)) = (IF state[i] = "WAITING" THEN 1 ELSE 0)

\* The process that executes has just been answered.
Answered(number, arg) == kpc = "user" /\ asked[current] = <<number, arg>>

(* A process that comes back from mutex_lock without an error holds the    *)
(* mutex, whether the call blocked or not, and one that comes back from    *)
(* mutex_unlock does not (kmutex.c, kisr_syscall).                         *)
LockMeansHeld ==
  \A m \in Mutexes :
    /\ Answered(MUTEX_LOCK, m) /\ eax[current] # Error => owner[m] = current
    /\ Answered(MUTEX_UNLOCK, m) => owner[m] # current

\* The entry whose buffer a message of another mailbox may have gone into.
Spoilt(b) == IF strayed \subseteq {b} THEN {} ELSE {LastEntry}

(* A process that comes back from msg_recv without an error has a message  *)
(* in its buffer that is in the mailbox no more and that no other receiver *)
(* has got, whatever went astray (ksyscall_msg_recv, ksyscall_msg_send).   *)
RecvMeansMail ==
  \A b \in Mboxes :
    Answered(MSG_RECV, b) /\ eax[current] # Error /\ current \notin Spoilt(b) =>
      /\ inbox[current] \in 1 .. sent[b]
      /\ inbox[current] \notin Range(pending[b])
      /\ \A i \in Live \ ({current} \cup Spoilt(b)) :
           asked[i] = <<MSG_RECV, b>> /\ state[i] # "WAITING" => inbox[i] # inbox[current]

(* A call that reports an error has changed nothing: no half of it is left *)
(* behind ("-1 on error", syscall.h; the handlers of ksyscall.c).          *)
ErrorsChangeNothing ==
  [][kpc = "user" /\ kpc' = "keyboard" /\ system_time' = system_time
       /\ current' = current /\ eax'[current] = Error
     => UNCHANGED <<tableVars, schedVars, mutexVars, mboxVars>>]_kernelSysVars

(* "-1 on error, 0 on sucecss" (syscall.h:69 of mutex_lock, syscall.h:76   *)
(* of mutex_unlock).                                                       *)
LockCallsReturnZero ==
  \A m \in Mutexes, call \in {MUTEX_LOCK, MUTEX_UNLOCK} :
    Answered(call, m) => eax[current] \in {Error, 0}

=============================================================================
