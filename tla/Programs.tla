------------------------------- MODULE Programs ------------------------------
(***************************************************************************)
(* The programs of prog.c that use locks, on the scheduler and the mutexes *)
(* of module LockService: prog_init, which allocates the mutexes after a   *)
(* sleep of five seconds, the programs it starts, and prog_test, which the *)
(* key 'n' starts.  A tick may come between any two steps of a program, so *)
(* the test and the assignment of spin_lock are separate steps.            *)
(*                                                                         *)
(* Times and process ids are left out: the choices prog_test makes by the  *)
(* parity of its id and of the time are free, and so are sleep times.      *)
(* sys_get_time, proc_get_pid and proc_get_name change nothing and enter   *)
(* the kernel only where a tick may.                                       *)
(*                                                                         *)
(* A definition <name>_<change> is a mutated form of <name> that some      *)
(* property refutes; the model does not use it.                            *)
(***************************************************************************)
EXTENDS LockService

CONSTANTS
  LockTypes,      \* the locks prog_test uses: "mutex", "spin"
  TestGroups,     \* the groups of the processes that run it: "odd", "even"
  Counts,         \* its numbers of iterations, three times 1 to 5 in the code
  InitPrograms,   \* what prog_init starts: "sleep forever", "delay forever"
  EarlyKeys,      \* whether keys may be pressed while prog_init starts up
  ExitAt          \* the steps at which the key 'x' may hit a program

Labels == {"boot", "alloc odd", "alloc even", "clear locks", "start programs",
           "sleep forever", "delay forever",
           "lock", "set", "critical", "unlock", "exit", "none"}

ASSUME ProgramsAssumption ==
  /\ Locks = {0, 1}
  /\ LockTypes \subseteq {"mutex", "spin"}
  /\ TestGroups \subseteq {"odd", "even"}
  /\ Counts \subseteq Nat
  /\ InitPrograms \in Seq({"sleep forever", "delay forever"})
  /\ EarlyKeys \in BOOLEAN
  /\ ExitAt \subseteq Labels

Groups == {"odd", "even"}

VARIABLES
  pc,         \* pc[t]: the next step of the program in entry t
  group,      \* group[t]: whether it uses the odd or the even locks
  lockType,   \* lockType[t]: lock_type
  count,      \* count[t]: the iterations it has announced
  rounds,     \* rounds[t]: the iterations it has begun
  started,    \* how many programs prog_init has started
  mutexId,    \* odd_mutex and even_mutex
  spin        \* odd_lock and even_lock

localVars == <<group, lockType, count, rounds>>
globalVars == <<mutexId, spin>>
programVars == <<pc, localVars, started, globalVars>>
progSysVars == <<lockServiceVars, programVars>>

-----------------------------------------------------------------------------

At(label) == phase = "user" /\ pc[running] = label

Goto(label) == pc' = [pc EXCEPT ![running] = label]

\* A step that makes no system call.
NoCall == UNCHANGED lockServiceVars

-----------------------------------------------------------------------------
(* prog_init, prog_forever_sleep and prog_forever_delay.                   *)

InitSleep ==
  /\ At("boot")
  /\ \E ticks \in SleepTicks : Sleep(ticks)
  /\ Goto("alloc odd")
  /\ UNCHANGED <<line, localVars, started, globalVars>>

\* Nobody else allocates mutexes, so the ids are 0 and 1.
InitAlloc(g, id, next) ==
  /\ Clear(id)
  /\ mutexId' = [mutexId EXCEPT ![g] = id]
  /\ Goto(next)
  /\ UNCHANGED <<localVars, started, spin>>

InitAllocOdd == At("alloc odd") /\ InitAlloc("odd", 0, "alloc even")

InitAllocEven == At("alloc even") /\ InitAlloc("even", 1, "clear locks")

InitClearLocks ==
  /\ At("clear locks")
  /\ spin' = [g \in Groups |-> 0]
  /\ Goto("start programs")
  /\ NoCall
  /\ UNCHANGED <<localVars, started, mutexId>>

Free == {t \in Tasks : status[t] = "NONE"}

\* proc_exec without a free entry fails, and prog_init goes on.
InitStart ==
  /\ At("start programs")
  /\ started < Len(InitPrograms)
  /\ started' = started + 1
  /\ IF Free = {}
     THEN Query /\ UNCHANGED pc
     ELSE \E t \in Free :
            Exec(t) /\ pc' = [pc EXCEPT ![t] = InitPrograms[started + 1]]
  /\ UNCHANGED <<line, localVars, globalVars>>

InitYield ==
  /\ At("start programs")
  /\ started = Len(InitPrograms)
  /\ Yield
  /\ UNCHANGED <<line, programVars>>

\* The other program it starts, prog_forever_delay, makes no call at all.
SleepForever ==
  /\ At("sleep forever")
  /\ \E ticks \in SleepTicks : Sleep(ticks)
  /\ UNCHANGED <<line, programVars>>

-----------------------------------------------------------------------------
(* prog_test.                                                              *)

MyMutex == mutexId[group[running]]

LockMutex ==
  /\ At("lock")
  /\ lockType[running] = "mutex"
  /\ Acquire(MyMutex)
  /\ Goto("critical")
  /\ UNCHANGED <<localVars, started, globalVars>>

\* spin_lock: the loop ends once the lock is seen free, ...
SpinTest ==
  /\ At("lock")
  /\ lockType[running] = "spin"
  /\ spin[group[running]] = 0
  /\ Goto("set")
  /\ NoCall
  /\ UNCHANGED <<localVars, started, globalVars>>

\* ... and the lock is set, free or not by now.
SpinSet ==
  /\ At("set")
  /\ spin' = [spin EXCEPT ![group[running]] = 1]
  /\ Goto("critical")
  /\ NoCall
  /\ UNCHANGED <<localVars, started, mutexId>>

CriticalSleep ==
  /\ At("critical")
  /\ \E ticks \in SleepTicks : Sleep(ticks)
  /\ Goto("unlock")
  /\ UNCHANGED <<line, localVars, started, globalVars>>

CriticalDelay ==
  /\ At("critical")
  /\ Goto("unlock")
  /\ NoCall
  /\ UNCHANGED <<localVars, started, globalVars>>

NextRound_NoDecrement == rounds' = rounds /\ Goto("lock")

\* "while (count-- >= 0)", with count counting from the announced number.
NextRound ==
  IF rounds[running] <= count[running]
  THEN Goto("lock") /\ rounds' = [rounds EXCEPT ![running] = @ + 1]
  ELSE Goto("exit") /\ UNCHANGED rounds

\* The call for a mutex that somebody else holds, or nobody, changes nothing.
UnlockMutex ==
  /\ At("unlock")
  /\ lockType[running] = "mutex"
  /\ \/ Release(MyMutex)
     \/ ~Holds(running, MyMutex) /\ Query /\ UNCHANGED line
  /\ NextRound
  /\ UNCHANGED <<group, lockType, count, started, globalVars>>

SpinUnlock ==
  /\ At("unlock")
  /\ lockType[running] = "spin"
  /\ spin' = [spin EXCEPT ![group[running]] = 0]
  /\ NextRound
  /\ NoCall
  /\ UNCHANGED <<group, lockType, count, started, mutexId>>

\* The variables of a program go with its stack.
Discard(t) ==
  /\ pc' = [pc EXCEPT ![t] = "none"]
  /\ group' = [group EXCEPT ![t] = "odd"]
  /\ lockType' = [lockType EXCEPT ![t] = "mutex"]
  /\ count' = [count EXCEPT ![t] = 0]
  /\ rounds' = [rounds EXCEPT ![t] = 0]

TestExit ==
  /\ At("exit")
  /\ Exit
  /\ Discard(running)
  /\ UNCHANGED <<line, started, globalVars>>

-----------------------------------------------------------------------------
(* Keys.                                                                   *)

InitDone == pc[InitTask] = "start programs" /\ started = Len(InitPrograms)

KeyTest(t, g, type, n) ==
  /\ phase = "kernel"
  /\ EarlyKeys \/ InitDone
  /\ Exec(t)
  /\ pc' = [pc EXCEPT ![t] = "lock"]
  /\ group' = [group EXCEPT ![t] = g]
  /\ lockType' = [lockType EXCEPT ![t] = type]
  /\ count' = [count EXCEPT ![t] = n]
  /\ rounds' = [rounds EXCEPT ![t] = 1]
  /\ UNCHANGED <<line, started, globalVars>>

\* A program at "critical" holds its lock by then, or waits for it.
KeyExit ==
  /\ phase = "kernel"
  /\ Exit
  /\ pc[running] \in ExitAt
  /\ Discard(running)
  /\ UNCHANGED <<line, started, globalVars>>

-----------------------------------------------------------------------------

ProgInit ==
  /\ LockInit
  /\ pc = [t \in Tasks |-> IF t = InitTask THEN "boot" ELSE "none"]
  /\ group = [t \in Tasks |-> "odd"]
  /\ lockType = [t \in Tasks |-> "mutex"]
  /\ count = [t \in Tasks |-> 0]
  /\ rounds = [t \in Tasks |-> 0]
  /\ started = 0
  /\ mutexId = [g \in Groups |-> 0]
  /\ spin = [g \in Groups |-> 0]

Program ==
  \/ InitSleep \/ InitAllocOdd \/ InitAllocEven \/ InitClearLocks \/ InitStart \/ InitYield
  \/ SleepForever
  \/ LockMutex \/ SpinTest \/ SpinSet
  \/ CriticalSleep \/ CriticalDelay
  \/ UnlockMutex \/ SpinUnlock
  \/ TestExit

Kernel ==
  \/ Tick /\ UNCHANGED <<line, programVars>>
  \/ Halt /\ UNCHANGED <<line, programVars>>
  \/ Schedule /\ UNCHANGED <<line, programVars>>

ProgNext ==
  \/ Program
  \/ Kernel
  \/ \E t \in Tasks, g \in TestGroups, type \in LockTypes, n \in Counts : KeyTest(t, g, type, n)
  \/ KeyExit

\* As in RRSpec; and a program that is given the CPU again and again does
\* execute its instructions.
ProgFairness ==
  /\ WF_progSysVars(Schedule /\ UNCHANGED <<line, programVars>>)
  /\ SF_progSysVars(Tick /\ UNCHANGED <<line, programVars>>)
  /\ \A t \in Reusable \ {InitTask} : SF_progSysVars(Program /\ running = t)

ProgSpec == ProgInit /\ [][ProgNext]_progSysVars /\ ProgFairness

-----------------------------------------------------------------------------
(* Properties.                                                             *)

InCritical(t, type) ==
  /\ pc[t] \in {"critical", "unlock"}
  /\ status[t] # "WAITING"
  /\ lockType[t] = type

(* "entered critical section" (prog.c:183): of the processes of a group    *)
(* that use its mutex, at most one is between mutex_lock and mutex_unlock. *)
MutexExclusive ==
  \A t, u \in Tasks :
    InCritical(t, "mutex") /\ InCritical(u, "mutex") /\ group[t] = group[u] => t = u

(* The same for the processes of a group that use its spin lock ("Once the *)
(* lock is unlocked, immediately lock it", spin_lock.c:24).                *)
SpinExclusive ==
  \A t, u \in Tasks :
    InCritical(t, "spin") /\ InCritical(u, "spin") /\ group[t] = group[u] => t = u

(* A prog_test that uses the mutex gets through its iterations and exits,  *)
(* next to programs that never give up the CPU or never stop calling.      *)
TestEnds ==
  \A t \in Reusable :
    pc[t] = "lock" /\ lockType[t] = "mutex" ~> pc[t] = "none" \/ Halted

(* "starting loop for %d iterations" (prog.c:159).                         *)
RoundsAnnounced == \A t \in Tasks : pc[t] = "exit" => rounds[t] = count[t]

=============================================================================
