# potatOS in TLA+

potatOS is a small preemptive kernel for one i386 CPU: round-robin scheduling of
at most 24 processes, sleep, mutexes, mailboxes, a timer interrupt and a system
call interrupt. This directory holds TLA+ models of it, the TLC configurations
that check them, and proofs checked by TLAPS.

## 1. Inventory

The kernel is entered through interrupt gates with interrupts off and leaves by a
context switch. One entry is one fixed sequence (`kernel_run`): save the trapframe,
run the handler of the timer or of the system call, poll the keyboard once, call
`scheduler_run`, switch to `current`. So there is no concurrency inside the kernel;
what is hard is the *order of entries* - a process may be preempted between any two
of its instructions, any handler may have changed `current` before the keyboard or
the scheduler looks at it, and process ids and table entries stay behind in queues
and pointers after the process they belonged to is gone.

| Component | State | Operations | Talks to |
|---|---|---|---|
| queues (`queue.c`) | ring of 64 ints, head, tail, size | `queue_init`, `queue_in`, `queue_out` | used by all below |
| process table (`kproc.c`) | `proc_table`, `proc_queue` (free entries), `next_pid` | `kproc_exec`, `kproc_exit` | scheduler, keyboard, system calls |
| scheduler (`scheduler.c`) | `run_queue` (ids), `current`, `active_time`, `wake_time` | `scheduler_run`, `_add`, `_remove` | process table |
| kernel entry (`kernel.c`, `kisr.c`, `*.S`) | `system_time`, trapframes | `kernel_init`, `kernel_run`, `kisr_timer`, `kisr_syscall`, keys n p c x q s b | everything |
| system calls (`ksyscall.c`) | none of its own | 13 calls | process table, scheduler, mutexes, mailboxes |
| mutexes (`kmutex.c`) | `mutexes[16]`: allocated, lock_count, owner, wait_queue; `mutex_queue` | alloc, free, lock, unlock | scheduler (block, wake) |
| mailboxes (`mbox.c`, `ksyscall.c`) | `mailboxes[10]`: ring of 64 messages, wait_queue | `mbox_queue_in/out`, `msg_send`, `msg_recv` | scheduler, receiver's buffer |
| user side (`syscall.c`, `prog.c`, `spin_lock.c`) | mutex ids, spin locks, message counters | programs started at boot or by key | system calls |
| wrappers (`syscall.c`) | registers | 13 wrappers of inline assembly | compiler, kernel entry |
| devices (`interrupts.c`, `vga.c`) | PIC masks, video memory, cursor of a string | enable, disable, dismiss; print | kernel entry |

What makes each correct:

* queues: a bounded FIFO; nothing lost or reordered; -1 exactly when full or empty.
* process table: `proc_queue` is exactly the set of free entries; ids identify
  processes; an id never means two processes.
* scheduler: a process is on the run queue exactly when it is ready, once; one ACTIVE
  process; bounded slices; sleepers neither early nor late; round robin is first-come;
  the assertions (`panic`) never fire.
* mutexes: one holder; every blocked process is in exactly one wait queue; count,
  owner and queue agree; ids are given out once; hand-over in order.
* mailboxes: messages complete and in order; receivers served in order; nobody waits
  while there is mail; the id of a receiver that has exited disturbs nobody (it does).
* the composition: a process waits in one place; a result tells the caller what has
  happened to it; an error has changed nothing.
* progress: every ready process runs again, every sleeper wakes, `prog_test` ends,
  a consumer in line is served.
* devices and wrappers: a call for one interrupt line leaves the others alone, and nothing
  keeps out the timer; sleeps are
  exact as long as the clock fits an int; strings stay on the screen; arguments reach the
  kernel wherever the compiler has put them.

PROJECT.json lists every hazard found in the code with its line.

## 2. Modules

| Module | Models | Kind |
|---|---|---|
| `Fifo` | what `queue.h` promises | abstract specification |
| `Queue` | `queue.c`, array and indices | state machine, refines `Fifo` |
| `RoundRobin` | what the scheduler promises | abstract specification with fairness, liveness |
| `KProc` | `kproc.c`, `scheduler.c`, `kernel_run`, `kisr.c`, process calls of `ksyscall.c` | state machine, refines `RoundRobin` |
| `LockService` | what the mutexes promise; extends `RoundRobin` | abstract specification |
| `KMutex` | `kmutex.c` and its calls; extends `KProc` | state machine, refines `LockService` |
| `Mbox` | `mbox.c` | operators on a mailbox value |
| `MailService` | what the mailboxes promise; extends `RoundRobin` | abstract specification |
| `KMbox` | `msg_send`, `msg_recv`; extends `KProc` and `Mbox` | state machine, refines `MailService` |
| `MailTimes` | sender and time fields of a message; extends `KMbox` | state machine |
| `Kernel` | all calls by number, their results in `eax`; extends `KMutex` and `KMbox` | composition |
| `Programs` | `prog_init`, the programs it starts, `prog_test`, `spin_lock.c`; extends `LockService` | composition with fairness |
| `MailPrograms` | `prog_producer`, `prog_consumer`; extends `MailService` | composition with fairness |
| `Pic` | masks and end of interrupt, `interrupts.c` | state machine |
| `Clock` | `system_time`, `wake_time` and `sys_get_time` in machine words | state machine |
| `Vga` | `vga.c` | state machine |
| `SyscallRegs` | the assembly of `syscall.c` | state machine |
| `SeqFacts` | | lemmas on sequences without repetition |
| `KProcProofs` | | proofs about `KProc`, and that it implements `RoundRobin` |
| `KMutexProofs` | | proofs about `KMutex`, and that it implements `LockService`; extends `KProcProofs` |
| `KMboxProofs` | | proofs about `KMbox` and `MailTimes`; extends `KProcProofs` |
| `KernelProofs` | | proofs about `Kernel`; extends the two above |
| `ProgramProofs`, `MailProgramProofs` | | proofs about `Programs` and `MailPrograms` |
| `DeviceProofs` | | proofs about `Queue`, `Pic`, `Clock`, `SyscallRegs` and `Vga` |
| `MC...` | | instances for TLC; `MCDevices` joins `Pic`, `Clock`, `Vga` and `SyscallRegs` |

The chain of abstractions is what makes programs and progress checkable. `KProc` has a
clock and process ids that only grow; `RoundRobin` has neither, so its state space is
finite. `KProc`, `KMutex` and `KMbox` are shown to implement `RoundRobin`,
`LockService` and `MailService`, and the programs run on those.

### Correspondence

*Queues as sequences.* `Queue` shows that the array implements a FIFO of capacity
`QUEUE_SIZE`, so the other modules hold queues as sequences with `QueueIn` refusing an
item at that capacity.

*Kernel entry.* The variable `kpc` is the place in `kernel_run`: "user" (a process
runs), "keyboard" (the handler is done), "schedule" (the key is handled),
"halted" (a `panic`, or `q`). A handler is one action because nothing can
interrupt it. `Timer` is `kisr_timer`; `Syscall...`, `kmutex_...` and
`ksyscall_msg_...` are the calls; `KeyNone`, `KeyExec` (n, p, c), `KeyExit` (x) and
`KeyQuit` (q) are the keyboard switch; `SchedulerRun` is `scheduler_run` with every
`scheduler_add` it makes. Keys may be pressed at any entry.

*Processes.* A process is its table entry: `pid`, `state`, `active_time` and
`wake_time` are functions on entries, `current` an entry or `NULL`. Searches by id find
the first entry with that id, cleared entries (id 0) included, as the loops do.
Processes make any call at any time. The idle task makes none.

*Panics.* `panic` prints and aborts, so `Continue` halts the model and records the
message in `fault`; `panic_warn` goes on. One panic takes a long history: receivers that exit
while they wait stay in the wait queue of the mailbox, and when they fill it the next receiver that
has to wait panics (`ksyscall.c:377`). One fault stands for undefined
behaviour, after which the model stops because nothing is known: indexing `mutexes[MUTEX_MAX]`.

*Receivers that exit while they wait.* The key `x` may end a receiver in the kernel entry in which it
begins to wait. Its id stays in the wait queue. The next `msg_send` takes the id, searches the table in
vain, and goes on with the last entry, where the loop ended (`ksyscall.c:323-341`). This is
`Misdeliver` in `KMbox`. What `ecx` holds in that entry's trapframe is anything: NULL, and the
message stays in the mailbox (`Keep`, the test of `mbox_queue_out`); or an address, and the oldest message
is lost or, if a process lives in the last entry, may land in its buffer (`Stray`). Whoever waits behind goes
on waiting. The system does not stop. The memory that such a copy overwrites is not modelled otherwise.

*Ghosts.* `holders` (KMutex: who has locked and not yet unlocked), `sent`,
`pending` and `strayed` (KMbox: messages sent, those not yet taken out, and the mailboxes of which one went
astray), `asked` (Kernel), `received` and `lost` (MailPrograms), `wanted` (Pic), `elapsed` and `due` (Clock), `shown` (Vga) and `before`
(SyscallRegs) are not in the code. Actions read them only where a bound or an
assumption on the environment is stated (`sent` is bounded, `WithinRange`).

*RoundRobin.* `queue` lists entries instead of ids, `used` is `active_time`, `sleeping`
the ticks left to `wake_time`. `Schedule` allows any order of those that wake in the
same step (the code takes table order). `Block` and `Unblock` are the two things a
mutex or a mailbox does to the scheduler. `SchedulesRoundRobin` gives the mapping.

*LockService, MailService.* A mutex is a line of entries with the holder in front; a
mailbox is a sequence of messages and a line of receivers. As in the code, a holder is an
entry: whoever gets the entry of a killed holder stands in its place. A receiver that exits while
it waits leaves its place in the line empty (`Quit`), and the send that meets an empty place is
`Misdeliver`, as above. A full mailbox of `MailService` is promised nothing, so `Send` is for one with
room, and `KMbox` implements it only while there is room (`RoomOnly`).

*MailTimes.* `fields[b][c]` is what cell c of the ring of mailbox b holds of sender and sending time. `msg_send`
writes the cell at `tail`, and a message that is taken out leaves the cell at `head` cleared, by
the positions that `KMbox` moves; on overflow a cell in use is overwritten, as in the code.

*Kernel.* `Enter(number, arg, result, Handler)` is `kisr_syscall`: the handler acts, and
(`Records`) the result goes to `eax` of the caller if `current` is not `NULL` afterwards; otherwise the
caller finds its call number there. All thirteen calls are dispatched.

*Programs.* Each label in `pc` is a place between two instructions that matter, and a tick
may come at any of them. What depends on an id's parity or on the time of day is chosen
freely. Three assumptions on the user are parameters: `EarlyKeys` (keys in the first
five seconds), `ExitAt` (where `x` may hit), `Started` (which program a key starts).

*Devices.* A function of `interrupts.c` or `vga.c` runs with interrupts off and is one step,
but a string is printed one character per step. `Interrupt` and `EndOfInterrupt` are the
hardware and external. `irq_handler` knows the timer and the system call; an interrupt of any other line
that somebody enabled halts the kernel, and only the timer's is ever dismissed. `Clock` wraps ints beyond `INT_MAX` as the build does. `SyscallRegs`
has one step per `movl`; where the compiler puts an operand (`Places`) is chosen at the
call among the registers the wrapper does not declare as changed.

*Left out.* Names, stacks, `cpu_time`, `start_time`, the display of `kernel_stats`, and the
data of messages, which are told apart by their numbers. The panic for an unknown call number
(`ksyscall.c:90`): every wrapper of `syscall.c` passes one of the thirteen numbers. Parameters that fail the NULL checks count
as calls that change nothing (`SyscallQuery`).

## 3. Runs

| Run | Expect | Shows |
|---|---|---|
| `queue` | pass | the ring refines the bounded FIFO, indices and zeroed cells agree |
| `kproc` | pass | table, run queue, slices, sleep, no assertion but the one of `kproc_exit_none`; implements `RoundRobin` |
| `kmutex` | pass | mutual exclusion, no lost waiter, ids given out once; implements `LockService` |
| `kmbox` | pass | messages and their fields in order in the ring, none waits for mail that is there; implements `MailService`, exits of waiting receivers included |
| `kernel` | pass | one place to wait, results that mean something, errors that change nothing |
| `round_robin` | pass | `ReadyRuns`, `SleeperRuns`: no starvation, under fairness |
| `programs` | pass | `prog_test` is mutually exclusive by mutex, and ends |
| `mail_programs` | pass | a producer's words once each and in order at two consumers, none lost but at an empty place in the line; the first in line is served |
| `devices` | pass | lines as asked, ticks get in, exact sleeps, strings on the screen, arguments that arrive |
| `kproc_exit_none` | violation | `x` right after a call that unscheduled its caller: `kproc_exit(NULL)` panics |
| `kmbox_stale_receiver` | violation | a send uses up the place of a receiver that exited, and the one behind it sleeps on |
| `programs_spin` | violation | a tick between test and assignment lets two processes past `spin_lock` |

Bounds, and why they suffice:

* `MCQueue`: 4 cells, 3 items. Every fill level at every head position, every wrap.
* `MCKProc`: 4 table entries and a run queue of 4 (the code has 24 and 64), slices of 2
  ticks, seconds of 2 ticks, sleeps of 0 and 1 seconds. `MaxTime` 5 lets a slice and a sleep
  end in every relative order; `MaxPid` 6 fills the table and uses entries
  again. Three processes beside the idle task are the least for which queue order matters.
* `MCKMutex`: two mutexes; one holder and two waiters; slices of one tick, so that a
  process can be preempted between any two calls. Four processes share three entries,
  so one entry changes hands. Sleeping adds nothing to these properties, so `SleepSecs`
  is empty. The arguments include -1 and `MUTEX_MAX`.
* `MCKMbox`: one mailbox of two cells and three messages, so that the ring wraps; two
  receivers and a sender, so that one can exit in line before the other; `x` at any entry, with a
  live process in the last table entry and without; seconds of two ticks.
* `MCKernel`: one mutex and one mailbox, so that a process may wait for either while others
  use both; two messages.
* `MCRoundRobin`: the state is finite, and nothing but the number of entries, the slice and the
  longest sleep is bounded. Exec and exit go on for ever.
* `MCPrograms`: two entries for `prog_test` and `prog_init`'s two programs together, both
  groups, both locks, two announced rounds. Entries are used again without limit.
* `MCMailPrograms`: two consumers, then a producer of two words. The least that lets two receivers
  compete for the words of one sender, and one of them be killed in front of the other. Two words
  never fill the mailbox; in the code seven producers of one parity, the most that keep it from
  overflowing whatever the consumers do, send 63 to one of 64 places.
* `MCDevices`: four parts that share nothing; each behaviour exercises one, so the state
  spaces add up. Six-bit ints overflow after 31 ticks, `LastTick` is 31. Screen, strings and
  lines are listed at the top of the module.
* `AllocatedOnly` (KMutex), `RoomOnly` (KMbox), `EarlyKeys` and `ExitAt` (Programs), `DisableTwice`
  (Pic), `WithinRange` (Clock) and `OperandRegs` (SyscallRegs) are assumptions on the
  environment, not on the kernel: with them the passing runs hold; without them the
  configurations below show what happens. `prog.c` does not keep all of them:
  `prog_test` started in the first five seconds locks id 0 before `prog_init` allocates it,
  and many producers with ids of one parity can fill a mailbox.
* In `KMutex`, `KMbox` and `Kernel` the keys include `x`, so that owners and receivers may die at
  any entry. In `MCPrograms` `x` hits only processes outside the critical section (a killed
  holder never unlocks, and then `TestEnds` fails for a reason that is no secret), in
  `MCMailPrograms` only consumers.

`CHECK_DEADLOCK FALSE` is set where the kernel may stop: after a panic, after `q`, and
when `MaxTime` (or `LastTick`) is used up.

Fairness (runs `round_robin`, `programs`, `mail_programs`):

* `WF(Schedule)`: the kernel runs with interrupts off and has no loop that waits, so a kernel entry
  reaches its context switch.
* `SF(Tick)`: a tick that comes while interrupts are off stays latched in the interrupt
  controller and is delivered when they are on again, so that a process that calls the
  kernel all the time cannot keep the timer out; weak fairness would not say so, as `Tick` is
  disabled in every kernel entry.
* `SF(Program /\ running = t)`: a process that is given the CPU again and again executes
  its instructions; the next tick is a slice away. `prog_init` needs none.
* Nothing is assumed about keys, which may never come.

Every property of a passing run has a mutant: a changed definition (in the modules, named
`<definition>_<change>`) under which TLC must find the property violated.

### Further configurations

These run with `tlc -config <file> <module>` and are not listed as runs in PROJECT.json. Each
finds a counterexample: the code against its own words, or against an assumption of a passing
run and of a theorem.

| Configuration | Module | Violated | What it shows |
|---|---|---|---|
| `KMutexBounds.cfg` | `MCKMutex` | `LockInBounds` | `kmutex_lock(MUTEX_MAX)` leaves the table; "@return -1 on error, otherwise the current lock count" (`kmutex.h:46`) |
| `KMutexKilledOwner.cfg` | `MCKMutex` | `UnlockByHolder` | ownership is a table entry: its next process unlocks what it never locked; "Only the owner may unlock the mutex" (`kmutex.c:179`) |
| `KMutexUnallocated.cfg` | `MCKMutex` | `MutualExclusion` | lock before alloc: two holders; "If the mutex is already locked, process will block/wait" (`syscall.c:163`) |
| `KMboxOverflow.cfg` | `MCKMbox` | `MailIntact` | a full mailbox overwrites its oldest message; "Return an error if the mailbox is full" (`mbox.c:44`) |
| `KernelReturns.cfg` | `MCKernel` | `LockCallsReturnZero` | a `mutex_lock` that blocked returns its call number 9, `mutex_unlock` a count; "-1 on error, 0 on sucecss" (`syscall.h:69`, `:76`) |
| `MailTimesReceived.cfg` | `MCKMbox` | `ReceivedInSeconds` | the time of receipt is in ticks, and for a receiver that waited goes to the sender's copy; "(in seconds)" (`ksyscall.c:340`, `:384`) |
| `ProgramsEarly.cfg` | `MCPrograms` | `MutexExclusive` | `n` in the first five seconds: `mutex_alloc` clears the mutex that `prog_test` holds (`prog.c:95`) |
| `ProgramsRounds.cfg` | `MCPrograms` | `RoundsAnnounced` | one iteration more than "starting loop for %d iterations" (`prog.c:159`) says |
| `PicDisableTwice.cfg` | `MCDevices` | `LinesAsAsked` | `irq_disable` toggles: a second call enables; "Disables the specified IRQ on the PIC" (`interrupts.c:130`) |
| `ClockSleep.cfg` | `MCDevices` | `SleepExact` | a sleep across the overflow is over at once; "number of seconds the process should sleep" (`syscall.h:45`) |
| `VgaLine.cfg` | `MCDevices` | `CellsReadBack` | a character above 127 borrows from the attribute; "Set the two bytes (attribute + character) in the video memory" (`vga.c:26`) |
| `SyscallRegsMessages.cfg` | `MCDevices` | `ArgumentsArrive` | `msg_send` and `msg_recv` lose a second argument that the compiler keeps in `ebx`; "Pointer to the message data structure" (`syscall.c:202`) |

`KMboxStaleReceiver.cfg`, a listed run, also shows the panic of `ksyscall.c:377` when its property is replaced by
`INVARIANT WaitQueueRoom` and `PROC_MAX` is 3, `QUEUE_SIZE` 4 and `MaxPid` 8: the ids of four receivers that exited
fill a wait queue longer than the process table, and the next receiver stops the kernel.

## 4. Findings

Three disagreements between the code and its own words are listed runs: `x` after an
unscheduling call; the send to a receiver that has exited; the spin lock that is not one.
PROJECT.json quotes the line and the text for each. The table above has the others.

## 5. Proofs

Every theorem holds for all values of the constants that satisfy the `ASSUME` of its module:
any number of processes, mutexes, mailboxes, messages, ticks and slices. Of the 40 properties of
the passing runs 36 are theorems; the other four are named at the end of this section. Where a
theorem has a hypothesis, it is the assumption under which the run passes too; the configurations
of section 3 show the property failing without it.

| Hypothesis | It says | Without it |
|---|---|---|
| `AllocatedOnly` | callers lock, unlock and free only ids that are allocated | `KMutexUnallocated.cfg` |
| `RoomOnly` | nobody sends to a full mailbox (`MailIntact`, `MailChronological`, `MailServes`, `RecvMeansMail`) | `KMboxOverflow.cfg` |
| `KeysLate`, `HoldersSpared` | `n` is pressed once `prog_init` is through; `x` hits no holder of a mutex | `ProgramsEarly.cfg` for the first |
| `~DisableTwice` | `irq_disable` is called for enabled lines | `PicDisableTwice.cfg` |
| `WithinRange` | the sleeps asked for end before the clock overflows | `ClockSleep.cfg` |
| `EbxSpared` | no operand of a wrapper with two arguments is kept in `ebx` | `SyscallRegsMessages.cfg` |
| `PlainSingles` | no single character above 127 is printed | `VgaLine.cfg` |

Each is a constant of the specification or a condition on constants. The same specification covers the
callers that break it, and the parts of the invariants that do not need it are proved for
those callers as well.

**`KProcProofs`.** All eight invariants and the three action properties of the run `kproc`. They
are not inductive one by one; the invariant that is, `KernelInv`, joins

* `TableInv`: `FreeEntriesExact`, `PidsUnique`, and `ClearedHaveNoPid` (a cleared entry has id 0),
  without which a search by id could stop at an entry that is free;
* `RunQueueExact`, which depends on `PidsUnique` (an id not on the queue stays off it when
  another process is appended) and implies `QueueRoom`: while some entry is not ready the
  queue, which has no repetition, is shorter than the table. That is why `scheduler_add`
  cannot fail;
* `CurrentInv`: `OneActive`, and `CurrentNotReady` (a current process is ACTIVE or WAITING, so
  never on the run queue), without which `scheduler_remove` in `kproc_exit` could reorder
  the queue. It allows WAITING, which `KProc` alone never reaches, because the blocking
  `msg_recv` does;
* `SliceLeft`, stronger than `SliceBounded`: only the running process, and only between
  the tick and the scheduler, may have used up its slice;
* `SleepersOnTime`.

There is one lemma per action, among them `ExecStep`, `ExitStep` and `SchedulerStep`, and two for
what the modules above add: `BlockStep` (the caller becomes WAITING) and `UnblockStep` (a waiting
process joins the run queue). `ReadyQueueFacts` is the core of the scheduler's: the
processes queued before, the one that loses the CPU and the sleepers share no process, so the
joined queue has no repetition and fits. `SchedulerFinds` shows that the search for the next
process succeeds. For the action properties `IdleAlone` is needed as well: the idle task never
sleeps, and is on the run queue at boot only.

`SchedulesRR` is the refinement of `RoundRobin`. The mapping turns a queue of ids into one of
entries by the search of the code (`EntryOf`), so it is `PidsUnique` and `RunQueueExact` that
make it meaningful: an id on the queue leads to its own entry, and goes on doing so
(`EntriesKept`) when other entries are filled or cleared. Each action has a lemma that names the
abstract step (`TimerMaps`, `SleepMaps`, `ExecMaps`, `ExitMaps`, `ScheduleMaps`...); `WokenMaps`
and `ReadyQueueMaps` show that the order in which the code wakes sleepers is one `Schedule` allows.

**`KMutexProofs`.** `MutexInv` is `KernelInv` and, for any callers, `LockCountExact` (a count is the
owner and those that wait), `WaitersKnown` (the wait queues list processes that wait, each in one
place and once) and `HoldersKnown` (holders are ids that have been given out, so a new process
holds nothing). For callers that keep to ids they were given it adds `PoolInv`: an id is allocated or once in
the pool, a live holder is the owner, and an id in the pool is not in use. That last
one (`FreeUnused`) is what mutual exclusion rests on: `mutex_alloc` clears the mutex, and must
find nobody there. `LocksServeInLine` needs none of these hypotheses: the line of a mutex is its
owner and the entries of its wait queue, `LockCountExact` and `WaitersKnown` say that this is a line
without repetition, and an allocation of a mutex in use is the step `Clear` of `LockService`.

**`KMboxProofs`.** `MailInv` is `KernelInv`, `NoIdleMail`, `ReceiversKnown` (a listed id has been
given out, and if its process lives it waits; ids of receivers that exited may stay), and
`MailCounted`. While there is room it adds `RingsExact`: offset k from the head holds the
k-th message, and `tail` is the cell after the last, without which a message could be put
anywhere. One ring is dealt with on its own (`PutHolds`, `GetHolds`), including the two wraps.
These lemmas speak of any cells a ring may have (`PutKeeps`, `GetKeeps`), so that the times use them again:
`TimesInv` says that the cells from head to tail hold fields in the order of sending. It needs `RoomOnly`,
for a message put into a full ring overwrites a cell in use, and that the clock does not run backwards,
and `time_sent` divides it by the same number (`SecondsGrow`).
`NoIdleMail` and `MailCounted` except the mailboxes of which a message strayed: there one may wait for
mail that is there. `MisdeliverStep` has no search to rely on, only that nobody has the id.
`MailServedInLine` is the refinement of `MailService`. The line of a mailbox is its wait queue with
every id replaced by the entry that has it, or by `NULL` when none has (`Places`). An id is never given out
again (`PidsUnique`), so a place that is empty stays empty and one that is not stays where it is until its
process exits: that is why every step but an exit leaves the lines alone (`OthersMap`), and an exit
empties the places of the process that exits and no other. A send meets a live receiver
(`DeliverMaps`) or an empty place (`MisdeliverMaps`), and is `HandOver` or `Misdeliver` in the abstraction;
neither is hidden behind a stutter or a stop.

**`KernelProofs`.** `WaitInv` takes the two invariants together and says that whoever stands in no
queue of a mutex waits for mail and the reverse. Each kind of call promises the other kind what it
relies on (`CallKeeps`, `MailKeeps`): it changes no id, and those who wait elsewhere go on
waiting. `AnswerInv` carries the meaning of a result from the call to the moment the caller runs
again: a process asked for a mutex owns it or waits in its queue, a process that asked
for mail waits, or has a message of its own that is no longer in the mailbox. In between other
processes run, the mutex is handed over, and entries are used again. A message of another
mailbox that went astray may overwrite the buffer of the process in the last entry, so `RecvMeansMail`
excepts that one (`Spoilt`), and no other.

**`ProgramProofs`, `MailProgramProofs`.** `CriticalAlone` rests on `LineInv`: the line at a mutex is
the processes of the group between their `mutex_lock` and `mutex_unlock`, and all but the first
of them wait. `ProgramInv` says that nobody runs `prog_test` before `prog_init` has
allocated the mutexes; `TurnInv` that only an ACTIVE process executes.
`WordsArriveInOrder` rests on what `MailService` says of a mailbox with room, exits in line included. The
words that a mailbox holds of a producer are those behind the ones that left it, in order (`WordsIn`), all in one
mailbox (`OneBox`), up to the last one sent (`SenderInv`). A word that left was received or lost (`Gone`), so
one argument (`WordPut`, `WordTaken`) serves the send that hands over, the one that loses a word, the one
that misdelivers it, and the receive. That only a send that meets an empty place loses a word is then read off the
step. Nothing about who waits is needed.

**`DeviceProofs`.** Five parts that share nothing. The queue: `QueueInvariant` (`RingConsistent` is
needed in the refinement because a removal resets its cell, and because `tail` must be the cell
after the last item), with which `QueueImplementsFifo` maps each call to the same call of `Fifo`, the contents
being the `size` cells from `head` on. `LinesTrue` and `TimerGetsIn`: no line is in service but the timer's, and that only
until `kisr_timer` has dismissed it (`ServiceExact`), and no call for another line masks the timer's
(`TimerAsAsked`, also when a line is disabled twice).
`SleepsExact`, for every width of int: `system_time` is the number of ticks up to `INT_MAX`, and a sleeper's
`wake_time` is the tick it is due at; `TimeTold` says the same of `sys_get_time`.
`ArgumentsIn`: at each load the operands still to be loaded are where the compiler put them
(`OperandsLeft`). `DeclaredOnly`: a wrapper with at most one argument changes no register that it
does not declare; for those with two this is false. `CellsTrue` and `StringsAdvance`, for every screen size.

**`SeqFacts`** holds what these rest on: `Append`, `Tail` and `\o` keep a sequence free of
repetition, and such a sequence is no longer than the set it draws from.

Only model-checked:

* `ReadyRuns`, `SleeperRuns`, `TestEnds` and `FirstWaiterServed`: liveness under fairness is out of the
  prover's reach;
* the violations, which are counterexamples anyway.

## 6. Not modelled, and the plan

Left to state and prove is what stands above the refinements: one specification of lines and
mailboxes over the same round robin, which `Kernel` implements (each half is proved for its own calls),
and the mutual exclusion of `Programs` from weaker hypotheses on the keys than `KeysLate`.

Not modelled:

* what lies at the address that `msg_send` copies to when the receiver has exited, other than the buffer of the
  process in the last table entry;
* the assembly that saves and restores registers (`kernel_entry.S`, `kisr_entry.S`) beyond
  what `Trap` says of it, and the layout of the trapframe: register contents of the
  kernel itself have no state that a property here tells apart;
* `interrupts_init`'s filling of the gates and `kernel_init`'s clearing of memory, which happen once
  before anything else;
* `kernel_stats`, `kernel_dump` and the texts printed: formatting only;
* `mbox` and queue contents at their real sizes: 64 cells add no case to those of 2 and 4;
* a compiler that reorders or caches the unprotected accesses to `lock` in `spin_lock`: the model has
  the order of the source.
