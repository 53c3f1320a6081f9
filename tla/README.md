# A formal model of the SylixOS kernel

This directory holds TLA+ modules for the synchronisation core of SylixOS
(`libsylixos-armv7m`), the TLC configurations that check them on small
instances, and TLAPS proofs of the results that hold for every instance.
File names below are relative to `src/SylixOS/`.

## 1. The system

SylixOS is a preemptive real-time kernel with POSIX layers on top. One kernel
lock (`_K_slKernel`, taken by `__KERNEL_ENTER`) protects the scheduler; each
kernel object has a spin lock of its own. On the uniprocessor build
(`LW_CFG_SMP_EN` 0, the setting in `config/mp/mp_cfg.h`) a spin lock is
"interrupts off". There are no unit tests in the repository.

| Component | State | Operations | Interaction | What must hold |
|---|---|---|---|---|
| Event wait protocol (`kernel/core/_EventHighLevel.c`, `_EventQueue.c`, `kernel/inline/inlSearchEventQueue.h`) | wait fields of the TCB, wait lists of the event | queue, wake, time out, unlink | called by every blocking object; the tick, `kill()` and suspension change the same TCB under the kernel lock only | a thread is in one list, once, exactly while it waits; woken threads leave it |
| Counting semaphore (`kernel/interface/SemaphoreC*.c`) | counter, wait lists | pend, try, post, release, flush, clear, delete | wait protocol, signals, tick, interrupts | no unit lost or used twice; no waiter beside a unit; waits end |
| Binary semaphore (`SemaphoreB*.c`) | flag, message pointer | as above, with a message | wait protocol | one waiter per post; the message reaches it |
| Mutex (`SemaphoreM*.c`, `_ThreadSafeLib.c`) | owner, nesting, saved priority | pend, post, delete | wait protocol, priorities, thread deletion | one owner; boosted priorities come back; a safe owner is not deleted |
| Message queue (`MsgQueue*.c`, `_MsgQueueLib.c`) | ring of messages, waiters | send, receive, flush, clear, delete | wait protocol | no message lost, duplicated or reordered |
| Event set (`EventSet*.c`, `_EventSet*.c`) | flags, waiting nodes | get, set, try, delete | own wait list, tick, signals | a waiter leaves exactly when its condition held |
| Scheduler (`_Sched.c`, `_SchedCand.c`, `_CandTable.c`, `_ReadyRing.c`, `_ReadyTableLib.c`) | ready rings per priority, bitmap, candidate of each processor | add, remove, choose, rotate | every operation above | the candidate is ready and most urgent; bitmap and rings agree |
| Thread status (`_ThreadStatus.c`, `_ThreadMiscLib.c`, `ThreadSuspend.c`, ...) | status bits, nestings, request lists | suspend, resume, stop, continue, restart | IPI to the processor that runs the target | a change takes effect once, on a thread that is off its processor |
| Thread lifecycle (`Thread{Init,Start,Delete,Join,Detach,Restart,Cancel,Safe,Unsafe}.c`) | join lists, delete state | create, start, delete, join, detach, cancel | mutex safety, memory, hooks | a joiner is released once; a deleted TCB is used by nobody |
| Wake-up line, tick (`_WakeupLine.c`, `_TimeTick.c`, `kernel/include/k_scanlink.h`) | list of time differences, scan pointers | add, remove, scan | removal by other parties in the middle of the scan | everybody is woken at the tick it asked for |
| Timers (`Timer*.c`, `_ITimerThread.c`) | wake-up line of timers | start, cancel, reset, scan | call-backs that start or cancel timers | as above; a cancelled timer does not fire |
| Job queue, exception thread (`_JobQueue.c`, `system/excLib`) | ring of jobs | add, run | interrupt handlers to a thread | each accepted job runs once, in order |
| Spin locks, IPI (`_SmpSpinlock.c`, `_SmpIpi.c`, `arch/arm/mpcore`) | tickets, owner, pending calls | lock, unlock, call | every processor | mutual exclusion, turn order, synchronous calls return |
| Signals (`system/signal`) | pending sets, queues, frames | kill, queue, mask, wait | wait protocol, thread status | a queued signal is delivered once; masks come back |
| Memory (`kernel/core/_HeapLib.c`, `_PartitionLib.c`, `kernel/vmm`) | free lists, page trees | allocate, free | semaphores of the heap | blocks do not overlap, neighbours are joined |
| Rate-monotonic (`Rms*.c`, `_RmsLib.c`), coroutines | period state | period, cancel | wake-up line | periods do not drift |
| I/O system, devices, select, epoll, log, hot-plug, power management (`system/`) | descriptor tables, lists | open, close, read, ... | semaphores, job queues | reference counts |
| Thread pool, POSIX layer (`system/threadpool`, `posix/`) | maps of POSIX objects to kernel objects | pthread, sem, mq, aio | all of the above | POSIX rules |
| File systems, network, shell, loader, debugger, GUI, IPC, bundled applications (`fs`, `net`, `shell`, `loader`, `debug`, `gui`, `mosipc`, `appl`, ...) | | | | |
| Architecture and configuration (`arch`, `config`, `lib`, `include`) | | context switch, caches, C library | | |

Hard behaviour: two lock domains (object and kernel) that different parties take
in part; interrupts let in inside loops; time-outs that are noticed later than
they happen; signals that run a handler on a waiting thread's stack; options
fixed at compile time that change who can interleave with whom.

## 2. The plan

| Step | Modules | State |
|---|---|---|
| 1 | `EventWait`, `SemaphoreC`, abstract `CountingSemaphore`; proofs | done |
| 2 | `SemaphoreM` over `EventWait`: ownership, nesting, inheritance and ceiling, safe mode and thread deletion; proofs | done |
| 3 | `WakeupLine` (differences, removals in the middle of a scan), `Timers` on it, abstract `TimerService`; proofs | done |
| 4 | `MsgQueue` over `EventWait`, abstract `MessageChannel`; proofs | done |
| 4b | `SemaphoreB` with its message, and `SemaphorePostPend` | open |
| 5 | `CandTable` and `Scheduler`: ready table, candidates, locks, interrupts, processors that come and go, requests to other processors | done |
| 6 | `ThreadLife`: join, detach, deletion of a running thread (WDEATH), restart; delays of threads on the wake-up line | open |
| 7 | `EventSet`, `JobQueue`, `SpinLock`, inter-processor calls, the signal queue | open |

`SemaphoreC`, `SemaphoreM` and `MsgQueue` EXTEND `EventWait`; `Timers` EXTENDS `WakeupLine`, which
the delays of step 6 will use as well; `Scheduler` EXTENDS `CandTable`. Abstract specifications:
`CountingSemaphore`, `TimerService` and `MessageChannel`; a bag of accepted jobs (7) is planned.

The configurations are few: one instance answers several questions where its options and
calls allow, and an option that a theorem covers for every value of the constants
(section 5) has no run of its own.

Theorem to come: `QueueConsistent` of the two semaphores with signals, on a uniprocessor.

## 3. The modules and the code

**`EventWait`** holds what the blocking objects share. State: the wait fields of
every TCB (`status` is `TCB_usStatus`, `waitTimeOut` is `TCB_ucWaitTimeout`,
`peventPtr` is `TCB_peventPtr`, `ppringList` is `TCB_ppringPriorityQueue`, `schedRet` is
`TCB_iSchedRet`) and the wait lists of every event. Its operators are the bodies of
`_EventHighLevel.c`, `_EventQueue.c` (the insertion loop included, as it is
written), `_ThreadTick`, `__sigMakeReady`, `kill()`, `__sigReturn`,
`API_ThreadSuspend`, `API_ThreadResume` and `API_ThreadSetPriority`. The switches `SMP_EN`,
`SIGNAL_EN`, `SUSPEND_EN` and `CHANGE_PRIO_EN` are constants: the first two are
`LW_CFG_SMP_EN` and `LW_CFG_SIGNAL_EN`, the others say what the application uses.

**`SemaphoreC`** is the counting semaphore. A thread in `API_SemaphoreCPend` has a
program counter (`pc`) that changes where the code gives its locks up: it blocks,
it is awake after `__KERNEL_EXIT_IRQ`, it has read the time-out flag without a lock
and takes the locks again. `API_SemaphoreCPost` is one step but for the test of the
waiter count, which is made before the kernel lock is taken (`PostCheck`, then
`PostReady` or `PostFault`). Release, flush and delete are loops that let interrupts in
between two threads (`op`, `left`); `PostNested` is an interrupt handler that posts in
that window. `CountingSemaphore` is what the semaphore promises: units, threads
that ask, threads that were let through.

**`SemaphoreM`** is the mutex. Pend and post hold both locks from beginning to
`__KERNEL_EXIT`, so each is one step; entering and leaving the safe mode
(`_ThreadSafeInternal`, `_ThreadUnsafeInternal`) follows as a step of its own, and so does
the end of `API_SemaphoreMDelete`. `API_ThreadDelete` waits for the safe mode, or stops its
target and takes it out of the queue (`ThreadDelete`, `DeleteStop`, `DeleteGone`). `held` is a
history variable: what the callers believe, from the values that Pend returned.

**`WakeupLine`** is the list of time differences. A line is a record of the list,
the counters and the scan's pointer (`WU_plineOp`); its operators are `_WakeupAdd`,
`_WakeupDel`, `_WakeupStatus` and the pieces of the scan macros, split where the
caller's code goes between them.

**`Timers`** is the timers on one line. Every call holds the kernel lock throughout
and is one action; the scan is `Begin`, then `Fire` and `CallbackReturn` for every timer that has
expired, then `End`. In the phase "callback" the lock is free and every call may come,
from the call-back, another thread or an interrupt handler, any number of
times. The short window at the end of the loop body in which interrupts are let in
with the kernel lock held belongs to that phase: nothing happens between the two.
`API_TimerHTicks` is the same code with a rate of one. `owed` is a history
variable, the ticks every timer still has to wait by what its caller asked for.
`hurried` is another one: a cancel has lost ticks of the line, or a timer was put in
front of a scan that had ticks left to charge (`Overtaken`; section 7).
`TimerService` promises, without a list: every scan takes `rate` ticks from all
timers, a scan ends when nobody is due, and a timer fires less than one scan
before its time unless timers are hurried; at a rate of one tick only a cancel hurries them.

**`MsgQueue`** is the message queue. A receive has the same steps as a pend. The ring of
`_MsgQueueLib.c` is a function from slots to messages with the two pointers as slot numbers; an
urgent message moves the output pointer backwards. A send is `SendStore` when nobody waits;
otherwise it is `SendCheck` (the waiter test, with the spin lock only) and `SendReady` (with the
kernel lock), which writes into the buffer of the first waiter, cuts the message, or finds the
buffer too small: then that waiter is woken with `E2BIG` and the sender is put in `retry`, its way
back to `__re_send` (`Resend`, `ResendFails`). Broadcast, flush and delete are loops with interrupts
between two waiters. `API_MsgQueueReceive` is `API_MsgQueueReceiveEx` with `LW_OPTION_NOERROR`.
`grant` is a history variable: who ended a wait. `MessageChannel` promises: messages leave in order,
an urgent one in front; one that was handed to a receiver is what its call returns; a
call that succeeds without a message was let through by a flush, a deletion or a signal.

**`CandTable`** is the ready table as a record, with one operator per function of `_CandTable.c`,
`_ReadyRing.c`, `_ReadyTableLib.c` and `inlSchedSeek.h`. A ready thread is the candidate
of one processor or in one ring. A ring of the list library is a sequence that begins at
the header; a bitmap is the set of its bits. `AddToReadyRingSmp` and `AddToReadyRingUp` are the two
builds of `_CandTableTryAdd`.

**`Scheduler`** puts processors, interrupts and threads around it. A call of a thread takes the
kernel lock and changes the tables in one step (`Calling`); `KernelExit` follows, which is
`__kernelExit` with `_Schedule`: it serves the requests to the thread, chooses the candidate, tells
other processors, and switches. Interrupts of the same processor may come in between.
`InterEnter` and `InterExit` bracket an interrupt; `InterExitNested` is the case of an interrupt
within the kernel, which must not switch. `ipi` is the interrupt word (`LW_IPI_SCHED`,
`LW_IPI_DOWN`, `LW_IPI_STATUS_REQ`), `irq` the interrupts on their way. A request to suspend or stop
a thread that runs elsewhere (`_ThreadStatusChange`) puts the caller on the target's list
and to sleep; the target serves its list when it schedules (`StatusChangeCur`). `SetAffinity`
and `CpuDown`, `SendDown`, `CpuUp` and `SecondaryStart` are the calls of `ThreadAffinity.c` and
`CpuActive.c`. Abstractions: the status bits SUSPEND and STOP are derived from the nesting counters;
the time between the kernel lock and the interrupt mask in `_ThreadStatusChange` is not split;
inter-processor calls and jobs (`LW_IPI_CALL`) are left out; no processor holds an idle thread.

`MCSemaphoreC`, `MCSemaphoreM`, `MCTimers`, `MCMsgQueue` and `MCScheduler` define the options, sizes,
ceilings and symmetry sets of the configurations. Definitions whose name has a suffix
(`Count_NoLimit`) are faulty variants of the definition before the underscore, for
testing that the properties notice.

## 4. The runs

| Run | Instance | Checks |
|---|---|---|
| `SemC_smp_signal` | 2 threads, SMP with `kill()`, interruptible priority queue, changes of priority; 1.1 million states | `NoIdleUnit` |
| `SemC_live` | 2 threads, SMP, FIFO, suspension, all calls, counter 0..2, releases of 2, fair; 120 000 states | `TypeOK`, `QueueConsistent`, `ConservesUnits`, `TimedPendReturns`, `WokenPendReturns`, `DeleteWakesAll` |
| `SemC_order` | 3 threads of 3 priorities in one bucket | finds `MostUrgentFirst` violated |
| `SemM_live` | 2 threads, 1 recursive mutex with inheritance, a priority queue and DELETE_SAFE, deletions of mutex and threads, fair; 211 000 states | `TypeOK`, `FreeMutexUnwanted`, `SavedIsOwners`, `WaiterGetsMutex` |
| `SemM_two` | 2 threads, 2 DELETE_SAFE mutexes, timed waits, thread deletions, fair; 355 000 states | `SafeCountExact`, `Ownership`, `QueueConsistent`, `DeletionWaits`, `TimedPendReturns` |
| `SemM_signal` | 2 threads, ceiling, a priority queue, uniprocessor with signals, changes of priority, deletion; 1.2 million states | `QueueConsistent` |
| `Timer_scan` | 3 timers, rates 1 and 2, first ticks 1 and 4, period 2 or none, all calls; 362 000 states | `TypeOK`, `LineConsistent`, `FiresInTime` |
| `MsgQ_live` | 2 receivers, SMP, FIFO, 1 slot, buffers of 1 and 2 that must not cut, messages of 1 and 2, send, broadcast, flush, delete, fair; 61 000 states | `TypeOK`, `BuffersValid`, `NoIdleMessage`, `ImplementsChannel`, `FifoServesAll`, `ResendEnds` |
| `MsgQ_signal` | 2 receivers, uniprocessor with signals, 3 slots, a buffer that cuts, send, urgent send, try, clear, delete; 169 000 states | `NoIdleMessage`, `BuffersValid`, `ImplementsChannel` |
| `Sched_smp` | 2 processors, 3 threads and 2 idle threads, 3 priorities, suspension (nested twice), stops that clear an affinity; 1.07 million states | `TablesExact`, `NoLostReschedule`, `RequestsArrive`, `RequestsCounted` |
| `Sched_cpus` | 2 processors, 2 threads and 2 idle threads, affinities, a processor that goes down and comes up, scheduler locks; 975 000 states | `TablesExact`, `RunsItsCandidate`, `HeldByLiveCpu` |
| `Sched_up` | 1 processor, 2 threads of policy RR and the idle thread, ticks, yields, locks, suspension also from interrupts, fair; 33 000 states | `TypeOK`, `NoLostReschedule`, `PeersRotate`, `UrgentRuns` |

**Bounds.** Two threads are enough for every race between a waiter and the thread that
wakes, times out, signals or deletes it; a third one is there where the place in the
queue matters (`SemC_order`) and where two threads ask something of a third (`Sched_smp`). There the one may ask
for a suspension and the other for a stop, and both requests be served at once. The run has a next-state relation of its own
(`SmpSpec` in `MCScheduler`), the disjuncts of `Next` that suspend and stop, with two bounds: an affinity is cleared but
never given, as `NoLostReschedule` requires (section 7), and a thread stops another only if all have the same priority;
without the second bound there are about three million states, too many for five minutes. Priorities of scheduled threads change in `Sched_up`,
those of waiting threads, which stay in the list of their old priority, in `SemC_smp_signal` and `SemM_signal`;
the instance of `Sched_smp` passes under `Spec` with `Calls = {"Suspend", "SetPriority"}` too (1.7 million states).
`MaxCounter` 1 or 2 reaches the full and the
empty semaphore; `MaxRelease` 2 lets a release stop half way; three slots let an urgent message
cross the end of the ring with messages on both sides; `MaxRetry` 1 is a sender on its way back while others
send; `MaxNest` is the depth of recursion or of nested suspensions beyond the
first; `MaxSuspend` bounds the suspension count. Three timers give a node to the left and one to
the right of the one that changes; ticks 1 and 4 and period 2 with rates 1 and 2 give nodes
that expire together, in the same scan, and in a later one, and a periodic timer that goes back
in front of the scan. `Slice` 1 is a time slice that ends at
the second tick. One signal is handled at a time. A deleted object stays deleted. A thread that is left in a queue by
the departure of section 7 does not pend again.

**Deadlock** checking is off in every run: a system in which every thread waits without
a time-out and nobody posts stops, rightly; so does a scheduler whose threads are all
suspended.

**Fairness** (`FairSpec` of `SemaphoreC`, `SemaphoreM` and `MsgQueue`): weak fairness of the steps that
a processor has begun (`Finish`, `Deletes`) and of the tick; strong fairness of the
steps of a thread (`PendStep`, `ReceiveStep`) and of a sender on its way back (`Again`), because a thread that wants a lock again and again gets
it: the spin lock of `arch/arm/mpcore/armSpinlock.c` gives out tickets, and the
processors are taken to have time for every ready thread. In `SemaphoreM` the owners post
(strong fairness of `Post`), which is the application's duty. Nothing is assumed
of posts on counting semaphores, sends, signals, or deletions. In `Scheduler` a processor leaves the
kernel and its interrupts, takes the interrupts sent to it, and gets the kernel lock it
spins for; the tick comes; a thread that has locked the scheduler unlocks it. No fairness
makes a thread call anything else. `Timers` states no
fairness: see the last point of section 7.

## 5. The proofs

All theorems hold for every value of the constants, under the assumptions
`EventWaitAssumption`, `SemaphoreCAssumption`, `SemaphoreMAssumption`, `WakeupLineAssumption`,
`TimersAssumption`, `CandTableAssumption` and `SchedulerAssumption`, which say only what the constants are
(threads, objects and processors are finite in number, as the kernel's tables of them are; the
priority of the idle threads is one of the priorities; `NULL` is no thread, no processor and no result of a search), and `MsgQueueAssumption`, which besides
excludes signals on a multiprocessor (`~(SMP_EN /\ SIGNAL_EN)`, section 7). A hypothesis of a single theorem
is in the table.

| Theorem | Says |
|---|---|
| `SemaphoreC_proofs!TypeCorrect` | `TypeOK` |
| `SemaphoreC_proofs!NoIdleUnitCorrect` | a semaphore with a unit has no waiter, signals included |
| `SemaphoreC_proofs!QueueConsistentCorrect` | without signals, queues, TCBs and program counters agree |
| `SemaphoreC_proofs!ConservesUnitsCorrect` | without signals, the semaphore implements `CountingSemaphore` |
| `SemaphoreM_proofs!TypesCorrect` | types (but for the bounds of counters) |
| `SemaphoreM_proofs!FreeMutexUnwantedCorrect` | a free mutex has no owner and no waiter, signals included |
| `SemaphoreM_proofs!QueueConsistentCorrect` | as above, with thread deletion |
| `SemaphoreM_proofs!OwnershipCorrect` | mutual exclusion, without signals |
| `SemaphoreM_proofs!TypeCorrect` | `TypeOK`, the bounds of the counters included, without signals |
| `SemaphoreM_proofs!SavedIsOwnersCorrect` | what a mutex has saved is never more urgent than its owner, while no thread owns two (`OneEach`) and nobody changes priorities |
| `SemaphoreM_proofs!SafeCountExactCorrect` | the safe counter counts the DELETE_SAFE mutexes of a thread, without signals and deletions of mutexes |
| `SemaphoreM_proofs!DeletionWaitsCorrect` | no thread is deleted while it has a DELETE_SAFE mutex, likewise |
| `Timers_proofs!TypeCorrect` | no counter and no rest of a scan becomes negative |
| `Timers_proofs!LineConsistentCorrect` | timers on the line are those that run; the scan's pointer is on the line |
| `Timers_proofs!FiresInTimeCorrect` | the timers implement `TimerService` |
| `WakeupLine_proofs!WakeupDelKeepsTimes` | `_WakeupDel` changes nobody else's time |
| `WakeupLine_proofs!WakeupAddKeepsTimes` | `_WakeupAdd` gives a node its time and changes nobody else's |
| `WakeupLine_proofs!RequeueTimes` | the same of a node put back, with its place relative to the scan |
| `MsgQueue_proofs!TypeCorrect` | types: no pointer leaves the ring, no counter passes its limit |
| `MsgQueue_proofs!RingCorrect` | the messages lie in a row between the two pointers |
| `MsgQueue_proofs!NoIdleMessageCorrect` | a queue with a message has no waiter, signals included |
| `MsgQueue_proofs!BuffersValidCorrect` | a queued thread is inside a receive, with a valid buffer; signals on a uniprocessor included |
| `MsgQueue_proofs!ChannelCorrect` | the queue implements `MessageChannel`, under the same conditions |
| `Scheduler_proofs!TypeCorrect` | `TypeOK`; this and the next ones under `CarefulCalls` |
| `Scheduler_proofs!TablesExactCorrect` | a ready thread is in one place of the tables, any other in none, and the bitmap is right |
| `Scheduler_proofs!RunsItsCandidateCorrect` | no thread runs twice; a processor at rest runs its candidate, or who locked the scheduler |
| `Scheduler_proofs!HeldByLiveCpuCorrect` | no thread is held by a processor that is down |
| `Scheduler_proofs!RequestsArriveCorrect` | who waits for another thread's state is on its list, and the list is going to be seen |
| `Scheduler_proofs!RequestsCountedCorrect` | who goes on after such a wait has had exactly its change made: suspensions and stops are counted each by itself, and no request is lost |
| `Scheduler_proofs!NoLostRescheduleCorrect` | a processor does not overlook a more urgent thread, while with several processors none is given to one of them (`NobodyHeld`) |

*Queues.* `EventWait_proofs` shows what linking, waking and unlinking do to
`ListsDistinct` (each list holds a thread once) and `ListsMatch` (a thread is in the
list that its TCB names). `QueueConsistent` adds where each thread is in its
call, and is inductive together with the fact that no thread handles a signal; the proof
has one step per action. With signals it is false on a multiprocessor (section 7), hence the
assumption `~ SIGNAL_EN`; for the semaphores on a uniprocessor it is checked with signals by TLC only
(`SemM_signal`). For the message queue the proof includes them, see below.

*The units.* The refinement counts as a unit what is in the counter and what has been given to a thread that has not
returned yet (`Given`); it needs `QueueConsistent` and `Ended`: a thread that is off its queue but still asleep, or
between its time-out and the locks, has been given a unit or was let through, and `LW_EVENT_DELETE` marks a deletion
only. `UnitsAre` gives the units after a change of the counter and of the given; `TakeIs`, `LeaveIs`, `AskIs`, `CounterIs` and `WakeIs`
show which step of `CountingSemaphore` each kind of step is, and `PendStepIs` and `CallIs` collect them.

*Mutual exclusion.* `Ownership` alone is not inductive: a hand-over makes a thread
the owner before it runs. The invariant `Owners` says for each thread what it has been
granted and not yet seen, and needs the queues; hence the same assumption. The bounds follow from it:
`HeldBound` says that a call to Pend starts below the bound of the application and counts only when it
ends, and `NestBound` carries this over to `EVENT_pvPtr`, which counts for the owner.

*The safe mode.* `SafeCountExact` is not inductive either: a thread enters the safe mode a step after it has
got the mutex, and leaves it a step after it has posted. `SafeState` adds
that a thread about to become safe has a DELETE_SAFE mutex, and `SafeCounts` that no mutex is being deleted. A thread is deleted only when its counter is zero, so `DeletionWaits` follows.
The deletion of a mutex is excluded because it ends the owner's safe mode too early (section 7).

*Inheritance.* `SavedIsOwners` needs `OneEach` as a hypothesis on the behaviour, `[]OneEach`: it says how the
application uses mutexes, and the code does not enforce it. One mutex satisfies it, and so do threads that
post before they take the next. Time-outs, signals and deletions are all allowed.

*The wake-up line.* `ListLemmas` has the facts about lists. A sum of
differences is a recursive function, so its existence is shown first (`SumExists`), by a least
counterexample: the provers cannot instantiate the library's induction theorems.
`AddPlaceFound` shows that `_WakeupAdd` stops at one place; it is why no
counter becomes negative. `LineOK` (each node once, the pointer on the line) is kept by
every operation, and with "on the line exactly while it runs" it is inductive.
`DelSums` and `AddSums` give the ticks to every place after a change, from which
the two theorems about the time that is left follow; `CounterSums` does so for a changed counter.

*The timers are in time.* A scan takes its ticks from `owed` at once and from the line bit by bit.
The invariant `TimesInv` compares the two timer by timer, with what the scan has still to charge
(`Charge`) added: `NeverLate` holds always (the line never counts more ticks than a timer has to wait,
and one that the scan has passed was not due). As long as `hurried` is FALSE the line counts fewer by
less than one scan (`NearlyExact`), whoever is in front of the scan expires before those
it has to look at and the scan then has no ticks left (`InFront`), and a scan in a call-back has
spent a tick (`TickTaken`). The lemmas at the end of `WakeupLine_proofs` say what each operation does to
the times and to `Uncharged`, the nodes that the scan has still to look at; then each
step of the timers is shown to be the step of `TimerService` of the same name, or none.

*The ring.* `RingOK` says that the input pointer is `Place(outputPtr, counter)`, the slot of the
message that would come next, and that all the slots in between hold messages. The pointers turn around
modulo `MaxCounter`; `PlaceIs` removes the modulo, and `PutLast`, `PutFirst` and `TakeFirst`
say what the three functions of `_MsgQueueLib.c` do to the sequence of messages: `Append`, `Cons` and `Tail`.
`TypeOK` is inductive together with `RingOK` and `CargoOK` (a send in progress carries a message).
`NoIdleMessage` needs the types only: every step but a store and a blocking receive shrinks
the queues and adds no message, and these two test the other side under the locks.

*The channel.* `BuffersValid` says what a queued thread holds; it is inductive with `Settled`, which
says the same of a thread that another party has taken off its queue (`Ended`: a message that fits,
or was cut, for a hand-over; a cleared size for one that was too big; nothing for a flush, a
deletion or a signal) and has not yet found out, whether it is still asleep or between the
time-out and the locks. On a uniprocessor build a signal changes nothing there, because the value that the
wait should return is consumed before the thread sees it. The refinement maps the ring to the
sequence of `Kept` messages; one lemma for each step of the channel (`TakeIs`, `HandIs`, `LeaveIs`,
...) gives what a step of the code must establish, and `ReceiveIs`, `QueueCallIs` and `AroundIs` show that each does,
or that the channel does not see it. `NoIdleMessage` is what keeps a hand-over from overtaking messages
in the ring.

*The scheduler.* The inductive invariant `IInv` has nine parts. `TypeInv` has the types. `TableInv` says with
`Sound` what `TablesExact` says, in a form that suits the proofs, and a little more (`IdleThere`: the idle
threads are ready, so that a processor always finds a candidate; `HeldLive`: `HeldByLiveCpu`). `FillIs`, `AddIs`, `DelIs`,
`UpdateIs`, `SetPrioIs`, `TickIs`, `CpuInactiveIs` and their like say for each function of `_CandTable.c`, `_Sched.c`,
`_SchedCand.c`, `_CpuLib.c` and `_ThreadAffinity.c` that it keeps the table sound for
the ready threads after it. `PlacesInv` says where processors are (only one that
is up runs a thread, holds the kernel or is in an interrupt). `DownInv` says that a processor that is
going down, or is about to be told, holds no thread: `SetAffinity` refuses it. `RunsInv` says that with several
processors a candidate changes behind a processor's back only while that processor is in the kernel and its thread
has stopped being ready; it is what keeps two processors from one thread. `RunsInvUp` is its counterpart for a single
processor, where any kernel call replaces the candidate. `ListsInv` ties the lists of requests to the
threads that wait for them and says that there is room for what they ask. `StopInv` counts the stops
that a change of affinity has still to take back. `AskedInv` says that a thread that is asked runs, or has locked the
scheduler, and that its processor is going to look.
`NextKeeps` has one step per action; every kernel exit and every return from an interrupt is `Served`
(the requests on the list of the thread that leaves) followed by a switch.

*`CarefulCalls`.* Two uses of the kernel are excluded, because with them the invariant is false and TLC shows it
(section 7): a processor is not started again before the call that stopped it is over (`"CpuUpEarly" \notin Calls`), and
on a multiprocessor no interrupt handler suspends the thread it has interrupted
(`SMP_EN => "IsrSuspend" \notin Calls`). The three scheduler runs respect both; on one processor such a suspension is
covered by the theorems and checked by `Sched_up`.

*Requests.* `RequestsCounted` is an action property: `ChangesMade` follows because only a kernel exit or an
interrupt on the asked thread's processor takes askers off its list, and it takes them all (`StatusChangeCur`),
while other steps leave `waitFor` alone (`SameWaits`). So those that go on and have asked for a kind of change are the askers
of that kind, which `ServeCounts` counts; by `ListsInv` each of them still has its request.

*No lost reschedule.* `LostInv` is inductive together with `IInv`. Its first half is about the table at every moment:
`Told` says that a processor whose candidate is beaten by a waiting thread is marked (`LW_CAND_ROT`). Every lemma about
an operation of the table that is named above also says that it keeps this (`TellsToo`); `CandTableFill` and
`CandTableUpdate` leave the processor with an unbeaten candidate because the seek finds the most urgent thread (`SeekBest`).
The second half is about the interrupts: `Flagged` says that the flag `SCHED` is up only while the interrupt is on its way
or being served, and `Settled` that, whenever nobody is in the kernel, a processor with a beaten candidate is about to
schedule, has locked the scheduler, or has an interrupt on its way. Inside the kernel `Settled` may be false; every exit,
of a thread or of an interrupt, makes it true again (`NotifyIs`, `LeaverTells`, `IsrTells`). The hypothesis
`NobodyHeld` is needed: a thread that a processor holds waits in the ring of that processor, and when it displaces the
candidate nobody else is told (section 7). `Sched_smp` goes a little beyond it: there affinities are cleared, which holds
nobody. Processors that come and go are included.

## 6. Only model-checked

Liveness (all of it); with signals, that `SemaphoreC` implements `CountingSemaphore`; the queues of the semaphores with signals on a
uniprocessor; of the scheduler the liveness properties, `UrgentRuns` and `PeersRotate`.
The configuration of SMP with signals is covered by
`SemC_smp_signal` and by the theorems that do not assume `~ SIGNAL_EN`.

## 7. Where the code departs from what it says

The models follow the code in all of these. The first is a run that finds a
violation; for the others with a property, the constants are given with which TLC
finds it violated.

*Counting semaphore and wait protocol*

* `SemC_order`: `_AddTCBToEventPriority` (`_EventQueue.c:94`) compares with the head of the
  list instead of the node it has reached. Three waiters in one bucket may be woken out of order.
* *A broken wait succeeds (uniprocessor).* `__sigReturn` stores the return value
  (`signalLib.c:521`) and leaves the kernel; `_Schedule` takes the value at once, and the broken
  Pend returns success without a unit. `BrokenWaitDoesNotSucceed` as a PROPERTY, with `SMP_EN` FALSE,
  `SIGNAL_EN` TRUE and `InterOption`, shows it.
* *A signal after the time-out (SMP).* `kill()` stops its target first (`signal.c:748`), so a
  thread that has timed out but not run is not ready; `__sigMakeReady` (`signalLib.c:403`) then
  clears the time-out flag, Pend returns success without a unit, and the
  thread is left in the queue. `ReturnedIsUnlinked` as an INVARIANT of `SemC_smp_signal` shows it; `QueueConsistent`
  and `ConservesUnits` fail with it.
* A suspension together with signals breaks `QueueConsistent` on a uniprocessor too: the thread that
  has timed out is then kept from running by the suspension.
* `SemaphoreCPend.c:179`: a thread that times out while the semaphore is deleted returns
  success; a thread that the deletion has woken returns `ERROR_EVENT_WAS_DELETED`.
* `SemaphoreCPost.c:75`: the waiter count is read before the kernel lock is taken; a signal may
  take the only waiter away, and the post then takes a thread from an empty list (`PostFault`).

*Mutex*

* A post that finds no waiter (`SemaphoreMPost.c:165`) does not give the
  inherited priority back; the owner stays raised after the waiter that raised it timed out.
  `PriorityReturned` states it: two threads, an inheriting mutex, timed waits.
* `SemaphoreMPost.c:146`: the new owner is not raised to the priority of those that
  go on waiting (possible in a FIFO queue), although `kernel/include/k_option.h:143`
  promises inheritance.
* `SemaphoreMPend.c:145`: between becoming the owner and entering the safe mode a
  thread can be deleted, although `k_option.h:129` promises that it cannot.
* `SemaphoreMDelete.c:156`: a deletion in that moment ends a safe mode that has not begun;
  the owner then enters it and never leaves. `SafeCountExact` is checked without mutex deletion.
* With a mutex that lets signals interrupt, a broken wait succeeds as above, and two threads own
  it (`Ownership`); with DELETE_SAFE the safe counter then grows without bound.
* Two mutexes that are posted in the order in which they were taken: the second one has
  saved its owner's raised priority and restores that. `SavedIsOwners` is checked with one mutex, and no run covers this.
* An owner that takes the mutex again for ever keeps `WaiterGetsMutex` from holding; the run has
  ERRORCHECK, which forbids it.

*Message queue*

* A receiver that times out while the queue is deleted returns `ERROR_NONE` with no message
  (`MsgQueueReceive.c`, as in the semaphore).
* Receivers with short buffers that return for ever keep a sender going round `__re_send` for ever
  (`MsgQueueSend.c:145`); `ResendEnds` supposes that they stop.
* With SMP and signals a message is copied into the buffer of a call that has returned, by the departure of the
  semaphore above; `MsgQueueAssumption` excludes that configuration.

*Scheduler*

* *A displaced thread waits although a processor runs something less urgent.* When a more urgent thread that
  a processor holds displaces its candidate, the candidate goes back to its ring and nobody is told
  (`_CandTable.c:134`); `k_sched.h:33` claims that the processors always run the most urgent threads.
  `MostUrgentRun` as an INVARIANT shows it with two threads, priorities 1 to 3, two
  processors and `Calls = {"SetAffinity"}`. `NoLostReschedule` is violated there too, which is why `Sched_cpus` does not check it.
* `API_CpuDown` sends the interrupt that stops the processor after it has left the kernel
  (`CpuActive.c:90`). The processor may have stopped by then, been started again and
  been given a thread, which it then takes down; the assertion `_CandTable.c:162` fails. With
  `"CpuUpEarly"` in `Calls` of `Sched_cpus`, `HeldByLiveCpu` is violated; the run supposes that `API_CpuUp` is
  not called before `API_CpuDown` has returned.
* An interrupt handler that suspends the thread it has interrupted takes it from the ready table while its
  processor still runs it (`_ThreadStatus.c:185`). Another processor that resumes it can run it at once: it runs on both.
* The same handler clears the request of the thread it has interrupted (`_ThreadStatus.c:223` writes
  `ptcbCur`'s `TCB_uiStatusChangeReq`). With `"IsrSuspend"` in `Calls` and `SMP_EN`,
  `RequestsCounted` is violated under `Spec`: the asker goes on, and its request is gone.
* A blocking call while the scheduler is locked is forbidden (`ThreadLock.c:35`) but not refused; the thread
  then goes on running though it waits. The models make no such call (`CallingToBlock`), nor does a thread that has
  locked the scheduler suspend itself, which `API_ThreadSuspend` does not test either.
* A thread that sets its own affinity goes on where it runs until something else makes it schedule.
  `API_ThreadSuspend` does not look at `TCB_uiStatusChangeReq` after it has slept.
* `API_ThreadYield` has an effect for policy RR only. A thread that an interrupt wakes goes behind the
  head of its ring and not to the end (`_ReadyRing.c`), so a peer can be passed again and again when there are four.

*Timers*

* `API_TimerCancel` (line 80) and `API_TimerDelete` (line 99) clear the counter
  of the node before `_WakeupDel` hands it to the right neighbour. All later timers fire early by the
  cancelled timer's ticks. `CancelStopsOne` as a PROPERTY with two timers and rate 1 shows it;
  `WakeupDelKeepsTimes` shows that `_WakeupDel` itself is right.
* With a scan of several ticks (`irate`, 5 by default, `KernelParam.c:46`) a timer that a call-back
  starts, or a periodic one that has fired, can be charged the rest of the present scan: it fires
  up to `rate - 1` ticks before its time. `TimerService` allows this.
* With such a scan timers can be early by more. A timer that goes to the line *in front of* the node the
  scan is about to look at takes its ticks from that node (`_WakeupLine.c:55`), and the scan
  (`_ITimerThread.c:65`) then charges the rest of its ticks to what is left there, but not to the new timer.
  So a periodic timer makes every timer early that expires up to `rate - 1` ticks after its next
  period: with rate 2, a timer of 4 ticks fires after the first scan if one of 1 tick and period 2 is in front
  of it. `FiresInTime` fails in `Timer_scan` if `Overtaken` is made FALSE; `TimerService` has it as `ArmsInScan`.
* A one-shot timer without a period can be reset (`TimerReset.c:86`): it goes to the line with no
  ticks to wait and fires in the same scan. Outside the model.
* A timer can be cancelled or restarted between its removal from the line and its
  call-back (`_ITimerThread.c:82`): the call-back runs nevertheless.
* Call-backs that cancel a timer and start it again keep the ticks of the line near zero by the
  first point, so that a scan need not end. No liveness is claimed.

## 8. What is not modelled, and why

The table of section 1 and the component list say so part by part. In the modelled
parts: the reuse of a control block by a later create (a handle that names a
new object); kernel calls from signal handlers; posts of a mutex by a thread
that does not own it; suspension together with mutexes; the tick's own scan of the
delayed threads (a waiting thread times out at any moment); in the message
queue a sender on its way back to `__re_send` that is an interrupt handler, which would keep its processor until it is through
(the model lets every such sender be overtaken, as a thread is); in the scheduler the activate modes
`LW_OPTION_RESPOND_IMMIEDIA` ("for tests only", `k_option.h:269`) and `LW_OPTION_RESPOND_STANDARD`, the
deletion and the restart of threads, KernelSuspend and the spin lock below the kernel lock; the two lines of
timers side by side (they do not interact); wrap-around of tick counters (they
are 32-bit or wider and the model's ticks are small). Hooks, event logging, error codes
set by `_ErrorHandle` and argument checks change no state and are left out.
