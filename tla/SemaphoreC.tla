------------------------------ MODULE SemaphoreC ------------------------------
(***************************************************************************)
(* The counting semaphore (kernel/interface/SemaphoreC*.c) over the event  *)
(* wait protocol.  Threads execute API_SemaphoreCPend step by step, split  *)
(* where the code releases its locks; the calls that do not block (post,   *)
(* release, flush, clear, delete, try) come from anywhere, interrupt       *)
(* handlers included, and are split where another party can get in.        *)
(***************************************************************************)
EXTENDS EventWait, FiniteSets

CONSTANTS
  MaxCounter,   \* EVENT_ulMaxCounter
  InitCounter,  \* the initial EVENT_ulCounter
  MaxRelease,   \* bound on ulReleaseCounter of one API_SemaphoreCRelease
  Calls         \* the non-blocking calls the application makes

ASSUME SemaphoreCAssumption ==
  /\ IsFiniteSet(Threads)   \* _K_tcbBuffer, an array of LW_CFG_MAX_THREADS
  /\ MaxCounter \in Nat \ {0}
  /\ InitCounter \in 0..MaxCounter
  /\ MaxRelease \in Nat
  /\ Calls \subseteq {"Post", "TryPend", "Release", "Flush", "Clear", "Delete"}

VARIABLES
  type,      \* EVENT_ucType
  counter,   \* EVENT_ulCounter
  op,        \* the call that holds the event's spin lock, EVENT_slLock
  left,      \* how many units an API_SemaphoreCRelease still has to give
  pc,        \* where each thread is in API_SemaphoreCPend
  pevent,    \* its semaphore
  timeOut,   \* its ulTimeOut
  ret,       \* what its last API_SemaphoreCPend returned
  grant      \* history: why another party ended the thread's wait

semVars == <<type, counter, op, left>>
pendVars == <<pc, pevent, timeOut, ret, grant>>
vars == <<waitVars, semVars, pendVars>>

TimeOuts == {"NOT_WAIT", "TICKS", "INFINITE"}
Rets == {"NONE", "WAIT_TIMEOUT", "WAS_DELETED", "EINTR", "EVENT_TYPE"}
\* A post or release hands over a unit; the others end a wait without one.
Grants == {"none", "token", "flush", "delete", "signal"}
\* The calls that wake waiters in a loop, with the kernel locked.
Loops == {"Release", "Flush", "Delete"}

TypeOK ==
  /\ EventWaitTypeOK
  /\ type    \in [Events -> {"SEMC", "UNUSED"}]
  /\ counter \in [Events -> 0..MaxCounter]
  /\ op      \in [Events -> Loops \cup {"none", "Post", "fault"}]
  /\ left    \in [Events -> 0..MaxRelease]
  /\ pc      \in [Threads -> {"idle", "wait_again", "blocked", "awake", "timeout"}]
  /\ pevent  \in [Threads -> Events]
  /\ timeOut \in [Threads -> TimeOuts]
  /\ ret     \in [Threads -> Rets]
  /\ grant   \in [Threads -> Grants]

Init ==
  /\ EventWaitInit
  /\ type    = [e \in Events |-> "SEMC"]
  /\ counter = [e \in Events |-> InitCounter]
  /\ op      = [e \in Events |-> "none"]
  /\ left    = [e \in Events |-> 0]
  /\ pc      = [t \in Threads |-> "idle"]
  /\ pevent  \in [Threads -> Events]
  /\ timeOut = [t \in Threads |-> "NOT_WAIT"]
  /\ ret     = [t \in Threads |-> "NONE"]
  /\ grant   = [t \in Threads |-> "none"]

-----------------------------------------------------------------------------
(* Who can run.  A uniprocessor build has no spin locks: a post disables   *)
(* interrupts instead, so nothing else runs between its two halves.  The   *)
(* calls that loop hold the kernel lock but let interrupts in.             *)

InterruptsOn == \A e \in Events : op[e] # "fault" /\ (SMP_EN \/ op[e] # "Post")
KernelFree   == InterruptsOn /\ \A e \in Events : op[e] \notin Loops
CpuFree(t)   == Runs(t) /\ (SMP_EN \/ \A e \in Events : op[e] = "none")
\* Both locks of an event operation can be taken.
CanEnter(e)  == KernelFree /\ op[e] = "none"

-----------------------------------------------------------------------------
(* API_SemaphoreCPend.                                                     *)

Return(t, r) ==
  /\ pc'    = [pc EXCEPT ![t] = "idle"]
  /\ ret'   = [ret EXCEPT ![t] = r]
  /\ grant' = [grant EXCEPT ![t] = "none"]
  /\ UNCHANGED <<pevent, timeOut>>

Goto(t, label) ==
  /\ pc' = [pc EXCEPT ![t] = label]
  /\ UNCHANGED <<pevent, timeOut, ret, grant>>

\* A call.  A thread that a wrong wake-up left in a queue does not call again:
\* what a second insertion does to the ring is not modelled.
PendCall(t, e, w) ==
  /\ CpuFree(t) /\ pc[t] = "idle"
  /\ peventPtr[t] = NULL
  /\ pc'      = [pc EXCEPT ![t] = "wait_again"]
  /\ pevent'  = [pevent EXCEPT ![t] = e]
  /\ timeOut' = [timeOut EXCEPT ![t] = w]
  /\ UNCHANGED <<ret, grant, waitVars, semVars>>

\* From the label __wait_again to __KERNEL_EXIT.
PendTypeError(t, e) ==
  /\ type[e] # "SEMC"
  /\ Return(t, "EVENT_TYPE")
  /\ UNCHANGED <<counter, waitVars>>

PendTake(t, e) ==
  /\ type[e] = "SEMC" /\ counter[e] > 0
  /\ counter' = [counter EXCEPT ![e] = @ - 1]
  /\ Return(t, "NONE")
  /\ UNCHANGED waitVars

PendNotWait(t, e) ==
  /\ type[e] = "SEMC" /\ counter[e] = 0
  /\ timeOut[t] = "NOT_WAIT"
  /\ Return(t, "WAIT_TIMEOUT")
  /\ UNCHANGED <<counter, waitVars>>

\* Faulty variant: the counter was read before the locks were taken.
PendBlock_StaleCounter(t, e) ==
  /\ type[e] = "SEMC" /\ timeOut[t] # "NOT_WAIT"
  /\ EventWait(t, e, timeOut[t] = "TICKS", priority)
  /\ Goto(t, "blocked")
  /\ UNCHANGED counter

PendBlock(t, e) ==
  /\ type[e] = "SEMC" /\ counter[e] = 0
  /\ timeOut[t] # "NOT_WAIT"
  /\ EventWait(t, e, timeOut[t] = "TICKS", priority)
  /\ Goto(t, "blocked")
  /\ UNCHANGED counter

PendEnter(t) ==
  /\ CpuFree(t) /\ pc[t] = "wait_again"
  /\ CanEnter(pevent[t])
  /\ \/ PendTypeError(t, pevent[t])
     \/ PendTake(t, pevent[t])
     \/ PendNotWait(t, pevent[t])
     \/ PendBlock(t, pevent[t])
  /\ UNCHANGED <<type, op, left>>

\* __KERNEL_EXIT returns: no signal broke the wait.
PendAwake(t) ==
  /\ schedRet[t] = "NONE"
  /\ Goto(t, "awake")

\* LW_SIGNAL_EINTR, and the semaphore lets signals interrupt.
Interrupted(t) == schedRet[t] = "EINTR" /\ "SIGNAL_INTER" \in Option[pevent[t]]

PendInterrupted(t) ==
  /\ Interrupted(t)
  /\ Return(t, "EINTR")

\* Else the wait starts again with the time that is left (_sigTimeOutRecalc).
PendRestart(t) ==
  /\ schedRet[t] # "NONE" /\ ~Interrupted(t)
  /\ \E w \in (IF timeOut[t] = "TICKS" THEN {"TICKS", "NOT_WAIT"} ELSE {timeOut[t]}) :
       timeOut' = [timeOut EXCEPT ![t] = w]
  /\ pc'    = [pc EXCEPT ![t] = "wait_again"]
  /\ grant' = [grant EXCEPT ![t] = "none"]
  /\ UNCHANGED <<pevent, ret>>

PendResume(t) ==
  /\ CpuFree(t) /\ pc[t] = "blocked"
  /\ SchedReturn(t)
  /\ PendAwake(t) \/ PendInterrupted(t) \/ PendRestart(t)
  /\ UNCHANGED semVars

\* The time-out flag is read without a lock.
PendTestTimeOut(t) ==
  /\ CpuFree(t) /\ pc[t] = "awake"
  /\ \/ waitTimeOut[t] = "OUT" /\ Goto(t, "timeout")
     \/ waitTimeOut[t] # "OUT" /\ isEventDelete[t] = "EXIST" /\ Return(t, "NONE")
     \/ waitTimeOut[t] # "OUT" /\ isEventDelete[t] = "DELETE" /\ Return(t, "WAS_DELETED")
  /\ UNCHANGED <<waitVars, semVars>>

\* Faulty variant: the flag is not read again under the locks.
PendTimeOut_NoSecondTest(t) ==
  /\ CpuFree(t) /\ pc[t] = "timeout"
  /\ CanEnter(pevent[t])
  /\ EventTimeout(t, pevent[t]) /\ Return(t, "WAIT_TIMEOUT")
  /\ UNCHANGED semVars

\* Back under the locks: the flag may have been cleared in between.
PendTimeOut(t) ==
  /\ CpuFree(t) /\ pc[t] = "timeout"
  /\ CanEnter(pevent[t])
  /\ \/ waitTimeOut[t] = "CLEAR" /\ Return(t, "NONE") /\ UNCHANGED waitVars
     \/ waitTimeOut[t] # "CLEAR" /\ EventTimeout(t, pevent[t]) /\ Return(t, "WAIT_TIMEOUT")
  /\ UNCHANGED semVars

-----------------------------------------------------------------------------
(* The calls that do not block.  They fail with ERROR_EVENT_TYPE, and      *)
(* change nothing, once the semaphore is deleted.                          *)

\* The event's spin lock can be taken: it is free, or an interrupt handler
\* takes it again on the processor that holds it, inside one of the loops.
CanLock(e) == type[e] = "SEMC" /\ InterruptsOn /\
              (op[e] \in Loops \/ (op[e] = "none" /\ (SMP_EN \/ KernelFree)))

\* One waiter gets a unit, or is let through by a flush or a delete.
Wake(e, why) ==
  /\ HasWaiter(e)
  /\ EventReady(e, why = "delete", priority)
  /\ grant' = [grant EXCEPT ![NextWaiter(e)] = why]
  /\ UNCHANGED <<pc, pevent, timeOut, ret>>

\* Faulty variant: no limit.
Count_NoLimit(e) ==
  /\ ~HasWaiter(e)
  /\ counter' = [counter EXCEPT ![e] = @ + 1]
  /\ UNCHANGED <<waitVars, pendVars>>

\* No waiter: the unit is counted; at EVENT_ulMaxCounter it is ERROR_EVENT_FULL.
Count(e) ==
  /\ ~HasWaiter(e) /\ counter[e] < MaxCounter
  /\ counter' = [counter EXCEPT ![e] = @ + 1]
  /\ UNCHANGED <<waitVars, pendVars>>

\* API_SemaphoreCPost.  It looks for a waiter with the event's lock only ...
PostCheck(e) ==
  /\ "Post" \in Calls /\ CanLock(e) /\ op[e] = "none"
  /\ HasWaiter(e)
  /\ op' = [op EXCEPT ![e] = "Post"]
  /\ UNCHANGED <<type, counter, left, waitVars, pendVars>>

\* ... and takes it off the queue after it has taken the kernel lock too.
PostReady(e) ==
  /\ op[e] = "Post" /\ \A f \in Events : op[f] \notin Loops \cup {"fault"}
  /\ Wake(e, "token")
  /\ op' = [op EXCEPT ![e] = "none"]
  /\ UNCHANGED <<type, counter, left>>

\* The queue has run empty in between: the list head that
\* _EventReadyFifoLowLevel dereferences is LW_NULL.
PostFault(e) ==
  /\ op[e] = "Post" /\ \A f \in Events : op[f] \notin Loops \cup {"fault"}
  /\ ~HasWaiter(e)
  /\ op' = [op EXCEPT ![e] = "fault"]
  /\ UNCHANGED <<type, counter, left, waitVars, pendVars>>

PostCount(e) ==
  /\ "Post" \in Calls /\ CanLock(e)
  /\ Count(e)
  /\ UNCHANGED <<type, op, left>>

\* A post by an interrupt handler inside a loop over the same queue.
PostNested(e) ==
  /\ "Post" \in Calls /\ CanLock(e) /\ op[e] \in Loops
  /\ Wake(e, "token")
  /\ UNCHANGED semVars

\* API_SemaphoreCTryPend, when there is a unit.
TryPend(e) ==
  /\ "TryPend" \in Calls /\ CanLock(e)
  /\ counter[e] > 0
  /\ counter' = [counter EXCEPT ![e] = @ - 1]
  /\ UNCHANGED <<type, op, left, waitVars, pendVars>>

\* API_SemaphoreCClear
Clear(e) ==
  /\ "Clear" \in Calls /\ CanLock(e)
  /\ counter' = [counter EXCEPT ![e] = 0]
  /\ UNCHANGED <<type, op, left, waitVars, pendVars>>

\* API_SemaphoreCRelease gives n units one after the other.
ReleaseBegin(e, n) ==
  /\ "Release" \in Calls /\ type[e] = "SEMC" /\ CanEnter(e)
  /\ op'   = [op EXCEPT ![e] = "Release"]
  /\ left' = [left EXCEPT ![e] = n]
  /\ UNCHANGED <<type, counter, waitVars, pendVars>>

ReleaseOne(e) ==
  /\ InterruptsOn /\ op[e] = "Release" /\ left[e] > 0
  /\ \/ Wake(e, "token") /\ UNCHANGED counter
     \/ Count(e)
  /\ left' = [left EXCEPT ![e] = @ - 1]
  /\ UNCHANGED <<type, op>>

\* All given, or ERROR_EVENT_FULL with some units not given.
ReleaseEnd(e) ==
  /\ InterruptsOn /\ op[e] = "Release"
  /\ left[e] = 0 \/ (~HasWaiter(e) /\ counter[e] = MaxCounter)
  /\ op'   = [op EXCEPT ![e] = "none"]
  /\ left' = [left EXCEPT ![e] = 0]
  /\ UNCHANGED <<type, counter, waitVars, pendVars>>

\* API_SemaphoreCFlush lets every waiter through, without a unit.
FlushBegin(e) ==
  /\ "Flush" \in Calls /\ type[e] = "SEMC" /\ CanEnter(e)
  /\ op' = [op EXCEPT ![e] = "Flush"]
  /\ UNCHANGED <<type, counter, left, waitVars, pendVars>>

FlushOne(e) ==
  /\ InterruptsOn /\ op[e] = "Flush"
  /\ Wake(e, "flush")
  /\ UNCHANGED semVars

\* API_SemaphoreCDelete: the type goes first, then every waiter is woken with
\* LW_EVENT_DELETE, then the object is free.
DeleteBegin(e) ==
  /\ "Delete" \in Calls /\ type[e] = "SEMC" /\ CanEnter(e)
  /\ op'   = [op EXCEPT ![e] = "Delete"]
  /\ type' = [type EXCEPT ![e] = "UNUSED"]
  /\ UNCHANGED <<counter, left, waitVars, pendVars>>

DeleteOne(e) ==
  /\ InterruptsOn /\ op[e] = "Delete"
  /\ Wake(e, "delete")
  /\ UNCHANGED semVars

\* Faulty variant: a delete may end with waiters left.
LoopEnd_Early(e) ==
  /\ InterruptsOn /\ op[e] \in {"Flush", "Delete"}
  /\ op' = [op EXCEPT ![e] = "none"]
  /\ UNCHANGED <<type, counter, left, waitVars, pendVars>>

\* The queue is empty: a flush or a delete leaves the kernel.
LoopEnd(e) ==
  /\ InterruptsOn /\ op[e] \in {"Flush", "Delete"}
  /\ ~HasWaiter(e)
  /\ op' = [op EXCEPT ![e] = "none"]
  /\ UNCHANGED <<type, counter, left, waitVars, pendVars>>

-----------------------------------------------------------------------------
(* The kernel around the semaphore.                                        *)

Tick(t) == InterruptsOn /\ ThreadTick(t) /\ UNCHANGED <<semVars, pendVars>>

Signal(t) ==
  /\ KernelFree
  /\ \/ ThreadStop(t) /\ UNCHANGED grant
     \/ /\ \E saType \in {"EINTR", "RESTART"} : Kill(t, saType)
        /\ grant' = IF "SEM" \in status[t] THEN [grant EXCEPT ![t] = "signal"] ELSE grant
  /\ UNCHANGED <<semVars, pc, pevent, timeOut, ret>>

HandlerReturn(t) ==
  /\ KernelFree /\ (SMP_EN \/ \A e \in Events : op[e] = "none")
  /\ SigReturn(t)
  /\ UNCHANGED <<semVars, pendVars>>

Suspension(t) ==
  /\ KernelFree
  /\ ThreadSuspend(t) \/ ThreadResume(t) \/ ThreadForceResume(t)
  /\ UNCHANGED <<semVars, pendVars>>

SetPriority(t) ==
  /\ KernelFree
  /\ \E p \in Priorities : ThreadSetPriority(t, p)
  /\ UNCHANGED <<semVars, pendVars>>

PendStep(t) ==
  PendEnter(t) \/ PendResume(t) \/ PendTestTimeOut(t) \/ PendTimeOut(t)

\* The second half of a call that has begun.
Finish(e) ==
  \/ PostReady(e) \/ PostFault(e)
  \/ ReleaseOne(e) \/ ReleaseEnd(e) \/ FlushOne(e) \/ DeleteOne(e) \/ LoopEnd(e)

Call(e) ==
  \/ PostCheck(e) \/ PostCount(e) \/ PostNested(e) \/ TryPend(e) \/ Clear(e)
  \/ \E n \in 1..MaxRelease : ReleaseBegin(e, n)
  \/ FlushBegin(e) \/ DeleteBegin(e)

Next ==
  \/ \E t \in Threads :
       \/ \E e \in Events, w \in TimeOuts : PendCall(t, e, w)
       \/ PendStep(t)
       \/ Tick(t) \/ Signal(t) \/ HandlerReturn(t) \/ Suspension(t) \/ SetPriority(t)
  \/ \E e \in Events : Finish(e) \/ Call(e)

Spec == Init /\ [][Next]_vars

\* Fairness.  A processor that has begun a call ends it, the tick comes, and a
\* thread that can run again and again does: spin locks are granted in turn
\* (armSpinLock.c takes tickets), and the threads have processors to run on.
Fairness ==
  /\ \A e \in Events : WF_vars(Finish(e))
  /\ \A t \in Threads : WF_vars(Tick(t)) /\ SF_vars(PendStep(t))

FairSpec == Spec /\ Fairness

-----------------------------------------------------------------------------
(* Properties.                                                             *)

\* A queued thread is inside a Pend on that semaphore, and either sleeps or has
\* timed out and has yet to find out; no other thread sleeps or has timed out.
WaiterState(t) ==
  /\ peventPtr[t] # NULL => /\ pc[t] \in {"blocked", "awake", "timeout"}
                            /\ pevent[t] = peventPtr[t]
                            /\ grant[t] = "none"
                            /\ "SEM" \in status[t] <=> waitTimeOut[t] = "CLEAR"
  /\ peventPtr[t] = NULL => "SEM" \notin status[t] /\ waitTimeOut[t] = "CLEAR"
  /\ "DELAY" \in status[t] => "SEM" \in status[t] /\ timeOut[t] = "TICKS"
  /\ "SEM" \in status[t] => pc[t] = "blocked"

\* The queues and the TCBs tell one story, in all the steps of _EventHighLevel.c,
\* _ThreadTick, __sigMakeReady and the two halves of API_SemaphoreCPend.
QueueConsistent == ListsDistinct /\ ListsMatch /\ \A t \in Threads : WaiterState(t)

\* No unit lies unused while a thread waits for one: a post, a release or a
\* delete never leaves both behind, however its steps mix with time-outs.
NoIdleUnit == \A e \in Events : counter[e] > 0 => ~HasWaiter(e)

\* Every successful Pend has used up one unit or was let through, and no unit is
\* lost: the semaphore implements CountingSemaphore.
Waiting(t) == pc[t] # "idle"
Given(e) == {t \in Threads : Waiting(t) /\ pevent[t] = e /\ grant[t] = "token"}
Units    == [e \in Events |-> counter[e] + Cardinality(Given(e))]
Asking   == [t \in Threads |-> IF Waiting(t) THEN pevent[t] ELSE NULL]
Passed   == {t \in Threads : Waiting(t) /\ grant[t] \in {"flush", "delete", "signal"}}

Semaphore == INSTANCE CountingSemaphore WITH
  units <- Units, asking <- Asking, passed <- Passed, result <- ret
ConservesUnits == Semaphore!Spec

Suspended(t) == suspendNesting[t] > 0

\* A timed Pend returns: the time-out, the units and the locks that other calls
\* hold never keep it inside for ever; only a suspension does.
TimedPendReturns ==
  \A t \in Threads :
    (pc[t] # "idle" /\ timeOut[t] # "INFINITE") ~> (pc[t] = "idle" \/ Suspended(t))

\* A thread whose wait another call has ended returns, unless it is suspended.
WokenPendReturns ==
  \A t \in Threads : grant[t] # "none" ~> (pc[t] = "idle" \/ Suspended(t))

\* Once a semaphore is deleted nobody stays on it, but those that are suspended.
DeleteWakesAll ==
  \A e \in Events, t \in Threads :
    type[e] = "UNUSED" /\ pevent[t] = e ~>
      Suspended(t) \/ ~(type[e] = "UNUSED" /\ pevent[t] = e /\ pc[t] # "idle")

-----------------------------------------------------------------------------
(* What comments and headers of the source say, and the code does not do.  *)

\* inlSearchEventQueue.h: the thread that a post takes from a priority queue is
\* the waiter with the highest priority.
MostUrgentFirst ==
  \A e \in Events : "WAIT_PRIORITY" \in Option[e] /\ HasWaiter(e) =>
    \A b \in Buckets : \A i \in 1..Len(waitList[e][b]) :
      priority[NextWaiter(e)] <= priority[waitList[e][b][i]]

\* __sigMakeReady clears the time-out flag of a thread that "does not wait for an
\* event"; then that thread is in no queue once its Pend has returned.
ReturnedIsUnlinked == \A t \in Threads : pc[t] = "idle" => peventPtr[t] = NULL

Returns(t, r) == pc[t] # "idle" /\ pc'[t] = "idle" /\ ret'[t] = r

\* k_option.h: a wait that a signal breaks is reported (EINTR) or started again;
\* it does not succeed.
BrokenWaitDoesNotSucceed ==
  [][\A t \in Threads : Returns(t, "NONE") => grant[t] # "signal"]_vars
=============================================================================
