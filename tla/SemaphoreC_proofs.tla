-------------------------- MODULE SemaphoreC_proofs --------------------------
(***************************************************************************)
(* Theorems about the counting semaphore, for any number of threads and    *)
(* semaphores, any priorities and any setting of the kernel's switches.    *)
(***************************************************************************)
EXTENDS SemaphoreC, EventWait_proofs, FiniteSetTheorems

-----------------------------------------------------------------------------
(* Type correctness.                                                       *)

\* The part of TypeOK that is not about the wait protocol.
SemTypeOK ==
  /\ type    \in [Events -> {"SEMC", "UNUSED"}]
  /\ counter \in [Events -> 0..MaxCounter]
  /\ op      \in [Events -> Loops \cup {"none", "Post", "fault"}]
  /\ left    \in [Events -> 0..MaxRelease]

PendTypeOK ==
  /\ pc      \in [Threads -> {"idle", "wait_again", "blocked", "awake", "timeout"}]
  /\ pevent  \in [Threads -> Events]
  /\ timeOut \in [Threads -> TimeOuts]
  /\ ret     \in [Threads -> Rets]
  /\ grant   \in [Threads -> Grants]

LEMMA TypeOKParts ==
  /\ TypeOK <=> EventWaitTypeOK /\ SemTypeOK /\ PendTypeOK
  /\ TypeOK' <=> EventWaitTypeOK' /\ SemTypeOK' /\ PendTypeOK'
  BY DEF TypeOK, SemTypeOK, PendTypeOK

LEMMA UnchangedTypes ==
  /\ EventWaitTypeOK /\ UNCHANGED waitVars => EventWaitTypeOK'
  /\ SemTypeOK /\ UNCHANGED semVars => SemTypeOK'
  /\ PendTypeOK /\ UNCHANGED pendVars => PendTypeOK'
  BY DEF EventWaitTypeOK, SemTypeOK, PendTypeOK, waitVars, tcbVars, semVars, pendVars

LEMMA InitType == Init => TypeOK
<1> SUFFICES ASSUME Init PROVE TypeOK
  OBVIOUS
<1>1. EventWaitTypeOK
  <2>1. 0 \in Buckets
    BY DEF Buckets
  <2>2. waitList \in [Events -> [Buckets -> Seq(Threads)]]
    BY DEF Init, EventWaitInit
  <2>3. QED BY <2>1, <2>2 DEF Init, EventWaitInit, EventWaitTypeOK, StatusBits, SchedRets
<1>2. SemTypeOK
  BY SemaphoreCAssumption DEF Init, SemTypeOK
<1>3. PendTypeOK
  BY DEF Init, PendTypeOK, TimeOuts, Rets, Grants
<1>4. QED BY <1>1, <1>2, <1>3, TypeOKParts

LEMMA ReturnType ==
  ASSUME PendTypeOK, NEW t \in Threads, NEW r \in Rets, Return(t, r)
  PROVE  PendTypeOK'
  BY DEF PendTypeOK, Return, Grants

LEMMA GotoType ==
  ASSUME PendTypeOK, NEW t \in Threads, NEW l \in {"blocked", "awake", "timeout"}, Goto(t, l)
  PROVE  PendTypeOK'
  BY DEF PendTypeOK, Goto

LEMMA WakeType ==
  ASSUME EventWaitTypeOK, PendTypeOK, NEW e \in Events, NEW why \in Grants, Wake(e, why)
  PROVE  EventWaitTypeOK' /\ PendTypeOK'
<1>1. EventWaitTypeOK'
  BY EventReadyType, PriorityType DEF Wake
<1>2. NextWaiter(e) \in Threads
  BY NextWaiterType DEF Wake
<1>3. QED BY <1>1, <1>2 DEF Wake, PendTypeOK

LEMMA CountType ==
  ASSUME TypeOK, NEW e \in Events, Count(e)
  PROVE  EventWaitTypeOK' /\ PendTypeOK' /\ counter' \in [Events -> 0..MaxCounter]
<1>1. EventWaitTypeOK' /\ PendTypeOK'
  BY UnchangedTypes, TypeOKParts DEF Count
<1>2. counter' \in [Events -> 0..MaxCounter]
  BY SemaphoreCAssumption DEF TypeOK, Count
<1>3. QED BY <1>1, <1>2

LEMMA PendStepType ==
  ASSUME TypeOK, NEW t \in Threads, PendStep(t)
  PROVE  TypeOK'
<1>1. EventWaitTypeOK /\ SemTypeOK /\ PendTypeOK /\ pevent[t] \in Events
  BY TypeOKParts DEF PendTypeOK
<1>2. CASE PendEnter(t)
  <2> DEFINE e == pevent[t]
  <2>1. counter' \in [Events -> 0..MaxCounter] /\ UNCHANGED <<type, op, left>> => SemTypeOK'
    BY <1>1 DEF SemTypeOK
  <2>2. CASE PendTypeError(t, e)
    BY <1>1, <1>2, <2>1, <2>2, ReturnType, UnchangedTypes, TypeOKParts
    DEF PendEnter, PendTypeError, Rets, SemTypeOK
  <2>3. CASE PendTake(t, e)
    <3>1. counter' \in [Events -> 0..MaxCounter]
      BY <1>1, <2>3, SemaphoreCAssumption DEF PendTake, SemTypeOK
    <3>2. QED BY <1>1, <1>2, <2>1, <2>3, <3>1, ReturnType, UnchangedTypes, TypeOKParts
             DEF PendEnter, PendTake, Rets
  <2>4. CASE PendNotWait(t, e)
    BY <1>1, <1>2, <2>1, <2>4, ReturnType, UnchangedTypes, TypeOKParts
    DEF PendEnter, PendNotWait, Rets, SemTypeOK
  <2>5. CASE PendBlock(t, e)
    <3>1. EventWaitTypeOK'
      BY <1>1, <2>5, EventWaitType, PriorityType DEF PendBlock
    <3>2. PendTypeOK'
      BY <1>1, <2>5, GotoType DEF PendBlock
    <3>3. QED BY <1>1, <1>2, <2>1, <2>5, <3>1, <3>2, TypeOKParts
             DEF PendEnter, PendBlock, SemTypeOK
  <2>6. QED BY <1>2, <2>2, <2>3, <2>4, <2>5 DEF PendEnter
<1>3. CASE PendResume(t)
  <2>1. EventWaitTypeOK'
    BY <1>1, <1>3, KernelType DEF PendResume
  <2>2. SemTypeOK'
    BY <1>1, <1>3, UnchangedTypes DEF PendResume
  <2>3. PendTypeOK'
    <3>1. CASE PendAwake(t)
      BY <1>1, <3>1, GotoType DEF PendAwake
    <3>2. CASE PendInterrupted(t)
      BY <1>1, <3>2, ReturnType DEF PendInterrupted, Rets
    <3>3. CASE PendRestart(t)
      <4>1. PICK w \in (IF timeOut[t] = "TICKS" THEN {"TICKS", "NOT_WAIT"} ELSE {timeOut[t]}) :
              timeOut' = [timeOut EXCEPT ![t] = w]
        BY <3>3 DEF PendRestart
      <4>2. w \in TimeOuts
        BY <1>1, <4>1 DEF PendTypeOK, TimeOuts
      <4>3. QED BY <1>1, <3>3, <4>1, <4>2 DEF PendRestart, PendTypeOK, Grants
    <3>4. QED BY <1>3, <3>1, <3>2, <3>3 DEF PendResume
  <2>4. QED BY <2>1, <2>2, <2>3, TypeOKParts
<1>4. CASE PendTestTimeOut(t)
  <2>1. PendTypeOK'
    BY <1>1, <1>4, GotoType, ReturnType DEF PendTestTimeOut, Rets
  <2>2. QED BY <1>1, <1>4, <2>1, UnchangedTypes, TypeOKParts DEF PendTestTimeOut
<1>5. CASE PendTimeOut(t)
  <2>1. PendTypeOK'
    BY <1>1, <1>5, ReturnType DEF PendTimeOut, Rets
  <2>2. EventWaitTypeOK'
    BY <1>1, <1>5, UnchangedTypes, EventTimeoutType DEF PendTimeOut
  <2>3. QED BY <1>1, <1>5, <2>1, <2>2, UnchangedTypes, TypeOKParts DEF PendTimeOut
<1>6. QED BY <1>2, <1>3, <1>4, <1>5 DEF PendStep

LEMMA CallType ==
  ASSUME TypeOK, NEW e \in Events, Call(e) \/ Finish(e)
  PROVE  TypeOK'
<1>1. EventWaitTypeOK /\ SemTypeOK /\ PendTypeOK
  BY TypeOKParts
<1>2. CASE PostCheck(e) \/ FlushBegin(e) \/ DeleteBegin(e) \/ PostFault(e) \/ LoopEnd(e)
  <2>1. EventWaitTypeOK' /\ PendTypeOK'
    BY <1>1, <1>2, UnchangedTypes DEF PostCheck, FlushBegin, DeleteBegin, PostFault, LoopEnd
  <2>2. SemTypeOK'
    BY <1>1, <1>2 DEF PostCheck, FlushBegin, DeleteBegin, PostFault, LoopEnd, SemTypeOK, Loops
  <2>3. QED BY <2>1, <2>2, TypeOKParts
<1>3. CASE PostCount(e)
  BY <1>1, <1>3, CountType, TypeOKParts DEF PostCount, SemTypeOK
<1>4. CASE PostReady(e)
  <2>1. EventWaitTypeOK' /\ PendTypeOK'
    BY <1>1, <1>4, WakeType DEF PostReady, Grants
  <2>2. SemTypeOK'
    BY <1>1, <1>4 DEF PostReady, SemTypeOK
  <2>3. QED BY <2>1, <2>2, TypeOKParts
<1>5. CASE PostNested(e) \/ FlushOne(e) \/ DeleteOne(e)
  <2>1. EventWaitTypeOK' /\ PendTypeOK'
    BY <1>1, <1>5, WakeType DEF PostNested, FlushOne, DeleteOne, Grants
  <2>2. SemTypeOK'
    BY <1>1, <1>5, UnchangedTypes DEF PostNested, FlushOne, DeleteOne
  <2>3. QED BY <2>1, <2>2, TypeOKParts
<1>6. CASE TryPend(e) \/ Clear(e)
  <2>1. EventWaitTypeOK' /\ PendTypeOK'
    BY <1>1, <1>6, UnchangedTypes DEF TryPend, Clear
  <2>2. counter' \in [Events -> 0..MaxCounter]
    BY <1>1, <1>6, SemaphoreCAssumption DEF TryPend, Clear, SemTypeOK
  <2>3. QED BY <1>1, <1>6, <2>1, <2>2, TypeOKParts DEF TryPend, Clear, SemTypeOK
<1>7. CASE \E n \in 1..MaxRelease : ReleaseBegin(e, n)
  <2>1. PICK n \in 1..MaxRelease : ReleaseBegin(e, n)
    BY <1>7
  <2>2. EventWaitTypeOK' /\ PendTypeOK'
    BY <1>1, <2>1, UnchangedTypes DEF ReleaseBegin
  <2>3. left' \in [Events -> 0..MaxRelease]
    BY <1>1, <2>1, SemaphoreCAssumption DEF ReleaseBegin, SemTypeOK
  <2>4. QED BY <1>1, <2>1, <2>2, <2>3, TypeOKParts DEF ReleaseBegin, SemTypeOK, Loops
<1>8. CASE ReleaseOne(e)
  <2>1. EventWaitTypeOK' /\ PendTypeOK' /\ counter' \in [Events -> 0..MaxCounter]
    BY <1>1, <1>8, WakeType, CountType DEF ReleaseOne, Grants, SemTypeOK
  <2>2. left' \in [Events -> 0..MaxRelease]
    BY <1>1, <1>8, SemaphoreCAssumption DEF ReleaseOne, SemTypeOK
  <2>3. QED BY <1>1, <1>8, <2>1, <2>2, TypeOKParts DEF ReleaseOne, SemTypeOK
<1>9. CASE ReleaseEnd(e)
  <2>1. EventWaitTypeOK' /\ PendTypeOK'
    BY <1>1, <1>9, UnchangedTypes DEF ReleaseEnd
  <2>2. SemTypeOK'
    BY <1>1, <1>9, SemaphoreCAssumption DEF ReleaseEnd, SemTypeOK
  <2>3. QED BY <2>1, <2>2, TypeOKParts
<1>10. QED BY <1>2, <1>3, <1>4, <1>5, <1>6, <1>7, <1>8, <1>9 DEF Call, Finish

LEMMA AroundType ==
  ASSUME TypeOK, NEW t \in Threads,
         Tick(t) \/ Signal(t) \/ HandlerReturn(t) \/ Suspension(t) \/ SetPriority(t)
  PROVE  TypeOK'
<1>1. EventWaitTypeOK /\ SemTypeOK /\ PendTypeOK
  BY TypeOKParts
<1>2. SemTypeOK'
  BY <1>1, UnchangedTypes DEF Tick, Signal, HandlerReturn, Suspension, SetPriority
<1>3. EventWaitTypeOK'
  BY <1>1, KernelType, SigBreakWaitType
  DEF Tick, Signal, HandlerReturn, Suspension, SetPriority, Kill
<1>4. PendTypeOK'
  <2>1. CASE Signal(t)
    BY <1>1, <2>1 DEF Signal, PendTypeOK, Grants
  <2>2. CASE ~Signal(t)
    BY <1>1, <2>2, UnchangedTypes DEF Tick, HandlerReturn, Suspension, SetPriority
  <2>3. QED BY <2>1, <2>2
<1>5. QED BY <1>2, <1>3, <1>4, TypeOKParts

\* Every variable keeps its type: the counter stays between 0 and its maximum, and
\* every list holds threads, whatever the calls, time-outs, signals and priorities.
THEOREM TypeCorrect == Spec => []TypeOK
<1>1. Init => TypeOK
  BY InitType
<1>2. TypeOK /\ [Next]_vars => TypeOK'
  <2> SUFFICES ASSUME TypeOK, [Next]_vars PROVE TypeOK'
    OBVIOUS
  <2>1. CASE UNCHANGED vars
    BY <2>1, UnchangedTypes, TypeOKParts DEF vars
  <2>2. ASSUME NEW t \in Threads, NEW e \in Events, NEW w \in TimeOuts, PendCall(t, e, w)
        PROVE  TypeOK'
    <3>1. PendTypeOK'
      BY <2>2, TypeOKParts DEF PendCall, PendTypeOK
    <3>2. QED BY <2>2, <3>1, UnchangedTypes, TypeOKParts DEF PendCall
  <2>3. QED BY <2>1, <2>2, PendStepType, CallType, AroundType DEF Next
<1>3. QED BY <1>1, <1>2, PTL DEF Spec

-----------------------------------------------------------------------------
(* No unit lies unused while a thread waits.                               *)

\* A step that shrinks the queues and adds no unit keeps the invariant.
LEMMA ShrinkKeeps ==
  ASSUME NoIdleUnit, Shrinks, \A e \in Events : counter'[e] > 0 => counter[e] > 0
  PROVE  NoIdleUnit'
  BY DEF NoIdleUnit, Shrinks

LEMMA CountKeeps ==
  ASSUME TypeOK, NoIdleUnit, NEW e \in Events, Count(e)
  PROVE  NoIdleUnit'
<1>1. \A f \in Events : HasWaiter(f)' <=> HasWaiter(f)
  BY DEF Count, waitVars, HasWaiter
<1>2. \A f \in Events : f # e => counter'[f] = counter[f]
  BY DEF Count, TypeOK
<1>3. QED BY <1>1, <1>2 DEF NoIdleUnit, Count

LEMMA WakeKeeps ==
  ASSUME TypeOK, NoIdleUnit, NEW e \in Events, NEW why, Wake(e, why), UNCHANGED counter
  PROVE  NoIdleUnit'
  BY EventReadyShrinks, ShrinkKeeps, TypeOKParts DEF Wake

\* A semaphore that holds a unit has no waiter: post, release, flush, delete and
\* pend keep the two apart although time-outs, signals and priority changes come in
\* between their steps.
THEOREM NoIdleUnitCorrect == Spec => []NoIdleUnit
<1>1. Init => NoIdleUnit
  BY DEF Init, EventWaitInit, NoIdleUnit, HasWaiter
<1>2. TypeOK /\ NoIdleUnit /\ [Next]_vars => NoIdleUnit'
  <2> SUFFICES ASSUME TypeOK, NoIdleUnit, [Next]_vars PROVE NoIdleUnit'
    OBVIOUS
  <2> USE TypeOKParts
  <2>1. CASE UNCHANGED <<waitList, counter>>
    BY <2>1, SameListsShrink, ShrinkKeeps
  <2>2. ASSUME NEW t \in Threads, PendStep(t)
        PROVE  NoIdleUnit'
    <3> DEFINE e == pevent[t]
    <3>1. e \in Events
      BY DEF TypeOK
    <3>2. CASE PendEnter(t) /\ PendTake(t, e)
      <4>1. \A f \in Events : counter'[f] > 0 => counter[f] > 0
        BY <3>1, <3>2, SemaphoreCAssumption DEF PendTake, TypeOK
      <4>2. QED BY <3>2, <4>1, SameListsShrink, ShrinkKeeps DEF PendTake, waitVars
    <3>3. CASE PendEnter(t) /\ PendBlock(t, e)
      <4>1. \A f \in Events : f # e => (HasWaiter(f)' <=> HasWaiter(f))
        BY <3>1, <3>3 DEF PendBlock, EventWait, HasWaiter, TypeOK, EventWaitTypeOK
      <4>2. QED BY <3>1, <3>3, <4>1 DEF PendBlock, NoIdleUnit
    <3>4. CASE PendTimeOut(t) /\ EventTimeout(t, e)
      BY <3>1, <3>4, KernelShrinks, ShrinkKeeps DEF PendTimeOut, semVars
    <3>5. CASE UNCHANGED <<waitList, counter>>
      BY <2>1, <3>5
    <3>6. QED BY <2>2, <3>2, <3>3, <3>4, <3>5
             DEF PendStep, PendEnter, PendTypeError, PendNotWait, PendResume, SchedReturn,
                 PendTestTimeOut, PendTimeOut, waitVars, semVars
  <2>3. ASSUME NEW e \in Events, Call(e) \/ Finish(e)
        PROVE  NoIdleUnit'
    <3>1. CASE Count(e)
      BY <3>1, CountKeeps
    <3>2. CASE (\E why \in Grants : Wake(e, why)) /\ UNCHANGED counter
      BY <3>2, WakeKeeps
    <3>3. CASE TryPend(e) \/ Clear(e)
      <4>1. \A f \in Events : counter'[f] > 0 => counter[f] > 0
        BY <3>3, SemaphoreCAssumption DEF TryPend, Clear, TypeOK
      <4>2. QED BY <3>3, <4>1, SameListsShrink, ShrinkKeeps DEF TryPend, Clear, waitVars
    <3>4. CASE UNCHANGED <<waitList, counter>>
      BY <3>4, SameListsShrink, ShrinkKeeps
    <3>5. CASE Call(e)
      BY <3>1, <3>2, <3>3, <3>4, <3>5
      DEF Call, PostCheck, PostCount, PostNested, ReleaseBegin, FlushBegin, DeleteBegin,
          waitVars, semVars, Grants
    <3>6. CASE Finish(e)
      BY <3>1, <3>2, <3>4, <3>6
      DEF Finish, PostReady, PostFault, ReleaseOne, ReleaseEnd, FlushOne, DeleteOne, LoopEnd,
          waitVars, semVars, Grants
    <3>7. QED BY <2>3, <3>5, <3>6
  <2>4. ASSUME NEW t \in Threads,
               Tick(t) \/ Signal(t) \/ HandlerReturn(t) \/ Suspension(t) \/ SetPriority(t)
        PROVE  NoIdleUnit'
    <3>1. Shrinks
      BY <2>4, KernelShrinks DEF Tick, Signal, HandlerReturn, Suspension, SetPriority
    <3>2. UNCHANGED counter
      BY <2>4 DEF Tick, Signal, HandlerReturn, Suspension, SetPriority, semVars
    <3>3. QED BY <3>1, <3>2, ShrinkKeeps
  <2>5. ASSUME NEW t \in Threads, NEW e \in Events, NEW w \in TimeOuts, PendCall(t, e, w)
        PROVE  NoIdleUnit'
    BY <2>1, <2>5 DEF PendCall, waitVars, semVars
  <2>6. QED BY <2>1, <2>2, <2>3, <2>4, <2>5 DEF Next, vars, waitVars, semVars
<1>3. QED BY <1>1, <1>2, TypeCorrect, PTL DEF Spec

-----------------------------------------------------------------------------
(* Without signals the queues, the TCBs and the program counters agree.    *)

\* Where no signal is sent no wait is broken, and a thread that has not begun
\* to wait has not been let through.
Unbroken ==
  \A t \in Threads : /\ schedRet[t] = "NONE" /\ sigCtl[t] = "NONE"
                     /\ pc[t] \in {"idle", "wait_again"} => grant[t] = "none"

\* What WaiterState and Unbroken say of a thread depends on these variables.
Same(u) ==
  UNCHANGED <<status[u], waitTimeOut[u], peventPtr[u], pc[u], pevent[u], timeOut[u],
              grant[u], schedRet[u], sigCtl[u]>>

LEMMA SameKeeps ==
  ASSUME QueueConsistent, Unbroken, NEW t \in Threads,
         \A u \in Threads \ {t} : Same(u),
         ListsDistinct' /\ ListsMatch', WaiterState(t)',
         schedRet'[t] = "NONE" /\ sigCtl'[t] = "NONE",
         pc'[t] \in {"idle", "wait_again"} => grant'[t] = "none"
  PROVE  QueueConsistent' /\ Unbroken'
<1>1. ASSUME NEW u \in Threads PROVE WaiterState(u)'
  BY DEF QueueConsistent, Same, WaiterState
<1>2. Unbroken'
  BY DEF Unbroken, Same
<1>3. QED BY <1>1, <1>2 DEF QueueConsistent

LEMMA PendConsistent ==
  ASSUME TypeOK, QueueConsistent, Unbroken, NEW t \in Threads, PendStep(t)
  PROVE  QueueConsistent' /\ Unbroken'
<1>1. EventWaitTypeOK /\ PendTypeOK /\ pevent[t] \in Events
  BY TypeOKParts DEF PendTypeOK
<1>2. /\ ListsDistinct /\ ListsMatch /\ WaiterState(t)
      /\ schedRet[t] = "NONE" /\ sigCtl[t] = "NONE" /\ status[t] = {}
      /\ pc[t] \in {"idle", "wait_again"} => grant[t] = "none"
  BY DEF QueueConsistent, Unbroken, PendStep, PendEnter, PendResume, PendTestTimeOut,
         PendTimeOut, CpuFree, Runs, IsReady
<1>3. NULL \notin Events
  BY EventWaitAssumption
<1>4. CASE PendEnter(t) /\ PendBlock(t, pevent[t])
  <2>1. /\ peventPtr[t] = NULL /\ pc[t] = "wait_again"
        /\ EventWait(t, pevent[t], timeOut[t] = "TICKS", priority) /\ Goto(t, "blocked")
    BY <1>2, <1>4 DEF PendEnter, PendBlock, WaiterState
  <2>2. ListsDistinct' /\ ListsMatch'
    BY <1>1, <1>2, <2>1, EventWaitLists, PriorityType
  <2>3. /\ peventPtr'[t] = pevent[t] /\ waitTimeOut'[t] = "CLEAR" /\ pc'[t] = "blocked"
        /\ status'[t] = {"SEM"} \cup IF timeOut[t] = "TICKS" THEN {"DELAY"} ELSE {}
        /\ UNCHANGED <<pevent, timeOut, grant, schedRet, sigCtl>>
    BY <1>1, <1>2, <2>1 DEF EventWait, Goto, EventWaitTypeOK, PendTypeOK
  <2>4. WaiterState(t)'
    BY <1>1, <1>2, <1>3, <2>1, <2>3 DEF WaiterState
  <2>5. \A u \in Threads \ {t} : Same(u)
    BY <1>1, <2>1 DEF EventWait, Goto, EventWaitTypeOK, PendTypeOK, Same
  <2>6. QED BY <1>2, <2>2, <2>3, <2>4, <2>5, SameKeeps
<1>5. CASE PendTimeOut(t) /\ waitTimeOut[t] # "CLEAR"
  <2>1. peventPtr[t] = pevent[t] /\ EventTimeout(t, pevent[t]) /\ Return(t, "WAIT_TIMEOUT")
    BY <1>1, <1>2, <1>3, <1>5 DEF PendTimeOut, WaiterState, waitVars, tcbVars, EventTimeout
  <2>2. ListsDistinct' /\ ListsMatch'
    BY <1>1, <1>2, <2>1, UnlinkLists DEF EventTimeout
  <2>3. WaiterState(t)'
    BY <1>1, <1>2, <1>3, <2>1 DEF EventTimeout, Return, EventWaitTypeOK, PendTypeOK, WaiterState
  <2>4. \A u \in Threads \ {t} : Same(u)
    BY <1>1, <2>1 DEF EventTimeout, Return, EventWaitTypeOK, PendTypeOK, Same
  <2>5. grant'[t] = "none" /\ UNCHANGED <<schedRet, sigCtl>>
    BY <1>1, <2>1 DEF EventTimeout, Return, PendTypeOK
  <2>6. QED BY <1>2, <2>2, <2>3, <2>4, <2>5, SameKeeps
<1>6. CASE /\ UNCHANGED <<status, waitTimeOut, peventPtr, ppringList, waitList, sigCtl>>
           /\ UNCHANGED schedRet \/ SchedReturn(t)
           /\ peventPtr[t] = NULL
           /\ \E r \in Rets : Return(t, r)
  <2>1. ListsDistinct' /\ ListsMatch'
    BY <1>2, <1>6, SameLists
  <2>2. UNCHANGED schedRet
    BY <1>1, <1>2, <1>6 DEF SchedReturn, EventWaitTypeOK
  <2>3. WaiterState(t)'
    BY <1>1, <1>2, <1>3, <1>6 DEF Return, PendTypeOK, WaiterState
  <2>4. \A u \in Threads \ {t} : Same(u)
    BY <1>1, <1>6, <2>2 DEF Return, PendTypeOK, Same
  <2>5. grant'[t] = "none"
    BY <1>1, <1>6 DEF Return, PendTypeOK
  <2>6. QED BY <1>2, <1>6, <2>1, <2>2, <2>3, <2>4, <2>5, SameKeeps
<1>7. CASE /\ UNCHANGED <<status, waitTimeOut, peventPtr, ppringList, waitList, sigCtl>>
           /\ UNCHANGED schedRet \/ SchedReturn(t)
           /\ Goto(t, "awake") \/ Goto(t, "timeout")
           /\ pc[t] \in {"blocked", "awake"}
  <2>1. ListsDistinct' /\ ListsMatch'
    BY <1>2, <1>7, SameLists
  <2>2. UNCHANGED schedRet
    BY <1>1, <1>2, <1>7 DEF SchedReturn, EventWaitTypeOK
  <2>3. pc'[t] \in {"awake", "timeout"}
    BY <1>1, <1>7 DEF Goto, PendTypeOK
  <2>4. WaiterState(t)'
    BY <1>1, <1>2, <1>3, <1>7, <2>3 DEF Goto, WaiterState
  <2>5. \A u \in Threads \ {t} : Same(u)
    BY <1>1, <1>7, <2>2 DEF Goto, PendTypeOK, Same
  <2>6. QED BY <1>2, <1>7, <2>1, <2>2, <2>3, <2>4, <2>5, SameKeeps
<1>8. CASE PendEnter(t) /\ ~ PendBlock(t, pevent[t])
  <2>1. peventPtr[t] = NULL
    BY <1>1, <1>2, <1>3, <1>8 DEF PendEnter, WaiterState
  <2>2. QED BY <1>6, <1>8, <2>1
           DEF PendEnter, PendTypeError, PendTake, PendNotWait, waitVars, tcbVars, Rets
<1>9. CASE PendResume(t)
  BY <1>2, <1>7, <1>9 DEF PendResume, PendAwake, PendInterrupted, PendRestart, Interrupted,
                          SchedReturn
<1>10. CASE PendTestTimeOut(t)
  <2>1. waitTimeOut[t] # "OUT" => peventPtr[t] = NULL
    BY <1>1, <1>2, <1>10 DEF WaiterState, PendTestTimeOut, EventWaitTypeOK
  <2>2. QED BY <1>6, <1>7, <1>10, <2>1 DEF PendTestTimeOut, waitVars, tcbVars, Rets
<1>11. CASE PendTimeOut(t) /\ waitTimeOut[t] = "CLEAR"
  <2>1. peventPtr[t] = NULL
    BY <1>1, <1>2, <1>11 DEF WaiterState
  <2>2. QED BY <1>6, <1>11, <2>1 DEF PendTimeOut, waitVars, tcbVars, Rets
<1>12. QED BY <1>4, <1>5, <1>8, <1>9, <1>10, <1>11 DEF PendStep

LEMMA WakeConsistent ==
  ASSUME TypeOK, QueueConsistent, Unbroken, NEW e \in Events, NEW why \in Grants, Wake(e, why)
  PROVE  QueueConsistent' /\ Unbroken'
<1>1. EventWaitTypeOK /\ PendTypeOK /\ HasWaiter(e) /\ EventReady(e, why = "delete", priority)
  BY TypeOKParts DEF Wake
<1>2. PICK t \in Threads : t = NextWaiter(e)
  BY <1>1, NextWaiterType
<1>3. peventPtr[t] = e /\ WaiterState(t) /\ NULL \notin Events
  BY <1>1, <1>2, NextWaiterQueued, EventWaitAssumption DEF QueueConsistent
<1>4. ListsDistinct' /\ ListsMatch'
  BY <1>1, EventReadyLists DEF QueueConsistent
<1>5. /\ pc[t] \in {"blocked", "awake", "timeout"}
      /\ peventPtr'[t] = NULL /\ waitTimeOut'[t] = "CLEAR"
      /\ "SEM" \notin status'[t] /\ "DELAY" \notin status'[t]
      /\ UNCHANGED <<pc, pevent, timeOut, schedRet, sigCtl>>
  BY <1>1, <1>2, <1>3 DEF EventReady, EventWaitTypeOK, WaiterState, Wake
<1>6. WaiterState(t)'
  BY <1>3, <1>5 DEF WaiterState
<1>7. \A u \in Threads \ {t} : Same(u)
  BY <1>1, <1>2, <1>5 DEF EventReady, EventWaitTypeOK, PendTypeOK, Wake, Same
<1>8. schedRet[t] = "NONE" /\ sigCtl[t] = "NONE"
  BY <1>2 DEF Unbroken
<1>9. QED BY <1>2, <1>4, <1>5, <1>6, <1>7, <1>8, SameKeeps

LEMMA AroundConsistent ==
  ASSUME TypeOK, QueueConsistent, Unbroken, ~ SIGNAL_EN, NEW t \in Threads,
         Tick(t) \/ Signal(t) \/ HandlerReturn(t) \/ Suspension(t) \/ SetPriority(t)
  PROVE  QueueConsistent' /\ Unbroken'
<1>1. EventWaitTypeOK /\ WaiterState(t) /\ schedRet[t] = "NONE" /\ sigCtl[t] = "NONE"
  BY TypeOKParts DEF QueueConsistent, Unbroken
<1>2. /\ UNCHANGED <<pc, pevent, timeOut, grant, peventPtr, ppringList, waitList, schedRet, sigCtl>>
      /\ \/ ThreadTick(t)
         \/ /\ UNCHANGED waitTimeOut
            /\ \E s \in {status[t], status[t] \cup {"SUSPEND"}, status[t] \ {"SUSPEND"}} :
                 status' = [status EXCEPT ![t] = s]
  <2>1. CASE Tick(t)
    BY <2>1 DEF Tick, ThreadTick, pendVars
  <2>2. ~ Signal(t)
    BY DEF Signal, ThreadStop, Kill
  <2>3. ~ HandlerReturn(t)
    BY <1>1 DEF HandlerReturn, SigReturn
  <2>4. CASE Suspension(t)
    BY <1>1, <2>4 DEF Suspension, ThreadSuspend, ThreadResume, ThreadForceResume, pendVars
  <2>5. CASE SetPriority(t)
    BY <1>1, <2>5 DEF SetPriority, ThreadSetPriority, pendVars, EventWaitTypeOK
  <2>6. QED BY <2>1, <2>2, <2>3, <2>4, <2>5
<1>3. ListsDistinct' /\ ListsMatch'
  BY <1>2, SameLists DEF QueueConsistent
<1>4. WaiterState(t)'
  <2>1. CASE ThreadTick(t)
    BY <1>1, <1>2, <2>1 DEF WaiterState, ThreadTick, EventWaitTypeOK
  <2>2. CASE ~ ThreadTick(t)
    BY <1>1, <1>2, <2>2 DEF WaiterState, EventWaitTypeOK
  <2>3. QED BY <2>1, <2>2
<1>5. \A u \in Threads \ {t} : Same(u)
  BY <1>1, <1>2 DEF ThreadTick, EventWaitTypeOK, Same
<1>6. QED BY <1>1, <1>2, <1>3, <1>4, <1>5, SameKeeps DEF Unbroken

LEMMA StillConsistent ==
  ASSUME QueueConsistent, Unbroken, UNCHANGED <<waitVars, pendVars>>
  PROVE  QueueConsistent' /\ Unbroken'
<1>1. ListsDistinct' /\ ListsMatch'
  BY SameLists DEF QueueConsistent, waitVars, tcbVars
<1>2. \A t \in Threads : WaiterState(t)'
  BY DEF QueueConsistent, WaiterState, waitVars, tcbVars, pendVars
<1>3. QED BY <1>1, <1>2 DEF QueueConsistent, Unbroken, waitVars, tcbVars, pendVars

LEMMA ConsistentInvariant == ASSUME ~ SIGNAL_EN PROVE Spec => [](QueueConsistent /\ Unbroken)
<1> DEFINE Inv == QueueConsistent /\ Unbroken
<1>1. Init => Inv
  <2> SUFFICES ASSUME Init PROVE Inv
    OBVIOUS
  <2>1. ListsDistinct /\ ListsMatch
    BY EventWaitAssumption DEF Init, EventWaitInit, ListsDistinct, ListsMatch, IsInjective, Contains
  <2>2. \A t \in Threads : WaiterState(t)
    BY EventWaitAssumption DEF Init, EventWaitInit, WaiterState
  <2>3. Unbroken
    BY DEF Init, EventWaitInit, Unbroken
  <2>4. QED BY <2>1, <2>2, <2>3 DEF QueueConsistent
<1>2. TypeOK /\ Inv /\ [Next]_vars => Inv'
  <2> SUFFICES ASSUME TypeOK, QueueConsistent, Unbroken, [Next]_vars
               PROVE  QueueConsistent' /\ Unbroken'
    OBVIOUS
  <2>1. CASE UNCHANGED <<waitVars, pendVars>>
    BY <2>1, StillConsistent
  <2>2. ASSUME NEW t \in Threads, NEW e \in Events, NEW w \in TimeOuts, PendCall(t, e, w)
        PROVE  QueueConsistent' /\ Unbroken'
    <3>1. /\ ListsDistinct' /\ ListsMatch' /\ WaiterState(t)
          /\ schedRet[t] = "NONE" /\ sigCtl[t] = "NONE" /\ grant[t] = "none"
      BY <2>2, SameLists DEF QueueConsistent, Unbroken, PendCall, waitVars, tcbVars
    <3>2. WaiterState(t)'
      BY <2>2, <3>1, EventWaitAssumption, TypeOKParts
      DEF PendCall, CpuFree, Runs, IsReady, WaiterState, waitVars, tcbVars, PendTypeOK
    <3>3. \A u \in Threads \ {t} : Same(u)
      BY <2>2, TypeOKParts DEF PendCall, Same, PendTypeOK, waitVars, tcbVars
    <3>4. QED BY <2>2, <3>1, <3>2, <3>3, SameKeeps DEF PendCall, waitVars, tcbVars
  <2>3. ASSUME NEW e \in Events, Call(e) \/ Finish(e)
        PROVE  QueueConsistent' /\ Unbroken'
    <3>1. CASE \E why \in Grants : Wake(e, why)
      BY <3>1, WakeConsistent
    <3>2. CASE Call(e)
      BY <2>1, <3>1, <3>2
      DEF Call, PostCheck, PostCount, PostNested, TryPend, Clear, Count, ReleaseBegin,
          FlushBegin, DeleteBegin, Grants
    <3>3. CASE Finish(e)
      BY <2>1, <3>1, <3>3
      DEF Finish, PostReady, PostFault, ReleaseOne, Count, ReleaseEnd, FlushOne, DeleteOne,
          LoopEnd, Grants
    <3>4. QED BY <2>3, <3>2, <3>3
  <2>4. QED BY <2>1, <2>2, <2>3, PendConsistent, AroundConsistent DEF Next, vars
<1>3. QED BY <1>1, <1>2, TypeCorrect, PTL DEF Spec

\* In a kernel built without signals the wait lists, the wait fields of the TCBs
\* and the place of each thread in API_SemaphoreCPend agree after every step.
THEOREM QueueConsistentCorrect == ASSUME ~ SIGNAL_EN PROVE Spec => []QueueConsistent
<1>1. QueueConsistent /\ Unbroken => QueueConsistent
  OBVIOUS
<1>2. QED BY <1>1, ConsistentInvariant, PTL

-----------------------------------------------------------------------------
(* The semaphore implements CountingSemaphore, without signals.            *)

InWait(t) == pc[t] \in {"blocked", "awake", "timeout"}

\* A thread that is in no queue any more, and has not returned yet, has been
\* given a unit or was let through; LW_EVENT_DELETE is the mark of a deletion.
Ended ==
  \A t \in Threads : InWait(t) =>
    /\ peventPtr[t] = NULL => grant[t] \in {"token", "flush", "delete"}
    /\ isEventDelete[t] = "DELETE" => grant[t] = "delete"

\* What Ended says of a thread depends on these variables.
EndsAlike(u) == UNCHANGED <<pc[u], peventPtr[u], isEventDelete[u], grant[u]>>

LEMMA EndedSame ==
  ASSUME Ended, NEW t \in Threads, \A u \in Threads \ {t} : EndsAlike(u),
         InWait(t)' => /\ peventPtr'[t] = NULL => grant'[t] \in {"token", "flush", "delete"}
                       /\ isEventDelete'[t] = "DELETE" => grant'[t] = "delete"
  PROVE  Ended'
  BY DEF Ended, EndsAlike, InWait

LEMMA WakeEnds ==
  ASSUME TypeOK, QueueConsistent, Ended,
         NEW e \in Events, NEW why \in {"token", "flush", "delete"}, Wake(e, why)
  PROVE  Ended'
<1>1. EventWaitTypeOK /\ PendTypeOK /\ HasWaiter(e) /\ EventReady(e, why = "delete", priority)
  BY TypeOKParts DEF Wake
<1>2. PICK t \in Threads : t = NextWaiter(e)
  BY <1>1, NextWaiterType
<1>3. peventPtr[t] = e /\ WaiterState(t) /\ NULL \notin Events
  BY <1>1, <1>2, NextWaiterQueued, EventWaitAssumption DEF QueueConsistent
<1>4. InWait(t) /\ isEventDelete[t] # "DELETE"
  BY <1>3 DEF WaiterState, InWait, Ended
<1>5. /\ grant'[t] = why
      /\ isEventDelete'[t] = "DELETE" => why = "delete"
  BY <1>1, <1>2, <1>4 DEF Wake, EventReady, PendTypeOK, EventWaitTypeOK
<1>6. \A u \in Threads \ {t} : EndsAlike(u)
  BY <1>1, <1>2 DEF Wake, EventReady, PendTypeOK, EventWaitTypeOK, EndsAlike
<1>7. QED BY <1>5, <1>6, EndedSame

LEMMA PendEnds ==
  ASSUME TypeOK, QueueConsistent, Unbroken, Ended, NEW t \in Threads, PendStep(t)
  PROVE  Ended'
<1>1. EventWaitTypeOK /\ PendTypeOK /\ pevent[t] \in Events /\ NULL \notin Events
  BY TypeOKParts, EventWaitAssumption DEF PendTypeOK
<1>2. schedRet[t] = "NONE"
  BY DEF Unbroken
<1>3. \A u \in Threads \ {t} : EndsAlike(u)
  BY <1>1 DEF PendStep, PendEnter, PendTypeError, PendTake, PendNotWait, PendBlock, PendResume,
              PendAwake, PendInterrupted, PendRestart, PendTestTimeOut, PendTimeOut,
              Return, Goto, EventWait, EventTimeout, SchedReturn, waitVars, tcbVars,
              EventWaitTypeOK, PendTypeOK, EndsAlike
<1>4. CASE pc'[t] = "idle"
  BY <1>3, <1>4, EndedSame DEF InWait
<1>5. CASE PendEnter(t) /\ PendBlock(t, pevent[t])
  <2>1. peventPtr'[t] = pevent[t] /\ isEventDelete'[t] = "EXIST"
    BY <1>1, <1>5 DEF PendBlock, EventWait, EventWaitTypeOK
  <2>2. QED BY <1>1, <1>3, <2>1, EndedSame
<1>6. CASE /\ UNCHANGED <<peventPtr, isEventDelete, grant>>
           /\ InWait(t)
  BY <1>3, <1>6, EndedSame DEF Ended
<1>7. QED BY <1>1, <1>2, <1>4, <1>5, <1>6
         DEF PendStep, PendEnter, PendTypeError, PendTake, PendNotWait, PendResume, PendAwake,
             PendInterrupted, Interrupted, PendRestart, PendTestTimeOut, PendTimeOut, Return, Goto,
             SchedReturn, waitVars, tcbVars, PendTypeOK, InWait

LEMMA EndedInvariant == ASSUME ~ SIGNAL_EN PROVE Spec => []Ended
<1>1. Init => Ended
  BY DEF Init, Ended, InWait
<1>2. TypeOK /\ QueueConsistent /\ Unbroken /\ Ended /\ [Next]_vars => Ended'
  <2> SUFFICES ASSUME TypeOK, QueueConsistent, Unbroken, Ended, [Next]_vars PROVE Ended'
    OBVIOUS
  <2>1. CASE UNCHANGED <<pc, peventPtr, isEventDelete, grant>>
    BY <2>1 DEF Ended, InWait
  <2>2. ASSUME NEW t \in Threads, NEW e \in Events, NEW w \in TimeOuts, PendCall(t, e, w)
        PROVE  Ended'
    BY <2>2, TypeOKParts
       DEF PendCall, waitVars, tcbVars, Ended, InWait, PendTypeOK
  <2>3. ASSUME NEW e \in Events, Call(e) \/ Finish(e) PROVE Ended'
    <3>1. CASE \E why \in {"token", "flush", "delete"} : Wake(e, why)
      BY <3>1, WakeEnds
    <3>2. CASE Call(e)
      BY <2>1, <3>1, <3>2
      DEF Call, PostCheck, PostCount, PostNested, TryPend, Clear, Count, ReleaseBegin,
          FlushBegin, DeleteBegin, waitVars, tcbVars, pendVars
    <3>3. CASE Finish(e)
      BY <2>1, <3>1, <3>3
      DEF Finish, PostReady, PostFault, ReleaseOne, Count, ReleaseEnd, FlushOne, DeleteOne,
          LoopEnd, waitVars, tcbVars, pendVars
    <3>4. QED BY <2>3, <3>2, <3>3
  <2>4. ASSUME NEW t \in Threads,
               Tick(t) \/ Signal(t) \/ HandlerReturn(t) \/ Suspension(t) \/ SetPriority(t)
        PROVE  Ended'
    <3>1. ~ Signal(t)
      BY DEF Signal, ThreadStop, Kill
    <3>2. QED BY <2>1, <2>4, <3>1
             DEF Tick, ThreadTick, HandlerReturn, SigReturn, Suspension, ThreadSuspend,
                 ThreadResume, ThreadForceResume, SetPriority, ThreadSetPriority, pendVars
  <2>5. QED BY <2>1, <2>2, <2>3, <2>4, PendEnds DEF Next, vars, waitVars, tcbVars, pendVars
<1>3. QED BY <1>1, <1>2, TypeCorrect, ConsistentInvariant, PTL DEF Spec

-----------------------------------------------------------------------------
(* One lemma for each step of CountingSemaphore: what a step of the code   *)
(* has to establish.                                                       *)

LEMMA GivenSize == \A e \in Events : IsFiniteSet(Given(e)) /\ Cardinality(Given(e)) \in Nat
<1>1. IsFiniteSet(Threads)
  BY SemaphoreCAssumption
<1>2. ASSUME NEW e \in Events PROVE IsFiniteSet(Given(e)) /\ Cardinality(Given(e)) \in Nat
  <2>1. Given(e) \subseteq Threads
    BY DEF Given
  <2>2. IsFiniteSet(Given(e))
    BY <1>1, <2>1, FS_Subset
  <2>3. QED BY <2>2, FS_CardinalityType
<1>3. QED BY <1>2

LEMMA UnitsAre ==
  ASSUME NEW e \in Events, NEW n,
         counter'[e] + Cardinality(Given(e)') = n,
         \A f \in Events : f # e => counter'[f] = counter[f] /\ Given(f)' = Given(f)
  PROVE  Units[e] = counter[e] + Cardinality(Given(e)) /\ Units' = [Units EXCEPT ![e] = n]
<1>1. \A f \in Events : f # e => Units'[f] = Units[f]
  BY DEF Units
<1>2. Units'[e] = n
  BY DEF Units
<1>3. Units' = [f \in Events |-> Units'[f]] /\ Units = [f \in Events |-> Units[f]]
  BY DEF Units
<1>4. QED BY <1>1, <1>2, <1>3 DEF Units

\* A thread that CountingSemaphore does not see change.
Unseen(u) ==
  /\ Waiting(u)' <=> Waiting(u)
  /\ Waiting(u) => pevent'[u] = pevent[u]
  /\ grant'[u] = grant[u]

LEMMA UnseenSets ==
  ASSUME \A u \in Threads : Unseen(u)
  PROVE  /\ \A e \in Events : Given(e)' = Given(e)
         /\ Asking' = Asking /\ Passed' = Passed
<1>1. \A e \in Events : Given(e)' = Given(e)
  BY DEF Given, Unseen
<1>2. Asking' = Asking
  BY DEF Asking, Unseen
<1>3. Passed' = Passed
  BY DEF Passed, Unseen
<1>4. QED BY <1>1, <1>2, <1>3

LEMMA QuietIs ==
  ASSUME \A u \in Threads : Unseen(u), UNCHANGED <<counter, ret>>
  PROVE  UNCHANGED Semaphore!vars
<1>1. Units' = Units
  BY UnseenSets DEF Units
<1>2. QED BY <1>1, UnseenSets DEF Semaphore!vars

\* One call ends: the thread is asked for nothing more.
LEMMA ReturnIs ==
  ASSUME PendTypeOK, NEW t \in Threads, NEW r \in Rets, Waiting(t), Return(t, r)
  PROVE  /\ Asking[t] = pevent[t] /\ Asking' = [Asking EXCEPT ![t] = NULL]
         /\ Passed' = Passed \ {t} /\ ret' = [ret EXCEPT ![t] = r]
         /\ \A e \in Events : Given(e)' = Given(e) \ {t}
<1>1. ~ Waiting(t)' /\ \A u \in Threads \ {t} : Unseen(u)
  BY DEF Return, PendTypeOK, Waiting, Unseen
<1>2. Asking[t] = pevent[t] /\ Asking' = [Asking EXCEPT ![t] = NULL]
  BY <1>1 DEF Asking, Unseen
<1>3. Passed' = Passed \ {t}
  BY <1>1 DEF Passed, Unseen
<1>4. \A e \in Events : Given(e)' = Given(e) \ {t}
  BY <1>1 DEF Given, Unseen
<1>5. QED BY <1>2, <1>3, <1>4 DEF Return

LEMMA TakeIs ==
  ASSUME SemTypeOK, PendTypeOK, NEW t \in Threads, Waiting(t), Return(t, "NONE"),
         \/ grant[t] = "token" /\ UNCHANGED counter
         \/ /\ grant[t] = "none" /\ counter[pevent[t]] > 0
            /\ counter' = [counter EXCEPT ![pevent[t]] = @ - 1]
  PROVE  Semaphore!Next
<1>1. PICK e \in Events : e = pevent[t]
  BY DEF PendTypeOK
<1>2. counter \in [Events -> Nat]
  BY SemaphoreCAssumption DEF SemTypeOK
<1>3. /\ Asking[t] = e /\ Asking' = [Asking EXCEPT ![t] = NULL]
      /\ Passed' = Passed \ {t} /\ ret' = [ret EXCEPT ![t] = "NONE"]
      /\ \A f \in Events : Given(f)' = Given(f) \ {t}
  BY <1>1, ReturnIs DEF Rets
<1>4. e # NULL /\ t \notin Passed /\ Passed' = Passed
  BY <1>3, EventWaitAssumption DEF Passed
<1>5. \A f \in Events : f # e => Given(f)' = Given(f)
  BY <1>1, <1>3 DEF Given
<1>6. Units[e] > 0 /\ Units' = [Units EXCEPT ![e] = @ - 1]
  <2>1. CASE grant[t] = "token"
    <3>1. t \in Given(e) /\ counter' = counter
      BY <1>1, <2>1 DEF Given
    <3>2. Cardinality(Given(e) \ {t}) = Cardinality(Given(e)) - 1
      BY <3>1, GivenSize, FS_RemoveElement
    <3>3. Cardinality(Given(e)') = Cardinality(Given(e)) - 1
      BY <1>3, <3>2
    <3>4. Cardinality(Given(e)) \in Nat /\ Cardinality(Given(e)') \in Nat
      <4>1. IsFiniteSet(Given(e) \ {t})
        BY GivenSize, FS_RemoveElement
      <4>2. QED BY <1>3, <4>1, GivenSize, FS_CardinalityType
    <3>5. /\ Units[e] = counter[e] + Cardinality(Given(e))
          /\ Units' = [Units EXCEPT ![e] = counter'[e] + Cardinality(Given(e)')]
      BY <1>5, <3>1, UnitsAre
    <3>6. Units[e] > 0 /\ counter'[e] + Cardinality(Given(e)') = Units[e] - 1
      BY <1>2, <3>1, <3>3, <3>4, <3>5
    <3>7. QED BY <3>5, <3>6
  <2>2. CASE grant[t] = "none"
    <3>1. Given(e)' = Given(e)
      BY <1>3, <2>2 DEF Given
    <3>2. /\ counter[e] > 0 /\ counter' = [counter EXCEPT ![e] = @ - 1]
      BY <1>1, <2>2
    <3>3. counter'[e] = counter[e] - 1 /\ \A f \in Events : f # e => counter'[f] = counter[f]
      BY <1>2, <3>2
    <3>4. /\ Units[e] = counter[e] + Cardinality(Given(e))
          /\ Units' = [Units EXCEPT ![e] = counter'[e] + Cardinality(Given(e)')]
      BY <1>5, <3>3, UnitsAre
    <3>5. Cardinality(Given(e)') = Cardinality(Given(e)) /\ Cardinality(Given(e)) \in Nat
      BY <3>1, GivenSize
    <3>6. Units[e] > 0 /\ counter'[e] + Cardinality(Given(e)') = Units[e] - 1
      BY <1>2, <3>2, <3>3, <3>4, <3>5
    <3>7. QED BY <3>4, <3>6
  <2>3. QED BY <2>1, <2>2
<1>7. Semaphore!Take(t)
  BY <1>3, <1>4, <1>6 DEF Semaphore!Take
<1>8. QED BY <1>7 DEF Semaphore!Next

LEMMA LeaveIs ==
  ASSUME PendTypeOK, NEW t \in Threads, NEW r \in Rets, Waiting(t), Return(t, r), UNCHANGED counter,
         grant[t] # "token", grant[t] \in {"flush", "delete"} \/ r # "NONE"
  PROVE  Semaphore!Next
<1>1. pevent[t] \in Events
  BY DEF PendTypeOK
<1>2. /\ Asking[t] = pevent[t] /\ Asking' = [Asking EXCEPT ![t] = NULL]
      /\ Passed' = Passed \ {t} /\ ret' = [ret EXCEPT ![t] = r]
      /\ \A f \in Events : Given(f)' = Given(f) \ {t}
  BY ReturnIs
<1>3. Asking[t] # NULL
  BY <1>1, <1>2, EventWaitAssumption
<1>4. t \in Passed \/ r # "NONE"
  BY DEF Passed
<1>5. \A f \in Events : Given(f)' = Given(f)
  BY <1>2 DEF Given
<1>6. Units' = Units
  BY <1>5 DEF Units
<1>7. Semaphore!Leave(t, r)
  BY <1>2, <1>3, <1>4, <1>6 DEF Semaphore!Leave
<1>8. QED BY <1>7 DEF Semaphore!Next, Rets

LEMMA AskIs ==
  ASSUME PendTypeOK, Unbroken, NEW t \in Threads, NEW e \in Events, NEW w \in TimeOuts, PendCall(t, e, w)
  PROVE  Semaphore!Next
<1>1. ~ Waiting(t) /\ Waiting(t)' /\ pevent'[t] = e /\ grant[t] = "none" /\ grant' = grant
  BY DEF PendCall, PendTypeOK, Waiting, Unbroken
<1>2. \A u \in Threads \ {t} : Unseen(u)
  BY DEF PendCall, PendTypeOK, Waiting, Unseen
<1>3. Asking[t] = NULL /\ Asking' = [Asking EXCEPT ![t] = e]
  BY <1>1, <1>2 DEF Asking, Unseen
<1>4. Passed' = Passed
  BY <1>1, <1>2 DEF Passed, Unseen
<1>5. \A f \in Events : Given(f)' = Given(f)
  BY <1>1, <1>2 DEF Given, Unseen
<1>6. Units' = Units /\ ret' = ret
  BY <1>5 DEF Units, PendCall, semVars
<1>7. Semaphore!Ask(t, e)
  BY <1>3, <1>4, <1>6 DEF Semaphore!Ask
<1>8. QED BY <1>7 DEF Semaphore!Next

\* A unit is counted, or taken out of the counter by TryPend or Clear.
LEMMA CounterIs ==
  ASSUME SemTypeOK, NEW e \in Events, NEW n \in 0..(counter[e] + 1),
         counter' = [counter EXCEPT ![e] = n], UNCHANGED pendVars
  PROVE  Semaphore!Next
<1>1. \A u \in Threads : Unseen(u)
  BY DEF Unseen, Waiting, pendVars
<1>2. counter \in [Events -> Nat]
  BY SemaphoreCAssumption DEF SemTypeOK
<1>3. Asking' = Asking /\ Passed' = Passed /\ ret' = ret /\ \A f \in Events : Given(f)' = Given(f)
  BY <1>1, UnseenSets DEF pendVars
<1>4. Cardinality(Given(e)) \in Nat
  BY GivenSize
<1>5. /\ counter'[e] + Cardinality(Given(e)') = n + Cardinality(Given(e))
      /\ \A f \in Events : f # e => counter'[f] = counter[f]
  BY <1>2, <1>3
<1>6. /\ Units[e] = counter[e] + Cardinality(Given(e))
      /\ Units' = [Units EXCEPT ![e] = n + Cardinality(Given(e))]
  BY <1>3, <1>5, UnitsAre
<1>7. CASE n = counter[e] + 1
  <2>1. Units' = [Units EXCEPT ![e] = @ + 1]
    <3>1. n + Cardinality(Given(e)) = Units[e] + 1
      BY <1>2, <1>4, <1>6, <1>7
    <3>2. QED BY <1>6, <3>1
  <2>2. Semaphore!Give(e)
    BY <1>3, <2>1 DEF Semaphore!Give
  <2>3. QED BY <2>2 DEF Semaphore!Next
<1>8. CASE n # counter[e] + 1
  <2>1. n + Cardinality(Given(e)) \in 0..Units[e]
    BY <1>2, <1>4, <1>6, <1>8
  <2>2. Semaphore!Drain(e)
    BY <1>3, <1>6, <2>1 DEF Semaphore!Drain
  <2>3. QED BY <2>2 DEF Semaphore!Next
<1>9. QED BY <1>7, <1>8

\* A waiter is given a unit, or let through.
LEMMA WakeIs ==
  ASSUME TypeOK, QueueConsistent, NEW e \in Events, NEW why \in {"token", "flush", "delete"},
         Wake(e, why), UNCHANGED counter
  PROVE  Semaphore!Next
<1>1. EventWaitTypeOK /\ SemTypeOK /\ PendTypeOK /\ HasWaiter(e)
  BY TypeOKParts DEF Wake
<1>2. PICK t \in Threads : t = NextWaiter(e)
  BY <1>1, NextWaiterType
<1>3. Waiting(t) /\ pevent[t] = e /\ grant[t] = "none"
  BY <1>1, <1>2, NextWaiterQueued, EventWaitAssumption DEF QueueConsistent, WaiterState, Waiting
<1>4. /\ UNCHANGED <<pc, pevent, ret>> /\ grant'[t] = why
      /\ \A u \in Threads \ {t} : Unseen(u)
  BY <1>1, <1>2 DEF Wake, PendTypeOK, Unseen, Waiting
<1>5. Asking' = Asking /\ Asking[t] # NULL
  BY <1>3, <1>4, EventWaitAssumption DEF Asking, Waiting
<1>6. CASE why = "token"
  <2>1. Passed' = Passed
    BY <1>3, <1>4, <1>6 DEF Passed, Unseen
  <2>2. \A f \in Events : f # e => Given(f)' = Given(f)
    BY <1>3, <1>4 DEF Given, Unseen
  <2>3. t \notin Given(e) /\ Given(e)' = Given(e) \cup {t}
    BY <1>3, <1>4, <1>6 DEF Given, Unseen, Waiting
  <2>4. Cardinality(Given(e)') = Cardinality(Given(e)) + 1
    BY <2>3, GivenSize, FS_AddElement
  <2>5. Units' = [Units EXCEPT ![e] = @ + 1]
    <3>1. counter \in [Events -> Nat]
      BY <1>1, SemaphoreCAssumption DEF SemTypeOK
    <3>2. /\ Units[e] = counter[e] + Cardinality(Given(e))
          /\ Units' = [Units EXCEPT ![e] = counter'[e] + Cardinality(Given(e)')]
      BY <2>2, UnitsAre
    <3>3. counter'[e] + Cardinality(Given(e)') = Units[e] + 1
      BY <2>4, <3>1, <3>2, GivenSize
    <3>4. QED BY <3>2, <3>3
  <2>6. Semaphore!Give(e)
    BY <1>4, <1>5, <2>1, <2>5 DEF Semaphore!Give
  <2>7. QED BY <2>6 DEF Semaphore!Next
<1>7. CASE why # "token"
  <2>1. Passed' = Passed \cup {t}
    BY <1>3, <1>4, <1>7 DEF Passed, Unseen, Waiting
  <2>2. \A f \in Events : Given(f)' = Given(f)
    BY <1>3, <1>4, <1>7 DEF Given, Unseen
  <2>3. Units' = Units
    BY <2>2 DEF Units
  <2>4. Semaphore!LetThrough(t)
    BY <1>4, <1>5, <2>1, <2>3 DEF Semaphore!LetThrough
  <2>5. QED BY <2>4 DEF Semaphore!Next
<1>8. QED BY <1>6, <1>7

-----------------------------------------------------------------------------
(* Every step of the semaphore is one of those, or is not seen.            *)

LEMMA PendStepIs ==
  ASSUME TypeOK, QueueConsistent, Unbroken, Ended, NEW t \in Threads, PendStep(t)
  PROVE  Semaphore!Next \/ UNCHANGED Semaphore!vars
<1>1. EventWaitTypeOK /\ SemTypeOK /\ PendTypeOK /\ pevent[t] \in Events /\ NULL \notin Events
  BY TypeOKParts, EventWaitAssumption DEF PendTypeOK
<1>2. /\ WaiterState(t) /\ schedRet[t] = "NONE" /\ status[t] = {}
      /\ pc[t] \in {"idle", "wait_again"} => grant[t] = "none"
  BY DEF QueueConsistent, Unbroken, PendStep, PendEnter, PendResume, PendTestTimeOut,
         PendTimeOut, CpuFree, Runs, IsReady
<1>3. Waiting(t)
  BY DEF Waiting, PendStep, PendEnter, PendResume, PendTestTimeOut, PendTimeOut
<1>4. ASSUME NEW l \in {"blocked", "awake", "timeout"}, Goto(t, l), UNCHANGED counter
      PROVE  UNCHANGED Semaphore!vars
  <2>1. \A u \in Threads : Unseen(u)
    BY <1>1, <1>3, <1>4 DEF Goto, Unseen, Waiting, PendTypeOK
  <2>2. QED BY <1>4, <2>1, QuietIs DEF Goto
<1>5. CASE PendEnter(t)
  <2> DEFINE e == pevent[t]
  <2>1. grant[t] = "none"
    BY <1>2, <1>5 DEF PendEnter
  <2>2. CASE PendTypeError(t, e)
    BY <1>1, <1>3, <2>1, <2>2, LeaveIs DEF PendTypeError, Rets
  <2>3. CASE PendTake(t, e)
    BY <1>1, <1>3, <2>1, <2>3, TakeIs DEF PendTake
  <2>4. CASE PendNotWait(t, e)
    BY <1>1, <1>3, <2>1, <2>4, LeaveIs DEF PendNotWait, Rets
  <2>5. CASE PendBlock(t, e)
    BY <1>4, <2>5 DEF PendBlock
  <2>6. QED BY <1>5, <2>2, <2>3, <2>4, <2>5 DEF PendEnter
<1>6. CASE PendResume(t)
  BY <1>2, <1>4, <1>6 DEF PendResume, PendAwake, PendInterrupted, PendRestart, Interrupted, semVars
<1>7. CASE PendTestTimeOut(t)
  <2>1. counter' = counter /\ InWait(t)
    BY <1>7 DEF PendTestTimeOut, semVars, InWait
  <2>2. CASE Goto(t, "timeout")
    BY <1>4, <2>1, <2>2
  <2>3. CASE waitTimeOut[t] # "OUT"
    <3>1. peventPtr[t] = NULL
      BY <1>1, <1>2, <1>7, <2>3 DEF WaiterState, EventWaitTypeOK
    <3>2. grant[t] \in {"token", "flush", "delete"}
      BY <2>1, <3>1 DEF Ended
    <3>3. CASE Return(t, "WAS_DELETED") /\ isEventDelete[t] = "DELETE"
      <4>1. grant[t] = "delete"
        BY <2>1, <3>3 DEF Ended
      <4>2. QED BY <1>1, <1>3, <2>1, <3>3, <4>1, LeaveIs DEF Rets
    <3>4. CASE Return(t, "NONE")
      BY <1>1, <1>3, <2>1, <3>2, <3>4, TakeIs, LeaveIs DEF Rets
    <3>5. QED BY <1>7, <2>3, <3>3, <3>4 DEF PendTestTimeOut
  <2>4. QED BY <1>7, <2>2, <2>3 DEF PendTestTimeOut
<1>8. CASE PendTimeOut(t)
  <2>1. counter' = counter /\ InWait(t)
    BY <1>8 DEF PendTimeOut, semVars, InWait
  <2>2. CASE waitTimeOut[t] = "CLEAR"
    <3>1. peventPtr[t] = NULL /\ Return(t, "NONE")
      BY <1>2, <1>8, <2>2 DEF PendTimeOut, WaiterState
    <3>2. grant[t] \in {"token", "flush", "delete"}
      BY <2>1, <3>1 DEF Ended
    <3>3. QED BY <1>1, <1>3, <2>1, <3>1, <3>2, TakeIs, LeaveIs DEF Rets
  <2>3. CASE waitTimeOut[t] # "CLEAR"
    <3>1. grant[t] = "none" /\ Return(t, "WAIT_TIMEOUT")
      BY <1>1, <1>2, <1>8, <2>3 DEF PendTimeOut, WaiterState
    <3>2. QED BY <1>1, <1>3, <2>1, <3>1, LeaveIs DEF Rets
  <2>4. QED BY <2>2, <2>3
<1>9. QED BY <1>5, <1>6, <1>7, <1>8 DEF PendStep

LEMMA CallIs ==
  ASSUME TypeOK, QueueConsistent, NEW e \in Events, Call(e) \/ Finish(e)
  PROVE  Semaphore!Next \/ UNCHANGED Semaphore!vars
<1>1. SemTypeOK /\ counter[e] \in Nat
  BY TypeOKParts, SemaphoreCAssumption DEF SemTypeOK
<1>2. CASE UNCHANGED <<counter, pendVars>>
  <2>1. \A u \in Threads : Unseen(u)
    BY <1>2 DEF Unseen, Waiting, pendVars
  <2>2. QED BY <1>2, <2>1, QuietIs DEF pendVars
<1>3. CASE (\E why \in {"token", "flush", "delete"} : Wake(e, why)) /\ UNCHANGED counter
  BY <1>3, WakeIs
<1>4. CASE Count(e)
  <2>1. counter[e] + 1 \in 0..(counter[e] + 1)
    BY <1>1
  <2>2. QED BY <1>1, <1>4, <2>1, CounterIs DEF Count
<1>5. CASE TryPend(e)
  <2>1. counter[e] - 1 \in 0..(counter[e] + 1)
    BY <1>1, <1>5 DEF TryPend
  <2>2. QED BY <1>1, <1>5, <2>1, CounterIs DEF TryPend
<1>6. CASE Clear(e)
  <2>1. 0 \in 0..(counter[e] + 1)
    BY <1>1
  <2>2. QED BY <1>1, <1>6, <2>1, CounterIs DEF Clear
<1>7. CASE Call(e)
  BY <1>2, <1>3, <1>4, <1>5, <1>6, <1>7
  DEF Call, PostCheck, PostCount, PostNested, ReleaseBegin, FlushBegin, DeleteBegin, semVars
<1>8. CASE Finish(e)
  BY <1>2, <1>3, <1>4, <1>8
  DEF Finish, PostReady, PostFault, ReleaseOne, ReleaseEnd, FlushOne, DeleteOne, LoopEnd, semVars
<1>9. QED BY <1>7, <1>8

\* No unit is lost and none is used twice, in a kernel built without signals: a Pend
\* that succeeds has used up one unit or was let through by a flush, one that fails
\* has used up none, whatever post, release, time-out and deletion come in between.
THEOREM ConservesUnitsCorrect == ASSUME ~ SIGNAL_EN PROVE Spec => ConservesUnits
<1>1. Init => Semaphore!Init
  <2> SUFFICES ASSUME Init PROVE Semaphore!Init
    OBVIOUS
  <2>1. \A e \in Events : Given(e) = {} /\ counter[e] = InitCounter
    BY DEF Init, Given, Waiting
  <2>2. Cardinality({}) = 0 /\ InitCounter \in Nat
    BY FS_EmptySet, SemaphoreCAssumption
  <2>3. Units = [e \in Events |-> InitCounter]
    BY <2>1, <2>2 DEF Units
  <2>4. Asking = [t \in Threads |-> NULL] /\ Passed = {}
    BY DEF Init, Asking, Passed, Waiting
  <2>5. QED BY <2>3, <2>4 DEF Init, Semaphore!Init
<1>2. TypeOK /\ QueueConsistent /\ Unbroken /\ Ended /\ [Next]_vars => [Semaphore!Next]_(Semaphore!vars)
  <2> SUFFICES ASSUME TypeOK, QueueConsistent, Unbroken, Ended, [Next]_vars
               PROVE  Semaphore!Next \/ UNCHANGED Semaphore!vars
    OBVIOUS
  <2>1. CASE UNCHANGED <<counter, pendVars>>
    <3>1. \A u \in Threads : Unseen(u)
      BY <2>1 DEF Unseen, Waiting, pendVars
    <3>2. QED BY <2>1, <3>1, QuietIs DEF pendVars
  <2>2. ASSUME NEW t \in Threads, NEW e \in Events, NEW w \in TimeOuts, PendCall(t, e, w)
        PROVE  Semaphore!Next
    BY <2>2, AskIs, TypeOKParts
  <2>3. ASSUME NEW t \in Threads,
               Tick(t) \/ Signal(t) \/ HandlerReturn(t) \/ Suspension(t) \/ SetPriority(t)
        PROVE  UNCHANGED <<counter, pendVars>>
    <3>1. ~ Signal(t)
      BY DEF Signal, ThreadStop, Kill
    <3>2. QED BY <2>3, <3>1 DEF Tick, HandlerReturn, Suspension, SetPriority, semVars
  <2>4. QED BY <2>1, <2>2, <2>3, PendStepIs, CallIs DEF Next, vars, semVars
<1>3. QED BY <1>1, <1>2, TypeCorrect, ConsistentInvariant, EndedInvariant, PTL
         DEF Spec, ConservesUnits, Semaphore!Spec
=============================================================================
