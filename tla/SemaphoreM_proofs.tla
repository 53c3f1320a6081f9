-------------------------- MODULE SemaphoreM_proofs --------------------------
(***************************************************************************)
(* Theorems about the mutex, for any number of threads and mutexes, any    *)
(* priorities, options and depth of recursion.                             *)
(***************************************************************************)
EXTENDS SemaphoreM, EventWait_proofs, FiniteSetTheorems

-----------------------------------------------------------------------------
(* Types.  The bounds on nest and held that TypeOK states follow from      *)
(* Ownership; what the proofs need of the types does not.                  *)

MutexTypes ==
  /\ type      \in [Events -> {"MUTEX", "UNUSED"}]
  /\ free      \in [Events -> BOOLEAN]
  /\ own       \in [Events -> Threads \cup {NULL}]
  /\ nest      \in [Events -> Nat]
  /\ delStep   \in [Events -> {"none", "waking", "unsafe", "delete_owner"}]
  /\ savedPrio \in [Events -> 0..PRIO_LOWEST]
  /\ \A e \in Events : own[e] # NULL => savedPrio[e] \in Priorities

CallTypes ==
  /\ pc      \in [Threads -> Labels]
  /\ pevent  \in [Threads -> Events]
  /\ timeOut \in [Threads -> TimeOuts]
  /\ held    \in [Threads -> [Events -> Nat]]

DeletionTypes == delProc \in [Threads -> {"none", "marked", "stopped", "gone"}]

Types == EventWaitTypeOK /\ MutexTypes /\ CallTypes /\ DeletionTypes

LEMMA UnchangedTypes ==
  /\ EventWaitTypeOK /\ UNCHANGED waitVars => EventWaitTypeOK'
  /\ MutexTypes /\ UNCHANGED mutexVars => MutexTypes'
  /\ CallTypes /\ UNCHANGED pendVars => CallTypes'
  /\ DeletionTypes /\ UNCHANGED delProc => DeletionTypes'
  BY DEF EventWaitTypeOK, MutexTypes, CallTypes, DeletionTypes, waitVars, tcbVars,
         mutexVars, pendVars

LEMMA InitTypes == Init => Types
<1> SUFFICES ASSUME Init PROVE Types
  OBVIOUS
<1>1. EventWaitTypeOK
  <2>1. 0 \in Buckets
    BY DEF Buckets
  <2>2. waitList \in [Events -> [Buckets -> Seq(Threads)]]
    BY DEF Init, EventWaitInit
  <2>3. QED BY <2>1, <2>2 DEF Init, EventWaitInit, EventWaitTypeOK, StatusBits, SchedRets
<1>2. MutexTypes
  BY SemaphoreMAssumption DEF Init, MutexTypes
<1>3. CallTypes /\ DeletionTypes
  BY DEF Init, CallTypes, DeletionTypes, TimeOuts, Labels
<1>4. QED BY <1>1, <1>2, <1>3 DEF Types

LEMMA ReturnTypes ==
  ASSUME CallTypes, NEW t \in Threads, NEW r, Return(t, r)
  PROVE  CallTypes'
  BY DEF CallTypes, Return, Labels

LEMMA GotoTypes ==
  ASSUME CallTypes, NEW t \in Threads, NEW l \in Labels, Goto(t, l)
  PROVE  CallTypes'
  BY DEF CallTypes, Goto

LEMMA GotTypes ==
  ASSUME CallTypes, NEW t \in Threads, Got(t)
  PROVE  CallTypes'
  BY ReturnTypes, GotoTypes DEF Got, Labels

LEMMA BoostedType ==
  ASSUME EventWaitTypeOK, MutexTypes, NEW t \in Threads, NEW e \in Events
  PROVE  Boosted(t, e) \in [Threads -> Priorities]
<1>1. priority \in [Threads -> Priorities] /\ Ceiling[e] \in Priorities
  BY PriorityType, SemaphoreMAssumption
<1>2. QED BY <1>1 DEF Boosted

LEMMA PendEnterTypes ==
  ASSUME Types, NEW t \in Threads, PendEnter(t)
  PROVE  Types'
<1> DEFINE e == pevent[t]
<1>1. /\ EventWaitTypeOK /\ MutexTypes /\ CallTypes /\ DeletionTypes /\ e \in Events
      /\ priority \in [Threads -> Priorities] /\ Priorities \subseteq 0..PRIO_LOWEST
  BY PriorityType, SemaphoreMAssumption DEF Types, CallTypes
<1> HIDE DEF e
<1>2. DeletionTypes'
  BY <1>1 DEF PendEnter, safeVars, DeletionTypes
<1>3. CASE PendTake(t, e)
  <2>1. MutexTypes'
    BY <1>1, <1>3 DEF PendTake, MutexTypes
  <2>2. QED BY <1>1, <1>2, <1>3, <2>1, GotTypes, UnchangedTypes DEF PendTake, Types
<1>4. CASE PendRecursive(t, e)
  <2>1. MutexTypes'
    BY <1>1, <1>4 DEF PendRecursive, MutexTypes
  <2>2. QED BY <1>1, <1>2, <1>4, <2>1, ReturnTypes, UnchangedTypes DEF PendRecursive, Types
<1>5. CASE PendBlock(t, e)
  <2>1. EventWaitTypeOK'
    BY <1>1, <1>5, EventWaitType, BoostedType DEF PendBlock
  <2>2. CallTypes'
    BY <1>1, <1>5, GotoTypes DEF PendBlock, Labels
  <2>3. QED BY <1>1, <1>2, <1>5, <2>1, <2>2, UnchangedTypes DEF PendBlock, Types
<1>6. CASE PendTypeError(t, e) \/ PendNotWait(t, e)
  BY <1>1, <1>2, <1>6, ReturnTypes, UnchangedTypes DEF PendTypeError, PendNotWait, Types
<1>7. QED BY <1>3, <1>4, <1>5, <1>6 DEF PendEnter, e
LEMMA PendStepTypes ==
  ASSUME Types, NEW t \in Threads, PendStep(t)
  PROVE  Types'
<1>1. /\ EventWaitTypeOK /\ MutexTypes /\ CallTypes /\ DeletionTypes /\ pevent[t] \in Events
      /\ {"idle", "awake", "timeout", "safe", "self_delete"} \subseteq Labels
  BY DEF Types, CallTypes, Labels
<1>2. CASE PendEnter(t)
  BY <1>2, PendEnterTypes
<1>3. CASE PendResume(t)
  <2>1. EventWaitTypeOK'
    BY <1>1, <1>3, KernelType DEF PendResume
  <2>2. CallTypes'
    <3>1. CASE Goto(t, "awake") \/ Return(t, "EINTR")
      BY <1>1, <3>1, GotoTypes, ReturnTypes
    <3>2. CASE ~ (Goto(t, "awake") \/ Return(t, "EINTR"))
      BY <1>1, <1>3, <3>2 DEF PendResume, CallTypes, Labels, TimeOuts
    <3>3. QED BY <3>1, <3>2
  <2>3. QED BY <1>1, <1>3, <2>1, <2>2, UnchangedTypes DEF PendResume, Types, safeVars
<1>4. CASE PendTestTimeOut(t)
  <2>1. CallTypes'
    BY <1>1, <1>4, GotoTypes, ReturnTypes, GotTypes DEF PendTestTimeOut
  <2>2. QED BY <1>1, <1>4, <2>1, UnchangedTypes DEF PendTestTimeOut, Types, safeVars
<1>5. CASE PendTimeOut(t)
  <2>1. CallTypes'
    BY <1>1, <1>5, ReturnTypes, GotTypes DEF PendTimeOut
  <2>2. EventWaitTypeOK'
    BY <1>1, <1>5, EventTimeoutType, UnchangedTypes DEF PendTimeOut
  <2>3. QED BY <1>1, <1>5, <2>1, <2>2, UnchangedTypes DEF PendTimeOut, Types, safeVars
<1>6. CASE PendSafe(t)
  BY <1>1, <1>6, ReturnTypes, UnchangedTypes DEF PendSafe, Types
<1>7. CASE PostUnsafe(t)
  BY <1>1, <1>7, GotoTypes, UnchangedTypes DEF PostUnsafe, Types
<1>8. CASE DeleteSelf(t)
  <2>1. DeletionTypes'
    BY <1>1, <1>8 DEF DeleteSelf, ThreadDelete, DeletionTypes
  <2>2. QED BY <1>1, <1>8, <2>1, UnchangedTypes DEF DeleteSelf, Types
<1>9. QED BY <1>2, <1>3, <1>4, <1>5, <1>6, <1>7, <1>8 DEF PendStep

LEMMA PostedTypes ==
  ASSUME CallTypes, NEW t \in Threads, NEW e \in Events, held[t][e] > 0,
         NEW l \in Labels, Posted(t, e, l)
  PROVE  CallTypes'
<1>1. held[t][e] - 1 \in Nat
  BY DEF CallTypes
<1>2. QED BY <1>1 DEF CallTypes, Posted

LEMMA PostTypes ==
  ASSUME Types, NEW t \in Threads, Post(t)
  PROVE  Types'
<1>1. /\ EventWaitTypeOK /\ MutexTypes /\ CallTypes /\ DeletionTypes
      /\ {"idle", "unsafe"} \subseteq Labels
      /\ priority \in [Threads -> Priorities] /\ Priorities \subseteq 0..PRIO_LOWEST
  BY PriorityType, SemaphoreMAssumption DEF Types, Labels
<1>2. PICK e \in Events : /\ held[t][e] > 0
                          /\ \/ PostFails(t, e) \/ PostNested(t, e)
                             \/ PostHandOver(t, e) \/ PostFree(t, e)
  BY DEF Post
<1>3. CallTypes' /\ DeletionTypes'
  BY <1>1, <1>2, PostedTypes, UnchangedTypes
  DEF PostFails, PostNested, PostHandOver, PostFree, AfterPost, Post, safeVars
<1>4. CASE PostFails(t, e)
  BY <1>1, <1>3, <1>4, UnchangedTypes DEF PostFails, Types
<1>5. CASE PostNested(t, e)
  <2>1. MutexTypes'
    BY <1>1, <1>5 DEF PostNested, MutexTypes
  <2>2. QED BY <1>1, <1>3, <1>5, <2>1, UnchangedTypes DEF PostNested, Types
<1>6. CASE PostHandOver(t, e)
  <2>1. savedPrio[e] \in Priorities
    BY <1>1, <1>6, SemaphoreMAssumption DEF PostHandOver, MutexTypes
  <2>2. PICK prio \in [Threads -> Priorities] : prio = [priority EXCEPT ![t] = savedPrio[e]]
    BY <1>1, <2>1
  <2>3. EventReady(e, FALSE, prio) /\ HasWaiter(e)
    BY <1>6, <2>2 DEF PostHandOver
  <2>4. EventWaitTypeOK' /\ NextWaiter(e) \in Threads
    BY <1>1, <2>3, EventReadyType, NextWaiterType
  <2>5. priority' = prio
    BY <2>3 DEF EventReady
  <2>6. MutexTypes'
    BY <1>1, <1>6, <2>4, <2>5, SemaphoreMAssumption DEF PostHandOver, MutexTypes
  <2>7. QED BY <1>3, <2>4, <2>6 DEF Types
<1>7. CASE PostFree(t, e)
  <2>1. MutexTypes'
    BY <1>1, <1>7, SemaphoreMAssumption DEF PostFree, MutexTypes
  <2>2. QED BY <1>1, <1>3, <1>7, <2>1, UnchangedTypes DEF PostFree, Types
<1>8. QED BY <1>2, <1>4, <1>5, <1>6, <1>7

LEMMA DeleteTypes ==
  ASSUME Types, NEW e \in Events, DeleteBegin(e) \/ Deletes(e)
  PROVE  Types'
<1>1. /\ EventWaitTypeOK /\ MutexTypes /\ CallTypes /\ DeletionTypes
      /\ priority \in [Threads -> Priorities]
  BY PriorityType DEF Types
<1>2. CallTypes'
  BY <1>1, UnchangedTypes
  DEF DeleteBegin, Deletes, DeleteOne, DeleteEnd, DeleteUnsafe, DeleteOwner
<1>3. MutexTypes'
  BY <1>1, UnchangedTypes
  DEF DeleteBegin, Deletes, DeleteOne, DeleteEnd, DeleteUnsafe, DeleteOwner, MutexTypes
<1>4. DeletionTypes'
  BY <1>1, UnchangedTypes
  DEF DeleteBegin, Deletes, DeleteOne, DeleteEnd, DeleteUnsafe, DeleteOwner, safeVars,
      ThreadDelete, DeletionTypes
<1>5. EventWaitTypeOK'
  <2>1. CASE DeleteOne(e)
    BY <1>1, <2>1, EventReadyType DEF DeleteOne
  <2>2. CASE DeleteEnd(e)
    BY <1>1, <2>2 DEF DeleteEnd, EventWaitTypeOK, MutexTypes
  <2>3. QED BY <1>1, <2>1, <2>2, UnchangedTypes
           DEF DeleteBegin, Deletes, DeleteUnsafe, DeleteOwner
<1>6. QED BY <1>2, <1>3, <1>4, <1>5 DEF Types

LEMMA AroundTypes ==
  ASSUME Types, NEW t \in Threads,
         \/ DeleteByOther(t) \/ DeleteStop(t) \/ DeleteGone(t)
         \/ Tick(t) \/ Signal(t) \/ HandlerReturn(t) \/ SetPriority(t)
  PROVE  Types'
<1>1. EventWaitTypeOK /\ MutexTypes /\ CallTypes /\ DeletionTypes
  BY DEF Types
<1>2. MutexTypes' /\ CallTypes'
  BY <1>1, UnchangedTypes
  DEF DeleteByOther, DeleteStop, DeleteGone, Tick, Signal, HandlerReturn, SetPriority
<1>3. DeletionTypes'
  BY <1>1 DEF DeleteByOther, ThreadDelete, DeleteStop, DeleteGone, Tick, Signal,
              HandlerReturn, SetPriority, safeVars, DeletionTypes
<1>4. EventWaitTypeOK'
  <2>1. CASE DeleteByOther(t)
    BY <1>1, <2>1, UnchangedTypes DEF DeleteByOther
  <2>2. CASE DeleteStop(t)
    BY <1>1, <2>2 DEF DeleteStop, EventWaitTypeOK, StatusBits
  <2>3. CASE DeleteGone(t)
    <3>1. waitList' \in [Events -> [Buckets -> Seq(Threads)]]
      <4>1. CASE peventPtr[t] = NULL
        BY <1>1, <2>3, <4>1 DEF DeleteGone, EventWaitTypeOK
      <4>2. CASE peventPtr[t] # NULL
        <5>1. Unlinked(waitList[peventPtr[t]][ppringList[t]], t) \in Seq(Threads)
          BY <1>1, <4>2, UnlinkedType DEF EventWaitTypeOK
        <5>2. QED BY <1>1, <2>3, <4>2, <5>1 DEF DeleteGone, EventWaitTypeOK
      <4>3. QED BY <4>1, <4>2
    <3>2. QED BY <1>1, <2>3, <3>1 DEF DeleteGone, EventWaitTypeOK, StatusBits
  <2>4. QED BY <1>1, <2>1, <2>2, <2>3, KernelType, SigBreakWaitType
           DEF Tick, Signal, HandlerReturn, SetPriority, Kill
<1>5. QED BY <1>2, <1>3, <1>4 DEF Types

\* Every variable that the proofs speak of keeps its type, whatever the calls, the
\* time-outs, signals, deletions and priorities.
THEOREM TypesCorrect == Spec => []Types
<1>1. Init => Types
  BY InitTypes
<1>2. Types /\ [Next]_vars => Types'
  <2> SUFFICES ASSUME Types, [Next]_vars PROVE Types'
    OBVIOUS
  <2>1. CASE UNCHANGED vars
    BY <2>1, UnchangedTypes DEF vars, safeVars, Types
  <2>2. ASSUME NEW t \in Threads, NEW e \in Events, NEW w \in Waits, PendCall(t, e, w)
        PROVE  Types'
    <3>1. CallTypes'
      BY <2>2, SemaphoreMAssumption DEF PendCall, CallTypes, Types, Labels
    <3>2. QED BY <2>2, <3>1, UnchangedTypes DEF PendCall, safeVars, Types
  <2>3. QED BY <2>1, <2>2, PendStepTypes, PostTypes, DeleteTypes, AroundTypes DEF Next
<1>3. QED BY <1>1, <1>2, PTL DEF Spec

-----------------------------------------------------------------------------
(* Nobody waits for a free mutex.                                          *)

\* A step that shrinks the queues and frees no mutex keeps the invariant.
LEMMA SameOwnersKeep ==
  ASSUME FreeMutexUnwanted, Shrinks, UNCHANGED <<free, own>>,
         \A e \in Events : type'[e] = "MUTEX" => type[e] = "MUTEX"
  PROVE  FreeMutexUnwanted'
  BY DEF FreeMutexUnwanted, Shrinks

\* API_SemaphoreMDelete takes the type away before it wakes the waiters.
DeletesUnused == \A e \in Events : delStep[e] # "none" => type[e] = "UNUSED"

LEMMA DeletesUnusedCorrect == Spec => []DeletesUnused
<1>1. Init => DeletesUnused
  BY DEF Init, DeletesUnused
<1>2. Types /\ DeletesUnused /\ [Next]_vars => DeletesUnused'
  <2> SUFFICES ASSUME Types, DeletesUnused, [Next]_vars PROVE DeletesUnused'
    OBVIOUS
  <2>1. CASE UNCHANGED <<type, delStep>>
    BY <2>1 DEF DeletesUnused
  <2>2. ASSUME NEW e \in Events, DeleteBegin(e) \/ Deletes(e)
        PROVE  DeletesUnused'
    BY <2>2 DEF Types, MutexTypes, DeletesUnused, DeleteBegin, Deletes, DeleteOne, DeleteEnd,
                DeleteUnsafe, DeleteOwner, mutexVars
  <2>3. ASSUME NEW t \in Threads, PendStep(t) \/ Post(t)
        PROVE  UNCHANGED <<type, delStep>>
    BY <2>3 DEF PendStep, PendEnter, PendTypeError, PendTake, PendRecursive, PendNotWait,
                PendBlock, PendResume, PendTestTimeOut, PendTimeOut, PendSafe, PostUnsafe,
                DeleteSelf, Post, PostFails, PostNested, PostHandOver, PostFree, mutexVars
  <2>4. ASSUME NEW t \in Threads,
               \/ DeleteByOther(t) \/ DeleteStop(t) \/ DeleteGone(t)
               \/ Tick(t) \/ Signal(t) \/ HandlerReturn(t) \/ SetPriority(t)
               \/ \E e \in Events, w \in Waits : PendCall(t, e, w)
        PROVE  UNCHANGED <<type, delStep>>
    BY <2>4 DEF DeleteByOther, DeleteStop, DeleteGone, Tick, Signal, HandlerReturn, SetPriority,
                PendCall, mutexVars
  <2>5. QED BY <2>1, <2>2, <2>3, <2>4 DEF Next, vars, mutexVars
<1>3. QED BY <1>1, <1>2, TypesCorrect, PTL DEF Spec

\* EVENT_ulCounter of a mutex says that nobody owns it, and a free mutex has no
\* waiter: pend, post and delete keep this although time-outs, signals, priority
\* changes and thread deletions come in between.
THEOREM FreeMutexUnwantedCorrect == Spec => []FreeMutexUnwanted
<1>1. Init => FreeMutexUnwanted
  BY DEF Init, EventWaitInit, FreeMutexUnwanted, HasWaiter
<1>2. Types /\ DeletesUnused /\ FreeMutexUnwanted /\ [Next]_vars => FreeMutexUnwanted'
  <2> SUFFICES ASSUME Types, DeletesUnused, FreeMutexUnwanted, [Next]_vars
               PROVE  FreeMutexUnwanted'
    OBVIOUS
  <2> USE DEF Types
  <2>1. CASE UNCHANGED <<waitList, free, own, type>>
    BY <2>1, SameListsShrink, SameOwnersKeep
  <2>2. ASSUME NEW t \in Threads, PendStep(t)
        PROVE  FreeMutexUnwanted'
    <3> DEFINE e == pevent[t]
    <3>1. e \in Events
      BY DEF CallTypes
    <3>2. CASE PendEnter(t) /\ PendTake(t, e)
      <4>1. \A f \in Events : HasWaiter(f)' <=> HasWaiter(f)
        BY <3>2 DEF PendTake, waitVars, HasWaiter
      <4>2. QED BY <3>1, <3>2, <4>1, SemaphoreMAssumption
               DEF PendTake, FreeMutexUnwanted, MutexTypes
    <3>3. CASE PendEnter(t) /\ PendBlock(t, e)
      <4>1. \A f \in Events : f # e => (HasWaiter(f)' <=> HasWaiter(f))
        BY <3>1, <3>3 DEF PendBlock, EventWait, HasWaiter, EventWaitTypeOK
      <4>2. QED BY <3>1, <3>3, <4>1 DEF PendBlock, FreeMutexUnwanted, mutexVars
    <3>4. CASE PendTimeOut(t) /\ EventTimeout(t, e)
      BY <3>1, <3>4, KernelShrinks, SameOwnersKeep DEF PendTimeOut, mutexVars
    <3>5. CASE UNCHANGED <<waitList, free, own, type>>
      BY <2>1, <3>5
    <3>6. QED BY <2>2, <3>2, <3>3, <3>4, <3>5
             DEF PendStep, PendEnter, PendTypeError, PendRecursive, PendNotWait, PendResume,
                 SchedReturn, PendTestTimeOut, PendTimeOut, PendSafe, PostUnsafe, DeleteSelf,
                 waitVars, mutexVars
  <2>3. ASSUME NEW t \in Threads, NEW e \in Events, PostHandOver(t, e)
        PROVE  FreeMutexUnwanted'
    <3>1. HasWaiter(e) /\ NextWaiter(e) \in Threads
      BY <2>3, NextWaiterType DEF PostHandOver
    <3>2. Shrinks
      BY <2>3, EventReadyShrinks DEF PostHandOver
    <3>3. QED BY <2>3, <3>1, <3>2, SemaphoreMAssumption
             DEF PostHandOver, FreeMutexUnwanted, Shrinks, MutexTypes
  <2>4. ASSUME NEW t \in Threads, NEW e \in Events, PostFree(t, e)
        PROVE  FreeMutexUnwanted'
    <3>1. \A f \in Events : HasWaiter(f)' <=> HasWaiter(f)
      BY <2>4 DEF PostFree, waitVars, HasWaiter
    <3>2. QED BY <2>4, <3>1 DEF PostFree, FreeMutexUnwanted, MutexTypes
  <2>5. ASSUME NEW t \in Threads, Post(t)
        PROVE  FreeMutexUnwanted'
    BY <2>1, <2>3, <2>4, <2>5 DEF Post, PostFails, PostNested, waitVars, mutexVars
  <2>6. ASSUME NEW e \in Events, DeleteBegin(e)
        PROVE  FreeMutexUnwanted'
    BY <2>6, SameListsShrink, SameOwnersKeep DEF DeleteBegin, waitVars, MutexTypes
  <2>7. ASSUME NEW e \in Events, DeleteOne(e)
        PROVE  FreeMutexUnwanted'
    BY <2>7, EventReadyShrinks, SameOwnersKeep DEF DeleteOne, mutexVars
  <2>8. ASSUME NEW e \in Events, DeleteEnd(e)
        PROVE  FreeMutexUnwanted'
    <3>1. type[e] = "UNUSED"
      BY <2>8 DEF DeleteEnd, DeletesUnused
    <3>2. \A f \in Events : HasWaiter(f)' <=> HasWaiter(f)
      BY <2>8 DEF DeleteEnd, HasWaiter
    <3>3. QED BY <2>8, <3>1, <3>2 DEF DeleteEnd, FreeMutexUnwanted, MutexTypes
  <2>9. ASSUME NEW e \in Events, DeleteUnsafe(e) \/ DeleteOwner(e)
        PROVE  FreeMutexUnwanted'
    BY <2>1, <2>9 DEF DeleteUnsafe, DeleteOwner, waitVars
  <2>10. ASSUME NEW t \in Threads, DeleteGone(t)
         PROVE  FreeMutexUnwanted'
    BY <2>1, <2>10, UnlinkShrinks, SameOwnersKeep DEF DeleteGone, mutexVars
  <2>11. ASSUME NEW t \in Threads,
                Tick(t) \/ Signal(t) \/ HandlerReturn(t) \/ SetPriority(t)
         PROVE  FreeMutexUnwanted'
    BY <2>11, KernelShrinks, SameOwnersKeep
    DEF Tick, Signal, HandlerReturn, SetPriority, mutexVars
  <2>12. ASSUME NEW t \in Threads, DeleteByOther(t) \/ DeleteStop(t)
                \/ \E e \in Events, w \in Waits : PendCall(t, e, w)
         PROVE  FreeMutexUnwanted'
    BY <2>1, <2>12 DEF DeleteByOther, DeleteStop, PendCall, waitVars, mutexVars
  <2>13. QED BY <2>1, <2>2, <2>5, <2>6, <2>7, <2>8, <2>9, <2>10, <2>11, <2>12
            DEF Next, Deletes, vars, waitVars, mutexVars
<1>3. QED BY <1>1, <1>2, TypesCorrect, DeletesUnusedCorrect, PTL DEF Spec

-----------------------------------------------------------------------------
(* Without signals the queues, the TCBs and the program counters agree.    *)

InWait(t) == pc[t] \in {"blocked", "awake", "timeout"}

\* A queued thread is inside a Pend on that mutex, and either sleeps or has timed
\* out and has yet to find out; a thread that has been deleted is in no queue.
ThreadState(t) ==
  /\ schedRet[t] = "NONE" /\ sigCtl[t] = "NONE"
  /\ "DELAY" \in status[t] => "SEM" \in status[t]
  /\ "SEM" \in status[t] => pc[t] = "blocked"
  /\ delProc[t] = "gone" => peventPtr[t] = NULL /\ status[t] = {}
  /\ peventPtr[t] # NULL => /\ InWait(t) /\ pevent[t] = peventPtr[t]
                            /\ "SEM" \in status[t] <=> waitTimeOut[t] = "CLEAR"
  /\ peventPtr[t] = NULL => /\ "SEM" \notin status[t]
                            /\ delProc[t] # "gone" => waitTimeOut[t] = "CLEAR"

Queues == ListsDistinct /\ ListsMatch /\ \A t \in Threads : ThreadState(t)

\* What ThreadState says of a thread depends on these variables.
Same(u) ==
  UNCHANGED <<status[u], waitTimeOut[u], peventPtr[u], pc[u], pevent[u],
              schedRet[u], sigCtl[u], delProc[u]>>

LEMMA SameKeeps ==
  ASSUME Queues, ListsDistinct' /\ ListsMatch',
         \A u \in Threads : Same(u) \/ ThreadState(u)'
  PROVE  Queues'
<1>1. ASSUME NEW u \in Threads PROVE ThreadState(u)'
  BY DEF Queues, Same, ThreadState, InWait
<1>2. QED BY <1>1 DEF Queues

\* A thread that runs moves on inside its call, and no queue changes.
LEMMA MoveKeeps ==
  ASSUME Types, Queues, NEW t \in Threads, CpuFree(t),
         UNCHANGED <<status, waitTimeOut, peventPtr, ppringList, waitList, sigCtl>>,
         UNCHANGED schedRet \/ SchedReturn(t),
         \A u \in Threads \ {t} : UNCHANGED <<pc[u], pevent[u]>>,
         \A u \in Threads : delProc'[u] = "gone" <=> delProc[u] = "gone",
         \/ peventPtr[t] = NULL
         \/ pc'[t] \in {"awake", "timeout"} /\ pevent'[t] = pevent[t]
  PROVE  Queues'
<1>1. ListsDistinct' /\ ListsMatch'
  BY SameLists DEF Queues
<1>2. UNCHANGED schedRet
  BY DEF SchedReturn, Queues, ThreadState, Types, EventWaitTypeOK
<1>3. ASSUME NEW u \in Threads, u # t PROVE ThreadState(u)'
  BY <1>2, <1>3 DEF Queues, ThreadState, InWait
<1>4. ThreadState(t)'
  BY <1>2 DEF Queues, ThreadState, InWait, CpuFree, Runs, IsReady
<1>5. QED BY <1>1, <1>3, <1>4, SameKeeps

LEMMA PendQueues ==
  ASSUME Types, Queues, NEW t \in Threads, PendStep(t)
  PROVE  Queues'
<1>0. CpuFree(t)
  BY DEF PendStep, PendEnter, PendResume, PendTestTimeOut, PendTimeOut, PendSafe, PostUnsafe,
         DeleteSelf, Enters
<1>1. /\ EventWaitTypeOK /\ CallTypes /\ DeletionTypes /\ pevent[t] \in Events
      /\ ListsDistinct /\ ListsMatch /\ ThreadState(t) /\ CpuFree(t)
      /\ status[t] = {} /\ delProc[t] # "gone" /\ NULL \notin Events
  BY <1>0, EventWaitAssumption DEF Types, CallTypes, Queues, CpuFree, Runs, IsReady
<1>2. CASE PendEnter(t) /\ PendBlock(t, pevent[t])
  <2>1. PICK prio \in [Threads -> Priorities] : prio = Boosted(t, pevent[t])
    BY <1>1, BoostedType DEF Types
  <2>2. /\ peventPtr[t] = NULL
        /\ EventWait(t, pevent[t], timeOut[t] = "TICKS", prio) /\ Goto(t, "blocked")
        /\ UNCHANGED delProc
    BY <1>1, <1>2, <2>1 DEF PendEnter, PendBlock, ThreadState, InWait, safeVars
  <2>3. ListsDistinct' /\ ListsMatch'
    BY <1>1, <2>2, EventWaitLists
  <2>4. /\ peventPtr'[t] = pevent[t] /\ waitTimeOut'[t] = "CLEAR" /\ pc'[t] = "blocked"
        /\ status'[t] = {"SEM"} \cup IF timeOut[t] = "TICKS" THEN {"DELAY"} ELSE {}
        /\ UNCHANGED <<pevent, schedRet, sigCtl>>
    BY <1>1, <2>2 DEF EventWait, Goto, EventWaitTypeOK, CallTypes
  <2>5. ThreadState(t)'
    BY <1>1, <2>2, <2>4 DEF ThreadState, InWait
  <2>6. \A u \in Threads \ {t} : Same(u)
    BY <1>1, <2>2 DEF EventWait, Goto, EventWaitTypeOK, CallTypes, Same
  <2>7. QED BY <2>3, <2>5, <2>6, SameKeeps
<1>3. CASE PendTimeOut(t) /\ waitTimeOut[t] # "CLEAR"
  <2>1. /\ peventPtr[t] = pevent[t] /\ EventTimeout(t, pevent[t]) /\ Return(t, "WAIT_TIMEOUT")
        /\ UNCHANGED delProc
    BY <1>1, <1>3 DEF PendTimeOut, ThreadState, safeVars
  <2>2. ListsDistinct' /\ ListsMatch'
    BY <1>1, <2>1, UnlinkLists DEF EventTimeout
  <2>3. ThreadState(t)'
    BY <1>1, <2>1 DEF EventTimeout, Return, EventWaitTypeOK, CallTypes, ThreadState
  <2>4. \A u \in Threads \ {t} : Same(u)
    BY <1>1, <2>1 DEF EventTimeout, Return, EventWaitTypeOK, CallTypes, Same
  <2>5. QED BY <2>2, <2>3, <2>4, SameKeeps
<1>4. CASE PendEnter(t) /\ ~ PendBlock(t, pevent[t])
  <2>1. peventPtr[t] = NULL
    BY <1>1, <1>4 DEF PendEnter, ThreadState, InWait
  <2>2. UNCHANGED waitVars /\ UNCHANGED delProc
    BY <1>4 DEF PendEnter, PendTypeError, PendTake, PendRecursive, PendNotWait, safeVars
  <2>3. \A u \in Threads \ {t} : UNCHANGED <<pc[u], pevent[u]>>
    BY <1>1, <1>4 DEF PendEnter, PendTypeError, PendTake, PendRecursive, PendNotWait, Got,
                      Return, Goto, CallTypes
  <2>4. QED BY <1>1, <2>1, <2>2, <2>3, MoveKeeps DEF waitVars, tcbVars
<1>5. CASE PendResume(t)
  <2>1. schedRet[t] = "NONE" /\ Goto(t, "awake") /\ SchedReturn(t) /\ UNCHANGED delProc
    BY <1>1, <1>5 DEF PendResume, ThreadState, Interrupted, safeVars
  <2>2. QED BY <1>1, <2>1, MoveKeeps DEF Goto, SchedReturn, CallTypes
<1>6. CASE PendTestTimeOut(t) \/ (PendTimeOut(t) /\ waitTimeOut[t] = "CLEAR")
  <2>1. UNCHANGED waitVars /\ UNCHANGED delProc
    BY <1>6 DEF PendTestTimeOut, PendTimeOut, safeVars, waitVars, tcbVars
  <2>2. \A u \in Threads \ {t} : UNCHANGED <<pc[u], pevent[u]>>
    BY <1>1, <1>6 DEF PendTestTimeOut, PendTimeOut, Got, Return, Goto, CallTypes
  <2>3. CASE waitTimeOut[t] # "OUT"
    <3>1. peventPtr[t] = NULL
      BY <1>1, <2>3 DEF ThreadState, EventWaitTypeOK
    <3>2. QED BY <1>1, <2>1, <2>2, <3>1, MoveKeeps DEF waitVars, tcbVars
  <2>4. CASE waitTimeOut[t] = "OUT"
    <3>1. pc'[t] = "timeout" /\ pevent' = pevent
      BY <1>1, <1>6, <2>4 DEF PendTestTimeOut, Goto, CallTypes
    <3>2. QED BY <1>1, <2>1, <2>2, <3>1, MoveKeeps DEF waitVars, tcbVars
  <2>5. QED BY <2>3, <2>4
<1>7. CASE PendSafe(t) \/ PostUnsafe(t) \/ DeleteSelf(t)
  <2>1. peventPtr[t] = NULL
    BY <1>1, <1>7 DEF PendSafe, PostUnsafe, DeleteSelf, ThreadState, InWait
  <2>2. UNCHANGED waitVars
    BY <1>7 DEF PendSafe, PostUnsafe, DeleteSelf
  <2>3. \A u \in Threads \ {t} : UNCHANGED <<pc[u], pevent[u]>>
    BY <1>1, <1>7 DEF PendSafe, PostUnsafe, DeleteSelf, Return, Goto, CallTypes, pendVars
  <2>4. \A u \in Threads : delProc'[u] = "gone" <=> delProc[u] = "gone"
    BY <1>1, <1>7 DEF PendSafe, PostUnsafe, DeleteSelf, ThreadDelete, DeletionTypes
  <2>5. QED BY <1>1, <2>1, <2>2, <2>3, <2>4, MoveKeeps DEF waitVars, tcbVars
<1>8. QED BY <1>2, <1>3, <1>4, <1>5, <1>6, <1>7 DEF PendStep

LEMMA WakeQueues ==
  ASSUME Types, Queues, NEW e \in Events, NEW del, NEW prio, HasWaiter(e),
         EventReady(e, del, prio), UNCHANGED delProc,
         \A u \in Threads : UNCHANGED <<pc[u], pevent[u]>> \/ peventPtr[u] = NULL
  PROVE  Queues'
<1>1. EventWaitTypeOK /\ NULL \notin Events
  BY EventWaitAssumption DEF Types
<1>2. PICK t \in Threads : t = NextWaiter(e)
  BY <1>1, NextWaiterType
<1>3. peventPtr[t] = e /\ ThreadState(t)
  BY <1>1, <1>2, NextWaiterQueued DEF Queues
<1>4. ListsDistinct' /\ ListsMatch'
  BY <1>1, EventReadyLists DEF Queues
<1>5. /\ peventPtr'[t] = NULL /\ waitTimeOut'[t] = "CLEAR"
      /\ "SEM" \notin status'[t] /\ "DELAY" \notin status'[t]
      /\ UNCHANGED <<pc[t], pevent[t], schedRet, sigCtl>>
  BY <1>1, <1>2, <1>3 DEF EventReady, EventWaitTypeOK, ThreadState
<1>6. ThreadState(t)'
  BY <1>1, <1>3, <1>5 DEF ThreadState
<1>7. ASSUME NEW u \in Threads, u # t PROVE ThreadState(u)'
  <2>1. UNCHANGED <<status[u], waitTimeOut[u], peventPtr[u], schedRet[u], sigCtl[u]>>
    BY <1>1, <1>2, <1>7 DEF EventReady, EventWaitTypeOK
  <2>2. QED BY <2>1 DEF Queues, ThreadState, InWait
<1>8. QED BY <1>4, <1>6, <1>7, SameKeeps

LEMMA PostQueues ==
  ASSUME Types, Queues, NEW t \in Threads, Post(t)
  PROVE  Queues'
<1>1. /\ CpuFree(t) /\ peventPtr[t] = NULL /\ CallTypes /\ UNCHANGED delProc
      /\ NULL \notin Events
  BY EventWaitAssumption DEF Post, Enters, Types, Queues, ThreadState, InWait, safeVars
<1>2. PICK e \in Events : \/ PostFails(t, e) \/ PostNested(t, e)
                          \/ PostHandOver(t, e) \/ PostFree(t, e)
  BY DEF Post
<1>3. \A u \in Threads \ {t} : UNCHANGED <<pc[u], pevent[u]>>
  BY <1>1, <1>2 DEF PostFails, PostNested, PostHandOver, PostFree, AfterPost, Posted, CallTypes
<1>4. CASE PostHandOver(t, e)
  BY <1>1, <1>3, <1>4, WakeQueues DEF PostHandOver
<1>5. CASE ~ PostHandOver(t, e)
  BY <1>1, <1>2, <1>3, <1>5, MoveKeeps DEF PostFails, PostNested, PostFree, waitVars, tcbVars
<1>6. QED BY <1>4, <1>5

\* A deletion of a thread begins, or nothing changes that the queues depend on.
LEMMA StillQueues ==
  ASSUME Queues, UNCHANGED <<status, waitTimeOut, peventPtr, ppringList, waitList, schedRet,
                             sigCtl, pc, pevent>>,
         \A u \in Threads : delProc'[u] = "gone" <=> delProc[u] = "gone"
  PROVE  Queues'
<1>1. ListsDistinct' /\ ListsMatch'
  BY SameLists DEF Queues
<1>2. ASSUME NEW u \in Threads PROVE ThreadState(u)'
  BY DEF Queues, ThreadState, InWait
<1>3. QED BY <1>1, <1>2, SameKeeps

LEMMA DeleteQueues ==
  ASSUME Types, Queues, NEW e \in Events, DeleteBegin(e) \/ Deletes(e)
  PROVE  Queues'
<1>1. CASE DeleteOne(e)
  BY <1>1, WakeQueues DEF DeleteOne, pendVars, safeVars
<1>2. CASE DeleteOwner(e)
  <2>1. \A u \in Threads : delProc'[u] = "gone" <=> delProc[u] = "gone"
    BY <1>2 DEF DeleteOwner, ThreadDelete, safeVars, Types, DeletionTypes
  <2>2. QED BY <1>2, <2>1, StillQueues DEF DeleteOwner, waitVars, tcbVars, pendVars
<1>3. CASE DeleteBegin(e) \/ DeleteEnd(e) \/ DeleteUnsafe(e)
  BY <1>3, StillQueues DEF DeleteBegin, DeleteEnd, DeleteUnsafe, waitVars, tcbVars, pendVars,
                           safeVars
<1>4. QED BY <1>1, <1>2, <1>3 DEF Deletes

LEMMA AroundQueues ==
  ASSUME Types, Queues, ~ SIGNAL_EN, NEW t \in Threads,
         \/ DeleteByOther(t) \/ DeleteStop(t) \/ DeleteGone(t)
         \/ Tick(t) \/ Signal(t) \/ HandlerReturn(t) \/ SetPriority(t)
  PROVE  Queues'
<1>1. /\ EventWaitTypeOK /\ CallTypes /\ DeletionTypes
      /\ ListsDistinct /\ ListsMatch /\ ThreadState(t) /\ NULL \notin Events
  BY EventWaitAssumption DEF Types, Queues
<1>2. CASE DeleteByOther(t)
  <2>1. \A u \in Threads : delProc'[u] = "gone" <=> delProc[u] = "gone"
    BY <1>1, <1>2 DEF DeleteByOther, ThreadDelete, DeletionTypes
  <2>2. QED BY <1>2, <2>1, StillQueues DEF DeleteByOther, waitVars, tcbVars, pendVars
<1>3. CASE DeleteStop(t)
  <2>1. ListsDistinct' /\ ListsMatch'
    BY <1>1, <1>3, SameLists DEF DeleteStop
  <2>2. ThreadState(t)'
    BY <1>1, <1>3 DEF DeleteStop, ThreadState, InWait, EventWaitTypeOK, DeletionTypes, pendVars
  <2>3. \A u \in Threads \ {t} : Same(u)
    BY <1>1, <1>3 DEF DeleteStop, Same, EventWaitTypeOK, DeletionTypes, pendVars
  <2>4. QED BY <2>1, <2>2, <2>3, SameKeeps
<1>4. CASE DeleteGone(t)
  <2>1. ListsDistinct' /\ ListsMatch'
    <3>1. CASE peventPtr[t] = NULL
      <4>1. UNCHANGED <<waitList, peventPtr, ppringList>>
        BY <1>1, <1>4, <3>1 DEF DeleteGone, EventWaitTypeOK
      <4>2. QED BY <1>1, <4>1, SameLists
    <3>2. CASE peventPtr[t] # NULL
      <4>1. PICK e \in Events : e = peventPtr[t]
        BY <1>1, <3>2 DEF EventWaitTypeOK
      <4>2. QED BY <1>1, <1>4, <3>2, <4>1, UnlinkLists DEF DeleteGone
    <3>3. QED BY <3>1, <3>2
  <2>2. ThreadState(t)'
    BY <1>1, <1>4 DEF DeleteGone, ThreadState, EventWaitTypeOK, DeletionTypes
  <2>3. \A u \in Threads \ {t} : Same(u)
    BY <1>1, <1>4 DEF DeleteGone, Same, EventWaitTypeOK, DeletionTypes, pendVars
  <2>4. QED BY <2>1, <2>2, <2>3, SameKeeps
<1>5. CASE Tick(t)
  <2>1. ThreadTick(t) /\ UNCHANGED <<pc, pevent, delProc>>
    BY <1>5 DEF Tick, pendVars, safeVars
  <2>2. ListsDistinct' /\ ListsMatch'
    BY <1>1, <2>1, SameLists DEF ThreadTick
  <2>3. ThreadState(t)'
    BY <1>1, <2>1 DEF ThreadTick, ThreadState, InWait, EventWaitTypeOK
  <2>4. \A u \in Threads \ {t} : Same(u)
    BY <1>1, <2>1 DEF ThreadTick, Same, EventWaitTypeOK
  <2>5. QED BY <2>2, <2>3, <2>4, SameKeeps
<1>6. ~ Signal(t)
  BY DEF Signal, ThreadStop, Kill
<1>7. ~ HandlerReturn(t)
  BY <1>1 DEF HandlerReturn, SigReturn, ThreadState
<1>8. CASE SetPriority(t)
  BY <1>8, StillQueues DEF SetPriority, ThreadSetPriority, pendVars, safeVars
<1>9. QED BY <1>2, <1>3, <1>4, <1>5, <1>6, <1>7, <1>8

LEMMA QueuesInvariant == ASSUME ~ SIGNAL_EN PROVE Spec => []Queues
<1>1. Init => Queues
  <2> SUFFICES ASSUME Init PROVE Queues
    OBVIOUS
  <2>1. ListsDistinct /\ ListsMatch
    BY EventWaitAssumption DEF Init, EventWaitInit, ListsDistinct, ListsMatch, IsInjective, Contains
  <2>2. \A t \in Threads : ThreadState(t)
    BY EventWaitAssumption DEF Init, EventWaitInit, ThreadState
  <2>3. QED BY <2>1, <2>2 DEF Queues
<1>2. Types /\ Queues /\ [Next]_vars => Queues'
  <2> SUFFICES ASSUME Types, Queues, [Next]_vars PROVE Queues'
    OBVIOUS
  <2>1. CASE UNCHANGED vars
    BY <2>1, StillQueues DEF vars, waitVars, tcbVars, pendVars, safeVars
  <2>2. ASSUME NEW t \in Threads, NEW e \in Events, NEW w \in Waits, PendCall(t, e, w)
        PROVE  Queues'
    <3>1. CpuFree(t) /\ peventPtr[t] = NULL /\ UNCHANGED delProc
      BY <2>2 DEF PendCall, Queues, ThreadState, InWait, safeVars
    <3>2. \A u \in Threads \ {t} : UNCHANGED <<pc[u], pevent[u]>>
      BY <2>2 DEF PendCall, Types, CallTypes
    <3>3. QED BY <2>2, <3>1, <3>2, MoveKeeps DEF PendCall, waitVars, tcbVars
  <2>3. QED BY <2>1, <2>2, PendQueues, PostQueues, DeleteQueues, AroundQueues DEF Next
<1>3. QED BY <1>1, <1>2, TypesCorrect, PTL DEF Spec

\* In a kernel built without signals the wait lists of the mutexes and the TCBs
\* agree after every step, those of the deletion of a waiting thread included.
THEOREM QueueConsistentCorrect == ASSUME ~ SIGNAL_EN PROVE Spec => []QueueConsistent
<1>1. Queues => QueueConsistent
  BY DEF Queues, QueueConsistent, ThreadState
<1>2. QED BY <1>1, QueuesInvariant, PTL

-----------------------------------------------------------------------------
(* Mutual exclusion, in a kernel without signals.                          *)

\* Ownership, for one thread and one mutex.
OwnerState(t, e) ==
  type[e] = "MUTEX" =>
    /\ held[t][e] > 0 => own[e] = t
    /\ own[e] = t => held[t][e] = nest[e] + 1 \/ (held[t][e] = 0 /\ nest[e] = 0 /\ Granted(t, e))

\* What makes it inductive: a waiter learns of the deletion of its mutex only if
\* the mutex is deleted, and a waiter that has been woken is the owner and has not
\* had the mutex before.
GrantState(t) ==
  type[pevent[t]] = "MUTEX" =>
    /\ InWait(t) => isEventDelete[t] = "EXIST"
    /\ Granted(t, pevent[t]) /\ delProc[t] # "gone" =>
         own[pevent[t]] = t /\ held[t][pevent[t]] = 0

Unowned(e) == type[e] = "MUTEX" /\ own[e] = NULL => nest[e] = 0

Owners ==
  /\ \A t \in Threads, e \in Events : OwnerState(t, e)
  /\ \A t \in Threads : GrantState(t)
  /\ \A e \in Events : Unowned(e)

\* What the three say of a thread and of a mutex depends on these variables.
SameThread(u) ==
  UNCHANGED <<pc[u], pevent[u], peventPtr[u], isEventDelete[u], delProc[u], held[u]>>
SameMutex(e) == UNCHANGED <<type[e], own[e], nest[e]>>

\* Only t changes, and of the mutexes only e.  Before the step t was not on its way
\* out of a Pend on another one.
LEMMA StepKeeps ==
  ASSUME Types, Owners, NEW t \in Threads, NEW e \in Events,
         \A u \in Threads \ {t} : SameThread(u),
         \A f \in Events \ {e} : SameMutex(f) /\ UNCHANGED held[t][f],
         pevent[t] = e \/ ~ (InWait(t) \/ pc[t] = "safe"),
         pevent'[t] = e,
         OwnerState(t, e)', GrantState(t)', Unowned(e)',
         \/ SameMutex(e)
         \/ type'[e] = "UNUSED"
         \/ /\ UNCHANGED type[e]
            /\ \A u \in Threads \ {t} : held[u][e] = 0 /\ own'[e] # u /\ own[e] # u
  PROVE  Owners'
<1>1. ASSUME NEW u \in Threads, NEW f \in Events PROVE OwnerState(u, f)'
  <2>1. CASE u = t /\ f = e
    BY <2>1
  <2>2. CASE u # t /\ f = e
    BY <2>2 DEF Owners, OwnerState, SameThread, SameMutex, Granted
  <2>3. CASE u = t /\ f # e
    BY <2>3 DEF Owners, OwnerState, SameMutex, Granted, InWait
  <2>4. CASE u # t /\ f # e
    BY <2>4 DEF Owners, OwnerState, SameThread, SameMutex, Granted
  <2>5. QED BY <2>1, <2>2, <2>3, <2>4
<1>2. ASSUME NEW u \in Threads PROVE GrantState(u)'
  <2>1. CASE u = t
    BY <2>1
  <2>2. CASE u # t /\ pevent[u] = e
    BY <2>2 DEF Owners, GrantState, SameThread, SameMutex, Granted, InWait
  <2>3. CASE u # t /\ pevent[u] # e
    <3>1. pevent[u] \in Events
      BY DEF Types, CallTypes
    <3>2. QED BY <2>3, <3>1 DEF Owners, GrantState, SameThread, SameMutex, Granted, InWait
  <2>4. QED BY <2>1, <2>2, <2>3
<1>3. ASSUME NEW f \in Events PROVE Unowned(f)'
  BY DEF Owners, Unowned, SameMutex
<1>4. QED BY <1>1, <1>2, <1>3 DEF Owners

LEMMA PendEnterOwners ==
  ASSUME Types, Queues, Owners, FreeMutexUnwanted, NEW t \in Threads, PendEnter(t)
  PROVE  Owners'
<1>0. PICK e \in Events : e = pevent[t]
  BY DEF Types, CallTypes
<1>1. /\ EventWaitTypeOK /\ MutexTypes /\ CallTypes /\ e \in Events /\ e = pevent[t]
      /\ NULL \notin Threads /\ NULL \notin Events
      /\ pc[t] = "wait_again" /\ peventPtr[t] = NULL /\ UNCHANGED delProc
      /\ OwnerState(t, e) /\ GrantState(t) /\ Unowned(e)
  BY <1>0, SemaphoreMAssumption, EventWaitAssumption
  DEF Types, CallTypes, PendEnter, Queues, ThreadState, InWait, safeVars, Owners
<1>2. ASSUME Return(t, "NONE")
      PROVE  /\ pc'[t] = "idle" /\ pevent' = pevent /\ held'[t][e] = held[t][e] + 1
             /\ \A f \in Events \ {e} : UNCHANGED held[t][f]
             /\ \A u \in Threads \ {t} : UNCHANGED <<pc[u], held[u]>>
  BY <1>1, <1>2 DEF Return, CallTypes
<1>3. ASSUME NEW r \in Rets, r # "NONE", Return(t, r)
      PROVE  /\ pc'[t] = "idle" /\ pevent' = pevent /\ held'[t][e] = held[t][e]
             /\ \A f \in Events \ {e} : UNCHANGED held[t][f]
             /\ \A u \in Threads \ {t} : UNCHANGED <<pc[u], held[u]>>
  BY <1>1, <1>3 DEF Return, CallTypes
<1>4. ASSUME NEW l \in Labels, Goto(t, l)
      PROVE  /\ pc'[t] = l /\ pevent' = pevent /\ held' = held
             /\ \A u \in Threads \ {t} : UNCHANGED <<pc[u], held[u]>>
  BY <1>1, <1>4 DEF Goto, CallTypes
<1>5. CASE PendTypeError(t, e)
  <2>1. Return(t, "EVENT_TYPE") /\ "EVENT_TYPE" \in Rets
    BY <1>5 DEF PendTypeError, Rets
  <2>2. UNCHANGED <<waitVars, mutexVars>> /\ type[e] = "UNUSED"
    BY <1>5 DEF PendTypeError
  <2>3. OwnerState(t, e)' /\ GrantState(t)' /\ Unowned(e)'
    BY <1>1, <1>3, <2>1, <2>2 DEF OwnerState, GrantState, Unowned, waitVars, mutexVars
  <2>4. QED BY <1>1, <1>3, <2>1, <2>2, <2>3, StepKeeps
           DEF SameThread, SameMutex, waitVars, tcbVars, mutexVars
<1>6. CASE PendNotWait(t, e)
  <2>1. Return(t, "WAIT_TIMEOUT") /\ "WAIT_TIMEOUT" \in Rets
    BY <1>6 DEF PendNotWait, Rets
  <2>2. UNCHANGED <<waitVars, mutexVars>>
    BY <1>6 DEF PendNotWait
  <2>3. OwnerState(t, e)' /\ GrantState(t)' /\ Unowned(e)'
    BY <1>1, <1>3, <2>1, <2>2
    DEF OwnerState, GrantState, Granted, InWait, Unowned, waitVars, mutexVars
  <2>4. QED BY <1>1, <1>3, <2>1, <2>2, <2>3, StepKeeps
           DEF SameThread, SameMutex, waitVars, tcbVars, mutexVars
<1>7. CASE PendBlock(t, e)
  <2>1. PICK prio \in [Threads -> Priorities] : prio = Boosted(t, e)
    BY <1>1, BoostedType
  <2>2. EventWait(t, e, timeOut[t] = "TICKS", prio) /\ Goto(t, "blocked") /\ UNCHANGED mutexVars
    BY <1>7, <2>1 DEF PendBlock
  <2>3. /\ peventPtr'[t] = e /\ isEventDelete'[t] = "EXIST"
        /\ \A u \in Threads \ {t} : UNCHANGED <<peventPtr[u], isEventDelete[u]>>
    BY <1>1, <2>2 DEF EventWait, EventWaitTypeOK
  <2>4. OwnerState(t, e)' /\ GrantState(t)' /\ Unowned(e)'
    BY <1>1, <1>4, <2>2, <2>3
    DEF OwnerState, GrantState, Granted, InWait, Unowned, mutexVars, Labels
  <2>5. QED BY <1>1, <1>4, <2>2, <2>3, <2>4, StepKeeps DEF SameThread, SameMutex, mutexVars, Labels
<1>8. CASE PendTake(t, e)
  <2>1. /\ type[e] = "MUTEX" /\ own[e] = NULL /\ nest[e] = 0 /\ UNCHANGED <<type, nest, waitVars>>
        /\ own' = [own EXCEPT ![e] = t]
    BY <1>1, <1>8 DEF PendTake, FreeMutexUnwanted, Unowned
  <2>2. \A u \in Threads : held[u][e] = 0
    BY <1>1, <2>1 DEF Owners, OwnerState, CallTypes
  <2>3. own'[e] = t /\ \A f \in Events \ {e} : UNCHANGED own[f]
    BY <1>1, <2>1 DEF MutexTypes
  <2>4. CASE DeleteSafe(pevent[t])
    <3>1. Goto(t, "safe") /\ "safe" \in Labels
      BY <1>8, <2>4 DEF PendTake, Got, Labels
    <3>2. OwnerState(t, e)' /\ GrantState(t)' /\ Unowned(e)'
      BY <1>1, <1>4, <2>1, <2>2, <2>3, <3>1
      DEF OwnerState, GrantState, Granted, InWait, Unowned
    <3>3. QED BY <1>1, <1>4, <2>1, <2>2, <2>3, <3>1, <3>2, StepKeeps
             DEF SameThread, SameMutex, waitVars, tcbVars
  <2>5. CASE ~ DeleteSafe(pevent[t])
    <3>1. Return(t, "NONE")
      BY <1>8, <2>5 DEF PendTake, Got
    <3>2. OwnerState(t, e)' /\ GrantState(t)' /\ Unowned(e)'
      BY <1>1, <1>2, <2>1, <2>2, <2>3, <3>1
      DEF OwnerState, GrantState, Granted, InWait, Unowned
    <3>3. QED BY <1>1, <1>2, <2>1, <2>2, <2>3, <3>1, <3>2, StepKeeps
             DEF SameThread, SameMutex, waitVars, tcbVars
  <2>6. QED BY <2>4, <2>5
<1>9. CASE PendRecursive(t, e)
  <2>1. /\ type[e] = "MUTEX" /\ own[e] = t /\ held[t][e] = nest[e] + 1
        /\ UNCHANGED <<type, own, waitVars>>
    BY <1>1, <1>9 DEF PendRecursive, Recursive, OwnerState, Granted
  <2>2. \A u \in Threads \ {t} : held[u][e] = 0
    BY <1>1, <2>1 DEF Owners, OwnerState, CallTypes
  <2>3. CASE "ERRORCHECK" \in Option[e]
    <3>1. Return(t, "EDEADLK") /\ "EDEADLK" \in Rets /\ UNCHANGED nest
      BY <1>9, <2>3 DEF PendRecursive, Rets
    <3>2. OwnerState(t, e)' /\ GrantState(t)' /\ Unowned(e)'
      BY <1>1, <1>3, <2>1, <3>1 DEF OwnerState, GrantState, Granted, InWait, Unowned
    <3>3. QED BY <1>1, <1>3, <2>1, <3>1, <3>2, StepKeeps
             DEF SameThread, SameMutex, waitVars, tcbVars
  <2>4. CASE "ERRORCHECK" \notin Option[e]
    <3>1. /\ Return(t, "NONE") /\ nest'[e] = nest[e] + 1
          /\ \A f \in Events \ {e} : UNCHANGED nest[f]
      BY <1>1, <1>9, <2>4 DEF PendRecursive, MutexTypes
    <3>2. OwnerState(t, e)' /\ GrantState(t)' /\ Unowned(e)'
      BY <1>1, <1>2, <2>1, <3>1 DEF OwnerState, GrantState, Granted, InWait, Unowned
    <3>3. QED BY <1>1, <1>2, <2>1, <2>2, <3>1, <3>2, StepKeeps
             DEF SameThread, SameMutex, waitVars, tcbVars
  <2>5. QED BY <2>3, <2>4
<1>10. QED BY <1>0, <1>5, <1>6, <1>7, <1>8, <1>9 DEF PendEnter

\* t leaves its call or goes on to the next step of it; no mutex changes.
LEMMA MoveOwners ==
  ASSUME Types, Owners, NEW t \in Threads, NEW e \in Events, e = pevent[t], e = pevent'[t],
         UNCHANGED mutexVars,
         \A u \in Threads \ {t} : SameThread(u),
         \A f \in Events \ {e} : UNCHANGED held[t][f],
         OwnerState(t, e)', GrantState(t)'
  PROVE  Owners'
<1>1. Unowned(e)'
  BY DEF Owners, Unowned, mutexVars
<1>2. QED BY <1>1, StepKeeps DEF SameMutex, mutexVars

LEMMA PendStepOwners ==
  ASSUME Types, Queues, Owners, FreeMutexUnwanted, NEW t \in Threads, PendStep(t)
  PROVE  Owners'
<1>0. PICK e \in Events : e = pevent[t]
  BY DEF Types, CallTypes
<1>1. /\ EventWaitTypeOK /\ MutexTypes /\ CallTypes /\ DeletionTypes /\ NULL \notin Events
      /\ ThreadState(t) /\ OwnerState(t, e) /\ GrantState(t) /\ Unowned(e)
  BY <1>0, EventWaitAssumption DEF Types, Queues, Owners
<1>2. ASSUME NEW r, Return(t, r)
      PROVE  /\ pc'[t] = "idle" /\ pevent' = pevent
             /\ held'[t][e] = held[t][e] + IF r = "NONE" THEN 1 ELSE 0
             /\ \A f \in Events \ {e} : UNCHANGED held[t][f]
             /\ \A u \in Threads \ {t} : UNCHANGED <<pc[u], held[u]>>
  BY <1>0, <1>1, <1>2 DEF Return, CallTypes
<1>3. ASSUME NEW l, Goto(t, l)
      PROVE  /\ pc'[t] = l /\ pevent' = pevent /\ held' = held
             /\ \A u \in Threads \ {t} : UNCHANGED <<pc[u], held[u]>>
  BY <1>1, <1>3 DEF Goto, CallTypes
<1>4. CASE PendEnter(t)
  BY <1>4, PendEnterOwners
<1>5. CASE PendResume(t)
  <2>1. /\ Goto(t, "awake") /\ pc[t] = "blocked"
        /\ UNCHANGED <<mutexVars, peventPtr, isEventDelete, delProc>>
    BY <1>1, <1>5 DEF PendResume, ThreadState, Interrupted, SchedReturn, safeVars
  <2>2. OwnerState(t, e)' /\ GrantState(t)'
    BY <1>0, <1>1, <1>3, <2>1 DEF OwnerState, GrantState, Granted, InWait, mutexVars
  <2>3. QED BY <1>0, <1>3, <2>1, <2>2, MoveOwners DEF SameThread
<1>6. CASE PendTestTimeOut(t) \/ PendTimeOut(t)
  <2>1. /\ pc[t] \in {"awake", "timeout"} /\ status[t] = {} /\ delProc[t] # "gone"
        /\ UNCHANGED <<mutexVars, isEventDelete, delProc>>
        /\ \A u \in Threads \ {t} : UNCHANGED peventPtr[u]
    BY <1>0, <1>1, <1>6 DEF PendTestTimeOut, PendTimeOut, Enters, CpuFree, Runs, IsReady, safeVars,
                            waitVars, tcbVars, EventTimeout, EventWaitTypeOK
  <2>2. waitTimeOut[t] = "CLEAR" => peventPtr[t] = NULL
    BY <1>1, <2>1 DEF ThreadState
  <2>3. waitTimeOut[t] = "OUT" => peventPtr[t] = e
    BY <1>0, <1>1, <2>1 DEF ThreadState
  <2>4. CASE UNCHANGED peventPtr /\ Goto(t, "timeout")
    <3>1. OwnerState(t, e)' /\ GrantState(t)'
      BY <1>0, <1>1, <1>3, <2>1, <2>4 DEF OwnerState, GrantState, Granted, InWait, mutexVars
    <3>2. QED BY <1>0, <1>3, <2>1, <2>4, <3>1, MoveOwners DEF SameThread
  <2>5. CASE UNCHANGED peventPtr /\ waitTimeOut[t] = "CLEAR" /\ Got(t)
    <3>1. type[e] = "MUTEX" => own[e] = t /\ held[t][e] = 0 /\ nest[e] = 0
      BY <1>0, <1>1, <2>1, <2>2, <2>5 DEF GrantState, OwnerState, Granted, MutexTypes
    <3>2. CASE Goto(t, "safe")
      <4>1. OwnerState(t, e)' /\ GrantState(t)'
        BY <1>0, <1>1, <1>3, <2>1, <3>1, <3>2
        DEF OwnerState, GrantState, Granted, InWait, mutexVars
      <4>2. QED BY <1>0, <1>3, <2>1, <2>5, <3>2, <4>1, MoveOwners DEF SameThread
    <3>3. CASE Return(t, "NONE")
      <4>1. OwnerState(t, e)' /\ GrantState(t)'
        BY <1>0, <1>1, <1>2, <2>1, <3>1, <3>3
        DEF OwnerState, GrantState, Granted, InWait, mutexVars
      <4>2. QED BY <1>0, <1>2, <2>1, <2>5, <3>3, <4>1, MoveOwners DEF SameThread
    <3>4. QED BY <2>5, <3>2, <3>3 DEF Got
  <2>6. CASE UNCHANGED peventPtr /\ isEventDelete[t] = "DELETE" /\ Return(t, "WAS_DELETED")
    <3>1. OwnerState(t, e)' /\ GrantState(t)'
      BY <1>0, <1>1, <1>2, <2>1, <2>6 DEF OwnerState, GrantState, InWait, mutexVars
    <3>2. QED BY <1>0, <1>2, <2>1, <2>6, <3>1, MoveOwners DEF SameThread
  <2>7. CASE peventPtr[t] = e /\ Return(t, "WAIT_TIMEOUT")
    <3>1. held[t][e] \in Nat
      BY <1>1 DEF CallTypes
    <3>2. OwnerState(t, e)' /\ GrantState(t)'
      BY <1>0, <1>1, <1>2, <2>1, <2>7, <3>1 DEF OwnerState, GrantState, Granted, InWait, mutexVars
    <3>3. QED BY <1>0, <1>2, <2>1, <2>7, <3>2, MoveOwners DEF SameThread
  <2>8. QED BY <1>1, <1>6, <2>3, <2>4, <2>5, <2>6, <2>7
           DEF PendTestTimeOut, PendTimeOut, waitVars, tcbVars, EventWaitTypeOK
<1>7. CASE PendSafe(t)
  <2>1. /\ pc[t] = "safe" /\ Return(t, "NONE") /\ delProc[t] # "gone"
        /\ UNCHANGED <<mutexVars, peventPtr, isEventDelete, delProc>>
    BY <1>7 DEF PendSafe, Enters, CpuFree, waitVars, tcbVars
  <2>2. type[e] = "MUTEX" => own[e] = t /\ held[t][e] = 0 /\ nest[e] = 0
    BY <1>0, <1>1, <2>1 DEF GrantState, OwnerState, Granted, MutexTypes
  <2>3. OwnerState(t, e)' /\ GrantState(t)'
    BY <1>0, <1>1, <1>2, <2>1, <2>2 DEF OwnerState, GrantState, Granted, InWait, mutexVars
  <2>4. QED BY <1>0, <1>2, <2>1, <2>3, MoveOwners DEF SameThread
<1>8. CASE PostUnsafe(t)
  <2>1. /\ pc[t] = "unsafe"
        /\ Goto(t, "self_delete") \/ Goto(t, "idle")
        /\ UNCHANGED <<mutexVars, peventPtr, isEventDelete, delProc>>
    BY <1>8 DEF PostUnsafe, waitVars, tcbVars
  <2>2. OwnerState(t, e)' /\ GrantState(t)'
    BY <1>0, <1>1, <1>3, <2>1 DEF OwnerState, GrantState, Granted, InWait, mutexVars
  <2>3. QED BY <1>0, <1>3, <2>1, <2>2, MoveOwners DEF SameThread
<1>9. CASE DeleteSelf(t)
  <2>1. /\ pc[t] = "self_delete"
        /\ UNCHANGED <<mutexVars, pendVars, peventPtr, isEventDelete>>
        /\ \A u \in Threads \ {t} : UNCHANGED delProc[u]
    BY <1>1, <1>9 DEF DeleteSelf, ThreadDelete, waitVars, tcbVars, DeletionTypes
  <2>2. OwnerState(t, e)' /\ GrantState(t)'
    BY <1>0, <1>1, <2>1 DEF OwnerState, GrantState, Granted, InWait, mutexVars, pendVars
  <2>3. QED BY <1>0, <2>1, <2>2, MoveOwners DEF SameThread, pendVars
<1>10. QED BY <1>4, <1>5, <1>6, <1>7, <1>8, <1>9 DEF PendStep

LEMMA PostOwners ==
  ASSUME Types, Queues, Owners, NEW t \in Threads, Post(t)
  PROVE  Owners'
<1>1. /\ EventWaitTypeOK /\ MutexTypes /\ CallTypes
      /\ NULL \notin Threads /\ NULL \notin Events /\ pc[t] = "idle" /\ UNCHANGED delProc
      /\ peventPtr[t] = NULL
  BY SemaphoreMAssumption, EventWaitAssumption
  DEF Types, Post, Queues, ThreadState, InWait, safeVars
<1>2. PICK e \in Events : /\ held[t][e] > 0
                          /\ \/ PostFails(t, e) \/ PostNested(t, e)
                             \/ PostHandOver(t, e) \/ PostFree(t, e)
  BY DEF Post
<1>3. /\ pc'[t] \in {"idle", "unsafe"} /\ pevent'[t] = e
      /\ held'[t][e] = held[t][e] - 1
      /\ \A f \in Events \ {e} : UNCHANGED held[t][f]
      /\ \A u \in Threads \ {t} : UNCHANGED <<pc[u], pevent[u], held[u]>>
  <2>1. PICK l \in {"idle", "unsafe"} : Posted(t, e, l)
    BY <1>2 DEF PostFails, PostNested, PostHandOver, PostFree, AfterPost
  <2>2. QED BY <1>1, <2>1 DEF Posted, CallTypes
<1>4. /\ OwnerState(t, e) /\ Unowned(e) /\ GrantState(t)
      /\ held[t][e] \in Nat /\ held[t][e] > 0 /\ nest[e] \in Nat
      /\ type[e] = "MUTEX" => own[e] = t /\ held[t][e] = nest[e] + 1
  BY <1>1, <1>2 DEF Owners, OwnerState, CallTypes, MutexTypes
<1>5. type[e] = "MUTEX" => \A u \in Threads \ {t} : held[u][e] = 0
  BY <1>1, <1>4 DEF Owners, OwnerState, CallTypes
<1>6. GrantState(t)'
  BY <1>3 DEF GrantState, Granted, InWait
<1>7. CASE PostFails(t, e)
  <2>1. type[e] = "UNUSED" /\ UNCHANGED <<waitVars, mutexVars>>
    BY <1>1, <1>4, <1>7 DEF PostFails, MutexTypes
  <2>2. OwnerState(t, e)' /\ Unowned(e)'
    BY <2>1 DEF OwnerState, Unowned, mutexVars
  <2>3. QED BY <1>1, <1>3, <1>6, <2>1, <2>2, StepKeeps
           DEF InWait, SameThread, SameMutex, waitVars, tcbVars, mutexVars
<1>8. CASE PostNested(t, e)
  <2>1. /\ nest'[e] = nest[e] - 1 /\ nest[e] > 0
        /\ \A f \in Events \ {e} : UNCHANGED nest[f]
        /\ UNCHANGED <<type, own, waitVars>>
    BY <1>1, <1>8 DEF PostNested, MutexTypes
  <2>2. type[e] = "MUTEX" /\ own[e] = t
    BY <1>8 DEF PostNested
  <2>3. OwnerState(t, e)' /\ Unowned(e)'
    BY <1>1, <1>3, <1>4, <2>1, <2>2 DEF OwnerState, Unowned
  <2>4. QED BY <1>1, <1>3, <1>5, <1>6, <2>1, <2>2, <2>3, StepKeeps
           DEF InWait, SameThread, SameMutex, waitVars, tcbVars
<1>9. CASE PostFree(t, e)
  <2>1. /\ type[e] = "MUTEX" /\ own[e] = t /\ nest[e] = 0 /\ own'[e] = NULL
        /\ \A f \in Events \ {e} : UNCHANGED own[f]
        /\ UNCHANGED <<type, nest, waitVars>>
    BY <1>1, <1>9 DEF PostFree, MutexTypes
  <2>2. OwnerState(t, e)' /\ Unowned(e)'
    BY <1>1, <1>3, <1>4, <2>1 DEF OwnerState, Unowned
  <2>3. QED BY <1>1, <1>3, <1>5, <1>6, <2>1, <2>2, StepKeeps
           DEF InWait, SameThread, SameMutex, waitVars, tcbVars
<1>10. CASE PostHandOver(t, e)
  <2>1. PICK v \in Threads : v = NextWaiter(e)
    BY <1>1, <1>10, NextWaiterType DEF PostHandOver
  <2>2. ThreadState(v) /\ peventPtr[v] = e
    BY <1>1, <1>10, <2>1, NextWaiterQueued DEF PostHandOver, Queues
  <2>3. /\ type[e] = "MUTEX" /\ own[e] = t /\ nest[e] = 0 /\ own'[e] = v
        /\ \A f \in Events \ {e} : UNCHANGED own[f]
        /\ UNCHANGED <<type, nest>>
    BY <1>1, <1>10, <2>1 DEF PostHandOver, MutexTypes
  <2>4. /\ v # t /\ InWait(v) /\ pevent[v] = e /\ peventPtr'[v] = NULL
        /\ UNCHANGED <<pc[v], pevent[v], isEventDelete[v], held[v]>>
        /\ \A u \in Threads \ {v} : UNCHANGED <<peventPtr[u], isEventDelete[u]>>
    BY <1>1, <1>3, <1>10, <2>1, <2>2
    DEF ThreadState, PostHandOver, EventReady, EventWaitTypeOK
  <2>5. /\ ~ (pc[t] = "safe" \/ InWait(t))
        /\ \A u \in Threads \ {t} : held[u][e] = 0 /\ own[e] # u
    BY <1>1, <1>5, <2>3 DEF InWait
  <2>6. ASSUME NEW u \in Threads, NEW f \in Events PROVE OwnerState(u, f)'
    <3>1. OwnerState(u, f)
      BY DEF Owners
    <3>2. CASE f = e
      BY <1>3, <1>4, <2>3, <2>4, <2>5, <3>2 DEF OwnerState, Granted, InWait
    <3>3. CASE f # e
      BY <1>1, <1>3, <2>3, <2>4, <2>5, <3>1, <3>3 DEF OwnerState, Granted, InWait
    <3>4. QED BY <3>2, <3>3
  <2>7. ASSUME NEW u \in Threads PROVE GrantState(u)'
    <3>1. GrantState(u) /\ pevent[u] \in Events
      BY <1>1 DEF Owners, CallTypes
    <3>2. CASE u = t
      BY <1>6, <3>2
    <3>3. CASE u = v
      BY <2>3, <2>4, <2>5, <3>1, <3>3 DEF GrantState, InWait
    <3>4. CASE u \notin {t, v} /\ pevent[u] = e
      BY <1>1, <1>3, <2>3, <2>4, <2>5, <3>1, <3>4 DEF GrantState, Granted, InWait
    <3>5. CASE u \notin {t, v} /\ pevent[u] # e
      BY <1>1, <1>3, <2>3, <2>4, <3>1, <3>5 DEF GrantState, Granted, InWait
    <3>6. QED BY <3>2, <3>3, <3>4, <3>5
  <2>8. ASSUME NEW f \in Events PROVE Unowned(f)'
    BY <1>1, <2>1, <2>3 DEF Owners, Unowned
  <2>9. QED BY <2>6, <2>7, <2>8 DEF Owners
<1>11. QED BY <1>2, <1>7, <1>8, <1>9, <1>10

\* A mutex that is being deleted is nobody's concern any more.
LEMMA DeleteOwners ==
  ASSUME Types, Queues, Owners, DeletesUnused, NEW e \in Events, DeleteBegin(e) \/ Deletes(e)
  PROVE  Owners'
<1>1. EventWaitTypeOK /\ MutexTypes /\ CallTypes /\ DeletionTypes /\ NULL \notin Events
  BY EventWaitAssumption DEF Types
<1>2. /\ type'[e] = "UNUSED" /\ \A f \in Events \ {e} : SameMutex(f)
      /\ UNCHANGED <<pc, pevent, held>>
  BY <1>1 DEF DeleteBegin, Deletes, DeleteOne, DeleteEnd, DeleteUnsafe, DeleteOwner,
              DeletesUnused, MutexTypes, SameMutex, mutexVars, pendVars
<1>3. \A u \in Threads : delProc'[u] = "gone" <=> delProc[u] = "gone"
  BY <1>1 DEF DeleteBegin, Deletes, DeleteOne, DeleteEnd, DeleteUnsafe, DeleteOwner, safeVars,
              ThreadDelete, DeletionTypes
<1>4. ASSUME NEW u \in Threads
      PROVE  UNCHANGED <<peventPtr[u], isEventDelete[u]>> \/ pevent[u] = e
  <2>1. CASE DeleteOne(e)
    <3>1. PICK v \in Threads : v = NextWaiter(e)
      BY <1>1, <2>1, NextWaiterType DEF DeleteOne
    <3>2. pevent[v] = e
      BY <1>1, <2>1, <3>1, NextWaiterQueued DEF DeleteOne, Queues, ThreadState
    <3>3. CASE u = v
      BY <3>2, <3>3
    <3>4. CASE u # v
      BY <1>1, <2>1, <3>1, <3>4 DEF DeleteOne, EventReady, EventWaitTypeOK
    <3>5. QED BY <3>3, <3>4
  <2>2. CASE ~ DeleteOne(e)
    BY <2>2 DEF DeleteBegin, Deletes, DeleteEnd, DeleteUnsafe, DeleteOwner, waitVars, tcbVars
  <2>3. QED BY <2>1, <2>2
<1>5. ASSUME NEW u \in Threads, NEW f \in Events PROVE OwnerState(u, f)'
  BY <1>2, <1>4 DEF Owners, OwnerState, Granted, SameMutex
<1>6. ASSUME NEW u \in Threads PROVE GrantState(u)'
  <2>1. pevent[u] \in Events
    BY <1>1 DEF CallTypes
  <2>2. QED BY <1>2, <1>3, <1>4, <2>1 DEF Owners, GrantState, Granted, InWait, SameMutex
<1>7. ASSUME NEW f \in Events PROVE Unowned(f)'
  BY <1>2 DEF Owners, Unowned, SameMutex
<1>8. QED BY <1>5, <1>6, <1>7 DEF Owners

\* Time-outs, priorities and the deletion of threads.
LEMMA AroundOwners ==
  ASSUME Types, Queues, Owners, ~ SIGNAL_EN, NEW t \in Threads,
         \/ DeleteByOther(t) \/ DeleteStop(t) \/ DeleteGone(t)
         \/ Tick(t) \/ Signal(t) \/ HandlerReturn(t) \/ SetPriority(t)
  PROVE  Owners'
<1>1. /\ EventWaitTypeOK /\ DeletionTypes /\ NULL \notin Events
      /\ \A u \in Threads : pevent[u] \in Events
  BY EventWaitAssumption DEF Types, CallTypes
<1>2. ~ Signal(t) /\ ~ HandlerReturn(t)
  <2>1. ~ Signal(t)
    BY DEF Signal, ThreadStop, Kill
  <2>2. ThreadState(t)
    BY DEF Queues
  <2>3. QED BY <2>1, <2>2 DEF HandlerReturn, SigReturn, ThreadState
<1>3. UNCHANGED <<type, own, nest, pc, pevent, held, isEventDelete>>
  <2>1. UNCHANGED <<mutexVars, pendVars>>
    BY <1>2 DEF DeleteByOther, DeleteStop, DeleteGone, Tick, SetPriority
  <2>2. UNCHANGED isEventDelete
    BY <1>2 DEF DeleteByOther, DeleteStop, DeleteGone, Tick, ThreadTick, SetPriority,
                ThreadSetPriority, waitVars, tcbVars
  <2>3. QED BY <2>1, <2>2 DEF mutexVars, pendVars
<1>4. \A u \in Threads :
        \/ UNCHANGED peventPtr[u] /\ (delProc'[u] = "gone" <=> delProc[u] = "gone")
        \/ peventPtr'[u] = NULL /\ delProc'[u] = "gone"
  <2>1. CASE DeleteGone(t)
    BY <1>1, <2>1 DEF DeleteGone, EventWaitTypeOK, DeletionTypes
  <2>2. CASE ~ DeleteGone(t)
    <3>1. UNCHANGED peventPtr
      BY <1>2, <2>2 DEF DeleteByOther, DeleteStop, Tick, ThreadTick, SetPriority,
                        ThreadSetPriority, waitVars, tcbVars
    <3>2. \A u \in Threads : delProc'[u] = "gone" <=> delProc[u] = "gone"
      BY <1>1, <1>2, <2>2 DEF DeleteByOther, ThreadDelete, DeleteStop, Tick, SetPriority,
                              safeVars, DeletionTypes
    <3>3. QED BY <3>1, <3>2
  <2>3. QED BY <2>1, <2>2
<1>5. ASSUME NEW u \in Threads, NEW f \in Events PROVE OwnerState(u, f)'
  <2>1. OwnerState(u, f)
    BY DEF Owners
  <2>2. Granted(u, f) => Granted(u, f)'
    BY <1>3, <1>4 DEF Granted
  <2>3. QED BY <1>3, <2>1, <2>2 DEF OwnerState
<1>6. ASSUME NEW u \in Threads PROVE GrantState(u)'
  BY <1>1, <1>3, <1>4 DEF Owners, GrantState, Granted, InWait
<1>7. ASSUME NEW f \in Events PROVE Unowned(f)'
  BY <1>3 DEF Owners, Unowned
<1>8. QED BY <1>5, <1>6, <1>7 DEF Owners

LEMMA OwnersInvariant == ASSUME ~ SIGNAL_EN PROVE Spec => []Owners
<1>1. Init => Owners
  <2> SUFFICES ASSUME Init PROVE Owners
    OBVIOUS
  <2>1. \A t \in Threads, e \in Events : OwnerState(t, e)
    BY SemaphoreMAssumption DEF Init, OwnerState
  <2>2. \A t \in Threads : GrantState(t)
    BY DEF Init, EventWaitInit, GrantState, InWait, Granted
  <2>3. QED BY <2>1, <2>2 DEF Init, Owners, Unowned
<1>2. /\ Types /\ Queues /\ FreeMutexUnwanted /\ DeletesUnused /\ Owners /\ [Next]_vars
      => Owners'
  <2> SUFFICES ASSUME Types, Queues, FreeMutexUnwanted, DeletesUnused, Owners, [Next]_vars
               PROVE  Owners'
    OBVIOUS
  <2>1. CASE UNCHANGED vars
    BY <2>1 DEF Owners, OwnerState, GrantState, Unowned, Granted, InWait, vars, waitVars, tcbVars,
                mutexVars, pendVars, safeVars
  <2>2. ASSUME NEW t \in Threads, NEW e \in Events, NEW w \in Waits, PendCall(t, e, w)
        PROVE  Owners'
    <3>1. /\ pc[t] = "idle" /\ pc'[t] = "wait_again" /\ pevent'[t] = e
          /\ UNCHANGED <<held, waitVars, mutexVars, safeVars>>
          /\ \A u \in Threads \ {t} : UNCHANGED <<pc[u], pevent[u]>>
      BY <2>2 DEF PendCall, Types, CallTypes
    <3>2. OwnerState(t, e) /\ Unowned(e)
      BY DEF Owners
    <3>3. OwnerState(t, e)' /\ GrantState(t)' /\ Unowned(e)'
      BY <3>1, <3>2 DEF OwnerState, GrantState, Unowned, Granted, InWait, mutexVars
    <3>4. QED BY <3>1, <3>3, StepKeeps
             DEF InWait, SameThread, SameMutex, waitVars, tcbVars, mutexVars, safeVars
  <2>3. QED BY <2>1, <2>2, PendStepOwners, PostOwners, DeleteOwners, AroundOwners DEF Next
<1>3. QED BY <1>1, <1>2, TypesCorrect, QueuesInvariant, FreeMutexUnwantedCorrect,
             DeletesUnusedCorrect, PTL DEF Spec

\* Mutual exclusion and exact recursion counts, in a kernel built without signals:
\* whatever posts, time-outs, deletions of mutexes and of threads come together, a
\* thread that has pended successfully is the owner until it posts.
THEOREM OwnershipCorrect == ASSUME ~ SIGNAL_EN PROVE Spec => []Ownership
<1>1. Owners => Ownership
  BY DEF Owners, Ownership, OwnerState
<1>2. QED BY <1>1, OwnersInvariant, PTL

-----------------------------------------------------------------------------
(* The types and bounds of TypeOK.                                         *)

InCall(t) == pc[t] \in {"wait_again", "blocked", "awake", "timeout", "safe"}

\* A call to Pend starts below the bound, and nothing but its end counts.
HeldBound ==
  /\ \A t \in Threads, e \in Events : held[t][e] <= MaxNest + 1
  /\ \A t \in Threads : InCall(t) => held[t][pevent[t]] <= MaxNest

OtherTypes ==
  /\ victim      \in [Events -> Threads \cup {NULL}]
  /\ ret         \in [Threads -> Rets]
  /\ safeCounter \in [Threads -> Nat]
  /\ deleteMe    \in [Threads -> BOOLEAN]

LEMMA LeaveSafeTypes ==
  ASSUME OtherTypes, NEW t, LeaveSafe(t)
  PROVE  safeCounter' \in [Threads -> Nat] /\ deleteMe' \in [Threads -> BOOLEAN]
<1>1. safeCounter' \in [Threads -> Nat]
  <2>1. CASE t \in Threads
    <3>1. (IF safeCounter[t] > 0 THEN safeCounter[t] - 1 ELSE 0) \in Nat
      BY <2>1 DEF OtherTypes
    <3>2. QED BY <2>1, <3>1 DEF LeaveSafe, OtherTypes
  <2>2. CASE t \notin Threads
    BY <2>2 DEF LeaveSafe, OtherTypes
  <2>3. QED BY <2>1, <2>2
<1>2. deleteMe' \in [Threads -> BOOLEAN]
  <2>1. deleteMe' = [deleteMe EXCEPT ![t] = deleteMe[t] /\ safeCounter[t] # 1]
    BY DEF LeaveSafe
  <2>2. (deleteMe[t] /\ safeCounter[t] # 1) \in BOOLEAN
    OBVIOUS
  <2>3. QED BY <2>1, <2>2 DEF OtherTypes
<1>3. QED BY <1>1, <1>2

LEMMA ThreadDeleteTypes ==
  ASSUME OtherTypes, NEW t, ThreadDelete(t)
  PROVE  safeCounter' \in [Threads -> Nat] /\ deleteMe' \in [Threads -> BOOLEAN]
  BY DEF OtherTypes, ThreadDelete

LEMMA OtherTypesKept ==
  ASSUME Types, OtherTypes, [Next]_vars
  PROVE  OtherTypes'
<1> USE DEF OtherTypes
<1>1. CASE UNCHANGED vars
  BY <1>1 DEF vars, mutexVars, pendVars, safeVars
<1>2. ASSUME NEW t \in Threads, PendStep(t) PROVE OtherTypes'
  <2>1. UNCHANGED victim
    BY <1>2 DEF PendStep, PendEnter, PendTypeError, PendTake, PendRecursive, PendNotWait,
                PendBlock, PendResume, PendTestTimeOut, PendTimeOut, PendSafe, PostUnsafe,
                DeleteSelf, mutexVars
  <2>2. ret' \in [Threads -> Rets]
    BY <1>2 DEF PendStep, PendEnter, PendTypeError, PendTake, PendRecursive, PendNotWait,
                PendBlock, PendResume, PendTestTimeOut, PendTimeOut, PendSafe, PostUnsafe,
                DeleteSelf, pendVars, Got, Goto, Return, Rets
  <2>3. safeCounter' \in [Threads -> Nat] /\ deleteMe' \in [Threads -> BOOLEAN]
    <3>1. CASE PendSafe(t)
      BY <3>1 DEF PendSafe
    <3>2. CASE PostUnsafe(t)
      BY <3>2, LeaveSafeTypes DEF PostUnsafe
    <3>3. CASE DeleteSelf(t)
      BY <3>3, ThreadDeleteTypes DEF DeleteSelf
    <3>4. QED BY <1>2, <3>1, <3>2, <3>3
             DEF PendStep, PendEnter, PendResume, PendTestTimeOut, PendTimeOut, safeVars
  <2>4. QED BY <2>1, <2>2, <2>3
<1>3. ASSUME NEW t \in Threads, Post(t) PROVE OtherTypes'
  BY <1>3 DEF Post, PostFails, PostNested, PostHandOver, PostFree, AfterPost, Posted,
              mutexVars, safeVars
<1>4. ASSUME NEW e \in Events, DeleteBegin(e) \/ Deletes(e) PROVE OtherTypes'
  <2>1. victim' \in [Events -> Threads \cup {NULL}]
    BY <1>4 DEF DeleteBegin, Deletes, DeleteOne, DeleteEnd, DeleteUnsafe, DeleteOwner,
                mutexVars, Types, MutexTypes
  <2>2. ret' = ret
    BY <1>4 DEF DeleteBegin, Deletes, DeleteOne, DeleteEnd, DeleteUnsafe, DeleteOwner, pendVars
  <2>3. safeCounter' \in [Threads -> Nat] /\ deleteMe' \in [Threads -> BOOLEAN]
    BY <1>4, LeaveSafeTypes, ThreadDeleteTypes
    DEF DeleteBegin, Deletes, DeleteOne, DeleteEnd, DeleteUnsafe, DeleteOwner, safeVars
  <2>4. QED BY <2>1, <2>2, <2>3
<1>5. ASSUME NEW t \in Threads,
             \/ DeleteByOther(t) \/ DeleteStop(t) \/ DeleteGone(t)
             \/ Tick(t) \/ Signal(t) \/ HandlerReturn(t) \/ SetPriority(t)
             \/ \E e \in Events, w \in Waits : PendCall(t, e, w)
      PROVE  OtherTypes'
  <2>1. CASE DeleteByOther(t)
    BY <2>1, ThreadDeleteTypes DEF DeleteByOther, mutexVars, pendVars
  <2>2. CASE ~ DeleteByOther(t)
    BY <1>5, <2>2 DEF DeleteStop, DeleteGone, Tick, Signal, HandlerReturn, SetPriority,
                      PendCall, mutexVars, pendVars, safeVars
  <2>3. QED BY <2>1, <2>2
<1>6. QED BY <1>1, <1>2, <1>3, <1>4, <1>5 DEF Next

LEMMA HeldBoundKept ==
  ASSUME Types, HeldBound, [Next]_vars
  PROVE  HeldBound'
<1>1. /\ MaxNest \in Nat /\ held \in [Threads -> [Events -> Nat]]
      /\ pc \in [Threads -> Labels] /\ pevent \in [Threads -> Events]
  BY SemaphoreMAssumption DEF Types, CallTypes
\* It is enough to look at the thread that moves, and at the mutex of its call.
<1>2. ASSUME NEW t \in Threads, NEW e \in Events,
             \A u \in Threads \ {t} : UNCHANGED <<pc[u], pevent[u], held[u]>>,
             \A f \in Events \ {e} : UNCHANGED held[t][f],
             held'[t][e] <= MaxNest + 1, InCall(t)' => held'[t][pevent'[t]] <= MaxNest
      PROVE  HeldBound'
  BY <1>2 DEF HeldBound, InCall
<1>3. CASE UNCHANGED pendVars
  BY <1>3 DEF HeldBound, InCall, pendVars
<1>4. ASSUME NEW t \in Threads, NEW r, Return(t, r), InCall(t)
      PROVE  HeldBound'
  <2>1. PICK e \in Events : e = pevent[t]
    BY <1>1
  <2>2. /\ pc'[t] = "idle"
        /\ held'[t][e] = held[t][e] + IF r = "NONE" THEN 1 ELSE 0
        /\ \A f \in Events \ {e} : UNCHANGED held[t][f]
        /\ \A u \in Threads \ {t} : UNCHANGED <<pc[u], pevent[u], held[u]>>
    BY <1>1, <1>4, <2>1 DEF Return
  <2>3. held'[t][e] <= MaxNest + 1
    <3>1. held[t][e] \in Nat /\ held[t][e] <= MaxNest
      BY <1>1, <1>4, <2>1 DEF HeldBound
    <3>2. QED BY <1>1, <2>2, <3>1
  <2>4. QED BY <1>2, <2>2, <2>3 DEF InCall
<1>5. ASSUME NEW t \in Threads, NEW l, Goto(t, l),
             InCall(t) \/ l \notin {"wait_again", "blocked", "awake", "timeout", "safe"}
      PROVE  HeldBound'
  BY <1>1, <1>5 DEF Goto, HeldBound, InCall
<1>6. ASSUME NEW t \in Threads, Got(t), InCall(t)
      PROVE  HeldBound'
  BY <1>4, <1>5, <1>6 DEF Got
<1>7. ASSUME NEW t \in Threads, NEW e \in Events, NEW l \in {"idle", "unsafe"}, Posted(t, e, l),
             held[t][e] > 0
      PROVE  HeldBound'
  <2>1. /\ pc'[t] = l
        /\ held'[t][e] = held[t][e] - 1
        /\ \A f \in Events \ {e} : UNCHANGED held[t][f]
        /\ \A u \in Threads \ {t} : UNCHANGED <<pc[u], pevent[u], held[u]>>
    BY <1>1, <1>7 DEF Posted
  <2>2. held'[t][e] <= MaxNest + 1
    BY <1>1, <1>7, <2>1 DEF HeldBound
  <2>3. QED BY <1>2, <2>1, <2>2 DEF InCall
<1>8. ASSUME NEW t \in Threads, PendStep(t) PROVE HeldBound'
  <2>1. CASE PendEnter(t)
    BY <1>4, <1>5, <1>6, <2>1
    DEF PendEnter, PendTypeError, PendTake, PendRecursive, PendNotWait, PendBlock, InCall
  <2>2. CASE PendResume(t)
    <3>1. pc[t] = "blocked" /\ InCall(t)
      BY <2>2 DEF PendResume, InCall
    <3>2. CASE Goto(t, "awake") \/ Return(t, "EINTR")
      BY <1>4, <1>5, <3>1, <3>2
    <3>3. CASE pc' = [pc EXCEPT ![t] = "wait_again"] /\ UNCHANGED <<pevent, ret, held>>
      BY <1>1, <3>1, <3>3 DEF HeldBound, InCall
    <3>4. QED BY <2>2, <3>2, <3>3 DEF PendResume
  <2>3. CASE PendTestTimeOut(t)
    BY <1>4, <1>5, <1>6, <2>3 DEF PendTestTimeOut, InCall
  <2>4. CASE PendTimeOut(t)
    BY <1>4, <1>6, <2>4 DEF PendTimeOut, InCall
  <2>5. CASE PendSafe(t)
    BY <1>4, <2>5 DEF PendSafe, InCall
  <2>6. CASE PostUnsafe(t)
    BY <1>5, <2>6 DEF PostUnsafe
  <2>7. QED BY <1>3, <1>8, <2>1, <2>2, <2>3, <2>4, <2>5, <2>6 DEF PendStep, DeleteSelf
<1>9. ASSUME NEW t \in Threads, Post(t) PROVE HeldBound'
  BY <1>7, <1>9 DEF Post, PostFails, PostNested, PostHandOver, PostFree, AfterPost
<1>10. ASSUME NEW t \in Threads, NEW e \in Events, NEW w \in Waits, PendCall(t, e, w)
       PROVE  HeldBound'
  BY <1>1, <1>10 DEF PendCall, HeldBound, InCall
<1>11. QED BY <1>3, <1>8, <1>9, <1>10
          DEF Next, vars, Deletes, DeleteBegin, DeleteOne, DeleteEnd, DeleteUnsafe, DeleteOwner,
              DeleteByOther, DeleteStop, DeleteGone, Tick, Signal, HandlerReturn, SetPriority

\* EVENT_pvPtr counts one less than the pends of the owner, so their bound is its
\* bound; a mutex that is deleted keeps the value it had.
NestBound == \A e \in Events : nest[e] <= MaxNest

LEMMA NestBoundKept ==
  ASSUME Types, Queues, Owners, HeldBound, NestBound, [Next]_vars
  PROVE  NestBound'
<1>1. MaxNest \in Nat /\ nest \in [Events -> Nat] /\ held \in [Threads -> [Events -> Nat]]
  BY SemaphoreMAssumption DEF Types, MutexTypes, CallTypes
<1>2. CASE UNCHANGED nest
  BY <1>2 DEF NestBound
<1>3. ASSUME NEW t \in Threads, PendEnter(t), PendRecursive(t, pevent[t])
      PROVE  NestBound'
  <2>1. PICK e \in Events : e = pevent[t]
    BY DEF Types, CallTypes
  <2>2. /\ held[t][e] <= MaxNest /\ type[e] = "MUTEX" /\ own[e] = t
        /\ pc[t] = "wait_again"
    BY <1>3, <2>1 DEF PendEnter, PendRecursive, Recursive, HeldBound, InCall
  <2>3. held[t][e] = nest[e] + 1
    BY <2>2 DEF Owners, OwnerState, Granted
  <2>4. nest[e] + 1 <= MaxNest /\ nest[e] \in Nat
    BY <1>1, <2>2, <2>3
  <2>5. QED BY <1>1, <1>3, <2>1, <2>4 DEF PendRecursive, NestBound
<1>4. ASSUME NEW t \in Threads, NEW e \in Events, PostNested(t, e)
      PROVE  NestBound'
  BY <1>1, <1>4 DEF PostNested, NestBound
<1>5. ASSUME NEW t \in Threads, PendStep(t) PROVE NestBound'
  BY <1>2, <1>3, <1>5
  DEF PendStep, PendEnter, PendTypeError, PendTake, PendNotWait, PendBlock, PendResume,
      PendTestTimeOut, PendTimeOut, PendSafe, PostUnsafe, DeleteSelf, mutexVars
<1>6. ASSUME NEW t \in Threads, Post(t) PROVE NestBound'
  BY <1>2, <1>4, <1>6 DEF Post, PostFails, PostHandOver, PostFree, mutexVars
<1>7. QED BY <1>2, <1>5, <1>6
         DEF Next, vars, mutexVars, Deletes, DeleteBegin, DeleteOne, DeleteEnd, DeleteUnsafe,
             DeleteOwner, DeleteByOther, DeleteStop, DeleteGone, Tick, Signal, HandlerReturn,
             SetPriority, PendCall

LEMMA BoundsInvariant == ASSUME ~ SIGNAL_EN PROVE Spec => [](OtherTypes /\ HeldBound /\ NestBound)
<1>1. Init => OtherTypes /\ HeldBound /\ NestBound
  BY SemaphoreMAssumption DEF Init, OtherTypes, Rets, HeldBound, InCall, NestBound
<1>2. /\ Types /\ Queues /\ Owners /\ OtherTypes /\ HeldBound /\ NestBound /\ [Next]_vars
      => (OtherTypes /\ HeldBound /\ NestBound)'
  BY OtherTypesKept, HeldBoundKept, NestBoundKept
<1>3. QED BY <1>1, <1>2, TypesCorrect, QueuesInvariant, OwnersInvariant, PTL DEF Spec

\* Every variable stays within its type, and the recursion within the bound that the
\* application keeps: EVENT_pvPtr is not raised by a time-out or a deletion that
\* comes in between (SemaphoreMPend.c, SemaphoreMPost.c).
THEOREM TypeCorrect == ASSUME ~ SIGNAL_EN PROVE Spec => []TypeOK
<1>1. Types /\ OtherTypes /\ HeldBound /\ NestBound => TypeOK
  <2> SUFFICES ASSUME Types, OtherTypes, HeldBound, NestBound PROVE TypeOK
    OBVIOUS
  <2>1. MaxNest \in Nat
    BY SemaphoreMAssumption
  <2>2. nest \in [Events -> 0..MaxNest]
    BY <2>1 DEF Types, MutexTypes, NestBound
  <2>3. held \in [Threads -> [Events -> 0..(MaxNest + 1)]]
    <3>1. held \in [Threads -> [Events -> Nat]]
      BY DEF Types, CallTypes
    <3>2. \A t \in Threads, e \in Events : held[t][e] \in 0..(MaxNest + 1)
      BY <2>1, <3>1 DEF HeldBound
    <3>3. QED BY <3>1, <3>2
  <2>4. QED BY <2>2, <2>3 DEF Types, MutexTypes, CallTypes, DeletionTypes, OtherTypes, TypeOK
<1>2. QED BY <1>1, TypesCorrect, BoundsInvariant, PTL

-----------------------------------------------------------------------------
(* The priority that is saved, when a thread owns one mutex at a time.     *)

\* How the application uses the mutexes.
OneEach == \A e, f \in Events : own[e] # NULL /\ own[e] = own[f] => e = f

LEMMA BoostedLess ==
  ASSUME Types, NEW t \in Threads, NEW e \in Events, NEW u \in Threads
  PROVE  Boosted(t, e)[u] <= priority[u]
<1>1. /\ priority \in [Threads -> Nat] /\ Ceiling[e] \in Nat
  BY EventWaitAssumption, SemaphoreMAssumption DEF Types, EventWaitTypeOK
<1>2. QED BY <1>1 DEF Boosted

LEMMA SavedKept ==
  ASSUME ~ CHANGE_PRIO_EN, Types, DeletesUnused, OneEach, SavedIsOwners, [Next]_vars
  PROVE  SavedIsOwners'
<1>1. /\ priority \in [Threads -> Nat] /\ savedPrio \in [Events -> Nat]
      /\ own \in [Events -> Threads \cup {NULL}] /\ NULL \notin Threads
      /\ type \in [Events -> {"MUTEX", "UNUSED"}]
      /\ EventWaitTypeOK
  <2>1. Priorities \subseteq Nat /\ 0..PRIO_LOWEST \subseteq Nat /\ NULL \notin Threads
    BY EventWaitAssumption, SemaphoreMAssumption
  <2>2. priority \in [Threads -> Nat]
    BY <2>1, PriorityType DEF Types
  <2>3. savedPrio \in [Events -> Nat]
    BY <2>1 DEF Types, MutexTypes
  <2>4. QED BY <2>1, <2>2, <2>3 DEF Types, MutexTypes
\* A step in which no owner changes and no thread becomes less urgent.
<1>2. ASSUME UNCHANGED <<own, savedPrio>>, \A e \in Events : type'[e] = "MUTEX" => type[e] = "MUTEX",
             priority' \in [Threads -> Nat], \A u \in Threads : priority'[u] <= priority[u]
      PROVE  SavedIsOwners'
  <2>1. SUFFICES ASSUME NEW e \in Events, type'[e] = "MUTEX", own'[e] # NULL
                 PROVE  priority'[own'[e]] <= savedPrio'[e]
    BY DEF SavedIsOwners
  <2>2. own[e] \in Threads /\ own'[e] = own[e] /\ priority[own[e]] <= savedPrio[e]
    BY <1>1, <1>2, <2>1 DEF SavedIsOwners
  <2>3. QED BY <1>1, <1>2, <2>2
<1>3. CASE UNCHANGED <<own, savedPrio, type, priority>>
  BY <1>1, <1>2, <1>3
<1>4. ASSUME NEW t \in Threads, NEW e \in Events, PendTake(t, e)
      PROVE  SavedIsOwners'
  <2>1. UNCHANGED <<type, priority>>
    BY <1>4 DEF PendTake, waitVars, tcbVars
  <2>2. QED BY <1>1, <1>4, <2>1 DEF PendTake, SavedIsOwners
<1>5. ASSUME NEW t \in Threads, NEW e \in Events, PendBlock(t, e)
      PROVE  SavedIsOwners'
  <2>1. priority' = Boosted(t, e) /\ UNCHANGED <<own, savedPrio, type>>
    BY <1>5 DEF PendBlock, EventWait, mutexVars
  <2>2. priority' \in [Threads -> Nat]
    <3>1. Boosted(t, e) \in [Threads -> Priorities] /\ Priorities \subseteq Nat
      BY BoostedType, EventWaitAssumption DEF Types
    <3>2. QED BY <2>1, <3>1
  <2>3. QED BY <1>2, <2>1, <2>2, BoostedLess
<1>6. ASSUME NEW t \in Threads, NEW e \in Events, PostHandOver(t, e)
      PROVE  SavedIsOwners'
  <2>1. PICK v \in Threads : v = NextWaiter(e)
    BY <1>1, <1>6, NextWaiterType DEF PostHandOver
  <2>2. /\ priority' = [priority EXCEPT ![t] = savedPrio[e]] /\ UNCHANGED type
        /\ savedPrio' = [savedPrio EXCEPT ![e] = priority'[v]]
        /\ own' = [own EXCEPT ![e] = v] /\ own[e] = t
    BY <1>6, <2>1 DEF PostHandOver, EventReady
  <2>3. SUFFICES ASSUME NEW f \in Events, f # e, type[f] = "MUTEX", own[f] # NULL
                 PROVE  priority'[own[f]] <= savedPrio[f]
    <3>1. priority'[v] \in Nat
      BY <1>1, <2>2
    <3>2. QED BY <1>1, <2>2, <2>3, <3>1 DEF SavedIsOwners
  <2>4. own[f] # t /\ own[f] \in Threads /\ priority[own[f]] <= savedPrio[f]
    BY <1>1, <2>2, <2>3 DEF OneEach, SavedIsOwners
  <2>5. QED BY <1>1, <2>2, <2>4
<1>7. ASSUME NEW t \in Threads, NEW e \in Events, PostFree(t, e)
      PROVE  SavedIsOwners'
  <2>1. UNCHANGED <<type, priority>>
    BY <1>7 DEF PostFree, waitVars, tcbVars
  <2>2. QED BY <1>1, <1>7, <2>1 DEF PostFree, SavedIsOwners
<1>8. ASSUME NEW e \in Events, DeleteEnd(e)
      PROVE  SavedIsOwners'
  <2>1. /\ type[e] = "UNUSED" /\ own' = [own EXCEPT ![e] = NULL] /\ UNCHANGED <<type, savedPrio>>
        /\ priority' = IF own[e] = NULL THEN priority ELSE [priority EXCEPT ![own[e]] = savedPrio[e]]
    BY <1>8 DEF DeleteEnd, DeletesUnused
  <2>2. SUFFICES ASSUME NEW f \in Events, f # e, type[f] = "MUTEX", own[f] # NULL
                 PROVE  priority'[own[f]] <= savedPrio[f]
    BY <1>1, <2>1 DEF SavedIsOwners
  <2>3. own[f] \in Threads /\ own[f] # own[e] /\ priority[own[f]] <= savedPrio[f]
    BY <1>1, <2>2 DEF OneEach, SavedIsOwners
  <2>4. QED BY <1>1, <2>1, <2>3
<1>9. ASSUME NEW t \in Threads, PendStep(t) PROVE SavedIsOwners'
  <2>1. pevent[t] \in Events
    BY DEF Types, CallTypes
  <2>2. CASE PendTake(t, pevent[t]) \/ PendBlock(t, pevent[t])
    BY <1>4, <1>5, <2>1, <2>2
  <2>3. CASE UNCHANGED <<own, savedPrio, type, priority>>
    BY <1>3, <2>3
  <2>4. QED BY <1>9, <2>2, <2>3
           DEF PendStep, PendEnter, PendTypeError, PendRecursive, PendNotWait, PendResume,
               SchedReturn, PendTestTimeOut, PendTimeOut, EventTimeout, PendSafe, PostUnsafe,
               DeleteSelf, waitVars, tcbVars, mutexVars
<1>10. ASSUME NEW t \in Threads, Post(t) PROVE SavedIsOwners'
  BY <1>3, <1>6, <1>7, <1>10 DEF Post, PostFails, PostNested, waitVars, tcbVars, mutexVars
<1>11. ASSUME NEW e \in Events, DeleteBegin(e) PROVE SavedIsOwners'
  BY <1>1, <1>2, <1>11 DEF DeleteBegin, waitVars, tcbVars
<1>12. ASSUME NEW e \in Events, Deletes(e) PROVE SavedIsOwners'
  BY <1>3, <1>8, <1>12
  DEF Deletes, DeleteOne, EventReady, DeleteUnsafe, DeleteOwner, waitVars, tcbVars, mutexVars
<1>13. ASSUME NEW t \in Threads,
              \/ DeleteByOther(t) \/ DeleteStop(t) \/ DeleteGone(t)
              \/ Tick(t) \/ Signal(t) \/ HandlerReturn(t) \/ SetPriority(t)
              \/ \E e \in Events, w \in Waits : PendCall(t, e, w)
       PROVE  SavedIsOwners'
  <2>1. UNCHANGED <<own, savedPrio, type, priority>>
    BY <1>13 DEF DeleteByOther, DeleteStop, DeleteGone, Tick, ThreadTick, Signal, ThreadStop, Kill,
                 SigBreakWait, SigNoWait, HandlerReturn, SigReturn, SetPriority,
                 ThreadSetPriority, PendCall, waitVars, tcbVars, mutexVars
  <2>2. QED BY <1>3, <2>1
<1>14. QED BY <1>3, <1>9, <1>10, <1>11, <1>12, <1>13 DEF Next, vars, waitVars, tcbVars, mutexVars

\* While no thread owns two mutexes and the application changes no priorities, what
\* Pend has saved is never more urgent than the owner: inheritance and ceiling only
\* raise an owner, and Post gives back to a thread what was its own.  A thread that
\* posts two mutexes in the order in which it took them breaks this, signals,
\* time-outs and deletions do not.
THEOREM SavedIsOwnersCorrect ==
  ASSUME ~ CHANGE_PRIO_EN PROVE Spec /\ []OneEach => []SavedIsOwners
<1>1. Init => SavedIsOwners
  BY DEF Init, SavedIsOwners
<1>2. Types /\ DeletesUnused /\ OneEach /\ SavedIsOwners /\ [Next]_vars => SavedIsOwners'
  BY SavedKept
<1>3. QED BY <1>1, <1>2, TypesCorrect, DeletesUnusedCorrect, PTL DEF Spec

-----------------------------------------------------------------------------
(* The safe mode, when no mutex is deleted.                                *)

SafeMutexes(t) == {e \in Events : DeleteSafe(e) /\ held[t][e] > 0}

\* A thread that is about to become safe has got a DELETE_SAFE mutex.
SafeState(t) ==
  /\ safeCounter[t] = Cardinality(SafeMutexes(t)) + IF pc[t] = "unsafe" THEN 1 ELSE 0
  /\ pc[t] = "safe" => DeleteSafe(pevent[t])

Undeleted == \A e \in Events : type[e] = "MUTEX" /\ delStep[e] = "none"

SafeCounts == Undeleted /\ \A t \in Threads : SafeState(t)

LEMMA UndeletedKept ==
  ASSUME "Delete" \notin Calls, Types, Undeleted, [Next]_vars
  PROVE  /\ Undeleted'
         /\ \A e \in Events : ~ (DeleteBegin(e) \/ Deletes(e))
<1>1. \A e \in Events : ~ (DeleteBegin(e) \/ Deletes(e))
  BY DEF Undeleted, DeleteBegin, Deletes, DeleteOne, DeleteEnd, DeleteUnsafe, DeleteOwner
<1>2. UNCHANGED <<type, delStep>>
  <2>1. ASSUME NEW t \in Threads, PendStep(t) \/ Post(t)
        PROVE  UNCHANGED <<type, delStep>>
    BY <2>1 DEF PendStep, PendEnter, PendTypeError, PendTake, PendRecursive, PendNotWait,
                PendBlock, PendResume, PendTestTimeOut, PendTimeOut, PendSafe, PostUnsafe,
                DeleteSelf, Post, PostFails, PostNested, PostHandOver, PostFree, mutexVars
  <2>2. QED BY <1>1, <2>1
           DEF Next, DeleteByOther, DeleteStop, DeleteGone, Tick, Signal, HandlerReturn,
               SetPriority, PendCall, vars, mutexVars
<1>3. QED BY <1>1, <1>2 DEF Undeleted

\* What SafeState says of a thread depends on these variables.
LEMMA SameSafe ==
  ASSUME NEW t \in Threads, SafeState(t), UNCHANGED <<safeCounter[t], held[t]>>,
         pc'[t] = "unsafe" <=> pc[t] = "unsafe",
         pc'[t] = "safe" => DeleteSafe(pevent'[t])
  PROVE  SafeState(t)'
<1>1. SafeMutexes(t)' = SafeMutexes(t)
  BY DEF SafeMutexes, DeleteSafe
<1>2. QED BY <1>1 DEF SafeState, DeleteSafe

LEMMA SafeMutexesFinite ==
  ASSUME NEW t
  PROVE  IsFiniteSet(SafeMutexes(t)) /\ Cardinality(SafeMutexes(t)) \in Nat
<1>1. SafeMutexes(t) \subseteq Events
  BY DEF SafeMutexes
<1>2. QED BY <1>1, FS_Subset, FS_CardinalityType, SemaphoreMAssumption

\* Another pend of a mutex that the thread has, or one that needs no safe mode.
LEMMA PendsNoSafe ==
  ASSUME Types, NEW t \in Threads, NEW e \in Events, e = pevent[t], SafeState(t),
         NEW r, Return(t, r), r = "NONE" => held[t][e] > 0 \/ ~ DeleteSafe(e),
         pc[t] # "unsafe", UNCHANGED safeCounter
  PROVE  \A u \in Threads : SafeState(u) => SafeState(u)'
<1>1. /\ held \in [Threads -> [Events -> Nat]] /\ pc \in [Threads -> Labels]
  BY DEF Types, CallTypes
<1>2. ASSUME NEW u \in Threads, u # t, SafeState(u) PROVE SafeState(u)'
  BY <1>1, <1>2, SameSafe DEF Return, SafeState
<1>3. SafeState(t)'
  <2>1. /\ pc'[t] = "idle"
        /\ held'[t][e] = held[t][e] + IF r = "NONE" THEN 1 ELSE 0
        /\ \A f \in Events \ {e} : UNCHANGED held[t][f]
    BY <1>1 DEF Return
  <2>2. held[t][e] \in Nat
    BY <1>1
  <2>3. \A f \in Events : DeleteSafe(f) => (held'[t][f] > 0 <=> held[t][f] > 0)
    BY <2>1, <2>2
  <2>4. SafeMutexes(t)' = SafeMutexes(t)
    BY <2>3 DEF SafeMutexes, DeleteSafe
  <2>5. QED BY <2>1, <2>4 DEF SafeState
<1>4. QED BY <1>2, <1>3

LEMMA MovesNoSafe ==
  ASSUME Types, NEW t \in Threads, NEW l \in Labels, Goto(t, l),
         pc[t] # "unsafe", l # "unsafe", l = "safe" => DeleteSafe(pevent[t]),
         UNCHANGED safeCounter
  PROVE  \A u \in Threads : SafeState(u) => SafeState(u)'
<1>1. pc \in [Threads -> Labels]
  BY DEF Types, CallTypes
<1>2. ASSUME NEW u \in Threads, SafeState(u) PROVE SafeState(u)'
  <2>1. UNCHANGED <<safeCounter[u], held[u], pevent[u]>>
    BY DEF Goto
  <2>2. /\ pc'[u] = "unsafe" <=> pc[u] = "unsafe"
        /\ pc'[u] = "safe" => DeleteSafe(pevent[u])
    BY <1>1, <1>2 DEF Goto, SafeState
  <2>3. DeleteSafe(pevent[u])' <=> DeleteSafe(pevent[u])
    BY <2>1 DEF DeleteSafe
  <2>4. QED BY <1>2, <2>1, <2>2, <2>3, SameSafe DEF DeleteSafe
<1>3. QED BY <1>2

LEMMA PendSafeCounts ==
  ASSUME Types, OtherTypes, Owners, Undeleted, NEW t \in Threads, SafeState(t), PendSafe(t)
  PROVE  \A u \in Threads : SafeState(u) => SafeState(u)'
<1>1. /\ held \in [Threads -> [Events -> Nat]] /\ pc \in [Threads -> Labels]
  BY DEF Types, CallTypes
<1>2. ASSUME NEW u \in Threads, u # t, SafeState(u) PROVE SafeState(u)'
  BY <1>1, <1>2, SameSafe DEF PendSafe, Return, SafeState
<1>3. SafeState(t)'
  <2>1. PICK e \in Events : e = pevent[t]
    BY DEF Types, CallTypes
  <2>2. held[t][e] = 0 /\ DeleteSafe(e)
    BY <2>1 DEF PendSafe, Enters, CpuFree, Owners, GrantState, Granted, Undeleted, SafeState
  <2>3. /\ pc'[t] = "idle" /\ pc[t] = "safe"
        /\ held'[t][e] = 1
        /\ \A f \in Events \ {e} : UNCHANGED held[t][f]
    BY <1>1, <2>1, <2>2 DEF PendSafe, Return
  <2>4. SafeMutexes(t)' = SafeMutexes(t) \cup {e} /\ e \notin SafeMutexes(t)
    BY <2>2, <2>3 DEF SafeMutexes, DeleteSafe
  <2>5. Cardinality(SafeMutexes(t)') = Cardinality(SafeMutexes(t)) + 1
    BY <2>4, SafeMutexesFinite, FS_AddElement
  <2>6. safeCounter[t] = Cardinality(SafeMutexes(t)) /\ Cardinality(SafeMutexes(t)) \in Nat
    BY <2>3, SafeMutexesFinite DEF SafeState
  <2>7. safeCounter'[t] = safeCounter[t] + 1
    BY DEF PendSafe, OtherTypes
  <2>8. QED BY <2>3, <2>5, <2>6, <2>7 DEF SafeState
<1>4. QED BY <1>2, <1>3

LEMMA PendStepSafe ==
  ASSUME Types, OtherTypes, Owners, Undeleted, NEW t \in Threads, SafeState(t), PendStep(t)
  PROVE  \A u \in Threads : SafeState(u) => SafeState(u)'
<1>1. PICK e \in Events : e = pevent[t]
  BY DEF Types, CallTypes
<1>2. /\ {"awake", "timeout", "blocked", "safe", "idle", "self_delete"} \subseteq Labels
      /\ "unsafe" \notin {"awake", "timeout", "blocked", "safe", "idle", "self_delete"}
      /\ "safe" \notin {"awake", "timeout", "blocked", "idle", "self_delete"}
  BY DEF Labels
<1>3. ASSUME Got(t), pc[t] # "unsafe", UNCHANGED safeCounter
      PROVE  \A u \in Threads : SafeState(u) => SafeState(u)'
  BY <1>1, <1>2, <1>3, PendsNoSafe, MovesNoSafe DEF Got
<1>4. ASSUME NEW r, Return(t, r), r # "NONE", pc[t] # "unsafe", UNCHANGED safeCounter
      PROVE  \A u \in Threads : SafeState(u) => SafeState(u)'
  BY <1>1, <1>4, PendsNoSafe
<1>5. CASE PendEnter(t)
  <2>1. pc[t] = "wait_again" /\ UNCHANGED safeCounter
    BY <1>5 DEF PendEnter, safeVars
  <2>2. CASE PendRecursive(t, e)
    <3>1. own[e] = t /\ type[e] = "MUTEX"
      BY <2>2 DEF PendRecursive, Recursive
    <3>2. held[t][e] = nest[e] + 1 /\ nest[e] \in Nat
      BY <1>1, <2>1, <3>1 DEF Owners, OwnerState, Granted, Types, MutexTypes
    <3>3. held[t][e] > 0
      BY <3>2
    <3>4. PICK r : Return(t, r)
      BY <2>2 DEF PendRecursive
    <3>5. QED BY <1>1, <2>1, <3>3, <3>4, PendsNoSafe
  <2>3. QED BY <1>1, <1>2, <1>3, <1>4, <1>5, <2>1, <2>2, MovesNoSafe
           DEF PendEnter, PendTypeError, PendTake, PendNotWait, PendBlock
<1>6. CASE PendResume(t)
  <2>1. pc[t] = "blocked" /\ UNCHANGED safeCounter
    BY <1>6 DEF PendResume, safeVars
  <2>2. CASE Goto(t, "awake") \/ Return(t, "EINTR")
    BY <1>2, <1>4, <2>1, <2>2, MovesNoSafe
  <2>3. CASE pc' = [pc EXCEPT ![t] = "wait_again"] /\ UNCHANGED <<pevent, ret, held>>
    <3>1. ASSUME NEW u \in Threads, SafeState(u) PROVE SafeState(u)'
      <4>1. /\ pc'[u] = "unsafe" <=> pc[u] = "unsafe"
            /\ pc'[u] = "safe" => pc[u] = "safe"
        BY <2>1, <2>3 DEF Types, CallTypes
      <4>2. QED BY <2>1, <2>3, <3>1, <4>1, SameSafe DEF SafeState, DeleteSafe
    <3>2. QED BY <3>1
  <2>4. QED BY <1>6, <2>2, <2>3 DEF PendResume
<1>7. CASE PendTestTimeOut(t)
  BY <1>2, <1>3, <1>4, <1>7, MovesNoSafe DEF PendTestTimeOut, safeVars
<1>8. CASE PendTimeOut(t)
  BY <1>3, <1>4, <1>8 DEF PendTimeOut, safeVars
<1>9. CASE PendSafe(t)
  BY <1>9, PendSafeCounts
<1>10. CASE PostUnsafe(t)
  <2>1. PICK l \in {"self_delete", "idle"} : Goto(t, l) /\ LeaveSafe(t) /\ pc[t] = "unsafe"
    BY <1>10 DEF PostUnsafe
  <2>2. /\ pc'[t] = l /\ UNCHANGED held
        /\ \A u \in Threads \ {t} : UNCHANGED <<pc[u], pevent[u], safeCounter[u]>>
        /\ safeCounter'[t] = IF safeCounter[t] > 0 THEN safeCounter[t] - 1 ELSE 0
    BY <2>1 DEF Goto, LeaveSafe, Types, CallTypes, OtherTypes
  <2>3. ASSUME NEW u \in Threads, u # t, SafeState(u) PROVE SafeState(u)'
    BY <2>2, <2>3, SameSafe DEF SafeState
  <2>4. SafeState(t)'
    <3>1. SafeMutexes(t)' = SafeMutexes(t)
      BY <2>2 DEF SafeMutexes, DeleteSafe
    <3>2. Cardinality(SafeMutexes(t)) \in Nat
      BY SafeMutexesFinite
    <3>3. safeCounter[t] = Cardinality(SafeMutexes(t)) + 1
      BY <2>1 DEF SafeState
    <3>4. safeCounter'[t] = Cardinality(SafeMutexes(t))
      BY <2>2, <3>2, <3>3
    <3>5. QED BY <2>2, <3>1, <3>2, <3>4 DEF SafeState
  <2>5. QED BY <2>3, <2>4
<1>11. CASE DeleteSelf(t)
  BY <1>11, SameSafe DEF DeleteSelf, ThreadDelete, pendVars, SafeState
<1>12. QED BY <1>5, <1>6, <1>7, <1>8, <1>9, <1>10, <1>11 DEF PendStep

\* The last post of a DELETE_SAFE mutex leads to the end of the safe mode.
LEMMA PostSafe ==
  ASSUME Types, Owners, Undeleted, NEW t \in Threads, SafeState(t), Post(t)
  PROVE  \A u \in Threads : SafeState(u) => SafeState(u)'
<1>1. PICK e \in Events : /\ held[t][e] > 0
                          /\ \/ PostFails(t, e) \/ PostNested(t, e)
                             \/ PostHandOver(t, e) \/ PostFree(t, e)
  BY DEF Post
<1>2. PICK l \in {"idle", "unsafe"} : Posted(t, e, l)
  BY <1>1 DEF PostFails, PostNested, PostHandOver, PostFree, AfterPost
<1>3. /\ held \in [Threads -> [Events -> Nat]] /\ pc \in [Threads -> Labels]
      /\ nest[e] \in Nat /\ pc[t] = "idle" /\ UNCHANGED safeCounter
  BY DEF Types, CallTypes, MutexTypes, Post, safeVars
<1>4. own[e] = t /\ held[t][e] = nest[e] + 1
  BY <1>1, <1>3 DEF Owners, OwnerState, Undeleted
<1>5. /\ pc'[t] = l /\ held'[t][e] = held[t][e] - 1 /\ held'[t][e] = nest[e]
      /\ \A f \in Events \ {e} : UNCHANGED held[t][f]
      /\ \A u \in Threads \ {t} : UNCHANGED <<pc[u], pevent[u], held[u]>>
  BY <1>2, <1>3, <1>4 DEF Posted
<1>6. l = "unsafe" <=> DeleteSafe(e) /\ nest[e] = 0
  <2>1. CASE PostNested(t, e)
    <3>1. Posted(t, e, "idle") /\ nest[e] > 0
      BY <2>1 DEF PostNested
    <3>2. pc'[t] = "idle"
      BY <1>3, <3>1 DEF Posted
    <3>3. QED BY <1>5, <3>1, <3>2
  <2>2. CASE PostHandOver(t, e) \/ PostFree(t, e)
    <3>1. AfterPost(t, e) /\ nest[e] = 0
      BY <2>2 DEF PostHandOver, PostFree
    <3>2. pc'[t] = IF DeleteSafe(e) THEN "unsafe" ELSE "idle"
      BY <1>3, <3>1 DEF AfterPost, Posted
    <3>3. QED BY <1>5, <3>1, <3>2
  <2>3. ~ PostFails(t, e)
    BY <1>4 DEF PostFails, Undeleted
  <2>4. QED BY <1>1, <2>1, <2>2, <2>3
<1>7. ASSUME NEW u \in Threads, u # t, SafeState(u) PROVE SafeState(u)'
  BY <1>3, <1>5, <1>7, SameSafe DEF SafeState
<1>8. SafeState(t)'
  <2>1. IsFiniteSet(SafeMutexes(t)) /\ Cardinality(SafeMutexes(t)) \in Nat
    BY SafeMutexesFinite
  <2>2. safeCounter[t] = Cardinality(SafeMutexes(t))
    BY <1>3, <2>1 DEF SafeState
  <2>3. CASE DeleteSafe(e) /\ nest[e] = 0
    <3>1. SafeMutexes(t)' = SafeMutexes(t) \ {e} /\ e \in SafeMutexes(t)
      BY <1>1, <1>5, <2>3 DEF SafeMutexes, DeleteSafe
    <3>2. Cardinality(SafeMutexes(t)') = Cardinality(SafeMutexes(t)) - 1
      BY <2>1, <3>1, FS_RemoveElement
    <3>3. QED BY <1>3, <1>5, <1>6, <2>1, <2>2, <2>3, <3>2 DEF SafeState
  <2>4. CASE ~ (DeleteSafe(e) /\ nest[e] = 0)
    <3>1. \A f \in Events : DeleteSafe(f) => (held'[t][f] > 0 <=> held[t][f] > 0)
      BY <1>1, <1>3, <1>5, <2>4
    <3>2. SafeMutexes(t)' = SafeMutexes(t)
      BY <3>1 DEF SafeMutexes, DeleteSafe
    <3>3. QED BY <1>3, <1>5, <1>6, <2>1, <2>2, <2>4, <3>2 DEF SafeState
  <2>5. QED BY <2>3, <2>4
<1>9. QED BY <1>7, <1>8

LEMMA SafeInvariant ==
  ASSUME ~ SIGNAL_EN, "Delete" \notin Calls PROVE Spec => []SafeCounts
<1>1. Init => SafeCounts
  <2> SUFFICES ASSUME Init PROVE SafeCounts
    OBVIOUS
  <2>1. ASSUME NEW t \in Threads PROVE SafeState(t)
    <3>1. SafeMutexes(t) = {}
      BY DEF Init, SafeMutexes
    <3>2. QED BY <3>1, FS_EmptySet DEF Init, SafeState
  <2>2. QED BY <2>1 DEF Init, SafeCounts, Undeleted
<1>2. Types /\ OtherTypes /\ Owners /\ SafeCounts /\ [Next]_vars => SafeCounts'
  <2> SUFFICES ASSUME Types, OtherTypes, Owners, SafeCounts, [Next]_vars PROVE SafeCounts'
    OBVIOUS
  <2>1. Undeleted' /\ \A e \in Events : ~ (DeleteBegin(e) \/ Deletes(e))
    BY UndeletedKept DEF SafeCounts
  <2>2. CASE UNCHANGED <<pc, pevent, held, safeCounter>>
    BY <2>1, <2>2, SameSafe DEF SafeCounts, SafeState
  <2>3. ASSUME NEW t \in Threads, PendStep(t) \/ Post(t)
        PROVE  SafeCounts'
    BY <2>1, <2>3, PendStepSafe, PostSafe DEF SafeCounts
  <2>4. ASSUME NEW t \in Threads, NEW e \in Events, NEW w \in Waits, PendCall(t, e, w)
        PROVE  SafeCounts'
    <3>1. ASSUME NEW u \in Threads PROVE SafeState(u)'
      <4>1. /\ UNCHANGED <<safeCounter[u], held[u]>>
            /\ pc'[u] = "unsafe" <=> pc[u] = "unsafe"
            /\ pc'[u] = "safe" => pc[u] = "safe" /\ UNCHANGED pevent[u]
        BY <2>4 DEF PendCall, Types, CallTypes, safeVars
      <4>2. QED BY <4>1, SameSafe DEF SafeCounts, SafeState
    <3>2. QED BY <2>1, <3>1 DEF SafeCounts
  <2>5. ASSUME NEW t \in Threads,
               \/ DeleteByOther(t) \/ DeleteStop(t) \/ DeleteGone(t)
               \/ Tick(t) \/ Signal(t) \/ HandlerReturn(t) \/ SetPriority(t)
        PROVE  SafeCounts'
    BY <2>2, <2>5 DEF DeleteByOther, ThreadDelete, DeleteStop, DeleteGone, Tick, Signal,
                      HandlerReturn, SetPriority, pendVars, safeVars
  <2>6. QED BY <2>1, <2>2, <2>3, <2>4, <2>5 DEF Next, vars, pendVars, safeVars
<1>3. QED BY <1>1, <1>2, TypesCorrect, BoundsInvariant, OwnersInvariant, PTL DEF Spec

\* As long as no mutex is deleted, TCB_ulThreadSafeCounter counts the DELETE_SAFE
\* mutexes that the thread has, also for one that is handed the mutex when its time
\* is over, and for one that pends again (SemaphoreMPend.c, _ThreadSafeLib.c).
THEOREM SafeCountExactCorrect ==
  ASSUME ~ SIGNAL_EN, "Delete" \notin Calls PROVE Spec => []SafeCountExact
<1>1. SafeCounts => SafeCountExact
  BY DEF SafeCounts, SafeState, SafeMutexes, SafeCountExact
<1>2. QED BY <1>1, SafeInvariant, PTL

\* A deletion never begins on a thread that has a DELETE_SAFE mutex (ThreadDelete.c).
THEOREM DeletionWaitsCorrect ==
  ASSUME ~ SIGNAL_EN, "Delete" \notin Calls PROVE Spec => DeletionWaits
<1> DEFINE HasNone(t) == \A e \in Events : DeleteSafe(e) => held[t][e] = 0
           Step == \A t \in Threads : delProc[t] = "none" /\ delProc'[t] = "marked" => HasNone(t)
<1>1. Types /\ SafeCounts /\ [Next]_vars => Step
  <2> SUFFICES ASSUME Types, SafeCounts, [Next]_vars, NEW t \in Threads,
                      delProc[t] = "none", delProc'[t] = "marked"
               PROVE  HasNone(t)
    OBVIOUS
  <2>1. safeCounter[t] = 0
    <3>1. \A e \in Events : ~ (DeleteBegin(e) \/ Deletes(e))
      BY UndeletedKept DEF SafeCounts
    <3>2. ASSUME NEW u, ThreadDelete(u) PROVE safeCounter[t] = 0
      <4>1. u = t
        BY <3>2 DEF ThreadDelete, Types, DeletionTypes
      <4>2. QED BY <3>2, <4>1 DEF ThreadDelete
    <3>3. ASSUME NEW u \in Threads, PendStep(u) PROVE safeCounter[t] = 0
      BY <3>2, <3>3
      DEF PendStep, PendEnter, PendResume, PendTestTimeOut, PendTimeOut, PendSafe, PostUnsafe,
          DeleteSelf, safeVars
    <3>4. ASSUME NEW u \in Threads, DeleteStop(u) \/ DeleteGone(u) PROVE FALSE
      BY <3>4 DEF DeleteStop, DeleteGone, Types, DeletionTypes
    <3>5. QED BY <3>1, <3>2, <3>3, <3>4
             DEF Next, Post, DeleteByOther, Tick, Signal, HandlerReturn, SetPriority, PendCall,
                 vars, safeVars
  <2>2. SafeMutexes(t) = {}
    <3>1. Cardinality(SafeMutexes(t)) = 0
      BY <2>1, SafeMutexesFinite DEF SafeCounts, SafeState
    <3>2. QED BY <3>1, SafeMutexesFinite, FS_EmptySet
  <2>3. ASSUME NEW e \in Events, DeleteSafe(e) PROVE held[t][e] = 0
    <3>1. held[t][e] \in Nat
      BY DEF Types, CallTypes
    <3>2. QED BY <2>2, <2>3, <3>1 DEF SafeMutexes
  <2>4. QED BY <2>3
<1>2. DeletionWaits <=> [][Step]_vars
  BY DEF DeletionWaits
<1>3. QED BY <1>1, <1>2, TypesCorrect, SafeInvariant, PTL DEF Spec
=============================================================================
