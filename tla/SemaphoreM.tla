------------------------------ MODULE SemaphoreM ------------------------------
(***************************************************************************)
(* The mutex (kernel/interface/SemaphoreM*.c) over the event wait          *)
(* protocol: ownership and recursion, priority inheritance and ceiling,    *)
(* and the safe mode (core/_ThreadSafeLib.c) that keeps the owner of a     *)
(* DELETE_SAFE mutex from being deleted (ThreadDelete.c).                  *)
(*                                                                         *)
(* Pend and Post run with the event's lock and the kernel lock, so each is *)
(* one step up to __KERNEL_EXIT; what follows it is a step of its own.     *)
(* Mutexes are not used by interrupt handlers.                             *)
(***************************************************************************)
EXTENDS EventWait, FiniteSets

CONSTANTS
  PRIO_LOWEST,  \* LW_PRIO_LOWEST
  Ceiling,      \* EVENT_ucCeilingPriority of each mutex
  MaxNest,      \* bound on EVENT_pvPtr, the depth of recursion
  Waits,        \* the time-outs the application passes
  Calls         \* what else the application does

TimeOuts == {"NOT_WAIT", "TICKS", "INFINITE"}

ASSUME SemaphoreMAssumption ==
  /\ NULL \notin Threads
  /\ PRIO_LOWEST \in Nat
  /\ Priorities \subseteq 0..PRIO_LOWEST
  /\ Ceiling \in [Events -> Priorities]
  /\ MaxNest \in Nat
  /\ Waits \subseteq TimeOuts
  /\ Calls \subseteq {"Delete", "ThreadDelete"}
  /\ IsFiniteSet(Events)   \* _K_eventBuffer, an array of LW_CFG_MAX_EVENTS

VARIABLES
  type,         \* EVENT_ucType
  free,         \* EVENT_ulCounter: nobody owns the mutex
  savedPrio,    \* EVENT_ulMaxCounter: the owner's priority when it became the owner
  own,          \* EVENT_pvTcbOwn
  nest,         \* EVENT_pvPtr
  delStep,      \* where an API_SemaphoreMDelete of the mutex is
  victim,       \* its ptcb: the owner whose safe mode it has to end
  pc,           \* where each thread is in API_SemaphoreMPend or API_SemaphoreMPost
  pevent,       \* the mutex of that call
  timeOut,      \* its ulTimeOut
  ret,          \* what its last API_SemaphoreMPend returned
  safeCounter,  \* TCB_ulThreadSafeCounter
  deleteMe,     \* TCB_ptcbDeleteMe: somebody waits for the safe mode to end
  delProc,      \* how far the deletion of the thread is (TCB_iDeleteProcStatus)
  held          \* history: how often the thread has to post each mutex, by what Pend returned

mutexVars == <<type, free, savedPrio, own, nest, delStep, victim>>
pendVars  == <<pc, pevent, timeOut, ret, held>>
safeVars  == <<safeCounter, deleteMe, delProc>>
vars == <<waitVars, mutexVars, pendVars, safeVars>>

Rets == {"NONE", "WAIT_TIMEOUT", "WAS_DELETED", "EINTR", "EVENT_TYPE", "EDEADLK"}
Labels == {"idle", "wait_again", "blocked", "awake", "timeout", "safe", "unsafe", "self_delete"}

TypeOK ==
  /\ EventWaitTypeOK
  /\ type        \in [Events -> {"MUTEX", "UNUSED"}]
  /\ free        \in [Events -> BOOLEAN]
  /\ savedPrio   \in [Events -> 0..PRIO_LOWEST]
  /\ own         \in [Events -> Threads \cup {NULL}]
  /\ nest        \in [Events -> 0..MaxNest]
  /\ delStep     \in [Events -> {"none", "waking", "unsafe", "delete_owner"}]
  /\ victim      \in [Events -> Threads \cup {NULL}]
  /\ pc          \in [Threads -> Labels]
  /\ pevent      \in [Threads -> Events]
  /\ timeOut     \in [Threads -> TimeOuts]
  /\ ret         \in [Threads -> Rets]
  /\ safeCounter \in [Threads -> Nat]
  /\ deleteMe    \in [Threads -> BOOLEAN]
  /\ delProc     \in [Threads -> {"none", "marked", "stopped", "gone"}]
  /\ held        \in [Threads -> [Events -> 0..(MaxNest + 1)]]

Init ==
  /\ EventWaitInit
  /\ type        = [e \in Events |-> "MUTEX"]
  /\ free        = [e \in Events |-> TRUE]
  /\ savedPrio   = [e \in Events |-> PRIO_LOWEST]
  /\ own         = [e \in Events |-> NULL]
  /\ nest        = [e \in Events |-> 0]
  /\ delStep     = [e \in Events |-> "none"]
  /\ victim      = [e \in Events |-> NULL]
  /\ pc          = [t \in Threads |-> "idle"]
  /\ pevent      \in [Threads -> Events]
  /\ timeOut     = [t \in Threads |-> "NOT_WAIT"]
  /\ ret         = [t \in Threads |-> "NONE"]
  /\ safeCounter = [t \in Threads |-> 0]
  /\ deleteMe    = [t \in Threads |-> FALSE]
  /\ delProc     = [t \in Threads |-> "none"]
  /\ held        = [t \in Threads |-> [e \in Events |-> 0]]

-----------------------------------------------------------------------------
(* Who can run.                                                            *)

\* API_SemaphoreMDelete keeps the kernel locked while it wakes the waiters.
KernelFree == \A e \in Events : delStep[e] # "waking"
CpuFree(t) == Runs(t) /\ delProc[t] # "gone" /\ (SMP_EN \/ KernelFree)
Enters(t)  == CpuFree(t) /\ KernelFree

DeleteSafe(e) == "DELETE_SAFE" \in Option[e]

-----------------------------------------------------------------------------
(* API_SemaphoreMPend.                                                     *)

Return(t, r) ==
  /\ pc'   = [pc EXCEPT ![t] = "idle"]
  /\ ret'  = [ret EXCEPT ![t] = r]
  /\ held' = [held EXCEPT ![t][pevent[t]] = @ + IF r = "NONE" THEN 1 ELSE 0]
  /\ UNCHANGED <<pevent, timeOut>>

Goto(t, label) ==
  /\ pc' = [pc EXCEPT ![t] = label]
  /\ UNCHANGED <<pevent, timeOut, ret, held>>

\* The thread has got the mutex; of a DELETE_SAFE one it goes on to the safe mode.
Got(t) == IF DeleteSafe(pevent[t]) THEN Goto(t, "safe") ELSE Return(t, "NONE")

\* Bound: recursion up to MaxNest.
PendCall(t, e, w) ==
  /\ CpuFree(t) /\ pc[t] = "idle"
  /\ held[t][e] <= MaxNest
  /\ pc'      = [pc EXCEPT ![t] = "wait_again"]
  /\ pevent'  = [pevent EXCEPT ![t] = e]
  /\ timeOut' = [timeOut EXCEPT ![t] = w]
  /\ UNCHANGED <<ret, held, waitVars, mutexVars, safeVars>>

PendTypeError(t, e) ==
  /\ type[e] = "UNUSED"
  /\ Return(t, "EVENT_TYPE")
  /\ UNCHANGED <<waitVars, mutexVars>>

PendTake(t, e) ==
  /\ type[e] = "MUTEX" /\ free[e]
  /\ free'      = [free EXCEPT ![e] = FALSE]
  /\ savedPrio' = [savedPrio EXCEPT ![e] = priority[t]]
  /\ own'       = [own EXCEPT ![e] = t]
  /\ Got(t)
  /\ UNCHANGED <<type, nest, delStep, victim, waitVars>>

\* The owner pends again: EDEADLK, or one level deeper.
Recursive(t, e) ==
  type[e] = "MUTEX" /\ ~free[e] /\ "NORMAL" \notin Option[e] /\ own[e] = t

PendRecursive(t, e) ==
  /\ Recursive(t, e)
  /\ \/ /\ "ERRORCHECK" \in Option[e]
        /\ Return(t, "EDEADLK")
        /\ UNCHANGED nest
     \/ /\ "ERRORCHECK" \notin Option[e]
        /\ nest' = [nest EXCEPT ![e] = @ + 1]
        /\ Return(t, "NONE")
  /\ UNCHANGED <<type, free, savedPrio, own, delStep, victim, waitVars>>

PendNotWait(t, e) ==
  /\ type[e] = "MUTEX" /\ ~free[e] /\ ~Recursive(t, e)
  /\ timeOut[t] = "NOT_WAIT"
  /\ Return(t, "WAIT_TIMEOUT")
  /\ UNCHANGED <<waitVars, mutexVars>>

\* Faulty variant: the owner gets the priority of a less urgent waiter as well.
Boosted_NoTest(t, e) ==
  IF "INHERIT_PRIORITY" \in Option[e] THEN [priority EXCEPT ![own[e]] = priority[t]]
  ELSE [priority EXCEPT ![own[e]] = Ceiling[e]]

\* The priorities after t, about to wait for e, has raised the owner's.
Boosted(t, e) ==
  IF ~ (priority[t] < priority[own[e]]) THEN priority
  ELSE IF "INHERIT_PRIORITY" \in Option[e] THEN [priority EXCEPT ![own[e]] = priority[t]]
  ELSE IF Ceiling[e] < priority[own[e]] THEN [priority EXCEPT ![own[e]] = Ceiling[e]]
  ELSE priority

PendBlock(t, e) ==
  /\ type[e] = "MUTEX" /\ ~free[e] /\ ~Recursive(t, e)
  /\ timeOut[t] # "NOT_WAIT"
  /\ EventWait(t, e, timeOut[t] = "TICKS", Boosted(t, e))
  /\ Goto(t, "blocked")
  /\ UNCHANGED mutexVars

PendEnter(t) ==
  /\ Enters(t) /\ pc[t] = "wait_again"
  /\ \/ PendTypeError(t, pevent[t])
     \/ PendTake(t, pevent[t])
     \/ PendRecursive(t, pevent[t])
     \/ PendNotWait(t, pevent[t])
     \/ PendBlock(t, pevent[t])
  /\ UNCHANGED safeVars

\* __KERNEL_EXIT returns: the wait is over, or a signal has broken it.
Interrupted(t) == schedRet[t] = "EINTR" /\ "SIGNAL_INTER" \in Option[pevent[t]]

PendResume(t) ==
  /\ CpuFree(t) /\ pc[t] = "blocked"
  /\ SchedReturn(t)
  /\ \/ schedRet[t] = "NONE" /\ Goto(t, "awake")
     \/ Interrupted(t) /\ Return(t, "EINTR")
     \/ /\ schedRet[t] # "NONE" /\ ~Interrupted(t)
        /\ \E w \in (IF timeOut[t] = "TICKS" THEN {"TICKS", "NOT_WAIT"} ELSE {timeOut[t]}) :
             timeOut' = [timeOut EXCEPT ![t] = w]
        /\ pc' = [pc EXCEPT ![t] = "wait_again"]
        /\ UNCHANGED <<pevent, ret, held>>
  /\ UNCHANGED <<mutexVars, safeVars>>

\* The time-out flag is read without a lock.
PendTestTimeOut(t) ==
  /\ CpuFree(t) /\ pc[t] = "awake"
  /\ \/ waitTimeOut[t] = "OUT" /\ Goto(t, "timeout")
     \/ waitTimeOut[t] # "OUT" /\ isEventDelete[t] = "EXIST" /\ Got(t)
     \/ waitTimeOut[t] # "OUT" /\ isEventDelete[t] = "DELETE" /\ Return(t, "WAS_DELETED")
  /\ UNCHANGED <<waitVars, mutexVars, safeVars>>

\* Faulty variant: a thread that is handed the mutex at the last moment does not
\* become safe (the error that the change log of SemaphoreMPend.c names).
PendTimeOut_NotSafe(t) ==
  /\ Enters(t) /\ pc[t] = "timeout"
  /\ \/ waitTimeOut[t] = "CLEAR" /\ Return(t, "NONE") /\ UNCHANGED waitVars
     \/ waitTimeOut[t] # "CLEAR" /\ EventTimeout(t, pevent[t]) /\ Return(t, "WAIT_TIMEOUT")
  /\ UNCHANGED <<mutexVars, safeVars>>

\* Faulty variant: the flag is not read again under the locks.
PendTimeOut_NoSecondTest(t) ==
  /\ Enters(t) /\ pc[t] = "timeout"
  /\ EventTimeout(t, pevent[t]) /\ Return(t, "WAIT_TIMEOUT")
  /\ UNCHANGED <<mutexVars, safeVars>>

\* Back under the locks: the mutex may have been handed over in between.
PendTimeOut(t) ==
  /\ Enters(t) /\ pc[t] = "timeout"
  /\ \/ waitTimeOut[t] = "CLEAR" /\ Got(t) /\ UNCHANGED waitVars
     \/ waitTimeOut[t] # "CLEAR" /\ EventTimeout(t, pevent[t]) /\ Return(t, "WAIT_TIMEOUT")
  /\ UNCHANGED <<mutexVars, safeVars>>

\* _ThreadSafeInternal, after the locks are gone.
PendSafe(t) ==
  /\ Enters(t) /\ pc[t] = "safe"
  /\ safeCounter' = [safeCounter EXCEPT ![t] = @ + 1]
  /\ Return(t, "NONE")
  /\ UNCHANGED <<deleteMe, delProc, waitVars, mutexVars>>

-----------------------------------------------------------------------------
(* API_SemaphoreMPost, by a thread that has the mutex: pends and posts come *)
(* in pairs.                                                                *)

Posted(t, e, label) ==
  /\ pc'     = [pc EXCEPT ![t] = label]
  /\ pevent' = [pevent EXCEPT ![t] = e]
  /\ held'   = [held EXCEPT ![t][e] = @ - 1]
  /\ UNCHANGED <<timeOut, ret>>

AfterPost(t, e) == Posted(t, e, IF DeleteSafe(e) THEN "unsafe" ELSE "idle")

\* ERROR_EVENT_TYPE, or ERROR_EVENT_NOT_OWN.
PostFails(t, e) ==
  /\ type[e] = "UNUSED" \/ own[e] # t
  /\ Posted(t, e, "idle")
  /\ UNCHANGED <<waitVars, mutexVars>>

PostNested(t, e) ==
  /\ type[e] = "MUTEX" /\ own[e] = t /\ nest[e] > 0
  /\ nest' = [nest EXCEPT ![e] = @ - 1]
  /\ Posted(t, e, "idle")
  /\ UNCHANGED <<type, free, savedPrio, own, delStep, victim, waitVars>>

\* The mutex goes to the first waiter, and the caller gets its priority back.
PostHandOver(t, e) ==
  /\ type[e] = "MUTEX" /\ own[e] = t /\ nest[e] = 0
  /\ HasWaiter(e)
  /\ EventReady(e, FALSE, [priority EXCEPT ![t] = savedPrio[e]])
  /\ savedPrio' = [savedPrio EXCEPT ![e] = priority'[NextWaiter(e)]]
  /\ own'       = [own EXCEPT ![e] = NextWaiter(e)]
  /\ AfterPost(t, e)
  /\ UNCHANGED <<type, free, nest, delStep, victim>>

\* Faulty variant: freed although a thread waits.
PostFree_WaitersIgnored(t, e) ==
  /\ type[e] = "MUTEX" /\ own[e] = t /\ nest[e] = 0
  /\ free'      = [free EXCEPT ![e] = TRUE]
  /\ savedPrio' = [savedPrio EXCEPT ![e] = PRIO_LOWEST]
  /\ own'       = [own EXCEPT ![e] = NULL]
  /\ AfterPost(t, e)
  /\ UNCHANGED <<type, nest, delStep, victim, waitVars>>

\* Nobody waits.  ERROR_EVENT_FULL cannot come up: a free mutex has no owner.
PostFree(t, e) ==
  /\ type[e] = "MUTEX" /\ own[e] = t /\ nest[e] = 0
  /\ ~HasWaiter(e)
  /\ free'      = [free EXCEPT ![e] = TRUE]
  /\ savedPrio' = [savedPrio EXCEPT ![e] = PRIO_LOWEST]
  /\ own'       = [own EXCEPT ![e] = NULL]
  /\ AfterPost(t, e)
  /\ UNCHANGED <<type, nest, delStep, victim, waitVars>>

Post(t) ==
  /\ Enters(t) /\ pc[t] = "idle"
  /\ \E e \in Events : /\ held[t][e] > 0
                       /\ \/ PostFails(t, e) \/ PostNested(t, e)
                          \/ PostHandOver(t, e) \/ PostFree(t, e)
  /\ UNCHANGED safeVars

\* Faulty variant: the counter is taken down without looking whether it is 0.
LeaveSafe_NoTest(t) ==
  /\ safeCounter' = [safeCounter EXCEPT ![t] = @ - 1]
  /\ deleteMe'    = [deleteMe EXCEPT ![t] = @ /\ safeCounter[t] # 1]

\* _ThreadUnsafeInternalEx up to its __KERNEL_EXIT_IRQ.
LeaveSafe(t) ==
  /\ safeCounter' = [safeCounter EXCEPT ![t] = IF @ > 0 THEN @ - 1 ELSE 0]
  /\ deleteMe'    = [deleteMe EXCEPT ![t] = @ /\ safeCounter[t] # 1]

\* A deletion that waited for the end of the safe mode goes on at once.
DeletionDue(t) == deleteMe[t] /\ ~deleteMe'[t]

PostUnsafe(t) ==
  /\ Enters(t) /\ pc[t] = "unsafe"
  /\ LeaveSafe(t)
  /\ Goto(t, IF DeletionDue(t) THEN "self_delete" ELSE "idle")
  /\ UNCHANGED <<delProc, waitVars, mutexVars>>

-----------------------------------------------------------------------------
(* API_SemaphoreMDelete.                                                   *)

DeleteBegin(e) ==
  /\ "Delete" \in Calls /\ KernelFree /\ type[e] = "MUTEX"
  /\ type'    = [type EXCEPT ![e] = "UNUSED"]
  /\ delStep' = [delStep EXCEPT ![e] = "waking"]
  /\ UNCHANGED <<free, savedPrio, own, nest, victim, waitVars, pendVars, safeVars>>

DeleteOne(e) ==
  /\ delStep[e] = "waking" /\ HasWaiter(e)
  /\ EventReady(e, TRUE, priority)
  /\ UNCHANGED <<mutexVars, pendVars, safeVars>>

\* The owner loses the mutex and gets its priority back.
DeleteEnd(e) ==
  /\ delStep[e] = "waking" /\ ~HasWaiter(e)
  /\ own'      = [own EXCEPT ![e] = NULL]
  /\ priority' = IF own[e] = NULL THEN priority ELSE [priority EXCEPT ![own[e]] = savedPrio[e]]
  /\ victim'   = [victim EXCEPT ![e] = IF DeleteSafe(e) THEN own[e] ELSE NULL]
  /\ delStep'  = [delStep EXCEPT ![e] = IF DeleteSafe(e) /\ own[e] # NULL THEN "unsafe" ELSE "none"]
  /\ UNCHANGED <<type, free, savedPrio, nest, status, waitTimeOut, isEventDelete, peventPtr,
                 ppringList, suspendNesting, schedRet, sigCtl, waitList, pendVars, safeVars>>

\* After the locks are gone: the owner leaves the safe mode ...
DeleteUnsafe(e) ==
  /\ KernelFree /\ delStep[e] = "unsafe"
  /\ LeaveSafe(victim[e])
  /\ IF DeletionDue(victim[e])
     THEN delStep' = [delStep EXCEPT ![e] = "delete_owner"] /\ UNCHANGED victim
     ELSE delStep' = [delStep EXCEPT ![e] = "none"] /\ victim' = [victim EXCEPT ![e] = NULL]
  /\ UNCHANGED <<type, free, savedPrio, own, nest, delProc, waitVars, pendVars>>

-----------------------------------------------------------------------------
(* API_ThreadDelete: called by a thread that is not modelled, by a thread  *)
(* that leaves the safe mode on itself, or at the end of a mutex deletion. *)

\* Faulty variant: the safe mode is not looked at.
ThreadDelete_Unconditional(t) ==
  /\ delProc[t] = "none"
  /\ delProc' = [delProc EXCEPT ![t] = "marked"]
  /\ UNCHANGED <<safeCounter, deleteMe>>

\* A thread in safe mode is not deleted: the caller waits until it leaves it.
\* Otherwise TCB_iDeleteProcStatus is set, and from then on other calls fail.
ThreadDelete(t) ==
  /\ delProc[t] = "none"
  /\ \/ /\ safeCounter[t] > 0
        /\ deleteMe' = [deleteMe EXCEPT ![t] = TRUE]
        /\ UNCHANGED delProc
     \/ /\ safeCounter[t] = 0
        /\ delProc' = [delProc EXCEPT ![t] = "marked"]
        /\ UNCHANGED deleteMe
  /\ UNCHANGED safeCounter

DeleteByOther(t) ==
  /\ "ThreadDelete" \in Calls /\ KernelFree
  /\ ThreadDelete(t)
  /\ UNCHANGED <<waitVars, mutexVars, pendVars>>

\* The thread sleeps until the exception thread has deleted it.
DeleteSelf(t) ==
  /\ Enters(t) /\ pc[t] = "self_delete"
  /\ ThreadDelete(t)
  /\ UNCHANGED <<waitVars, mutexVars, pendVars>>

\* ... and the deletion that waited for it goes on, if no other one has begun.
DeleteOwner(e) ==
  /\ KernelFree /\ delStep[e] = "delete_owner"
  /\ ThreadDelete(victim[e]) \/ (delProc[victim[e]] # "none" /\ UNCHANGED safeVars)
  /\ delStep' = [delStep EXCEPT ![e] = "none"]
  /\ victim'  = [victim EXCEPT ![e] = NULL]
  /\ UNCHANGED <<type, free, savedPrio, own, nest, waitVars, pendVars>>

\* _ThreadDeleteWaitDeath keeps the thread off the processors ...
DeleteStop(t) ==
  /\ KernelFree /\ delProc[t] = "marked"
  /\ delProc' = [delProc EXCEPT ![t] = "stopped"]
  /\ status'  = [status EXCEPT ![t] = @ \cup {"WDEATH"}]
  /\ UNCHANGED <<safeCounter, deleteMe, waitTimeOut, isEventDelete, peventPtr, ppringList,
                 priority, suspendNesting, schedRet, sigCtl, waitList,
                 mutexVars, pendVars>>

\* Faulty variant: no _EventUnlink.
DeleteGone_StaysQueued(t) ==
  /\ KernelFree /\ delProc[t] = "stopped"
  /\ delProc' = [delProc EXCEPT ![t] = "gone"]
  /\ status'  = [status EXCEPT ![t] = {}]
  /\ UNCHANGED <<safeCounter, deleteMe, waitTimeOut, isEventDelete, peventPtr, ppringList,
                 priority, suspendNesting, schedRet, sigCtl, waitList, mutexVars, pendVars>>

\* ... and __threadDelete takes it out of everything it waits on, and frees it.
\* The mutexes it owns keep their owner.
DeleteGone(t) ==
  /\ KernelFree /\ delProc[t] = "stopped"
  /\ delProc'  = [delProc EXCEPT ![t] = "gone"]
  /\ status'   = [status EXCEPT ![t] = {}]
  /\ waitList' = IF peventPtr[t] = NULL THEN waitList
                 ELSE [waitList EXCEPT ![peventPtr[t]][ppringList[t]] = Unlinked(@, t)]
  /\ peventPtr' = [peventPtr EXCEPT ![t] = NULL]
  /\ UNCHANGED <<safeCounter, deleteMe, waitTimeOut, isEventDelete, ppringList, priority,
                 suspendNesting, schedRet, sigCtl, mutexVars, pendVars>>

-----------------------------------------------------------------------------
(* The kernel around the mutex.                                            *)

Exists(t) == delProc[t] # "gone"

Tick(t) == ThreadTick(t) /\ UNCHANGED <<mutexVars, pendVars, safeVars>>

Signal(t) ==
  /\ KernelFree /\ Exists(t)
  /\ ThreadStop(t) \/ \E saType \in {"EINTR", "RESTART"} : Kill(t, saType)
  /\ UNCHANGED <<mutexVars, pendVars, safeVars>>

HandlerReturn(t) ==
  /\ KernelFree /\ Exists(t)
  /\ SigReturn(t)
  /\ UNCHANGED <<mutexVars, pendVars, safeVars>>

SetPriority(t) ==
  /\ KernelFree /\ Exists(t)
  /\ \E p \in Priorities : ThreadSetPriority(t, p)
  /\ UNCHANGED <<mutexVars, pendVars, safeVars>>

PendStep(t) ==
  \/ PendEnter(t) \/ PendResume(t) \/ PendTestTimeOut(t) \/ PendTimeOut(t) \/ PendSafe(t)
  \/ PostUnsafe(t) \/ DeleteSelf(t)

Deletes(e) == DeleteOne(e) \/ DeleteEnd(e) \/ DeleteUnsafe(e) \/ DeleteOwner(e)

Next ==
  \/ \E t \in Threads :
       \/ PendStep(t) \/ Post(t)
       \/ \E e \in Events, w \in Waits : PendCall(t, e, w)
       \/ DeleteByOther(t) \/ DeleteStop(t) \/ DeleteGone(t)
       \/ Tick(t) \/ Signal(t) \/ HandlerReturn(t) \/ SetPriority(t)
  \/ \E e \in Events : DeleteBegin(e) \/ Deletes(e)

Spec == Init /\ [][Next]_vars

\* Fairness.  The tick comes, a delete that has begun ends, threads that can run
\* again and again do, and a thread posts a mutex that it has.
Fairness ==
  /\ \A e \in Events : WF_vars(Deletes(e))
  /\ \A t \in Threads : WF_vars(Tick(t)) /\ SF_vars(PendStep(t)) /\ SF_vars(Post(t))

FairSpec == Spec /\ Fairness

-----------------------------------------------------------------------------
(* Properties.                                                             *)

\* The thread was handed the mutex and is on its way out of Pend.
Granted(t, e) ==
  /\ pevent[t] = e
  /\ \/ pc[t] = "safe"
     \/ pc[t] \in {"blocked", "awake", "timeout"} /\ peventPtr[t] = NULL

\* Mutual exclusion: whoever has pended successfully more often than it has posted
\* is the owner, EVENT_pvPtr counts the recursion, and an owner that has not yet
\* returned from Pend is about to.  Time-outs that meet a post, and hand-overs to
\* threads that are being deleted, keep it so.
Ownership ==
  \A e \in Events, t \in Threads : type[e] = "MUTEX" =>
    /\ held[t][e] > 0 => own[e] = t
    /\ own[e] = t => held[t][e] = nest[e] + 1 \/ (held[t][e] = 0 /\ nest[e] = 0 /\ Granted(t, e))

\* A mutex is free exactly if nobody owns it, and nobody waits for a free one.
FreeMutexUnwanted ==
  \A e \in Events : type[e] = "MUTEX" =>
    /\ free[e] <=> own[e] = NULL
    /\ free[e] => ~HasWaiter(e)

\* The queues and the TCBs tell one story, also for threads that are deleted.
QueueConsistent ==
  /\ ListsDistinct /\ ListsMatch
  /\ \A t \in Threads : delProc[t] = "gone" => peventPtr[t] = NULL

\* Inheritance, ceiling and restoration never make a thread less urgent than the
\* application has made it: what Pend saves is always what Post gives back.
SavedIsOwners ==
  \A e \in Events : type[e] = "MUTEX" /\ own[e] # NULL => priority[own[e]] <= savedPrio[e]

\* A thread is in safe mode once for each DELETE_SAFE mutex it has.
SafeCountExact ==
  \A t \in Threads :
    safeCounter[t] = Cardinality({e \in Events : DeleteSafe(e) /\ held[t][e] > 0})
                     + IF pc[t] = "unsafe" THEN 1 ELSE 0

\* No deletion begins on a thread that has returned from Pend with a DELETE_SAFE
\* mutex and has not posted it.
DeletionWaits ==
  [][\A t \in Threads : delProc[t] = "none" /\ delProc'[t] = "marked" =>
       \A e \in Events : DeleteSafe(e) => held[t][e] = 0]_vars

\* A deletion ends only the owner's posts, so what waits behind it may wait for ever.
SomeDeletion == \E s \in Threads : delProc[s] # "none" \/ pc[s] = "self_delete"

\* In a FIFO queue a thread that waits without a time-out gets the mutex, or learns
\* that it has been deleted.
WaiterGetsMutex ==
  \A t \in Threads : (pc[t] # "idle" /\ timeOut[t] = "INFINITE") ~> (pc[t] = "idle" \/ SomeDeletion)

\* A timed Pend returns.
TimedPendReturns ==
  \A t \in Threads : (pc[t] # "idle" /\ timeOut[t] # "INFINITE") ~> (pc[t] = "idle" \/ SomeDeletion)

-----------------------------------------------------------------------------
(* What comments and headers of the source say, and the code does not do.  *)

\* "return the priority": a thread that has posted everything it had has the
\* priority it had before.
PriorityReturned ==
  [][\A t \in Threads, e \in Events :
       own[e] = t /\ own'[e] # t /\ type'[e] = "MUTEX" => priority'[t] = savedPrio[e]]_vars
=============================================================================
