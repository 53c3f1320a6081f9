------------------------------ MODULE EventWait ------------------------------
(***************************************************************************)
(* How a SylixOS thread waits on a kernel event object and how it is woken *)
(* up: the wait fields of the thread control block (LW_CLASS_TCB), the     *)
(* wait queue of an event (LW_CLASS_EVENT), and the five kernel paths that *)
(* touch both -- queueing, waking, time-out, signal, suspension.  The      *)
(* semaphore, mutex and message-queue modules are built on it.             *)
(*                                                                         *)
(* A step is what the code does between two points at which another        *)
(* processor or an interrupt can see the data: the kernel lock _K_slKernel *)
(* makes each operator below one piece.  Time is abstract: a thread that   *)
(* is on the wake-up line may time out at any tick.                        *)
(***************************************************************************)
EXTENDS Naturals, Sequences, SequencesExt

CONSTANTS
  Threads,         \* the threads that may wait (TCBs)
  Events,          \* the event objects (entries of _K_eventBuffer)
  NULL,            \* LW_NULL
  Priorities,      \* thread priorities, 0 is the most urgent
  PerBucket,       \* priorities that share one wait list (__EACH_WAIT_QUEUE_PRIORITY + 1)
  Option,          \* EVENT_ulOption of each event
  MaxSuspend,      \* bound on TCB_ulSuspendNesting
  \* compile-time switches of the kernel
  SMP_EN,          \* LW_CFG_SMP_EN
  SIGNAL_EN,       \* LW_CFG_SIGNAL_EN
  SUSPEND_EN,      \* LW_CFG_THREAD_SUSPEND_EN
  CHANGE_PRIO_EN   \* LW_CFG_THREAD_CHANGE_PRIO_EN

\* The LW_OPTION_* bits an event is created with; only a mutex has the last four.
Options == {"WAIT_PRIORITY", "SIGNAL_INTER", "DELETE_SAFE", "INHERIT_PRIORITY",
            "NORMAL", "ERRORCHECK"}

ASSUME EventWaitAssumption ==
  /\ NULL \notin Events
  /\ Priorities \subseteq Nat
  /\ Priorities # {}
  /\ PerBucket \in Nat \ {0}
  /\ Option \in [Events -> SUBSET Options]
  /\ MaxSuspend \in Nat
  /\ {SMP_EN, SIGNAL_EN, SUSPEND_EN, CHANGE_PRIO_EN} \subseteq BOOLEAN

VARIABLES
  status,          \* TCB_usStatus: the set of bits that keep the thread off the ready ring
  waitTimeOut,     \* TCB_ucWaitTimeOut
  isEventDelete,   \* TCB_ucIsEventDelete
  peventPtr,       \* TCB_peventPtr: the event whose queue the thread is on
  ppringList,      \* TCB_ppringPriorityQueue: the wait list that holds it
  priority,        \* TCB_ucPriority
  suspendNesting,  \* TCB_ulSuspendNesting
  schedRet,        \* TCB_iSchedRet: what the scheduler hands to the next kernel exit
  sigCtl,          \* SIGCTLMSG_iSchedRet of the signal frame on the thread's stack
  waitList         \* EVENT_wqWaitList: one sequence of threads per priority bucket

tcbVars == <<status, waitTimeOut, isEventDelete, peventPtr, ppringList,
             priority, suspendNesting, schedRet, sigCtl>>
waitVars == <<tcbVars, waitList>>

StatusBits == {"SEM", "DELAY", "SUSPEND", "STOP", "WDEATH"}
SchedRets  == {"NONE", "EINTR", "RESTART"}

\* _EVENT_FIFO_Q_PTR takes the one FIFO list, _EVENT_INDEX_Q_PRIORITY a bucket.
Buckets == {0} \cup {p \div PerBucket : p \in Priorities}
BucketOf(e, p) == IF "WAIT_PRIORITY" \in Option[e] THEN p \div PerBucket ELSE 0

EventWaitTypeOK ==
  /\ status         \in [Threads -> SUBSET StatusBits]
  /\ waitTimeOut    \in [Threads -> {"CLEAR", "OUT"}]
  /\ isEventDelete  \in [Threads -> {"EXIST", "DELETE"}]
  /\ peventPtr      \in [Threads -> Events \cup {NULL}]
  /\ ppringList     \in [Threads -> Buckets]
  /\ priority       \in [Threads -> Priorities]
  /\ suspendNesting \in [Threads -> Nat]
  /\ schedRet       \in [Threads -> SchedRets]
  /\ sigCtl         \in [Threads -> SchedRets]
  /\ waitList       \in [Events -> [Buckets -> Seq(Threads)]]

EventWaitInit ==
  /\ status         = [t \in Threads |-> {}]
  /\ waitTimeOut    = [t \in Threads |-> "CLEAR"]
  /\ isEventDelete  = [t \in Threads |-> "EXIST"]
  /\ peventPtr      = [t \in Threads |-> NULL]
  /\ ppringList     = [t \in Threads |-> 0]
  /\ priority       \in [Threads -> Priorities]
  /\ suspendNesting = [t \in Threads |-> 0]
  /\ schedRet       = [t \in Threads |-> "NONE"]
  /\ sigCtl         = [t \in Threads |-> "NONE"]
  /\ waitList       = [e \in Events |-> [b \in Buckets |-> << >>]]

-----------------------------------------------------------------------------
(* Reading the state.                                                      *)

\* __LW_THREAD_IS_READY
IsReady(t) == status[t] = {}

\* The thread executes its own code: it is ready and runs no signal handler.
Runs(t) == IsReady(t) /\ sigCtl[t] = "NONE"

\* _EventWaitNum is not 0.
HasWaiter(e) == \E b \in Buckets : waitList[e][b] # << >>

\* _EVENT_DEL_Q_PRIORITY / _EVENT_DEL_Q_FIFO: the list the next waiter comes from.
NextBucket(e) ==
  CHOOSE b \in Buckets : /\ waitList[e][b] # << >>
                         /\ \A c \in Buckets : c < b => waitList[e][c] = << >>

NextWaiter(e) == Head(waitList[e][NextBucket(e)])

\* _List_Ring_Del
Unlinked(s, t) == IF \E i \in 1..Len(s) : s[i] = t
                  THEN RemoveAt(s, CHOOSE i \in 1..Len(s) : s[i] = t)
                  ELSE s

\* Faulty variant: the newest waiter goes first.
Linked_Front(e, s, t, prio) == Cons(t, s)

\* _AddTCBToEventFifo appends.  _AddTCBToEventPriority puts a thread more urgent
\* than the head in front, and every other one at the end: its loop compares
\* with the head of the list only.  prio is TCB_ucPriority of every thread.
Linked(e, s, t, prio) ==
  IF "WAIT_PRIORITY" \in Option[e] /\ s # << >> /\ prio[t] < prio[Head(s)]
  THEN Cons(t, s)
  ELSE Append(s, t)

-----------------------------------------------------------------------------
(* The pieces of a kernel section that event operations call.              *)

\* Faulty variant: a timed wait is not put on the wake-up line.
EventWait_NoWakeupLine(t, e, timed, prio) ==
  LET b == BucketOf(e, prio[t]) IN
  /\ peventPtr'     = [peventPtr EXCEPT ![t] = e]
  /\ ppringList'    = [ppringList EXCEPT ![t] = b]
  /\ waitList'      = [waitList EXCEPT ![e][b] = Linked(e, @, t, prio)]
  /\ isEventDelete' = [isEventDelete EXCEPT ![t] = "EXIST"]
  /\ waitTimeOut'   = [waitTimeOut EXCEPT ![t] = "CLEAR"]
  /\ status'        = [status EXCEPT ![t] = @ \cup {"SEM"}]
  /\ priority' = prio
  /\ UNCHANGED <<suspendNesting, schedRet, sigCtl>>

\* _EventWaitFifo / _EventWaitPriority, with the fields the caller sets just
\* before: t is queued on e, and on the wake-up line if the wait is timed.  prio
\* holds the priorities from now on: a mutex has just raised its owner's.
EventWait(t, e, timed, prio) ==
  LET b == BucketOf(e, prio[t]) IN
  /\ peventPtr'     = [peventPtr EXCEPT ![t] = e]
  /\ ppringList'    = [ppringList EXCEPT ![t] = b]
  /\ waitList'      = [waitList EXCEPT ![e][b] = Linked(e, @, t, prio)]
  /\ isEventDelete' = [isEventDelete EXCEPT ![t] = "EXIST"]
  /\ waitTimeOut'   = [waitTimeOut EXCEPT ![t] = "CLEAR"]
  /\ status'        = [status EXCEPT ![t] = @ \cup {"SEM"} \cup
                                            IF timed THEN {"DELAY"} ELSE {}]
  /\ priority' = prio
  /\ UNCHANGED <<suspendNesting, schedRet, sigCtl>>

\* Faulty variant: the wait bit is taken for the time-out bit.
EventReady_KeepWaitBit(e, del, prio) ==
  LET t == NextWaiter(e) IN
  /\ waitList'      = [waitList EXCEPT ![e][NextBucket(e)] = Tail(@)]
  /\ peventPtr'     = [peventPtr EXCEPT ![t] = NULL]
  /\ isEventDelete' = [isEventDelete EXCEPT ![t] = IF del THEN "DELETE" ELSE @]
  /\ waitTimeOut'   = [waitTimeOut EXCEPT ![t] = "CLEAR"]
  /\ status'        = [status EXCEPT ![t] = @ \ {"DELAY"}]
  /\ priority'      = prio
  /\ UNCHANGED <<ppringList, suspendNesting, schedRet, sigCtl>>

\* _EventReady*LowLevel, then _EventReadyHighLevel: the first waiter of e
\* leaves the queue and the wake-up line.  If it had timed out only the
\* time-out flag is cleared, else its wait bit.  del is LW_EVENT_DELETE or not;
\* prio holds the priorities from now on.
EventReady(e, del, prio) ==
  LET t == NextWaiter(e) IN
  /\ waitList'      = [waitList EXCEPT ![e][NextBucket(e)] = Tail(@)]
  /\ peventPtr'     = [peventPtr EXCEPT ![t] = NULL]
  /\ isEventDelete' = [isEventDelete EXCEPT ![t] = IF del THEN "DELETE" ELSE @]
  /\ waitTimeOut'   = [waitTimeOut EXCEPT ![t] = "CLEAR"]
  /\ status'        = [status EXCEPT ![t] = @ \ IF waitTimeOut[t] = "OUT"
                                                THEN {"DELAY"}
                                                ELSE {"DELAY", "SEM"}]
  /\ priority'      = prio
  /\ UNCHANGED <<ppringList, suspendNesting, schedRet, sigCtl>>

\* Faulty variant: the node stays in the ring.
EventTimeout_StaysQueued(t, e) ==
  /\ peventPtr'   = [peventPtr EXCEPT ![t] = NULL]
  /\ waitTimeOut' = [waitTimeOut EXCEPT ![t] = "CLEAR"]
  /\ UNCHANGED <<status, isEventDelete, ppringList, priority, suspendNesting,
                 schedRet, sigCtl, waitList>>

\* _EventTimeoutFifo / _EventTimeoutPriority: a thread that timed out takes
\* itself off the queue.
EventTimeout(t, e) ==
  /\ waitList'    = [waitList EXCEPT ![e][ppringList[t]] = Unlinked(@, t)]
  /\ peventPtr'   = [peventPtr EXCEPT ![t] = NULL]
  /\ waitTimeOut' = [waitTimeOut EXCEPT ![t] = "CLEAR"]
  /\ UNCHANGED <<status, isEventDelete, ppringList, priority, suspendNesting,
                 schedRet, sigCtl>>

\* The scheduler returns into t's kernel exit and hands over TCB_iSchedRet.
SchedReturn(t) ==
  /\ schedRet' = [schedRet EXCEPT ![t] = "NONE"]
  /\ UNCHANGED <<status, waitTimeOut, isEventDelete, peventPtr, ppringList,
                 priority, suspendNesting, sigCtl, waitList>>

-----------------------------------------------------------------------------
(* What the rest of the kernel does to a waiting thread.  These sections   *)
(* take the kernel lock only, never the event's own spin lock.             *)

\* The tick handler finds t expired (also API_ThreadWakeup): t leaves the
\* wake-up line and is marked as timed out, but stays in the event's queue.
ThreadTick(t) ==
  /\ "DELAY" \in status[t]
  /\ status'      = [status EXCEPT ![t] = @ \ {"DELAY", "SEM"}]
  /\ waitTimeOut' = [waitTimeOut EXCEPT ![t] = IF "SEM" \in status[t]
                                               THEN "OUT" ELSE "CLEAR"]
  /\ UNCHANGED <<isEventDelete, peventPtr, ppringList, priority, suspendNesting,
                 schedRet, sigCtl, waitList>>

\* kill() on a multiprocessor first stops the target (API_ThreadStop).  One
\* sender at a time.
ThreadStop(t) ==
  /\ SIGNAL_EN /\ SMP_EN
  /\ "STOP" \notin status[t]
  /\ status' = [status EXCEPT ![t] = @ \cup {"STOP"}]
  /\ UNCHANGED <<waitTimeOut, isEventDelete, peventPtr, ppringList, priority,
                 suspendNesting, schedRet, sigCtl, waitList>>

\* Faulty variant: no _EventUnlink.
SigBreakWait_StayQueued(t, saType) ==
  /\ "SEM" \in status[t]
  /\ status'      = [status EXCEPT ![t] = @ \ {"DELAY", "SEM", "STOP"}]
  /\ waitTimeOut' = [waitTimeOut EXCEPT ![t] = "CLEAR"]
  /\ sigCtl'      = [sigCtl EXCEPT ![t] = saType]
  /\ UNCHANGED <<isEventDelete, peventPtr, ppringList, priority, suspendNesting,
                 schedRet, waitList>>

\* Faulty variant: the list is the one of the present priority.
SigBreakWait_ByPriority(t, saType) ==
  LET b == BucketOf(peventPtr[t], priority[t]) IN
  /\ "SEM" \in status[t]
  /\ status'      = [status EXCEPT ![t] = @ \ {"DELAY", "SEM", "STOP"}]
  /\ waitTimeOut' = [waitTimeOut EXCEPT ![t] = "CLEAR"]
  /\ waitList'    = [waitList EXCEPT ![peventPtr[t]][b] = Unlinked(@, t)]
  /\ peventPtr'   = [peventPtr EXCEPT ![t] = NULL]
  /\ sigCtl'      = [sigCtl EXCEPT ![t] = saType]
  /\ UNCHANGED <<isEventDelete, ppringList, priority, suspendNesting, schedRet>>

\* __sigMakeReady on a thread that waits: it leaves the wake-up line and the
\* queue, and the signal frame remembers what the wait has to return.
SigBreakWait(t, saType) ==
  /\ "SEM" \in status[t]
  /\ status'      = [status EXCEPT ![t] = @ \ {"DELAY", "SEM", "STOP"}]
  /\ waitTimeOut' = [waitTimeOut EXCEPT ![t] = "CLEAR"]
  /\ waitList'    = [waitList EXCEPT ![peventPtr[t]][ppringList[t]] = Unlinked(@, t)]
  /\ peventPtr'   = [peventPtr EXCEPT ![t] = NULL]
  /\ sigCtl'      = [sigCtl EXCEPT ![t] = saType]
  /\ UNCHANGED <<isEventDelete, ppringList, priority, suspendNesting, schedRet>>

\* __sigMakeReady on a thread that does not wait: a ready one is left alone,
\* one kept off the ready ring by another bit has its time-out flag cleared.
SigNoWait(t) ==
  /\ "SEM" \notin status[t]
  /\ waitTimeOut' = [waitTimeOut EXCEPT ![t] = IF IsReady(t) THEN @ ELSE "CLEAR"]
  /\ status'      = [status EXCEPT ![t] = @ \ {"STOP"}]
  /\ UNCHANGED <<isEventDelete, peventPtr, ppringList, priority, suspendNesting,
                 schedRet, sigCtl, waitList>>

\* kill() / sigqueue() with a caught signal: _doSignal, then _ThreadContinue
\* on a multiprocessor.  saType is LW_SIGNAL_RESTART for SA_RESTART handlers.
\* Bound: no second signal while a handler that broke a wait is running.
Kill(t, saType) ==
  /\ SIGNAL_EN
  /\ SMP_EN => "STOP" \in status[t]
  /\ sigCtl[t] = "NONE"
  /\ SigBreakWait(t, saType) \/ SigNoWait(t)

\* __sigReturn: the handler is done.  It stores the return value for the
\* scheduler (_SchedSetRet), and then leaves the kernel: that exit takes the
\* value away again when it switches threads, and always on a uniprocessor
\* build, where _Schedule has no early return.
SigReturn(t) ==
  /\ IsReady(t) /\ sigCtl[t] # "NONE"
  /\ \E consumed \in (IF SMP_EN THEN BOOLEAN ELSE {TRUE}) :
       schedRet' = [schedRet EXCEPT ![t] = IF consumed THEN "NONE"
                                           ELSE IF @ = "NONE" THEN sigCtl[t] ELSE @]
  /\ sigCtl' = [sigCtl EXCEPT ![t] = "NONE"]
  /\ UNCHANGED <<status, waitTimeOut, isEventDelete, peventPtr, ppringList,
                 priority, suspendNesting, waitList>>

\* API_ThreadSuspend, as the target sees it (_ThreadStatusChange).
ThreadSuspend(t) ==
  /\ SUSPEND_EN
  /\ suspendNesting[t] < MaxSuspend
  /\ suspendNesting' = [suspendNesting EXCEPT ![t] = @ + 1]
  /\ status' = [status EXCEPT ![t] = @ \cup {"SUSPEND"}]
  /\ UNCHANGED <<waitTimeOut, isEventDelete, peventPtr, ppringList, priority,
                 schedRet, sigCtl, waitList>>

\* API_ThreadResume undoes one suspension.
ThreadResume(t) ==
  /\ SUSPEND_EN
  /\ suspendNesting[t] > 0
  /\ suspendNesting' = [suspendNesting EXCEPT ![t] = @ - 1]
  /\ status' = [status EXCEPT ![t] = IF suspendNesting[t] = 1 THEN @ \ {"SUSPEND"} ELSE @]
  /\ UNCHANGED <<waitTimeOut, isEventDelete, peventPtr, ppringList, priority,
                 schedRet, sigCtl, waitList>>

\* API_ThreadForceResume undoes all of them.
ThreadForceResume(t) ==
  /\ SUSPEND_EN
  /\ suspendNesting[t] > 0
  /\ suspendNesting' = [suspendNesting EXCEPT ![t] = 0]
  /\ status' = [status EXCEPT ![t] = @ \ {"SUSPEND"}]
  /\ UNCHANGED <<waitTimeOut, isEventDelete, peventPtr, ppringList, priority,
                 schedRet, sigCtl, waitList>>

\* API_ThreadSetPriority: the thread keeps its place in the wait list.
ThreadSetPriority(t, p) ==
  /\ CHANGE_PRIO_EN
  /\ p # priority[t]
  /\ priority' = [priority EXCEPT ![t] = p]
  /\ UNCHANGED <<status, waitTimeOut, isEventDelete, peventPtr, ppringList,
                 suspendNesting, schedRet, sigCtl, waitList>>

-----------------------------------------------------------------------------
\* A thread is in the list that its TCB names and in no other one, and only once.
ListsDistinct == \A e \in Events, b \in Buckets : IsInjective(waitList[e][b])

ListsMatch ==
  \A t \in Threads, e \in Events, b \in Buckets :
    Contains(waitList[e][b], t) <=> peventPtr[t] = e /\ ppringList[t] = b
=============================================================================
