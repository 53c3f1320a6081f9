------------------------------- MODULE MsgQueue -------------------------------
(***************************************************************************)
(* The message queue (kernel/interface/MsgQueue*.c, core/_MsgQueueLib.c)   *)
(* over the event wait protocol.  A message goes from the sender into a    *)
(* waiting receiver's buffer, or into a ring of slots when nobody waits.   *)
(* Threads execute API_MsgQueueReceive(Ex) step by step, split where the   *)
(* code releases its locks; sends, broadcasts, flush, clear, delete and    *)
(* try-receive come from anywhere, interrupt handlers included.            *)
(***************************************************************************)
EXTENDS EventWait, FiniteSets

CONSTANTS
  Messages,     \* the messages that are sent
  Size,         \* stMsgLen of each
  MaxCounter,   \* EVENT_ulMaxCounter: the slots of the ring
  Receives,     \* what receivers ask for: [max |-> stMaxByteSize, noError |-> LW_OPTION_NOERROR]
  Calls,        \* the non-blocking calls the application makes
  MaxRetry      \* bound on senders that are on their way back to __re_send

ASSUME MsgQueueAssumption ==
  /\ NULL \notin Messages
  /\ NULL \notin [queue : Events, max : Nat, noError : BOOLEAN]
  /\ Size \in [Messages -> Nat \ {0}]
  /\ MaxCounter \in Nat \ {0}
  /\ Receives \subseteq [max : Nat \ {0}, noError : BOOLEAN]
  /\ Calls \subseteq {"Send", "Urgent", "Broadcast", "TryReceive", "Flush", "Clear", "Delete"}
  /\ MaxRetry \in Nat \ {0}
  \* A kill() on a multiprocessor breaks the wait protocol: see SemaphoreC.
  /\ ~(SMP_EN /\ SIGNAL_EN)

VARIABLES
  type,        \* EVENT_ucType
  counter,     \* EVENT_ulCounter
  slots,       \* the ring, MSGQUEUE_pucBufferLowAddr .. HighAddr
  inputPtr,    \* MSGQUEUE_pucInputPtr, as a slot number
  outputPtr,   \* MSGQUEUE_pucOutputPtr
  op,          \* the call that holds the event's spin lock, EVENT_slLock
  cargo,       \* the message that this call sends
  retry,       \* the sends that have to be made again
  pc,          \* where each thread is in API_MsgQueueReceive
  pevent,      \* its queue
  timeOut,     \* its ulTimeOut
  want,        \* its stMaxByteSize and ulOption; the latter is also TCB_ulRecvOption
  maxByteSize, \* TCB_stMaxByteSize
  msgLen,      \* *TCB_pstMsgByteSize
  buffer,      \* what TCB_pvMsgQueueMessage holds
  result,      \* what its last Receive returned
  grant        \* history: why another party ended the thread's wait

queueVars == <<type, counter, slots, inputPtr, outputPtr>>
callVars  == <<op, cargo, retry>>
recvVars  == <<pc, pevent, timeOut, want, maxByteSize, msgLen, buffer, result, grant>>
vars == <<waitVars, queueVars, callVars, recvVars>>

\* A thread that is not in a Receive wants nothing, and has no result while it is.
Nothing  == [max |-> 0, noError |-> FALSE]
NoResult == [code |-> "PENDING", msg |-> NULL, len |-> 0]

TimeOuts == {"NOT_WAIT", "TICKS", "INFINITE"}
Codes  == {"NONE", "WAIT_TIMEOUT", "WAS_DELETED", "EINTR", "TYPE", "E2BIG"}
Grants == {"none", "message", "toobig", "flush", "delete", "signal"}
Sends  == [msg : Messages, urgent : BOOLEAN]
Sizes  == {0} \cup {Size[m] : m \in Messages} \cup {r.max : r \in Receives}
\* The calls that wake receivers in a loop, with the kernel locked.
Loops  == {"Broadcast", "Flush", "Delete"}
Slot   == 0..(MaxCounter - 1)

TypeOK ==
  /\ EventWaitTypeOK
  /\ type      \in [Events -> {"MSGQUEUE", "UNUSED"}]
  /\ counter   \in [Events -> 0..MaxCounter]
  /\ slots     \in [Events -> [Slot -> Messages \cup {NULL}]]
  /\ inputPtr  \in [Events -> Slot]
  /\ outputPtr \in [Events -> Slot]
  /\ op        \in [Events -> Loops \cup {"none", "Send"}]
  /\ cargo     \in [Events -> Sends \cup {NULL}]
  /\ retry     \in [Events -> Seq(Sends)]
  /\ pc        \in [Threads -> {"idle", "wait_again", "blocked", "awake", "timeout"}]
  /\ pevent    \in [Threads -> Events]
  /\ timeOut   \in [Threads -> TimeOuts]
  /\ want      \in [Threads -> Receives \cup {Nothing}]
  /\ maxByteSize \in [Threads -> Sizes]
  /\ msgLen    \in [Threads -> Sizes]
  /\ buffer    \in [Threads -> Messages \cup {NULL}]
  /\ result    \in [Threads -> [code : Codes \cup {"PENDING"}, msg : Messages \cup {NULL}, len : Sizes]]
  /\ grant     \in [Threads -> Grants]

Init ==
  /\ EventWaitInit
  /\ type      = [e \in Events |-> "MSGQUEUE"]
  /\ counter   = [e \in Events |-> 0]
  /\ slots     = [e \in Events |-> [i \in Slot |-> NULL]]
  /\ inputPtr  = [e \in Events |-> 0]
  /\ outputPtr = [e \in Events |-> 0]
  /\ op        = [e \in Events |-> "none"]
  /\ cargo     = [e \in Events |-> NULL]
  /\ retry     = [e \in Events |-> << >>]
  /\ pc        = [t \in Threads |-> "idle"]
  /\ pevent    \in [Threads -> Events]
  /\ timeOut   = [t \in Threads |-> "NOT_WAIT"]
  /\ want      = [t \in Threads |-> Nothing]
  /\ maxByteSize = [t \in Threads |-> 0]
  /\ msgLen    = [t \in Threads |-> 0]
  /\ buffer    = [t \in Threads |-> NULL]
  /\ result    = [t \in Threads |-> [code |-> "NONE", msg |-> NULL, len |-> 0]]
  /\ grant     = [t \in Threads |-> "none"]

-----------------------------------------------------------------------------
(* Who can run: as in SemaphoreC.  A uniprocessor build disables           *)
(* interrupts between the two halves of a send.                            *)

InterruptsOn == SMP_EN \/ \A e \in Events : op[e] # "Send"
KernelFree   == InterruptsOn /\ \A e \in Events : op[e] \notin Loops
CpuFree(t)   == Runs(t) /\ (SMP_EN \/ \A e \in Events : op[e] = "none")
CanEnter(e)  == KernelFree /\ op[e] = "none"

\* The event's spin lock can be taken: it is free, or an interrupt handler takes
\* it again on the processor that holds it, inside one of the loops.
CanLock(e) == type[e] = "MSGQUEUE" /\ InterruptsOn /\
              (op[e] \in Loops \/ (op[e] = "none" /\ (SMP_EN \/ KernelFree)))

-----------------------------------------------------------------------------
(* The ring, _MsgQueueLib.c.                                               *)

Smaller(a, b) == IF a < b THEN a ELSE b

\* A pointer that reaches the end of the buffer goes back to its start.
After(i)  == (i + 1) % MaxCounter
Before(i) == IF i = 0 THEN MaxCounter - 1 ELSE i - 1

HeadMsg(e) == slots[e][outputPtr[e]]

\* _MsgQueueGetMsg.  NULL stands for the old bytes of a slot that is free.
GetMsg(e) ==
  /\ counter'   = [counter EXCEPT ![e] = @ - 1]
  /\ slots'     = [slots EXCEPT ![e][outputPtr[e]] = NULL]
  /\ outputPtr' = [outputPtr EXCEPT ![e] = After(@)]
  /\ UNCHANGED <<type, inputPtr>>

\* _MsgQueueSendMsg
SendMsg(e, m) ==
  /\ counter'  = [counter EXCEPT ![e] = @ + 1]
  /\ slots'    = [slots EXCEPT ![e][inputPtr[e]] = m]
  /\ inputPtr' = [inputPtr EXCEPT ![e] = After(@)]
  /\ UNCHANGED <<type, outputPtr>>

\* Faulty variant: the pointer is moved after the message is written.
SendMsgUrgent_WriteFirst(e, m) ==
  /\ counter'   = [counter EXCEPT ![e] = @ + 1]
  /\ slots'     = [slots EXCEPT ![e][outputPtr[e]] = m]
  /\ outputPtr' = [outputPtr EXCEPT ![e] = Before(@)]
  /\ UNCHANGED <<type, inputPtr>>

\* _MsgQueueSendMsgUrgent
SendMsgUrgent(e, m) ==
  /\ counter'   = [counter EXCEPT ![e] = @ + 1]
  /\ slots'     = [slots EXCEPT ![e][Before(outputPtr[e])] = m]
  /\ outputPtr' = [outputPtr EXCEPT ![e] = Before(@)]
  /\ UNCHANGED <<type, inputPtr>>

-----------------------------------------------------------------------------
(* API_MsgQueueReceive and API_MsgQueueReceiveEx; the first is the second  *)
(* with LW_OPTION_NOERROR.                                                 *)

\* The call is over, and what belongs to it gone: its arguments, the buffer, and
\* the TCB's receive fields, which are set anew before they are read again.
Return(t, r, m, n) ==
  /\ pc'     = [pc EXCEPT ![t] = "idle"]
  /\ result' = [result EXCEPT ![t] = [code |-> r, msg |-> m, len |-> n]]
  /\ grant'  = [grant EXCEPT ![t] = "none"]
  /\ buffer' = [buffer EXCEPT ![t] = NULL]
  /\ msgLen' = [msgLen EXCEPT ![t] = 0]
  /\ timeOut' = [timeOut EXCEPT ![t] = "NOT_WAIT"]
  /\ want'   = [want EXCEPT ![t] = Nothing]
  /\ maxByteSize' = [maxByteSize EXCEPT ![t] = 0]
  /\ UNCHANGED pevent

Fail(t, r) == Return(t, r, NULL, 0)

Goto(t, label) ==
  /\ pc' = [pc EXCEPT ![t] = label]
  /\ UNCHANGED <<pevent, timeOut, want, maxByteSize, msgLen, buffer, result, grant>>

\* A call.
ReceiveCall(t, e, w, r) ==
  /\ CpuFree(t) /\ pc[t] = "idle"
  /\ peventPtr[t] = NULL
  /\ pc'      = [pc EXCEPT ![t] = "wait_again"]
  /\ pevent'  = [pevent EXCEPT ![t] = e]
  /\ timeOut' = [timeOut EXCEPT ![t] = w]
  /\ want'    = [want EXCEPT ![t] = r]
  /\ result'  = [result EXCEPT ![t] = NoResult]
  /\ UNCHANGED <<maxByteSize, msgLen, buffer, grant, waitVars, queueVars, callVars>>

\* From the label __wait_again to __KERNEL_EXIT.
ReceiveTypeError(t, e) ==
  /\ type[e] # "MSGQUEUE"
  /\ Fail(t, "TYPE")
  /\ UNCHANGED <<waitVars, queueVars>>

\* A message that does not fit and must not be cut stays in the queue.
Refuses(t, m, max) == Size[m] > max /\ ~want[t].noError

ReceiveTooBig(t, e) ==
  /\ type[e] = "MSGQUEUE" /\ counter[e] > 0
  /\ Refuses(t, HeadMsg(e), want[t].max)
  /\ Fail(t, "E2BIG")
  /\ UNCHANGED <<waitVars, queueVars>>

ReceiveTake(t, e) ==
  /\ type[e] = "MSGQUEUE" /\ counter[e] > 0
  /\ ~Refuses(t, HeadMsg(e), want[t].max)
  /\ GetMsg(e)
  /\ Return(t, "NONE", HeadMsg(e), Smaller(want[t].max, Size[HeadMsg(e)]))
  /\ UNCHANGED waitVars

ReceiveNotWait(t, e) ==
  /\ type[e] = "MSGQUEUE" /\ counter[e] = 0
  /\ timeOut[t] = "NOT_WAIT"
  /\ Fail(t, "WAIT_TIMEOUT")
  /\ UNCHANGED <<waitVars, queueVars>>

\* Faulty variant: the counter was read before the locks were taken.
ReceiveBlock_StaleCounter(t, e) ==
  /\ type[e] = "MSGQUEUE"
  /\ timeOut[t] # "NOT_WAIT"
  /\ EventWait(t, e, timeOut[t] = "TICKS", priority)
  /\ pc' = [pc EXCEPT ![t] = "blocked"]
  /\ maxByteSize' = [maxByteSize EXCEPT ![t] = want[t].max]
  /\ UNCHANGED <<pevent, timeOut, want, msgLen, buffer, result, grant, queueVars>>

ReceiveBlock(t, e) ==
  /\ type[e] = "MSGQUEUE" /\ counter[e] = 0
  /\ timeOut[t] # "NOT_WAIT"
  /\ EventWait(t, e, timeOut[t] = "TICKS", priority)
  /\ pc' = [pc EXCEPT ![t] = "blocked"]
  /\ maxByteSize' = [maxByteSize EXCEPT ![t] = want[t].max]
  /\ UNCHANGED <<pevent, timeOut, want, msgLen, buffer, result, grant, queueVars>>

ReceiveEnter(t) ==
  /\ CpuFree(t) /\ pc[t] = "wait_again"
  /\ CanEnter(pevent[t])
  /\ \/ ReceiveTypeError(t, pevent[t])
     \/ ReceiveTooBig(t, pevent[t])
     \/ ReceiveTake(t, pevent[t])
     \/ ReceiveNotWait(t, pevent[t])
     \/ ReceiveBlock(t, pevent[t])
  /\ UNCHANGED callVars

\* __KERNEL_EXIT returns: no signal broke the wait.
ReceiveAwake(t) ==
  /\ schedRet[t] = "NONE"
  /\ Goto(t, "awake")

\* LW_SIGNAL_EINTR, and the queue lets signals interrupt.
Interrupted(t) == schedRet[t] = "EINTR" /\ "SIGNAL_INTER" \in Option[pevent[t]]

ReceiveInterrupted(t) ==
  /\ Interrupted(t)
  /\ Fail(t, "EINTR")

\* Else the wait starts again with the time that is left (_sigTimeOutRecalc).
ReceiveRestart(t) ==
  /\ schedRet[t] # "NONE" /\ ~Interrupted(t)
  /\ \E w \in (IF timeOut[t] = "TICKS" THEN {"TICKS", "NOT_WAIT"} ELSE {timeOut[t]}) :
       timeOut' = [timeOut EXCEPT ![t] = w]
  /\ pc'    = [pc EXCEPT ![t] = "wait_again"]
  /\ grant' = [grant EXCEPT ![t] = "none"]
  /\ UNCHANGED <<pevent, want, maxByteSize, msgLen, buffer, result>>

ReceiveResume(t) ==
  /\ CpuFree(t) /\ pc[t] = "blocked"
  /\ SchedReturn(t)
  /\ ReceiveAwake(t) \/ ReceiveInterrupted(t) \/ ReceiveRestart(t)
  /\ UNCHANGED <<queueVars, callVars>>

\* A wait that somebody ended: API_MsgQueueReceiveEx knows from a length of 0 and
\* a cleared buffer size that the message was too long for it.
ReceiveDone(t) ==
  IF msgLen[t] = 0 /\ maxByteSize[t] = 0 THEN Fail(t, "E2BIG")
  ELSE Return(t, "NONE", buffer[t], msgLen[t])

\* The time-out flag is read without a lock.
ReceiveTestTimeOut(t) ==
  /\ CpuFree(t) /\ pc[t] = "awake"
  /\ \/ waitTimeOut[t] = "OUT" /\ Goto(t, "timeout")
     \/ waitTimeOut[t] # "OUT" /\ isEventDelete[t] = "EXIST" /\ ReceiveDone(t)
     \/ waitTimeOut[t] # "OUT" /\ isEventDelete[t] = "DELETE" /\ Fail(t, "WAS_DELETED")
  /\ UNCHANGED <<waitVars, queueVars, callVars>>

\* Faulty variant: the flag is not read again under the locks.
ReceiveTimeOut_NoSecondTest(t) ==
  /\ CpuFree(t) /\ pc[t] = "timeout"
  /\ CanEnter(pevent[t])
  /\ EventTimeout(t, pevent[t]) /\ Fail(t, "WAIT_TIMEOUT")
  /\ UNCHANGED <<queueVars, callVars>>

\* Back under the locks: a sender may have been there in between.
ReceiveTimeOut(t) ==
  /\ CpuFree(t) /\ pc[t] = "timeout"
  /\ CanEnter(pevent[t])
  /\ \/ waitTimeOut[t] = "CLEAR" /\ ReceiveDone(t) /\ UNCHANGED waitVars
     \/ waitTimeOut[t] # "CLEAR" /\ EventTimeout(t, pevent[t]) /\ Fail(t, "WAIT_TIMEOUT")
  /\ UNCHANGED <<queueVars, callVars>>

-----------------------------------------------------------------------------
(* Sending: API_MsgQueueSend, API_MsgQueueSendEx.                          *)

\* The first waiter t gets s into its buffer, cut to the size of it.
Deliver(t, s) ==
  /\ ~Refuses(t, s.msg, maxByteSize[t])
  /\ buffer' = [buffer EXCEPT ![t] = s.msg]
  /\ msgLen' = [msgLen EXCEPT ![t] = Smaller(Size[s.msg], maxByteSize[t])]
  /\ grant'  = [grant EXCEPT ![t] = "message"]
  /\ UNCHANGED maxByteSize

\* It is woken all the same when the message must not be cut: it returns E2BIG.
TooBig(t, s) ==
  /\ Refuses(t, s.msg, maxByteSize[t])
  /\ msgLen'      = [msgLen EXCEPT ![t] = 0]
  /\ maxByteSize' = [maxByteSize EXCEPT ![t] = 0]
  /\ grant'       = [grant EXCEPT ![t] = "toobig"]
  /\ UNCHANGED buffer

\* Faulty variant: the size is looked at before the waiter is taken off the queue.
SendToWaiter_StaysQueued(e, s) ==
  /\ HasWaiter(e)
  /\ \/ /\ EventReady(e, FALSE, priority)
        /\ Deliver(NextWaiter(e), s)
        /\ UNCHANGED retry
     \/ /\ Refuses(NextWaiter(e), s.msg, maxByteSize[NextWaiter(e)])
        /\ retry' = [retry EXCEPT ![e] = Append(@, s)]
        /\ UNCHANGED <<waitVars, buffer, msgLen, maxByteSize, grant>>
  /\ UNCHANGED <<pc, pevent, timeOut, want, result>>

\* One waiter is taken off the queue for a send of s; in the second case the
\* sender goes to __re_send.
SendToWaiter(e, s) ==
  /\ HasWaiter(e)
  /\ EventReady(e, FALSE, priority)
  /\ \/ Deliver(NextWaiter(e), s) /\ UNCHANGED retry
     \/ TooBig(NextWaiter(e), s) /\ retry' = [retry EXCEPT ![e] = Append(@, s)]
  /\ UNCHANGED <<pc, pevent, timeOut, want, result>>

\* The sends that begin now: new ones, and those that are made again.
NewSend(e, s) ==
  /\ (IF s.urgent THEN "Urgent" ELSE "Send") \in Calls
  /\ Len(retry[e]) < MaxRetry
  /\ UNCHANGED retry

\* A send finds a waiter, with the event's lock only ...
SendCheck(e, s) ==
  /\ CanLock(e) /\ op[e] = "none"
  /\ HasWaiter(e)
  /\ op'    = [op EXCEPT ![e] = "Send"]
  /\ cargo' = [cargo EXCEPT ![e] = s]
  /\ UNCHANGED <<waitVars, queueVars, recvVars>>

\* ... and wakes it after it has taken the kernel lock too.
SendReady(e) ==
  /\ op[e] = "Send" /\ \A f \in Events : op[f] \notin Loops
  /\ SendToWaiter(e, cargo[e])
  /\ op'    = [op EXCEPT ![e] = "none"]
  /\ cargo' = [cargo EXCEPT ![e] = NULL]
  /\ UNCHANGED queueVars

\* Faulty variant: a full ring is overwritten.
SendStore_NoLimit(e, s) ==
  /\ CanLock(e)
  /\ ~HasWaiter(e) /\ counter[e] <= MaxCounter
  /\ IF s.urgent THEN SendMsgUrgent(e, s.msg) ELSE SendMsg(e, s.msg)
  /\ UNCHANGED <<waitVars, recvVars, op, cargo>>

\* No waiter: the message is stored, if there is a slot.
SendStore(e, s) ==
  /\ CanLock(e)
  /\ ~HasWaiter(e) /\ counter[e] < MaxCounter
  /\ IF s.urgent THEN SendMsgUrgent(e, s.msg) ELSE SendMsg(e, s.msg)
  /\ UNCHANGED <<waitVars, recvVars, op, cargo>>

SendNew(e, s) == NewSend(e, s) /\ (SendCheck(e, s) \/ SendStore(e, s))

\* A send by an interrupt handler inside a loop over the same queue.
SendNested(e, s) ==
  /\ (IF s.urgent THEN "Urgent" ELSE "Send") \in Calls
  /\ Len(retry[e]) < MaxRetry
  /\ CanLock(e) /\ op[e] \in Loops
  /\ SendToWaiter(e, s)
  /\ UNCHANGED <<queueVars, op, cargo>>

\* Faulty variant: the message goes into the ring, whoever waits by now.
Resend_Store(e, i) ==
  /\ CanLock(e) /\ op[e] = "none"
  /\ counter[e] < MaxCounter
  /\ SendMsg(e, retry[e][i].msg)
  /\ UNCHANGED <<waitVars, recvVars, op, cargo>>
  /\ retry' = [retry EXCEPT ![e] = RemoveAt(@, i)]

\* __re_send: the whole call once more.
Resend(e, i) ==
  /\ op[e] = "none"
  /\ SendCheck(e, retry[e][i]) \/ SendStore(e, retry[e][i])
  /\ retry' = [retry EXCEPT ![e] = RemoveAt(@, i)]

\* It fails when the ring is full (ERROR_MSGQUEUE_FULL) or the queue deleted.
ResendFails(e, i) ==
  /\ op[e] = "none"
  /\ \/ CanLock(e) /\ ~HasWaiter(e) /\ counter[e] = MaxCounter
     \/ type[e] = "UNUSED" /\ InterruptsOn
  /\ retry' = [retry EXCEPT ![e] = RemoveAt(@, i)]
  /\ UNCHANGED <<waitVars, recvVars, queueVars, op, cargo>>

-----------------------------------------------------------------------------
(* The other calls.  They fail with ERROR_MSGQUEUE_TYPE, and change        *)
(* nothing, once the queue is deleted.                                     *)

\* API_MsgQueueTryReceive, when there is a message.
TryReceive(e) ==
  /\ "TryReceive" \in Calls /\ CanLock(e)
  /\ counter[e] > 0
  /\ GetMsg(e)
  /\ UNCHANGED <<waitVars, callVars, recvVars>>

\* API_MsgQueueClear
Clear(e) ==
  /\ "Clear" \in Calls /\ CanLock(e)
  /\ counter'   = [counter EXCEPT ![e] = 0]
  /\ inputPtr'  = [inputPtr EXCEPT ![e] = 0]
  /\ slots'     = [slots EXCEPT ![e] = [i \in Slot |-> NULL]]
  /\ outputPtr' = [outputPtr EXCEPT ![e] = 0]
  /\ UNCHANGED <<type, waitVars, callVars, recvVars>>

\* The calls that loop over the waiters: LW_OPTION_BROADCAST, API_MsgQueueFlush and
\* API_MsgQueueDelete, which takes the type away first.
BroadcastBegin(e, m) ==
  /\ "Broadcast" \in Calls /\ type[e] = "MSGQUEUE" /\ CanEnter(e)
  /\ op'    = [op EXCEPT ![e] = "Broadcast"]
  /\ cargo' = [cargo EXCEPT ![e] = [msg |-> m, urgent |-> FALSE]]
  /\ UNCHANGED <<retry, waitVars, queueVars, recvVars>>

FlushBegin(e) ==
  /\ "Flush" \in Calls /\ type[e] = "MSGQUEUE" /\ CanEnter(e)
  /\ op' = [op EXCEPT ![e] = "Flush"]
  /\ UNCHANGED <<cargo, retry, waitVars, queueVars, recvVars>>

DeleteBegin(e) ==
  /\ "Delete" \in Calls /\ type[e] = "MSGQUEUE" /\ CanEnter(e)
  /\ op'   = [op EXCEPT ![e] = "Delete"]
  /\ type' = [type EXCEPT ![e] = "UNUSED"]
  /\ UNCHANGED <<cargo, retry, counter, slots, inputPtr, outputPtr, waitVars, recvVars>>

\* A receiver that a broadcast does not fit gets nothing; nobody sends it again.
BroadcastOne(e) ==
  /\ op[e] = "Broadcast" /\ InterruptsOn
  /\ HasWaiter(e)
  /\ EventReady(e, FALSE, priority)
  /\ Deliver(NextWaiter(e), cargo[e]) \/ TooBig(NextWaiter(e), cargo[e])
  /\ UNCHANGED <<queueVars, callVars, pc, pevent, timeOut, want, result>>

FlushOne(e) ==
  /\ op[e] = "Flush" /\ InterruptsOn
  /\ HasWaiter(e)
  /\ EventReady(e, FALSE, priority)
  /\ msgLen' = [msgLen EXCEPT ![NextWaiter(e)] = 0]
  /\ grant'  = [grant EXCEPT ![NextWaiter(e)] = "flush"]
  /\ UNCHANGED <<queueVars, callVars, pc, pevent, timeOut, want, maxByteSize, buffer, result>>

DeleteOne(e) ==
  /\ op[e] = "Delete" /\ InterruptsOn
  /\ HasWaiter(e)
  /\ EventReady(e, TRUE, priority)
  /\ grant' = [grant EXCEPT ![NextWaiter(e)] = "delete"]
  /\ UNCHANGED <<queueVars, callVars, pc, pevent, timeOut, want, maxByteSize, msgLen, buffer,
                 result>>

LoopEnd(e) ==
  /\ op[e] \in Loops /\ InterruptsOn
  /\ ~HasWaiter(e)
  /\ op'    = [op EXCEPT ![e] = "none"]
  /\ cargo' = [cargo EXCEPT ![e] = NULL]
  /\ UNCHANGED <<retry, waitVars, queueVars, recvVars>>

-----------------------------------------------------------------------------
(* The kernel around the queue.                                            *)

Tick(t) ==
  InterruptsOn /\ ThreadTick(t) /\ UNCHANGED <<queueVars, callVars, recvVars>>

Signal(t) ==
  /\ KernelFree
  /\ \E saType \in {"EINTR", "RESTART"} : Kill(t, saType)
  /\ grant' = IF "SEM" \in status[t] THEN [grant EXCEPT ![t] = "signal"] ELSE grant
  /\ UNCHANGED <<queueVars, callVars, pc, pevent, timeOut, want, maxByteSize, msgLen, buffer,
                 result>>

HandlerReturn(t) ==
  /\ KernelFree /\ (SMP_EN \/ \A e \in Events : op[e] = "none")
  /\ SigReturn(t)
  /\ UNCHANGED <<queueVars, callVars, recvVars>>

ReceiveStep(t) ==
  ReceiveEnter(t) \/ ReceiveResume(t) \/ ReceiveTestTimeOut(t) \/ ReceiveTimeOut(t)

\* The rest of a call that has begun.
Finish(e) == SendReady(e) \/ BroadcastOne(e) \/ FlushOne(e) \/ DeleteOne(e) \/ LoopEnd(e)

\* The sender's way back to __re_send.
Again(e) == \E i \in 1..Len(retry[e]) : Resend(e, i) \/ ResendFails(e, i)

Call(e) ==
  \/ \E s \in Sends : SendNew(e, s) \/ SendNested(e, s)
  \/ \E m \in Messages : BroadcastBegin(e, m)
  \/ TryReceive(e) \/ Clear(e) \/ FlushBegin(e) \/ DeleteBegin(e)

Next ==
  \/ \E t \in Threads :
       \/ \E e \in Events, w \in TimeOuts, r \in Receives : ReceiveCall(t, e, w, r)
       \/ ReceiveStep(t)
       \/ Tick(t) \/ Signal(t) \/ HandlerReturn(t)
  \/ \E e \in Events : Finish(e) \/ Again(e) \/ Call(e)

Spec == Init /\ [][Next]_vars

\* Fairness, as for the semaphore: a call that has begun ends, the tick comes, and
\* a thread or a sender that can run again and again does.
Fairness ==
  /\ \A e \in Events : WF_vars(Finish(e)) /\ SF_vars(Again(e))
  /\ \A t \in Threads : WF_vars(Tick(t)) /\ SF_vars(ReceiveStep(t))

FairSpec == Spec /\ Fairness

-----------------------------------------------------------------------------
(* Properties.                                                             *)

\* A queued thread is inside a Receive on that queue, so the buffer that a sender
\* writes to is valid; it sleeps, or has timed out and has yet to find out.
WaiterState(t) ==
  /\ peventPtr[t] # NULL => /\ pc[t] \in {"blocked", "awake", "timeout"}
                            /\ pevent[t] = peventPtr[t]
                            /\ grant[t] = "none" /\ buffer[t] = NULL
                            /\ maxByteSize[t] = want[t].max
                            /\ "SEM" \in status[t] <=> waitTimeOut[t] = "CLEAR"
  /\ peventPtr[t] = NULL => "SEM" \notin status[t] /\ waitTimeOut[t] = "CLEAR"
  /\ "DELAY" \in status[t] => "SEM" \in status[t] /\ timeOut[t] = "TICKS"
  /\ "SEM" \in status[t] => pc[t] = "blocked"

\* The queues, the TCBs and the receive buffers tell one story, in all the steps of
\* _EventHighLevel.c, the tick, a signal and the two halves of a Receive.
BuffersValid == ListsDistinct /\ ListsMatch /\ \A t \in Threads : WaiterState(t)

\* No message lies in the ring while a thread waits for one: neither a send, a
\* message sent again nor a delete leaves both behind.
NoIdleMessage == \A e \in Events : counter[e] > 0 => ~HasWaiter(e)

\* Messages are neither lost, duplicated nor reordered, an urgent one overtakes the
\* others; a message handed to a receiver that was timing out is what its call
\* returns; E2BIG means that there was one too big: the queue is a MessageChannel.
Stored(e) == [i \in 1..counter[e] |-> slots[e][(outputPtr[e] + i - 1) % MaxCounter]]
Channel == INSTANCE MessageChannel WITH
  Queues <- Events,
  chan   <- [e \in Events |-> Stored(e)],
  asking <- [t \in Threads |-> IF pc[t] = "idle" THEN NULL ELSE
               [queue |-> pevent[t], max |-> want[t].max, noError |-> want[t].noError]],
  inbox  <- buffer,
  passed <- [t \in Threads |-> IF grant[t] = "message" THEN "none" ELSE grant[t]],
  Buffers <- {r.max : r \in Receives}
ImplementsChannel == Channel!Spec

\* A message that was refused does not go round for ever: if from some time on no
\* thread comes to wait, every sender comes out of __re_send.  (Receivers that come
\* again and again with too small a buffer do keep it there.)
ResendEnds ==
  (\A t \in Threads : <>[](pc[t] # "wait_again")) =>
    <>[](\A e \in Events : retry[e] = << >> /\ op[e] # "Send")

\* In a FIFO queue every receiver's turn comes: while messages are handed over again
\* and again no receiver stays in the queue for ever, however often others return.
FifoServesAll ==
  \A e \in Events : "WAIT_PRIORITY" \notin Option[e] =>
    (([]<><<SendReady(e)>>_vars) =>
       \A t \in Threads : (peventPtr[t] = e) ~> (peventPtr[t] # e))
=============================================================================
