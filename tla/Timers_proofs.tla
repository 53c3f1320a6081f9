----------------------------- MODULE Timers_proofs -----------------------------
(***************************************************************************)
(* The line of timers is consistent whatever the call-backs do, and fires  *)
(* every timer as TimerService promises, for any number of timers, any     *)
(* rate, any ticks and any periods.                                        *)
(***************************************************************************)
EXTENDS Timers, WakeupLine_proofs

\* The scan needs no more than this to be undisturbed by the calls.
TimersInv == TypeOK /\ LineConsistent

LEMMA InvLine ==
  TimersInv => LineOK(wu) /\ \A n \in Nodes : Running(n) <=> OnLine(wu, n)
  BY DEF TimersInv, TypeOK, LineConsistent, LineOK

\* A step that changes the line consistently and no timer's status or type.
LEMMA LineStep ==
  ASSUME TimersInv, NEW w, LineOK(w), wu' = w,
         status' \in [Nodes -> {"RUNNING", "STOP"}],
         type' \in [Nodes -> {"TIMER", "UNUSED"}],
         \A m \in Nodes : status'[m] = "RUNNING" <=> OnLine(w, m),
         \A m \in Nodes : status'[m] = "RUNNING" => type'[m] = "TIMER"
  PROVE  LineConsistent' /\ LineType(wu')
<1>1. LineType(w) /\ IsInjective(w.list) /\ (w.op # NULL => OnLine(w, w.op))
  BY DEF LineOK
<1>2. LineType(wu') /\ IsInjective(wu.list') /\ (wu.op' # NULL => OnLine(wu', wu.op'))
  BY <1>1
<1>3. \A m \in Nodes : OnLine(wu', m) <=> OnLine(w, m)
  OBVIOUS
<1>4. QED BY <1>2, <1>3 DEF LineConsistent, Running

\* Taking a timer off, and putting it back for so many ticks.
LEMMA Requeue ==
  ASSUME NEW w, LineOK(w), NEW n \in Nodes, NEW ticks \in Nat, ~ OnLine(w, n)
  PROVE  /\ LineOK(WakeupAdd(SetCounter(w, n, ticks), n))
         /\ \A m : OnLine(WakeupAdd(SetCounter(w, n, ticks), n), m) <=> OnLine(w, m) \/ m = n
<1>1. PICK v : v = SetCounter(w, n, ticks)
  OBVIOUS
<1>2. LineOK(v) /\ (\A m : OnLine(v, m) <=> OnLine(w, m))
  BY <1>1, SetCounterNodes
<1>3. QED BY <1>1, <1>2, WakeupAddNodes

LEMMA CreateKeeps ==
  ASSUME TimersInv, NEW n \in Nodes, Create(n)
  PROVE  TimersInv'
<1>1. PICK w : w = SetCounter(wu, n, 0)
  OBVIOUS
<1>2. LineOK(w) /\ \A m : OnLine(w, m) <=> OnLine(wu, m)
  BY <1>1, InvLine, SetCounterNodes
<1>3. /\ status' = [status EXCEPT ![n] = "STOP"] /\ ~ Running(n)
      /\ type' = [type EXCEPT ![n] = "TIMER"] /\ wu' = w
      /\ type \in [Nodes -> {"TIMER", "UNUSED"}]
      /\ status \in [Nodes -> {"RUNNING", "STOP"}]
  BY <1>1 DEF Create, TimersInv, TypeOK, LineConsistent
<1>4. /\ \A m \in Nodes : status'[m] = "RUNNING" <=> OnLine(w, m)
      /\ \A m \in Nodes : status'[m] = "RUNNING" => type'[m] = "TIMER"
  BY <1>2, <1>3, InvLine DEF Running, TimersInv, LineConsistent
<1>5. LineConsistent' /\ LineType(wu')
  BY <1>2, <1>3, <1>4, LineStep
<1>6. QED BY <1>3, <1>5 DEF TimersInv, TypeOK, Create

LEMMA StartKeeps ==
  ASSUME TimersInv, NEW n \in Nodes, NEW init \in Ticks, NEW period \in Periods,
         NEW repeat \in BOOLEAN, Start(n, init, period, repeat)
  PROVE  TimersInv'
<1>1. PICK u : u = IF Running(n) THEN WakeupDel(wu, n) ELSE wu
  OBVIOUS
<1>2. LineOK(u) /\ \A m : OnLine(u, m) <=> OnLine(wu, m) /\ m # n
  BY <1>1, InvLine, WakeupDelNodes
<1>3. init \in Nat /\ period \in Nat
  BY TimersAssumption
<1>4. PICK w : w = WakeupAdd(SetCounter(u, n, init), n)
  OBVIOUS
<1>5. LineOK(w) /\ \A m : OnLine(w, m) <=> OnLine(wu, m) \/ m = n
  BY <1>2, <1>3, <1>4, Requeue
<1>6. /\ status' = [status EXCEPT ![n] = "RUNNING"] /\ type' = type /\ wu' = w
      /\ type[n] = "TIMER"
      /\ type \in [Nodes -> {"TIMER", "UNUSED"}]
      /\ status \in [Nodes -> {"RUNNING", "STOP"}]
  BY <1>1, <1>4 DEF Start, TimersInv, TypeOK
<1>7. /\ \A m \in Nodes : status'[m] = "RUNNING" <=> OnLine(w, m)
      /\ \A m \in Nodes : status'[m] = "RUNNING" => type'[m] = "TIMER"
  BY <1>5, <1>6, InvLine DEF Running, TimersInv, LineConsistent
<1>8. LineConsistent' /\ LineType(wu')
  BY <1>5, <1>6, <1>7, LineStep
<1>9. QED BY <1>3, <1>8 DEF TimersInv, TypeOK, Start

LEMMA ResetKeeps ==
  ASSUME TimersInv, NEW n \in Nodes, Reset(n)
  PROVE  TimersInv'
<1>1. PICK u : u = WakeupDel(wu, n)
  OBVIOUS
<1>2. LineOK(u) /\ \A m : OnLine(u, m) <=> OnLine(wu, m) /\ m # n
  BY <1>1, InvLine, WakeupDelNodes DEF Reset
<1>3. PICK w : w = WakeupAdd(SetCounter(u, n, save[n]), n)
  OBVIOUS
<1>4. save[n] \in Nat
  BY DEF TimersInv, TypeOK
<1>5. LineOK(w) /\ \A m : OnLine(w, m) <=> OnLine(wu, m) \/ m = n
  BY <1>2, <1>3, <1>4, Requeue
<1>6. /\ status' = status /\ type' = type /\ wu' = w /\ Running(n)
      /\ type \in [Nodes -> {"TIMER", "UNUSED"}]
      /\ status \in [Nodes -> {"RUNNING", "STOP"}]
  BY <1>1, <1>3 DEF Reset, timerVars, TimersInv, TypeOK
<1>7. /\ \A m \in Nodes : status'[m] = "RUNNING" <=> OnLine(w, m)
      /\ \A m \in Nodes : status'[m] = "RUNNING" => type'[m] = "TIMER"
  BY <1>5, <1>6, InvLine DEF Running, TimersInv, LineConsistent
<1>8. LineConsistent' /\ LineType(wu')
  BY <1>5, <1>6, <1>7, LineStep
<1>9. QED BY <1>4, <1>8 DEF TimersInv, TypeOK, Reset, timerVars

LEMMA TakeOffLine ==
  ASSUME TimersInv, NEW n \in Nodes, Running(n), TakeOff(n),
         type' = type \/ type' = [type EXCEPT ![n] = "UNUSED"]
  PROVE  LineConsistent' /\ LineType(wu') /\ status' \in [Nodes -> {"RUNNING", "STOP"}]
<1>1. PICK u : u = SetCounter(wu, n, 0)
  OBVIOUS
<1>2. LineOK(u) /\ \A m : OnLine(u, m) <=> OnLine(wu, m)
  BY <1>1, InvLine, SetCounterNodes
<1>3. PICK w : w = WakeupDel(u, n)
  OBVIOUS
<1>4. LineOK(w) /\ \A m : OnLine(w, m) <=> OnLine(wu, m) /\ m # n
  BY <1>2, <1>3, InvLine, WakeupDelNodes
<1>5. /\ status' = [status EXCEPT ![n] = "STOP"] /\ wu' = w
      /\ type \in [Nodes -> {"TIMER", "UNUSED"}]
      /\ status \in [Nodes -> {"RUNNING", "STOP"}]
  BY <1>1, <1>3 DEF TakeOff, TimersInv, TypeOK
<1>6. /\ \A m \in Nodes : status'[m] = "RUNNING" <=> OnLine(w, m)
      /\ \A m \in Nodes : status'[m] = "RUNNING" => type'[m] = "TIMER"
  BY <1>4, <1>5, InvLine DEF Running, TimersInv, LineConsistent
<1>7. status' \in [Nodes -> {"RUNNING", "STOP"}] /\ type' \in [Nodes -> {"TIMER", "UNUSED"}]
  BY <1>5
<1>8. QED BY <1>4, <1>5, <1>6, <1>7, LineStep

LEMMA CancelKeeps ==
  ASSUME TimersInv, NEW n \in Nodes, Cancel(n)
  PROVE  TimersInv'
<1>1. Running(n) /\ TakeOff(n) /\ type' = type
  BY DEF Cancel
<1>2. LineConsistent' /\ LineType(wu') /\ status' \in [Nodes -> {"RUNNING", "STOP"}]
  BY <1>1, TakeOffLine
<1>3. owed' \in [Nodes -> Int] /\ hurried' \in BOOLEAN
  BY <1>1 DEF TakeOff, TimersInv, TypeOK
<1>4. QED BY <1>2, <1>3 DEF TimersInv, TypeOK, Cancel

LEMMA DeleteKeeps ==
  ASSUME TimersInv, NEW n \in Nodes, Delete(n)
  PROVE  TimersInv'
<1>1. type' = [type EXCEPT ![n] = "UNUSED"] /\ type' \in [Nodes -> {"TIMER", "UNUSED"}]
  BY DEF Delete, TimersInv, TypeOK
<1>2. CASE Running(n) /\ TakeOff(n)
  <2>1. LineConsistent' /\ LineType(wu') /\ status' \in [Nodes -> {"RUNNING", "STOP"}]
    BY <1>1, <1>2, TakeOffLine
  <2>2. owed' \in [Nodes -> Int] /\ hurried' \in BOOLEAN
    BY <1>2 DEF TakeOff, TimersInv, TypeOK
  <2>3. QED BY <1>1, <2>1, <2>2 DEF TimersInv, TypeOK, Delete
<1>3. CASE ~ Running(n) /\ UNCHANGED <<wu, status, owed, hurried>>
  <2>1. LineConsistent'
    BY <1>1, <1>3 DEF TimersInv, TypeOK, LineConsistent, Running
  <2>2. QED BY <1>1, <1>3, <2>1 DEF TimersInv, TypeOK, Delete
<1>4. QED BY <1>2, <1>3 DEF Delete

LEMMA BeginKeeps ==
  ASSUME TimersInv, Begin
  PROVE  TimersInv'
<1>1. PICK w : w = ScanStart(wu)
  OBVIOUS
<1>2. LineOK(w) /\ \A m : OnLine(w, m) <=> OnLine(wu, m)
  BY <1>1, InvLine, ScanStartNodes
<1>3. /\ status' = status /\ type' = type /\ wu' = w
      /\ type \in [Nodes -> {"TIMER", "UNUSED"}]
      /\ status \in [Nodes -> {"RUNNING", "STOP"}]
  BY <1>1 DEF Begin, timerVars, TimersInv, TypeOK
<1>4. /\ \A m \in Nodes : status'[m] = "RUNNING" <=> OnLine(w, m)
      /\ \A m \in Nodes : status'[m] = "RUNNING" => type'[m] = "TIMER"
  BY <1>2, <1>3, InvLine DEF Running, TimersInv, LineConsistent
<1>5. LineConsistent' /\ LineType(wu')
  BY <1>2, <1>3, <1>4, LineStep
<1>6. rate \in Nat /\ remaining' = rate
  BY TimersAssumption DEF Begin, TimersInv, TypeOK
<1>7. owed' \in [Nodes -> Int]
  BY <1>6 DEF Begin, TimersInv, TypeOK
<1>8. QED BY <1>5, <1>6, <1>7 DEF TimersInv, TypeOK, Begin, timerVars

LEMMA EndKeeps ==
  ASSUME TimersInv, End
  PROVE  TimersInv'
<1>1. CASE UNCHANGED wu
  <2>1. LineConsistent'
    BY <1>1 DEF TimersInv, LineConsistent, End, timerVars, Running
  <2>2. QED BY <1>1, <2>1 DEF TimersInv, TypeOK, End, timerVars
<1>2. CASE ScanStops(wu, remaining) /\ wu' = StopAt(wu, remaining)
  <2>1. PICK w : w = StopAt(wu, remaining)
    OBVIOUS
  <2>2. remaining \in Nat
    BY DEF TimersInv, TypeOK
  <2>3. LineOK(w) /\ \A m : OnLine(w, m) <=> OnLine(wu, m)
    BY <1>2, <2>1, <2>2, InvLine, StopAtNodes
  <2>4. /\ status' = status /\ type' = type /\ wu' = w
        /\ type \in [Nodes -> {"TIMER", "UNUSED"}]
        /\ status \in [Nodes -> {"RUNNING", "STOP"}]
    BY <1>2, <2>1 DEF End, timerVars, TimersInv, TypeOK
  <2>5. /\ \A m \in Nodes : status'[m] = "RUNNING" <=> OnLine(w, m)
        /\ \A m \in Nodes : status'[m] = "RUNNING" => type'[m] = "TIMER"
    BY <2>3, <2>4, InvLine DEF Running, TimersInv, LineConsistent
  <2>6. LineConsistent' /\ LineType(wu')
    BY <2>3, <2>4, <2>5, LineStep
  <2>7. QED BY <2>6 DEF TimersInv, TypeOK, End, timerVars
<1>3. QED BY <1>1, <1>2 DEF End

LEMMA FireKeeps ==
  ASSUME TimersInv, NEW n \in Nodes, Fire(n)
  PROVE  TimersInv'
<1>1. PICK u : u = ExpireAt(wu)
  OBVIOUS
<1>2. wu.op # NULL /\ OnLine(wu, n)
  BY WakeupLineAssumption DEF Fire, TimersInv, LineConsistent
<1>3. LineOK(u) /\ \A m : OnLine(u, m) <=> OnLine(wu, m)
  BY <1>1, <1>2, InvLine, ExpireAtNodes
<1>4. PICK v : v = WakeupDel(u, n)
  OBVIOUS
<1>5. LineOK(v) /\ \A m : OnLine(v, m) <=> OnLine(wu, m) /\ m # n
  BY <1>2, <1>3, <1>4, WakeupDelNodes
<1>6. /\ type' = type
      /\ type \in [Nodes -> {"TIMER", "UNUSED"}]
      /\ status \in [Nodes -> {"RUNNING", "STOP"}]
      /\ save[n] \in Nat
  BY DEF Fire, TimersInv, TypeOK
<1>7. LineConsistent' /\ LineType(wu') /\ status' \in [Nodes -> {"RUNNING", "STOP"}]
  <2>1. CASE auto[n]
    <3>1. PICK w : w = WakeupAdd(SetCounter(v, n, save[n]), n)
      OBVIOUS
    <3>2. LineOK(w) /\ \A m : OnLine(w, m) <=> OnLine(wu, m) \/ m = n
      BY <1>5, <1>6, <3>1, Requeue
    <3>3. wu' = w /\ status' = status
      BY <1>1, <1>4, <2>1, <3>1 DEF Fire
    <3>4. /\ \A m \in Nodes : status'[m] = "RUNNING" <=> OnLine(w, m)
          /\ \A m \in Nodes : status'[m] = "RUNNING" => type'[m] = "TIMER"
      BY <1>2, <1>6, <3>2, <3>3, InvLine DEF Running, TimersInv, LineConsistent
    <3>5. QED BY <1>6, <3>2, <3>3, <3>4, LineStep
  <2>2. CASE ~ auto[n]
    <3>1. wu' = v /\ status' = [status EXCEPT ![n] = "STOP"]
      BY <1>1, <1>4, <2>2 DEF Fire
    <3>2. /\ \A m \in Nodes : status'[m] = "RUNNING" <=> OnLine(v, m)
          /\ \A m \in Nodes : status'[m] = "RUNNING" => type'[m] = "TIMER"
      BY <1>5, <1>6, <3>1, InvLine DEF Running, TimersInv, LineConsistent
    <3>3. QED BY <1>5, <1>6, <3>1, <3>2, LineStep
  <2>3. QED BY <2>1, <2>2
<1>8. remaining' \in Nat
  <2>1. wu.counter[n] \in Nat /\ remaining \in Nat /\ wu.counter[n] <= remaining
    BY DEF Fire, ScanExpires, TimersInv, TypeOK, LineType
  <2>2. QED BY <2>1 DEF Fire
<1>9. owed' \in [Nodes -> Int]
  BY <1>6 DEF Fire, TimersInv, TypeOK
<1>10. QED BY <1>7, <1>8, <1>9 DEF TimersInv, TypeOK, Fire

LEMMA InitInv == Init => TimersInv
<1> SUFFICES ASSUME Init PROVE TimersInv
  OBVIOUS
<1>1. wu = EmptyLine /\ EmptyLine.list = << >> /\ EmptyLine.op = NULL
  BY DEF Init, EmptyLine
<1>2. LineType(wu)
  BY DEF Init, EmptyLine, LineType
<1>3. \A m : ~ OnLine(wu, m)
  BY <1>1 DEF OnLine
<1>4. IsInjective(wu.list)
  <2>1. wu.list \in Seq(Nodes) /\ Len(wu.list) = 0
    BY <1>1
  <2>2. QED BY <2>1, InjectiveList
<1>5. TypeOK
  <2>1. auto \in [Nodes -> BOOLEAN] /\ hurried \in BOOLEAN
    BY Zenon DEF Init
  <2>2. /\ rate \in Rates
        /\ type \in [Nodes -> {"TIMER", "UNUSED"}]
        /\ status \in [Nodes -> {"RUNNING", "STOP"}]
        /\ save \in [Nodes -> Nat]
        /\ scan \in {"sleep", "scan", "callback"}
        /\ remaining \in Nat
        /\ owed \in [Nodes -> Int]
    BY DEF Init
  <2>3. QED BY <1>2, <2>1, <2>2 DEF TypeOK
<1>6. LineConsistent
  BY <1>1, <1>3, <1>4 DEF LineConsistent, Running, Init
<1>7. QED BY <1>5, <1>6 DEF TimersInv

LEMMA NextInv == TimersInv /\ [Next]_vars => TimersInv'
<1> SUFFICES ASSUME TimersInv, [Next]_vars PROVE TimersInv'
  OBVIOUS
<1>1. CASE Begin
  BY <1>1, BeginKeeps
<1>2. CASE End
  BY <1>2, EndKeeps
<1>3. CASE CallbackReturn
  BY <1>3 DEF CallbackReturn, timerVars, TimersInv, TypeOK, LineConsistent, Running
<1>4. ASSUME NEW n \in Nodes, Fire(n) PROVE TimersInv'
  BY <1>4, FireKeeps
<1>5. ASSUME NEW n \in Nodes, Create(n) PROVE TimersInv'
  BY <1>5, CreateKeeps
<1>6. ASSUME NEW n \in Nodes, Reset(n) PROVE TimersInv'
  BY <1>6, ResetKeeps
<1>7. ASSUME NEW n \in Nodes, Cancel(n) PROVE TimersInv'
  BY <1>7, CancelKeeps
<1>8. ASSUME NEW n \in Nodes, Delete(n) PROVE TimersInv'
  BY <1>8, DeleteKeeps
<1>9. ASSUME NEW n \in Nodes, NEW init \in Ticks, NEW period \in Periods,
             NEW repeat \in BOOLEAN, Start(n, init, period, repeat)
      PROVE  TimersInv'
  BY <1>9, StartKeeps
<1>10. CASE UNCHANGED vars
  BY <1>10 DEF vars, timerVars, TimersInv, TypeOK, LineConsistent, Running
<1>11. QED BY <1>1, <1>2, <1>3, <1>4, <1>5, <1>6, <1>7, <1>8, <1>9, <1>10 DEF Next

LEMMA Invariance == Spec => []TimersInv
<1>1. Init => TimersInv
  BY InitInv
<1>2. TimersInv /\ [Next]_vars => TimersInv'
  BY NextInv
<1>3. QED BY <1>1, <1>2, PTL DEF Spec

\* The counters on the line never become negative, whatever is charged to them.
THEOREM TypeCorrect == Spec => []TypeOK
<1>1. TimersInv => TypeOK
  BY DEF TimersInv
<1>2. QED BY <1>1, Invariance, PTL

\* A timer is on the line exactly while it runs, and only once; the scan never looks
\* at a node that a call-back has taken off the line.
THEOREM LineConsistentCorrect == Spec => []LineConsistent
<1>1. TimersInv => LineConsistent
  BY DEF TimersInv
<1>2. QED BY <1>1, Invariance, PTL

-----------------------------------------------------------------------------
(* No timer is late or early: the strengthening of FiresInTime.  A scan    *)
(* takes its ticks from all timers at once in owed, and from the line bit  *)
(* by bit; the two agree on every timer if what the scan has yet to charge *)
(* to it is counted.                                                       *)

\* The timers that the scan has still to look at.
Pending == IF scan = "sleep" THEN {} ELSE Uncharged(wu)

\* What it has still to charge to a timer.
Charge(m) == IF m \in Pending THEN remaining ELSE 0

\* A timer that goes back to the line has a period.
AskedFor == \A m \in Nodes : save[m] \in Periods \cup {0} /\ (auto[m] => save[m] # 0)

\* A scan that is over has nothing left to charge.
Spent == scan = "sleep" => remaining = 0

\* The line never counts more ticks than a timer has to wait, and a timer that the
\* scan has passed was not due.
NeverLate ==
  \A m \in Nodes : Running(m) =>
    /\ TimeLeft(wu, m) <= owed[m] + Charge(m)
    /\ m \in Pending \/ owed[m] > 0

\* While nothing has hurried the timers, it counts fewer by less than one scan ...
NearlyExact ==
  \A m \in Nodes : Running(m) =>
    /\ owed[m] + Charge(m) < TimeLeft(wu, m) + rate
    /\ m \in Pending \/ TimeLeft(wu, m) > 0
    /\ m \in Pending => remaining < rate + TimeLeft(wu, m)

\* ... a timer is in front of the scan only if this has no ticks left, and expires
\* before those that it has to look at ...
InFront ==
  \A m, n \in Nodes :
    Running(m) /\ m \notin Pending /\ n \in Pending =>
      remaining = 0 /\ TimeLeft(wu, m) < TimeLeft(wu, n)

\* ... and the timer that has just fired has taken a tick of the scan.
TickTaken == scan = "callback" => remaining < rate

TimesInv ==
  /\ TimersInv
  /\ AskedFor /\ Spent
  /\ NeverLate
  /\ ~ hurried => NearlyExact /\ InFront /\ TickTaken

LEMMA PendingRuns ==
  ASSUME TimersInv
  PROVE  \A m \in Nodes : m \in Pending => Running(m) /\ OnLine(wu, m) /\ wu.op # NULL
  BY InvLine DEF Pending, Uncharged

\* Every number there is.
LEMMA Numbers ==
  ASSUME TimersInv
  PROVE  /\ rate \in Nat \ {0} /\ remaining \in Nat /\ hurried \in BOOLEAN
         /\ \A m \in Nodes : owed[m] \in Int /\ save[m] \in Nat
         /\ \A m \in Nodes : Running(m) => OnLine(wu, m) /\ TimeLeft(wu, m) \in Nat
<1>1. LineOK(wu) /\ \A m \in Nodes : Running(m) <=> OnLine(wu, m)
  BY InvLine
<1>2. \A m \in Nodes : Running(m) => TimeLeft(wu, m) \in Nat
  BY <1>1, TimeAt
<1>3. QED BY <1>1, <1>2, TimersAssumption DEF TimersInv, TypeOK

\* A timer off the line, whether it was on it or not.
LEMMA TakenOff ==
  ASSUME TimersInv, NEW n \in Nodes, NEW u, u = IF Running(n) THEN WakeupDel(wu, n) ELSE wu
  PROVE  /\ LineOK(u) /\ ~ OnLine(u, n)
         /\ \A m : OnLine(u, m) <=> OnLine(wu, m) /\ m # n
         /\ \A m : OnLine(wu, m) /\ m # n => TimeLeft(u, m) = TimeLeft(wu, m)
         /\ Uncharged(u) = Uncharged(wu) \ {n}
<1>1. LineOK(wu) /\ (Running(n) <=> OnLine(wu, n))
  BY InvLine
<1>2. CASE Running(n)
  <2>1. u = WakeupDel(wu, n) /\ OnLine(wu, n)
    BY <1>1, <1>2
  <2>2. LineOK(u) /\ \A m : OnLine(u, m) <=> OnLine(wu, m) /\ m # n
    BY <1>1, <2>1, WakeupDelNodes
  <2>3. \A m : OnLine(wu, m) /\ m # n => TimeLeft(u, m) = TimeLeft(wu, m)
    BY <1>1, <2>1, WakeupDelKeepsTimes
  <2>4. Uncharged(u) = Uncharged(wu) \ {n}
    BY <1>1, <2>1, DelUncharged
  <2>5. QED BY <2>2, <2>3, <2>4
<1>3. CASE ~ Running(n)
  <2>1. u = wu /\ ~ OnLine(wu, n)
    BY <1>1, <1>3
  <2>2. n \notin Uncharged(wu)
    BY <2>1 DEF Uncharged
  <2>3. QED BY <1>1, <2>1, <2>2
<1>4. QED BY <1>2, <1>3

\* A timer is put on the line, by API_TimerStartEx or API_TimerReset.
LEMMA ArmTimes ==
  ASSUME TimesInv, NEW n \in Nodes, NEW ticks \in Nat \ {0}, KernelFree,
         NEW u, u = IF Running(n) THEN WakeupDel(wu, n) ELSE wu,
         wu' = WakeupAdd(SetCounter(u, n, ticks), n),
         owed' = [owed EXCEPT ![n] = ticks],
         hurried' = (hurried \/ Overtaken(wu', remaining)),
         UNCHANGED <<rate, scan, remaining>>,
         TimersInv'
  PROVE  NeverLate' /\ (~ hurried' => (NearlyExact /\ InFront /\ TickTaken)')
<1>1. PICK v : v = WakeupAdd(SetCounter(u, n, ticks), n)
  OBVIOUS
<1>2. /\ LineOK(u) /\ ~ OnLine(u, n)
      /\ \A m : OnLine(u, m) <=> OnLine(wu, m) /\ m # n
      /\ \A m : OnLine(wu, m) /\ m # n => TimeLeft(u, m) = TimeLeft(wu, m)
      /\ Uncharged(u) = Uncharged(wu) \ {n}
  BY TakenOff DEF TimesInv
<1>3. /\ LineOK(v) /\ v.op = u.op
      /\ \A m : OnLine(v, m) <=> OnLine(u, m) \/ m = n
      /\ TimeLeft(v, n) = ticks
      /\ \A m : OnLine(u, m) => TimeLeft(v, m) = TimeLeft(u, m)
      /\ Uncharged(v) \ {n} = Uncharged(u)
      /\ \A m : OnLine(u, m) /\ PlaceOf(v, n) <= PlaceOf(v, m) => ticks < TimeLeft(v, m)
  BY <1>1, <1>2, RequeueTimes
<1>4. wu' = v /\ rate' = rate /\ scan' = scan /\ remaining' = remaining
  BY <1>1
<1>5. PICK pend : pend = IF scan = "sleep" THEN {} ELSE Uncharged(v)
  OBVIOUS
<1>6. Pending' = pend
  BY <1>4, <1>5 DEF Pending
<1>7. \A m : m # n => (m \in pend <=> m \in Pending)
  BY <1>2, <1>3, <1>5 DEF Pending
<1>8. \A m \in Nodes : Running(m)' <=> OnLine(v, m)
  BY <1>4 DEF TimersInv, LineConsistent
<1>9. ASSUME NEW m \in Nodes, m # n, Running(m)'
      PROVE  /\ Running(m) /\ OnLine(u, m) /\ TimeLeft(v, m) = TimeLeft(wu, m)
             /\ owed'[m] = owed[m]
  <2>1. OnLine(u, m) /\ OnLine(wu, m)
    BY <1>2, <1>3, <1>8, <1>9
  <2>2. Running(m)
    BY <2>1, InvLine DEF TimesInv
  <2>3. QED BY <1>2, <1>3, <1>9, <2>1, <2>2 DEF TimesInv, TimersInv, TypeOK
<1>10. owed'[n] = ticks
  BY DEF TimesInv, TimersInv, TypeOK
<1>11. /\ rate \in Nat \ {0} /\ remaining \in Nat
       /\ \A m \in Nodes : owed[m] \in Int
       /\ \A m \in Nodes : Running(m) => TimeLeft(wu, m) \in Nat
  BY Numbers DEF TimesInv
<1>12. NeverLate'
  <2> SUFFICES ASSUME NEW m \in Nodes, Running(m)'
               PROVE  /\ TimeLeft(v, m) <= owed'[m] + (IF m \in pend THEN remaining ELSE 0)
                      /\ m \in pend \/ owed'[m] > 0
    BY <1>4, <1>6 DEF NeverLate, Charge
  <2>1. CASE m = n
    BY <1>3, <1>10, <1>11, <2>1
  <2>2. CASE m # n
    <3>1. /\ TimeLeft(wu, m) <= owed[m] + Charge(m)
          /\ m \in Pending \/ owed[m] > 0
      BY <1>9, <2>2 DEF TimesInv, NeverLate
    <3>2. QED BY <1>7, <1>9, <2>2, <3>1 DEF Charge
  <2>3. QED BY <2>1, <2>2
<1>13. ASSUME ~ hurried' PROVE NearlyExact'
  <2>1. NearlyExact /\ TickTaken
    BY <1>13 DEF TimesInv
  <2> SUFFICES ASSUME NEW m \in Nodes, Running(m)'
               PROVE  /\ owed'[m] + (IF m \in pend THEN remaining ELSE 0) < TimeLeft(v, m) + rate
                      /\ m \in pend \/ TimeLeft(v, m) > 0
                      /\ m \in pend => remaining < rate + TimeLeft(v, m)
    BY <1>4, <1>6 DEF NearlyExact, Charge
  <2>2. CASE m = n
    <3>1. m \in pend => remaining < rate
      BY <1>5, <2>1 DEF TickTaken, KernelFree, TimesInv, TimersInv, TypeOK
    <3>2. QED BY <1>3, <1>10, <1>11, <2>2, <3>1
  <2>3. CASE m # n
    <3>1. /\ owed[m] + Charge(m) < TimeLeft(wu, m) + rate
          /\ m \in Pending \/ TimeLeft(wu, m) > 0
          /\ m \in Pending => remaining < rate + TimeLeft(wu, m)
      BY <1>9, <2>1, <2>3 DEF NearlyExact
    <3>2. QED BY <1>7, <1>9, <2>3, <3>1 DEF Charge
  <2>4. QED BY <2>2, <2>3
<1>14. ASSUME ~ hurried' PROVE InFront'
  <2>1. InFront
    BY <1>14 DEF TimesInv
  <2> SUFFICES ASSUME NEW a \in Nodes, NEW b \in Nodes, Running(a)', a \notin pend, b \in pend
               PROVE  remaining = 0 /\ TimeLeft(v, a) < TimeLeft(v, b)
    BY <1>4, <1>6 DEF InFront
  <2>2. pend = Uncharged(v) /\ b \in Uncharged(v) /\ v.op # NULL /\ OnLine(v, b) /\ OnLine(v, a)
    BY <1>5, <1>8 DEF Uncharged
  <2>3. remaining = 0
    <3>1. First(v) # v.op
      BY <1>3, <2>2, FirstIsOp
    <3>2. ~ Overtaken(v, remaining)
      BY <1>4, <1>14
    <3>3. QED BY <1>11, <2>2, <3>1, <3>2 DEF Overtaken
  <2>4. CASE a # n /\ b # n
    <3>1. Running(a) /\ a \notin Pending /\ b \in Pending /\ Running(b)'
      BY <1>7, <1>8, <1>9, <2>2, <2>4
    <3>2. QED BY <1>9, <2>1, <2>3, <2>4, <3>1 DEF InFront
  <2>5. CASE a = n
    <3>1. b # n /\ OnLine(u, b)
      BY <1>3, <2>2, <2>5
    <3>2. PICK i, j, o : i = PlaceOf(v, n) /\ j = PlaceOf(v, b) /\ o = PlaceOf(v, v.op)
      OBVIOUS
    <3>3. i \in Nat /\ j \in Nat /\ o \in Nat
      <4>1. OnLine(v, n) /\ OnLine(v, v.op)
        BY <1>3, <2>2 DEF LineOK
      <4>2. /\ i \in 1..Len(v.list) /\ j \in 1..Len(v.list) /\ o \in 1..Len(v.list)
            /\ Len(v.list) \in Nat
        BY <1>3, <2>2, <3>2, <4>1, TimeAt
      <4>3. QED BY <4>2
    <3>4. o <= j /\ ~ (o <= i)
      BY <1>3, <2>2, <2>5, <3>2 DEF Uncharged
    <3>5. i <= j
      BY <3>3, <3>4
    <3>6. QED BY <1>3, <2>3, <2>5, <3>1, <3>2, <3>5
  <2>6. CASE a # n /\ b = n
    <3>1. PICK o : o = v.op
      OBVIOUS
    <3>2. OnLine(u, o) /\ o # n /\ o # NULL
      BY <1>2, <1>3, <2>2, <3>1 DEF LineOK
    <3>3. o \in Uncharged(v) /\ TimeLeft(v, o) <= TimeLeft(v, n)
      BY <1>3, <2>2, <2>6, <3>1, OpNext
    <3>4. o \in Nodes /\ o \in Pending /\ Running(o)'
      BY <1>5, <1>7, <1>8, <2>2, <3>2, <3>3, <1>3 DEF Uncharged
    <3>5. Running(a) /\ a \notin Pending
      BY <1>7, <1>9, <2>6
    <3>6. TimeLeft(wu, a) < TimeLeft(wu, o)
      BY <2>1, <3>4, <3>5 DEF InFront
    <3>7. TimeLeft(v, a) < TimeLeft(v, o)
      BY <1>9, <2>6, <3>2, <3>4, <3>6
    <3>8. TimeLeft(v, a) \in Nat /\ TimeLeft(v, o) \in Nat /\ TimeLeft(v, n) \in Nat
      BY <1>3, <2>2, <2>6, <3>2, TimeAt
    <3>9. QED BY <2>3, <2>6, <3>3, <3>7, <3>8
  <2>7. QED BY <2>4, <2>5, <2>6
<1>15. ASSUME ~ hurried' PROVE TickTaken'
  BY <1>4, <1>15 DEF TimesInv, TickTaken
<1>16. QED BY <1>12, <1>13, <1>14, <1>15

\* A timer is taken off, by API_TimerCancel or API_TimerDelete.
LEMMA DisarmTimes ==
  ASSUME TimesInv, NEW n \in Nodes, Running(n), TakeOff(n), KernelFree,
         UNCHANGED <<rate, scan, remaining>>,
         TimersInv'
  PROVE  NeverLate' /\ (~ hurried' => (NearlyExact /\ InFront /\ TickTaken)')
<1>1. PICK v : v = WakeupDel(SetCounter(wu, n, 0), n)
  OBVIOUS
<1>2. LineOK(wu) /\ OnLine(wu, n)
  BY InvLine DEF TimesInv
<1>3. /\ \A m : OnLine(v, m) <=> OnLine(wu, m) /\ m # n
      /\ Uncharged(v) = Uncharged(wu) \ {n}
      /\ \A m : OnLine(wu, m) /\ m # n =>
           /\ TimeLeft(v, m) <= TimeLeft(wu, m)
           /\ wu.counter[n] = 0 \/ NextOf(wu, n) = NULL => TimeLeft(v, m) = TimeLeft(wu, m)
      /\ LineOK(v)
  BY <1>1, <1>2, ZeroDelTimes
<1>4. wu' = v /\ rate' = rate /\ scan' = scan /\ remaining' = remaining
  BY <1>1 DEF TakeOff
<1>5. PICK pend : pend = IF scan = "sleep" THEN {} ELSE Uncharged(v)
  OBVIOUS
<1>6. Pending' = pend
  BY <1>4, <1>5 DEF Pending
<1>7. pend = Pending \ {n}
  BY <1>3, <1>5 DEF Pending
<1>8. \A m \in Nodes : Running(m)' <=> OnLine(v, m)
  BY <1>4 DEF TimersInv, LineConsistent
<1>9. ASSUME NEW m \in Nodes, Running(m)'
      PROVE  /\ m # n /\ Running(m) /\ OnLine(wu, m)
             /\ TimeLeft(v, m) <= TimeLeft(wu, m)
             /\ owed'[m] = owed[m]
             /\ TimeLeft(v, m) \in Nat
  <2>1. OnLine(wu, m) /\ m # n /\ OnLine(v, m)
    BY <1>3, <1>8, <1>9
  <2>2. Running(m)
    BY <2>1, InvLine DEF TimesInv
  <2>3. TimeLeft(v, m) \in Nat
    BY <1>3, <2>1, TimeAt
  <2>4. QED BY <1>3, <2>1, <2>2, <2>3 DEF TimesInv, TimersInv, TypeOK, TakeOff
<1>10. /\ rate \in Nat \ {0} /\ remaining \in Nat
       /\ \A m \in Nodes : owed[m] \in Int
       /\ \A m \in Nodes : Running(m) => TimeLeft(wu, m) \in Nat
  BY Numbers DEF TimesInv
<1>11. NeverLate'
  <2> SUFFICES ASSUME NEW m \in Nodes, Running(m)'
               PROVE  /\ TimeLeft(v, m) <= owed'[m] + (IF m \in pend THEN remaining ELSE 0)
                      /\ m \in pend \/ owed'[m] > 0
    BY <1>4, <1>6 DEF NeverLate, Charge
  <2>1. /\ TimeLeft(wu, m) <= owed[m] + Charge(m)
        /\ m \in Pending \/ owed[m] > 0
    BY <1>9 DEF TimesInv, NeverLate
  <2>2. QED BY <1>7, <1>9, <1>10, <2>1 DEF Charge
<1>12. ASSUME ~ hurried'
       PROVE  /\ ~ hurried
              /\ \A m \in Nodes : Running(m)' => TimeLeft(v, m) = TimeLeft(wu, m)
  <2>1. ~ hurried /\ ~ (wu.counter[n] > 0 /\ NextOf(wu, n) # NULL)
    BY <1>12 DEF TakeOff
  <2>2. wu.counter[n] \in Nat
    BY <1>2, TimeAt
  <2>3. wu.counter[n] = 0 \/ NextOf(wu, n) = NULL
    BY <2>1, <2>2
  <2>4. QED BY <1>3, <1>9, <2>1, <2>3
<1>13. ASSUME ~ hurried' PROVE NearlyExact'
  <2> SUFFICES ASSUME NEW m \in Nodes, Running(m)'
               PROVE  /\ owed'[m] + (IF m \in pend THEN remaining ELSE 0) < TimeLeft(v, m) + rate
                      /\ m \in pend \/ TimeLeft(v, m) > 0
                      /\ m \in pend => remaining < rate + TimeLeft(v, m)
    BY <1>4, <1>6 DEF NearlyExact, Charge
  <2>1. /\ owed[m] + Charge(m) < TimeLeft(wu, m) + rate
        /\ m \in Pending \/ TimeLeft(wu, m) > 0
        /\ m \in Pending => remaining < rate + TimeLeft(wu, m)
    BY <1>9, <1>12, <1>13 DEF TimesInv, NearlyExact
  <2>2. QED BY <1>7, <1>9, <1>12, <1>13, <2>1 DEF Charge
<1>14. ASSUME ~ hurried' PROVE InFront'
  <2> SUFFICES ASSUME NEW a \in Nodes, NEW b \in Nodes, Running(a)', a \notin pend, b \in pend
               PROVE  remaining = 0 /\ TimeLeft(v, a) < TimeLeft(v, b)
    BY <1>4, <1>6 DEF InFront
  <2>1. Running(b)'
    BY <1>5, <1>8 DEF Uncharged
  <2>2. Running(a) /\ a \notin Pending /\ b \in Pending
    BY <1>7, <1>9
  <2>3. remaining = 0 /\ TimeLeft(wu, a) < TimeLeft(wu, b)
    BY <1>12, <1>14, <2>2 DEF TimesInv, InFront
  <2>4. QED BY <1>12, <1>14, <2>1, <2>3
<1>15. ASSUME ~ hurried' PROVE TickTaken'
  BY <1>4, <1>12, <1>15 DEF TimesInv, TickTaken
<1>16. QED BY <1>11, <1>13, <1>14, <1>15

\* A scan takes its ticks from all timers in owed, and has them all to charge.
LEMMA BeginTimes ==
  ASSUME TimesInv, Begin, TimersInv'
  PROVE  NeverLate' /\ (~ hurried' => (NearlyExact /\ InFront /\ TickTaken)')
<1>1. PICK v : v = ScanStart(wu)
  OBVIOUS
<1>2. /\ LineOK(v) /\ \A m : OnLine(v, m) <=> OnLine(wu, m)
      /\ \A m : TimeLeft(v, m) = TimeLeft(wu, m)
      /\ \A m \in Nodes : OnLine(wu, m) => m \in Uncharged(v)
  BY <1>1, InvLine, ScanStartTimes DEF TimesInv
<1>3. /\ wu' = v /\ rate' = rate /\ scan' = "scan" /\ scan = "sleep" /\ remaining' = rate
      /\ hurried' = hurried
      /\ \A m \in Nodes : Running(m)' <=> Running(m)
      /\ \A m \in Nodes : Running(m) => owed'[m] = owed[m] - rate
  BY <1>1 DEF Begin, timerVars, Running
<1>4. Pending' = Uncharged(v) /\ Pending = {}
  BY <1>3 DEF Pending
<1>5. /\ rate \in Nat \ {0}
      /\ \A m \in Nodes : owed[m] \in Int
      /\ \A m \in Nodes : Running(m) => OnLine(wu, m) /\ TimeLeft(wu, m) \in Nat
  BY Numbers DEF TimesInv
<1>6. \A m \in Nodes : Running(m) => m \in Uncharged(v)
  BY <1>2, <1>5
<1>7. NeverLate'
  <2> SUFFICES ASSUME NEW m \in Nodes, Running(m)
               PROVE  TimeLeft(v, m) <= owed'[m] + rate
    BY <1>3, <1>4, <1>6 DEF NeverLate, Charge
  <2>1. TimeLeft(wu, m) <= owed[m]
    BY <1>4, <1>5 DEF TimesInv, NeverLate, Charge
  <2>2. QED BY <1>2, <1>3, <1>5, <2>1
<1>8. ASSUME ~ hurried' PROVE NearlyExact'
  <2> SUFFICES ASSUME NEW m \in Nodes, Running(m)
               PROVE  /\ owed'[m] + rate < TimeLeft(v, m) + rate
                      /\ rate < rate + TimeLeft(v, m)
    BY <1>3, <1>4, <1>6 DEF NearlyExact, Charge
  <2>1. owed[m] < TimeLeft(wu, m) + rate /\ TimeLeft(wu, m) > 0
    BY <1>3, <1>4, <1>5, <1>8 DEF TimesInv, NearlyExact, Charge
  <2>2. QED BY <1>2, <1>3, <1>5, <2>1
<1>9. InFront'
  BY <1>3, <1>4, <1>6 DEF InFront
<1>10. TickTaken'
  BY <1>3 DEF TickTaken
<1>11. QED BY <1>7, <1>8, <1>9, <1>10

\* When it is over, nobody is due.
LEMMA EndTimes ==
  ASSUME TimesInv, End
  PROVE  /\ \A m \in Nodes : Running(m) => owed[m] > 0
         /\ NeverLate' /\ (~ hurried' => (NearlyExact /\ InFront /\ TickTaken)')
<1>1. LineOK(wu) /\ \A m \in Nodes : Running(m) <=> OnLine(wu, m)
  BY InvLine DEF TimesInv
<1>2. PICK v : v = wu'
  OBVIOUS
<1>3. /\ rate' = rate /\ scan' = "sleep" /\ scan = "scan" /\ hurried' = hurried
      /\ owed' = owed
      /\ \A m \in Nodes : Running(m)' <=> Running(m)
  BY DEF End, timerVars, Running
<1>4. /\ rate \in Nat \ {0} /\ remaining \in Nat
      /\ \A m \in Nodes : owed[m] \in Int
      /\ \A m \in Nodes : Running(m) => OnLine(wu, m) /\ TimeLeft(wu, m) \in Nat
  BY Numbers DEF TimesInv
<1>5. Pending = Uncharged(wu) /\ Pending' = {}
  BY <1>3 DEF Pending
<1>6. \A m \in Nodes : Running(m) =>
        /\ TimeLeft(v, m) = IF m \in Pending THEN TimeLeft(wu, m) - remaining
                            ELSE TimeLeft(wu, m)
        /\ m \in Pending => TimeLeft(wu, m) > remaining
  <2>1. CASE ScanAtEnd(wu) /\ UNCHANGED wu
    <3>1. Pending = {} /\ v = wu
      BY <1>2, <1>5, <2>1 DEF ScanAtEnd, Uncharged
    <3>2. QED BY <3>1
  <2>2. CASE ScanStops(wu, remaining) /\ wu' = StopAt(wu, remaining)
    <3>1. v = StopAt(wu, remaining)
      BY <1>2, <2>2
    <3>2. \A m \in Nodes : OnLine(wu, m) =>
            TimeLeft(v, m) = IF m \in Uncharged(wu) THEN TimeLeft(wu, m) - remaining
                             ELSE TimeLeft(wu, m)
      BY <1>1, <1>4, <2>2, <3>1, StopAtTimes
    <3>3. ASSUME NEW m \in Nodes, m \in Uncharged(wu) PROVE TimeLeft(wu, m) > remaining
      <4>1. PICK o, c : o = wu.op /\ c = wu.counter[o]
        OBVIOUS
      <4>2. /\ o \in Uncharged(wu)
            /\ c <= TimeLeft(wu, o)
            /\ TimeLeft(wu, o) <= TimeLeft(wu, m)
        BY <1>1, <3>3, <4>1, OpNext
      <4>3. c > remaining
        BY <2>2, <4>1 DEF ScanStops
      <4>4. TimeLeft(wu, o) \in Nat /\ TimeLeft(wu, m) \in Nat /\ c \in Nat
        BY <1>1, <3>3, <4>1, <4>2, TimeAt DEF Uncharged
      <4>5. QED BY <1>4, <4>2, <4>3, <4>4
    <3>4. QED BY <1>1, <1>5, <3>2, <3>3
  <2>3. QED BY <2>1, <2>2 DEF End
<1>7. \A m \in Nodes : Running(m) =>
        /\ TimeLeft(wu, m) <= owed[m] + Charge(m)
        /\ m \in Pending \/ owed[m] > 0
  BY DEF TimesInv, NeverLate
<1>8. ASSUME NEW m \in Nodes, Running(m) PROVE owed[m] > 0 /\ TimeLeft(v, m) <= owed[m]
  BY <1>4, <1>6, <1>7, <1>8 DEF Charge
<1>9. NeverLate'
  BY <1>2, <1>3, <1>4, <1>5, <1>8 DEF NeverLate, Charge
<1>10. ASSUME ~ hurried' PROVE NearlyExact'
  <2> SUFFICES ASSUME NEW m \in Nodes, Running(m)
               PROVE  owed[m] < TimeLeft(v, m) + rate /\ TimeLeft(v, m) > 0
    BY <1>2, <1>3, <1>4, <1>5 DEF NearlyExact, Charge
  <2>1. /\ owed[m] + Charge(m) < TimeLeft(wu, m) + rate
        /\ m \in Pending \/ TimeLeft(wu, m) > 0
    BY <1>3, <1>10 DEF TimesInv, NearlyExact
  <2>2. QED BY <1>4, <1>6, <2>1 DEF Charge
<1>11. InFront' /\ TickTaken'
  BY <1>3, <1>5 DEF InFront, TickTaken
<1>12. QED BY <1>8, <1>9, <1>10, <1>11

\* The timer that fires is the first of the line, and has taken a tick of the scan,
\* unless timers have been hurried.
LEMMA FiresFirst ==
  ASSUME TimesInv, NEW n \in Nodes, Fire(n)
  PROVE  /\ LineOK(wu) /\ n \in Pending /\ Running(n) /\ n # NULL
         /\ wu.counter[n] \in Nat /\ wu.counter[n] <= remaining
         /\ ~ hurried => /\ \A m \in Nodes : Running(m) => m \in Pending
                         /\ remaining - wu.counter[n] < rate
                         /\ owed[n] < rate
<1>1. LineOK(wu) /\ (\A m \in Nodes : Running(m) <=> OnLine(wu, m))
  BY InvLine DEF TimesInv
<1>2. scan = "scan" /\ wu.op = n /\ wu.op # NULL /\ wu.counter[n] <= remaining
  BY DEF Fire, ScanExpires
<1>3. OnLine(wu, n) /\ Running(n)
  BY <1>1, <1>2 DEF LineOK
<1>4. wu.counter[n] \in Nat /\ PlaceOf(wu, n) \in Nat
  <2>1. /\ PlaceOf(wu, n) \in 1..Len(wu.list) /\ Len(wu.list) \in Nat
        /\ wu.counter[n] \in Nat
    BY <1>1, <1>3, TimeAt
  <2>2. QED BY <2>1
<1>5. Pending = Uncharged(wu) /\ n \in Pending
  BY <1>2, <1>3, <1>4 DEF Pending, Uncharged
<1>6. /\ rate \in Nat \ {0} /\ remaining \in Nat
      /\ \A m \in Nodes : owed[m] \in Int
      /\ \A m \in Nodes : Running(m) => OnLine(wu, m) /\ TimeLeft(wu, m) \in Nat
  BY Numbers DEF TimesInv
<1>7. ASSUME ~ hurried PROVE \A m \in Nodes : Running(m) => m \in Pending
  <2> SUFFICES ASSUME NEW m \in Nodes, Running(m), m \notin Pending PROVE FALSE
    OBVIOUS
  <2>1. InFront
    BY <1>7 DEF TimesInv
  <2>2. PICK h \in Nodes : /\ OnLine(wu, h) /\ h \notin Uncharged(wu)
                           /\ TimeLeft(wu, n) = TimeLeft(wu, h) + wu.counter[n]
    BY <1>1, <1>2, <1>5, OpBehind
  <2>3. remaining = 0 /\ TimeLeft(wu, h) < TimeLeft(wu, n)
    BY <1>1, <1>5, <2>1, <2>2 DEF InFront
  <2>4. wu.counter[n] = 0
    BY <1>2, <1>4, <2>3
  <2>5. TimeLeft(wu, h) \in Nat
    BY <1>1, <2>2, TimeAt
  <2>6. QED BY <2>2, <2>3, <2>4, <2>5
<1>8. ASSUME ~ hurried PROVE remaining - wu.counter[n] < rate /\ owed[n] < rate
  <2>1. \A m \in Nodes : OnLine(wu, m) => m \in Uncharged(wu)
    BY <1>1, <1>5, <1>7, <1>8
  <2>2. TimeLeft(wu, n) = wu.counter[n]
    BY <1>1, <1>2, <2>1, OpFirst
  <2>3. /\ owed[n] + Charge(n) < TimeLeft(wu, n) + rate
        /\ remaining < rate + TimeLeft(wu, n)
    BY <1>3, <1>5, <1>8 DEF TimesInv, NearlyExact
  <2>4. owed[n] + remaining < wu.counter[n] + rate /\ remaining < rate + wu.counter[n]
    BY <1>5, <2>2, <2>3 DEF Charge
  <2>5. owed[n] \in Int
    BY <1>6
  <2>6. QED BY <1>2, <1>4, <1>6, <2>4, <2>5
<1>9. QED BY <1>1, <1>2, <1>3, <1>4, <1>5, <1>7, <1>8

LEMMA FireTimes ==
  ASSUME TimesInv, NEW n \in Nodes, Fire(n), TimersInv'
  PROVE  NeverLate' /\ (~ hurried' => (NearlyExact /\ InFront /\ TickTaken)')
<1>1. /\ LineOK(wu) /\ n \in Pending /\ Running(n) /\ n # NULL
      /\ wu.counter[n] \in Nat /\ wu.counter[n] <= remaining
      /\ ~ hurried => /\ \A m \in Nodes : Running(m) => m \in Pending
                      /\ remaining - wu.counter[n] < rate
  BY FiresFirst
<1>2. PICK w, v, c, left, ticks :
        /\ w = WakeupDel(ExpireAt(wu), n) /\ v = wu' /\ c = wu.counter[n]
        /\ left = remaining - c /\ ticks = save[n]
  OBVIOUS
<1>3. /\ scan = "scan" /\ scan' = "callback" /\ wu.op = n /\ rate' = rate
      /\ remaining' = left /\ wu' = v
      /\ hurried' = (hurried \/ Overtaken(v, left))
  BY <1>2 DEF Fire
<1>4. /\ LineOK(w)
      /\ \A m : OnLine(w, m) <=> OnLine(wu, m) /\ m # n
      /\ Uncharged(w) = Uncharged(wu) \ {n}
      /\ \A m \in Nodes : OnLine(wu, m) /\ m # n =>
           TimeLeft(w, m) = IF m \in Uncharged(wu) THEN TimeLeft(wu, m) - wu.counter[n]
                            ELSE TimeLeft(wu, m)
  BY <1>1, <1>2, <1>3, ExpireDelTimes
<1>5. Pending = Uncharged(wu) /\ Pending' = Uncharged(v)
  BY <1>3 DEF Pending
<1>6. /\ rate \in Nat \ {0} /\ remaining \in Nat
      /\ \A m \in Nodes : owed[m] \in Int /\ save[m] \in Nat
      /\ \A m \in Nodes : Running(m) => OnLine(wu, m) /\ TimeLeft(wu, m) \in Nat
  BY Numbers DEF TimesInv
<1>7. c \in Nat /\ left \in Nat
  BY <1>1, <1>2, <1>6
\* n is behind the scan now, or back on the line for its period.
<1>8. /\ auto[n] => /\ v = WakeupAdd(SetCounter(w, n, ticks), n)
                    /\ owed' = [owed EXCEPT ![n] = ticks]
                    /\ ticks \in Nat \ {0}
      /\ ~ auto[n] => v = w /\ owed' = [owed EXCEPT ![n] = 0]
  <2>1. auto[n] => save[n] # 0
    BY DEF TimesInv, AskedFor
  <2>2. QED BY <1>2, <1>6, <2>1 DEF Fire
<1>9. ~ OnLine(w, n)
  BY <1>4
<1>10. /\ LineOK(v) /\ v.op = w.op
       /\ \A m : m # n => (OnLine(v, m) <=> OnLine(w, m))
       /\ \A m : OnLine(w, m) => TimeLeft(v, m) = TimeLeft(w, m)
       /\ Uncharged(v) \ {n} = Uncharged(w)
       /\ OnLine(v, n) => /\ TimeLeft(v, n) = ticks /\ owed'[n] = ticks /\ ticks \in Nat \ {0}
                          /\ \A m : OnLine(w, m) /\ PlaceOf(v, n) <= PlaceOf(v, m) =>
                               ticks < TimeLeft(v, m)
  <2>1. CASE auto[n]
    <3>1. v = WakeupAdd(SetCounter(w, n, ticks), n) /\ ticks \in Nat
      BY <1>8, <2>1
    <3>2. /\ LineOK(v) /\ v.op = w.op
          /\ \A m : OnLine(v, m) <=> OnLine(w, m) \/ m = n
          /\ TimeLeft(v, n) = ticks
          /\ \A m : OnLine(w, m) => TimeLeft(v, m) = TimeLeft(w, m)
          /\ Uncharged(v) \ {n} = Uncharged(w)
          /\ \A m : OnLine(w, m) /\ PlaceOf(v, n) <= PlaceOf(v, m) => ticks < TimeLeft(v, m)
      BY <1>4, <1>9, <3>1, RequeueTimes
    <3>3. owed'[n] = ticks /\ ticks \in Nat \ {0}
      BY <1>8, <2>1 DEF TimesInv, TimersInv, TypeOK
    <3>4. QED BY <3>2, <3>3
  <2>2. CASE ~ auto[n]
    <3>1. v = w /\ n \notin Uncharged(w)
      BY <1>4, <1>8, <2>2
    <3>2. QED BY <1>4, <1>9, <3>1
  <2>3. QED BY <2>1, <2>2
<1>11. \A m \in Nodes : Running(m)' <=> OnLine(v, m)
  BY <1>3 DEF TimersInv, LineConsistent
<1>12. ASSUME NEW m \in Nodes, m # n, Running(m)'
       PROVE  /\ Running(m) /\ OnLine(w, m) /\ owed'[m] = owed[m]
              /\ TimeLeft(v, m) = IF m \in Pending THEN TimeLeft(wu, m) - c ELSE TimeLeft(wu, m)
              /\ m \in Uncharged(v) <=> m \in Pending
  <2>1. OnLine(w, m) /\ OnLine(wu, m)
    BY <1>4, <1>10, <1>11, <1>12
  <2>2. Running(m)
    BY <2>1, InvLine DEF TimesInv
  <2>3. owed'[m] = owed[m]
    BY <1>8, <1>12 DEF TimesInv, TimersInv, TypeOK
  <2>4. TimeLeft(v, m) = IF m \in Pending THEN TimeLeft(wu, m) - c ELSE TimeLeft(wu, m)
    BY <1>2, <1>4, <1>5, <1>10, <1>12, <2>1
  <2>5. m \in Uncharged(v) <=> m \in Pending
    BY <1>4, <1>5, <1>10, <1>12
  <2>6. QED BY <2>1, <2>2, <2>3, <2>4, <2>5
<1>13. NeverLate'
  <2> SUFFICES ASSUME NEW m \in Nodes, Running(m)'
               PROVE  /\ TimeLeft(v, m) <= owed'[m] + (IF m \in Uncharged(v) THEN left ELSE 0)
                      /\ m \in Uncharged(v) \/ owed'[m] > 0
    BY <1>3, <1>5 DEF NeverLate, Charge
  <2>1. CASE m = n
    BY <1>7, <1>10, <1>11, <2>1
  <2>2. CASE m # n
    <3>1. /\ TimeLeft(wu, m) <= owed[m] + Charge(m)
          /\ m \in Pending \/ owed[m] > 0
          /\ TimeLeft(wu, m) \in Nat /\ owed[m] \in Int
      BY <1>6, <1>12, <2>2 DEF TimesInv, NeverLate
    <3>2. QED BY <1>2, <1>6, <1>7, <1>12, <2>2, <3>1 DEF Charge
  <2>3. QED BY <2>1, <2>2
<1>14. ASSUME ~ hurried'
       PROVE  /\ ~ hurried /\ ~ Overtaken(v, left) /\ left < rate
              /\ \A m \in Nodes : Running(m) => m \in Pending
  BY <1>1, <1>2, <1>3, <1>14
<1>15. ASSUME ~ hurried' PROVE NearlyExact'
  <2> SUFFICES ASSUME NEW m \in Nodes, Running(m)'
               PROVE  /\ owed'[m] + (IF m \in Uncharged(v) THEN left ELSE 0)
                           < TimeLeft(v, m) + rate
                      /\ m \in Uncharged(v) \/ TimeLeft(v, m) > 0
                      /\ m \in Uncharged(v) => left < rate + TimeLeft(v, m)
    BY <1>3, <1>5 DEF NearlyExact, Charge
  <2>1. CASE m = n
    BY <1>6, <1>7, <1>10, <1>11, <1>14, <1>15, <2>1
  <2>2. CASE m # n
    <3>1. /\ owed[m] + remaining < TimeLeft(wu, m) + rate
          /\ remaining < rate + TimeLeft(wu, m)
          /\ TimeLeft(wu, m) \in Nat /\ owed[m] \in Int /\ m \in Pending
      BY <1>6, <1>12, <1>14, <1>15, <2>2 DEF TimesInv, NearlyExact, Charge
    <3>2. QED BY <1>2, <1>6, <1>7, <1>12, <2>2, <3>1
  <2>3. QED BY <2>1, <2>2
<1>16. ASSUME ~ hurried' PROVE InFront'
  <2> SUFFICES ASSUME NEW a \in Nodes, NEW b \in Nodes, Running(a)',
                      a \notin Uncharged(v), b \in Uncharged(v)
               PROVE  left = 0 /\ TimeLeft(v, a) < TimeLeft(v, b)
    BY <1>3, <1>5 DEF InFront
  <2>1. a = n
    BY <1>12, <1>14, <1>16
  <2>2. b # n /\ OnLine(w, b) /\ OnLine(v, a) /\ OnLine(v, b) /\ v.op # NULL
    BY <1>10, <1>11, <2>1 DEF Uncharged
  <2>3. left = 0
    <3>1. First(v) # v.op
      BY <1>10, <2>2, FirstIsOp
    <3>2. QED BY <1>7, <1>14, <1>16, <2>2, <3>1 DEF Overtaken
  <2>4. PICK i, j, o : i = PlaceOf(v, n) /\ j = PlaceOf(v, b) /\ o = PlaceOf(v, v.op)
    OBVIOUS
  <2>5. i \in Nat /\ j \in Nat /\ o \in Nat
    <3>1. OnLine(v, n) /\ OnLine(v, v.op)
      BY <1>10, <2>1, <2>2 DEF LineOK
    <3>2. /\ i \in 1..Len(v.list) /\ j \in 1..Len(v.list) /\ o \in 1..Len(v.list)
          /\ Len(v.list) \in Nat
      BY <1>10, <2>2, <2>4, <3>1, TimeAt
    <3>3. QED BY <3>2
  <2>6. o <= j /\ ~ (o <= i)
    BY <2>1, <2>2, <2>4 DEF Uncharged
  <2>7. i <= j
    BY <2>5, <2>6
  <2>8. QED BY <1>10, <2>1, <2>2, <2>3, <2>4, <2>7
<1>17. ASSUME ~ hurried' PROVE TickTaken'
  BY <1>3, <1>14, <1>17 DEF TickTaken
<1>18. QED BY <1>13, <1>15, <1>16, <1>17

\* A timer that is created is on no line.
LEMMA CreateTimes ==
  ASSUME TimesInv, NEW n \in Nodes, Create(n), TimersInv'
  PROVE  /\ NeverLate' /\ (~ hurried' => (NearlyExact /\ InFront /\ TickTaken)')
         /\ \A m \in Nodes : Running(m)' <=> Running(m)
<1>1. PICK v : v = SetCounter(wu, n, 0)
  OBVIOUS
<1>2. LineOK(wu) /\ ~ Running(n) /\ ~ OnLine(wu, n)
  BY InvLine DEF TimesInv, TimersInv, LineConsistent, Create
<1>3. /\ wu' = v /\ rate' = rate /\ scan' = scan /\ remaining' = remaining
      /\ hurried' = hurried /\ owed' = owed
      /\ status' = [status EXCEPT ![n] = "STOP"]
  BY <1>1 DEF Create
<1>4. \A m \in Nodes : Running(m)' <=> Running(m)
  BY <1>2, <1>3 DEF Running, TimesInv, TimersInv, TypeOK
<1>5. \A m : TimeLeft(v, m) = TimeLeft(wu, m)
  BY <1>1, <1>2, CounterOffLine
<1>6. Uncharged(v) = Uncharged(wu)
  BY <1>1, SameListUncharged DEF SetCounter
<1>7. Pending' = Pending
  BY <1>3, <1>6 DEF Pending
<1>8. NeverLate'
  BY <1>3, <1>4, <1>5, <1>7 DEF TimesInv, NeverLate, Charge
<1>9. ASSUME ~ hurried' PROVE NearlyExact' /\ InFront' /\ TickTaken'
  <2>1. NearlyExact /\ InFront /\ TickTaken
    BY <1>3, <1>9 DEF TimesInv
  <2>2. NearlyExact'
    BY <1>3, <1>4, <1>5, <1>7, <2>1 DEF NearlyExact, Charge
  <2>3. InFront'
    BY <1>3, <1>4, <1>5, <1>7, <2>1 DEF InFront
  <2>4. TickTaken'
    BY <1>3, <2>1 DEF TickTaken
  <2>5. QED BY <2>2, <2>3, <2>4
<1>10. QED BY <1>4, <1>8, <1>9

LEMMA NextAskedFor ==
  ASSUME TimersInv, AskedFor, [Next]_vars
  PROVE  AskedFor'
<1>1. save \in [Nodes -> Nat] /\ auto \in [Nodes -> BOOLEAN]
  BY DEF TimersInv, TypeOK
<1>2. CASE UNCHANGED <<save, auto>>
  BY <1>2 DEF AskedFor
<1>3. ASSUME NEW n \in Nodes, Create(n) PROVE AskedFor'
  BY <1>1, <1>3 DEF AskedFor, Create
<1>4. ASSUME NEW n \in Nodes, NEW init \in Ticks, NEW period \in Periods,
             NEW repeat \in BOOLEAN, Start(n, init, period, repeat)
      PROVE  AskedFor'
  <2> SUFFICES ASSUME NEW m \in Nodes
               PROVE  save'[m] \in Periods \cup {0} /\ (auto'[m] => save'[m] # 0)
    BY DEF AskedFor
  <2>1. CASE m = n
    <3>1. save'[m] = period
      BY <1>1, <1>4, <2>1 DEF Start
    <3>2. auto'[m] = repeat
      BY <1>1, <1>4, <2>1, Zenon DEF Start
    <3>3. repeat => period # 0
      BY <1>4 DEF Start
    <3>4. QED BY <3>1, <3>2, <3>3
  <2>2. CASE m # n
    <3>1. save'[m] = save[m]
      BY <1>1, <1>4, <2>2 DEF Start
    <3>2. auto'[m] = auto[m]
      BY <1>1, <1>4, <2>2, Zenon DEF Start
    <3>3. QED BY <3>1, <3>2 DEF AskedFor
  <2>3. QED BY <2>1, <2>2
<1>5. CASE Begin \/ End \/ CallbackReturn
  BY <1>2, <1>5 DEF Begin, End, CallbackReturn, timerVars
<1>6. ASSUME NEW n \in Nodes, Fire(n) \/ Reset(n) \/ Cancel(n) \/ Delete(n) PROVE AskedFor'
  BY <1>2, <1>6 DEF Fire, Reset, Cancel, Delete, timerVars
<1>7. CASE UNCHANGED vars
  BY <1>2, <1>7 DEF vars, timerVars
<1>8. QED BY <1>3, <1>4, <1>5, <1>6, <1>7 DEF Next

LEMMA NextSpent ==
  ASSUME Spent, [Next]_vars
  PROVE  Spent'
<1>1. CASE Begin \/ End \/ CallbackReturn
  BY <1>1 DEF Spent, Begin, End, CallbackReturn
<1>2. ASSUME NEW n \in Nodes, Fire(n) \/ Create(n) \/ Reset(n) \/ Cancel(n) \/ Delete(n)
      PROVE  Spent'
  BY <1>2 DEF Spent, Fire, Create, Reset, Cancel, Delete
<1>3. ASSUME NEW n \in Nodes, NEW init \in Ticks, NEW period \in Periods,
             NEW repeat \in BOOLEAN, Start(n, init, period, repeat)
      PROVE  Spent'
  BY <1>3 DEF Spent, Start
<1>4. CASE UNCHANGED vars
  BY <1>4 DEF Spent, vars
<1>5. QED BY <1>1, <1>2, <1>3, <1>4 DEF Next

\* A step that moves no tick.
LEMMA SameTimes ==
  ASSUME TimesInv,
         UNCHANGED <<scan, wu, remaining, owed, rate, hurried>>,
         \A m \in Nodes : Running(m)' <=> Running(m)
  PROVE  NeverLate' /\ (~ hurried' => (NearlyExact /\ InFront /\ TickTaken)')
<1>1. Pending' = Pending
  BY DEF Pending
<1>2. NeverLate'
  BY <1>1 DEF TimesInv, NeverLate, Charge
<1>3. ~ hurried' => NearlyExact'
  BY <1>1 DEF TimesInv, NearlyExact, Charge
<1>4. ~ hurried' => InFront'
  BY <1>1 DEF TimesInv, InFront
<1>5. ~ hurried' => TickTaken'
  BY DEF TimesInv, TickTaken
<1>6. QED BY <1>2, <1>3, <1>4, <1>5

\* A start or a reset is ArmTimes with the ticks that were asked for.
LEMMA StartArms ==
  ASSUME TimesInv, NEW n \in Nodes, NEW init \in Ticks, NEW period \in Periods,
         NEW repeat \in BOOLEAN, Start(n, init, period, repeat), TimersInv'
  PROVE  NeverLate' /\ (~ hurried' => (NearlyExact /\ InFront /\ TickTaken)')
<1>1. init \in Nat \ {0}
  BY TimersAssumption
<1>2. PICK u : u = IF Running(n) THEN WakeupDel(wu, n) ELSE wu
  OBVIOUS
<1>3. /\ KernelFree
      /\ wu' = WakeupAdd(SetCounter(u, n, init), n)
      /\ owed' = [owed EXCEPT ![n] = init]
      /\ hurried' = (hurried \/ Overtaken(wu', remaining))
      /\ UNCHANGED <<rate, scan, remaining>>
  BY <1>2 DEF Start
<1>4. QED BY <1>1, <1>2, <1>3, ArmTimes

LEMMA ResetArms ==
  ASSUME TimesInv, NEW n \in Nodes, Reset(n), TimersInv'
  PROVE  NeverLate' /\ (~ hurried' => (NearlyExact /\ InFront /\ TickTaken)')
<1>1. PICK ticks : ticks = save[n]
  OBVIOUS
<1>2. ticks \in Nat \ {0}
  BY <1>1 DEF Reset, TimesInv, TimersInv, TypeOK
<1>3. PICK u : u = IF Running(n) THEN WakeupDel(wu, n) ELSE wu
  OBVIOUS
<1>4. /\ KernelFree
      /\ wu' = WakeupAdd(SetCounter(u, n, ticks), n)
      /\ owed' = [owed EXCEPT ![n] = ticks]
      /\ hurried' = (hurried \/ Overtaken(wu', remaining))
      /\ UNCHANGED <<rate, scan, remaining>>
  BY <1>1, <1>3 DEF Reset
<1>5. QED BY <1>2, <1>3, <1>4, ArmTimes

LEMMA InitTimes == Init => TimesInv
<1> SUFFICES ASSUME Init PROVE TimesInv
  OBVIOUS
<1>1. TimersInv
  BY InitInv
<1>2. \A m \in Nodes : ~ Running(m) /\ save[m] = 0 /\ auto[m] = FALSE
  BY Zenon DEF Init, Running
<1>3. Pending = {} /\ scan = "sleep"
  BY DEF Init, Pending
<1>4. Spent
  BY DEF Init, Spent
<1>5. QED BY <1>1, <1>2, <1>3, <1>4
          DEF TimesInv, AskedFor, NeverLate, NearlyExact, InFront, TickTaken

LEMMA NextTimes == TimesInv /\ [Next]_vars => TimesInv'
<1> SUFFICES ASSUME TimesInv, [Next]_vars PROVE TimesInv'
  OBVIOUS
<1>1. TimersInv'
  BY NextInv DEF TimesInv
<1>2. AskedFor' /\ Spent'
  BY NextAskedFor, NextSpent DEF TimesInv
<1> DEFINE Goal == NeverLate' /\ (~ hurried' => (NearlyExact /\ InFront /\ TickTaken)')
<1>3. ASSUME Begin PROVE Goal
  BY <1>1, <1>3, BeginTimes
<1>4. ASSUME End PROVE Goal
  BY <1>4, EndTimes
<1>5. ASSUME CallbackReturn PROVE Goal
  <2>1. /\ scan = "callback" /\ scan' = "scan" /\ wu' = wu /\ remaining' = remaining
        /\ owed' = owed /\ rate' = rate /\ hurried' = hurried
        /\ \A m \in Nodes : Running(m)' <=> Running(m)
    BY <1>5 DEF CallbackReturn, timerVars, Running
  <2>2. Pending' = Pending
    BY <2>1 DEF Pending
  <2>3. NeverLate'
    BY <2>1, <2>2 DEF TimesInv, NeverLate, Charge
  <2>4. ~ hurried' => NearlyExact'
    BY <2>1, <2>2 DEF TimesInv, NearlyExact, Charge
  <2>5. ~ hurried' => InFront'
    BY <2>1, <2>2 DEF TimesInv, InFront
  <2>6. TickTaken'
    BY <2>1 DEF TickTaken
  <2>7. QED BY <2>3, <2>4, <2>5, <2>6
<1>6. ASSUME NEW n \in Nodes, Fire(n) PROVE Goal
  BY <1>1, <1>6, FireTimes
<1>7. ASSUME NEW n \in Nodes, Create(n) PROVE Goal
  BY <1>1, <1>7, CreateTimes
<1>8. ASSUME NEW n \in Nodes, Reset(n) PROVE Goal
  BY <1>1, <1>8, ResetArms
<1>9. ASSUME NEW n \in Nodes, Cancel(n) PROVE Goal
  BY <1>1, <1>9, DisarmTimes DEF Cancel
<1>10. ASSUME UNCHANGED vars PROVE Goal
  <2>1. /\ scan' = scan /\ wu' = wu /\ remaining' = remaining
        /\ owed' = owed /\ rate' = rate /\ hurried' = hurried
        /\ \A m \in Nodes : Running(m)' <=> Running(m)
    BY <1>10 DEF vars, timerVars, Running
  <2>2. QED BY <2>1, SameTimes
<1>11. ASSUME NEW n \in Nodes, Delete(n) PROVE Goal
  <2>1. CASE Running(n) /\ TakeOff(n)
    BY <1>1, <1>11, <2>1, DisarmTimes DEF Delete
  <2>2. CASE ~ Running(n) /\ UNCHANGED <<wu, status, owed, hurried>>
    <3>1. /\ scan' = scan /\ wu' = wu /\ remaining' = remaining
          /\ owed' = owed /\ rate' = rate /\ hurried' = hurried
          /\ \A m \in Nodes : Running(m)' <=> Running(m)
      BY <1>11, <2>2 DEF Delete, Running
    <3>2. QED BY <3>1, SameTimes
  <2>3. QED BY <1>11, <2>1, <2>2 DEF Delete
<1>12. ASSUME NEW n \in Nodes, NEW init \in Ticks, NEW period \in Periods,
              NEW repeat \in BOOLEAN, Start(n, init, period, repeat)
       PROVE  Goal
  BY <1>1, <1>12, StartArms
<1>13. Goal
  BY <1>3, <1>4, <1>5, <1>6, <1>7, <1>8, <1>9, <1>10, <1>11, <1>12 DEF Next
<1>14. QED BY <1>1, <1>2, <1>13 DEF TimesInv

LEMMA TimesInvariance == Spec => []TimesInv
<1>1. Init => TimesInv
  BY InitTimes
<1>2. TimesInv /\ [Next]_vars => TimesInv'
  BY NextTimes
<1>3. QED BY <1>1, <1>2, PTL DEF Spec

-----------------------------------------------------------------------------
(* Every step of the timers is a step of the service, or invisible to it.  *)

LEMMA InitService == Init => Service!Init
  BY DEF Init, Service!Init, Running

\* A timer is put on the line.
LEMMA ArmService ==
  ASSUME TimesInv, NEW n \in Nodes, NEW ticks \in Ticks \cup (Periods \ {0}), KernelFree,
         owed' = [owed EXCEPT ![n] = ticks],
         hurried' = (hurried \/ Overtaken(wu', remaining)),
         UNCHANGED <<rate, scan, remaining>>,
         \A m \in Nodes : Running(m)' <=> Running(m) \/ m = n
  PROVE  Service!Arm(n)
<1>1. {m \in Nodes : Running(m)}' = {m \in Nodes : Running(m)} \cup {n}
  OBVIOUS
<1>2. UNCHANGED hurried \/ (scan = "callback" /\ rate > 1 /\ hurried' = TRUE)
  <2>1. CASE hurried \/ ~ Overtaken(wu', remaining)
    BY <2>1 DEF TimesInv, TimersInv, TypeOK
  <2>2. CASE ~ hurried /\ Overtaken(wu', remaining)
    <3>1. remaining \in Nat /\ rate \in Nat /\ remaining > 0 /\ hurried' = TRUE
      BY <2>2, Numbers DEF TimesInv, Overtaken
    <3>2. scan = "callback"
      BY <3>1 DEF KernelFree, TimesInv, TimersInv, TypeOK, Spent
    <3>3. remaining < rate
      BY <2>2, <3>2 DEF TimesInv, TickTaken
    <3>4. QED BY <3>1, <3>2, <3>3
  <2>3. QED BY <2>1, <2>2
<1>3. QED BY <1>1, <1>2 DEF Service!Arm, Service!Armed, Service!ArmsInScan, KernelFree

\* A timer is taken off it.
LEMMA DisarmService ==
  ASSUME TimesInv, NEW n \in Nodes, Running(n), TakeOff(n), KernelFree, UNCHANGED <<rate, scan>>
  PROVE  Service!Disarm(n)
<1>1. \A m \in Nodes : Running(m)' <=> Running(m) /\ m # n
  BY DEF TakeOff, Running, TimesInv, TimersInv, TypeOK
<1>2. {m \in Nodes : Running(m)}' = {m \in Nodes : Running(m)} \ {n}
  BY <1>1
<1>3. hurried' \in {hurried, TRUE}
  BY DEF TakeOff, TimesInv, TimersInv, TypeOK
<1>4. QED BY <1>2, <1>3 DEF Service!Disarm, Service!Disarmed, KernelFree, TakeOff

\* Nobody is in front of the scan when a timer has left the line.
LEMMA FiresAlone ==
  ASSUME TimesInv, NEW n \in Nodes, Fire(n), ~ hurried, wu' = WakeupDel(ExpireAt(wu), n)
  PROVE  ~ Overtaken(wu', remaining')
<1>1. PICK v : v = WakeupDel(ExpireAt(wu), n)
  OBVIOUS
<1>2. LineOK(wu) /\ n # NULL /\ n = wu.op /\ \A m \in Nodes : Running(m) => m \in Pending
  BY FiresFirst DEF Fire
<1>3. /\ LineOK(v)
      /\ \A m : OnLine(v, m) <=> OnLine(wu, m) /\ m # n
      /\ Uncharged(v) = Uncharged(wu) \ {n}
  BY <1>1, <1>2, ExpireDelTimes
<1>4. SUFFICES ASSUME v.op # NULL PROVE First(v) = v.op
  BY <1>1 DEF Overtaken
<1>5. \A m \in Nodes : OnLine(v, m) => m \in Uncharged(v)
  <2>1. Pending = Uncharged(wu)
    BY DEF Pending, Fire
  <2>2. QED BY <1>2, <1>3, <2>1, InvLine DEF TimesInv
<1>6. QED BY <1>3, <1>4, <1>5, OpIsFirst

\* A timer fires.
LEMMA FireService ==
  ASSUME TimesInv, NEW n \in Nodes, Fire(n)
  PROVE  Service!Fire(n)
<1>1. /\ Running(n) /\ wu.counter[n] \in Nat /\ wu.counter[n] <= remaining
      /\ ~ hurried => remaining - wu.counter[n] < rate /\ owed[n] < rate
  BY FiresFirst
<1>2. scan = "scan" /\ scan' = "callback" /\ rate' = rate
      /\ hurried' = (hurried \/ Overtaken(wu', remaining'))
      /\ remaining' = remaining - wu.counter[n]
  BY DEF Fire
<1>3. CASE auto[n]
  <2>1. status' = status /\ owed' = [owed EXCEPT ![n] = save[n]]
    BY <1>3 DEF Fire
  <2>2. {m \in Nodes : Running(m)}' = {m \in Nodes : Running(m)} \cup {n}
    BY <1>1, <2>1 DEF Running
  <2>3. save[n] \in Periods \ {0}
    BY <1>3 DEF TimesInv, AskedFor
  <2>4. UNCHANGED hurried \/ (rate > 1 /\ hurried' = TRUE)
    <3>1. CASE hurried \/ ~ Overtaken(wu', remaining')
      BY <1>2, <3>1 DEF TimesInv, TimersInv, TypeOK
    <3>2. CASE ~ hurried /\ Overtaken(wu', remaining')
      <4>1. remaining' > 0 /\ hurried' = TRUE /\ remaining' < rate
        BY <1>1, <1>2, <3>2 DEF Overtaken
      <4>2. rate \in Nat /\ remaining \in Nat
        BY Numbers DEF TimesInv
      <4>3. QED BY <1>1, <1>2, <4>1, <4>2
    <3>3. QED BY <3>1, <3>2
  <2>5. QED BY <1>1, <1>2, <2>1, <2>2, <2>3, <2>4
            DEF Service!Fire, Service!Armed, Service!ArmsInScan
<1>4. CASE ~ auto[n]
  <2>1. status' = [status EXCEPT ![n] = "STOP"] /\ owed' = [owed EXCEPT ![n] = 0]
        /\ wu' = WakeupDel(ExpireAt(wu), n)
    BY <1>4 DEF Fire
  <2>2. {m \in Nodes : Running(m)}' = {m \in Nodes : Running(m)} \ {n}
    BY <2>1 DEF Running, TimesInv, TimersInv, TypeOK
  <2>3. hurried' = hurried
    <3>1. SUFFICES ASSUME ~ hurried PROVE ~ Overtaken(wu', remaining')
      BY <1>2 DEF TimesInv, TimersInv, TypeOK
    <3>2. QED BY <1>2, <2>1, <3>1, FiresAlone
  <2>4. QED BY <1>1, <1>2, <2>1, <2>2, <2>3 DEF Service!Fire, Service!Disarmed
<1>5. QED BY <1>3, <1>4

LEMMA StepService == TimesInv /\ [Next]_vars => [Service!Next]_Service!vars
<1> SUFFICES ASSUME TimesInv, [Next]_vars
             PROVE  Service!Next \/ UNCHANGED Service!vars
  OBVIOUS
<1>1. ASSUME Begin PROVE Service!Begin
  BY <1>1 DEF Begin, Service!Begin, timerVars, Running
<1>2. ASSUME End PROVE Service!End
  <2>1. \A m \in Nodes : Running(m) => owed[m] > 0
    BY <1>2, EndTimes
  <2>2. {m \in Nodes : Running(m)}' = {m \in Nodes : Running(m)}
    BY <1>2 DEF End, timerVars, Running
  <2>3. QED BY <1>2, <2>1, <2>2 DEF End, Service!End
<1>3. ASSUME CallbackReturn PROVE Service!CallbackReturn
  BY <1>3 DEF CallbackReturn, Service!CallbackReturn, timerVars, Running
<1>4. ASSUME NEW n \in Nodes, Create(n) PROVE UNCHANGED Service!vars
  <2>1. \A m \in Nodes : Running(m)' <=> Running(m)
    BY <1>4 DEF Create, TimesInv, TimersInv, TypeOK, LineConsistent, Running
  <2>2. {m \in Nodes : Running(m)}' = {m \in Nodes : Running(m)}
    BY <2>1
  <2>3. QED BY <1>4, <2>2 DEF Create, Service!vars
<1>5. ASSUME NEW n \in Nodes, Reset(n) PROVE Service!Arm(n)
  <2>1. PICK ticks : ticks = save[n]
    OBVIOUS
  <2>2. ticks \in Ticks \cup (Periods \ {0})
    BY <1>5, <2>1 DEF Reset, TimesInv, AskedFor
  <2>3. \A m \in Nodes : Running(m)' <=> Running(m) \/ m = n
    BY <1>5 DEF Reset, timerVars, Running
  <2>4. QED BY <1>5, <2>1, <2>2, <2>3, ArmService DEF Reset
<1>6. ASSUME NEW n \in Nodes, Cancel(n) PROVE Service!Disarm(n)
  BY <1>6, DisarmService DEF Cancel
<1>7. ASSUME NEW n \in Nodes, Delete(n) PROVE Service!Disarm(n) \/ UNCHANGED Service!vars
  <2>1. CASE Running(n) /\ TakeOff(n)
    BY <1>7, <2>1, DisarmService DEF Delete
  <2>2. CASE ~ Running(n) /\ UNCHANGED <<wu, status, owed, hurried>>
    <3>1. {m \in Nodes : Running(m)}' = {m \in Nodes : Running(m)}
      BY <2>2 DEF Running
    <3>2. QED BY <1>7, <2>2, <3>1 DEF Delete, Service!vars
  <2>3. QED BY <1>7, <2>1, <2>2 DEF Delete
<1>8. ASSUME NEW n \in Nodes, NEW init \in Ticks, NEW period \in Periods,
             NEW repeat \in BOOLEAN, Start(n, init, period, repeat)
      PROVE  Service!Arm(n)
  <2>1. \A m \in Nodes : Running(m)' <=> Running(m) \/ m = n
    BY <1>8 DEF Start, Running, TimesInv, TimersInv, TypeOK
  <2>2. QED BY <1>8, <2>1, ArmService DEF Start
<1>9. CASE UNCHANGED vars
  BY <1>9 DEF vars, timerVars, Running, Service!vars
<1>10. ASSUME NEW n \in Nodes, Fire(n) PROVE Service!Fire(n)
  BY <1>10, FireService
<1>11. QED BY <1>1, <1>2, <1>3, <1>4, <1>5, <1>6, <1>7, <1>8, <1>9, <1>10 DEF Next, Service!Next

\* No timer is ever late; none is early by a whole scan unless a cancel has lost ticks
\* of the line, or a timer was put in front of a scan that had ticks left to charge.
THEOREM FiresInTimeCorrect == Spec => FiresInTime
<1>1. Init => Service!Init
  BY InitService
<1>2. TimesInv /\ [Next]_vars => [Service!Next]_Service!vars
  BY StepService
<1>3. QED BY <1>1, <1>2, TimesInvariance, PTL DEF Spec, FiresInTime, Service!Spec
================================================================================
