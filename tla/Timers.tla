-------------------------------- MODULE Timers --------------------------------
(***************************************************************************)
(* The timers (kernel/interface/Timer*.c) on a wake-up line, and the scan  *)
(* that fires them: _ITimerThread, every LW_ITIMER_RATE ticks, or          *)
(* API_TimerHTicks at every high-speed tick.  Each sort of timer has a     *)
(* line of its own; this is one of them.                                   *)
(*                                                                         *)
(* Every call holds the kernel lock from beginning to end.  The scan holds *)
(* it too but for the call-backs: in these, call-backs, other threads and  *)
(* interrupt handlers start, reset, cancel and delete any timer.           *)
(***************************************************************************)
EXTENDS WakeupLine

CONSTANTS
  Rates,    \* what LW_ITIMER_RATE may be set to at boot (kernel parameter irate)
  Ticks,    \* the first ticks the application passes
  Periods,  \* the periods it passes; 0 is none
  Calls     \* what the application does

ASSUME TimersAssumption ==
  /\ Rates \subseteq Nat \ {0}
  /\ Ticks \subseteq Nat \ {0}
  /\ Periods \subseteq Nat
  /\ Calls \subseteq {"Reset", "Cancel", "Delete"}

VARIABLES
  rate,       \* LW_ITIMER_RATE
  wu,         \* _K_wuITmr or _K_wuHTmr
  type,       \* TIMER_ucType
  status,     \* TIMER_ucStatus
  save,       \* TIMER_ulCounterSave
  auto,       \* TIMER_ulOption has LW_OPTION_AUTO_RESTART
  scan,       \* where the scan is
  remaining,  \* its ulCounter
  owed,       \* history: the ticks each timer has to wait, by what its caller asked for
  hurried     \* history: the line has lost ticks, or charges some of them twice

timerVars == <<type, status, save, auto>>
vars == <<rate, wu, timerVars, scan, remaining, owed, hurried>>

TypeOK ==
  /\ rate \in Rates
  /\ LineType(wu)
  /\ type      \in [Nodes -> {"TIMER", "UNUSED"}]
  /\ status    \in [Nodes -> {"RUNNING", "STOP"}]
  /\ save      \in [Nodes -> Nat]
  /\ auto      \in [Nodes -> BOOLEAN]
  /\ scan      \in {"sleep", "scan", "callback"}
  /\ remaining \in Nat
  /\ owed      \in [Nodes -> Int]
  /\ hurried   \in BOOLEAN

Init ==
  /\ rate \in Rates
  /\ wu = EmptyLine
  /\ type   = [n \in Nodes |-> "UNUSED"]
  /\ status = [n \in Nodes |-> "STOP"]
  /\ save   = [n \in Nodes |-> 0]
  /\ auto   = [n \in Nodes |-> FALSE]
  /\ scan = "sleep"
  /\ remaining = 0
  /\ owed = [n \in Nodes |-> 0]
  /\ hurried = FALSE

Running(n) == status[n] = "RUNNING"

-----------------------------------------------------------------------------
(* The calls.  They fail, and change nothing, on a timer that is not there *)
(* or, but for a start, that does not run.                                 *)

KernelFree == scan # "scan"

\* A timer is in front of a scan that has ticks left to charge.  The timers behind
\* it wait for its ticks and are charged those of the scan, which it is not: the
\* line counts them twice.
Overtaken(w, left) == left > 0 /\ w.op # NULL /\ First(w) # w.op

\* API_TimerCreate
Create(n) ==
  /\ KernelFree /\ type[n] = "UNUSED"
  /\ type' = [type EXCEPT ![n] = "TIMER"]
  /\ wu'   = SetCounter(wu, n, 0)
  /\ save' = [save EXCEPT ![n] = 0]
  /\ auto' = [auto EXCEPT ![n] = FALSE]
  /\ status' = [status EXCEPT ![n] = "STOP"]
  /\ UNCHANGED <<rate, scan, remaining, owed, hurried>>

\* API_TimerStartEx: a timer that runs is taken off the line first.  A one-shot
\* timer may have no period.
Start(n, init, period, repeat) ==
  /\ KernelFree /\ type[n] = "TIMER"
  /\ repeat => period # 0
  /\ wu' = WakeupAdd(SetCounter(IF Running(n) THEN WakeupDel(wu, n) ELSE wu, n, init), n)
  /\ save'   = [save EXCEPT ![n] = period]
  /\ auto'   = [auto EXCEPT ![n] = repeat]
  /\ status' = [status EXCEPT ![n] = "RUNNING"]
  /\ owed'   = [owed EXCEPT ![n] = init]
  /\ hurried' = (hurried \/ Overtaken(wu', remaining))
  /\ UNCHANGED <<rate, type, scan, remaining>>

\* API_TimerReset.  Bound: not of a timer without a period, which would be put
\* on the line with no ticks to wait.
Reset(n) ==
  /\ "Reset" \in Calls /\ KernelFree /\ type[n] = "TIMER" /\ Running(n)
  /\ save[n] # 0
  /\ wu'   = WakeupAdd(SetCounter(WakeupDel(wu, n), n, save[n]), n)
  /\ owed' = [owed EXCEPT ![n] = save[n]]
  /\ hurried' = (hurried \/ Overtaken(wu', remaining))
  /\ UNCHANGED <<rate, timerVars, scan, remaining>>

\* API_TimerCancel and API_TimerDelete set TIMER_ulCounter, which is the node's
\* WUN_ulCounter, to 0 before they take the node off the line.
TakeOff(n) ==
  /\ wu' = WakeupDel(SetCounter(wu, n, 0), n)
  /\ status' = [status EXCEPT ![n] = "STOP"]
  /\ owed'   = [owed EXCEPT ![n] = 0]
  /\ hurried' = (hurried \/ (wu.counter[n] > 0 /\ NextOf(wu, n) # NULL))

Cancel(n) ==
  /\ "Cancel" \in Calls /\ KernelFree /\ type[n] = "TIMER" /\ Running(n)
  /\ TakeOff(n)
  /\ UNCHANGED <<rate, type, save, auto, scan, remaining>>

Delete(n) ==
  /\ "Delete" \in Calls /\ KernelFree /\ type[n] = "TIMER"
  /\ type' = [type EXCEPT ![n] = "UNUSED"]
  /\ \/ Running(n) /\ TakeOff(n)
     \/ ~ Running(n) /\ UNCHANGED <<wu, status, owed, hurried>>
  /\ UNCHANGED <<rate, save, auto, scan, remaining>>

-----------------------------------------------------------------------------
(* The scan.                                                               *)

\* The thread wakes up and takes the kernel lock.
Begin ==
  /\ scan = "sleep"
  /\ scan' = "scan"
  /\ wu' = ScanStart(wu)
  /\ remaining' = rate
  /\ owed' = [n \in Nodes |-> IF Running(n) THEN owed[n] - rate ELSE owed[n]]
  /\ UNCHANGED <<rate, timerVars, hurried>>

End ==
  /\ scan = "scan"
  /\ \/ ScanAtEnd(wu) /\ UNCHANGED wu
     \/ ScanStops(wu, remaining) /\ wu' = StopAt(wu, remaining)
  /\ scan' = "sleep"
  /\ remaining' = 0
  /\ UNCHANGED <<rate, timerVars, owed, hurried>>

\* The next timer has expired: it stops, or goes back to the line for another
\* period; then the lock is given up and its call-back runs.
Fire(n) ==
  /\ scan = "scan" /\ wu.op = n
  /\ ScanExpires(wu, remaining)
  /\ LET w == WakeupDel(ExpireAt(wu), n) IN
     IF auto[n]
     THEN /\ wu'   = WakeupAdd(SetCounter(w, n, save[n]), n)
          /\ owed' = [owed EXCEPT ![n] = save[n]]
          /\ UNCHANGED status
     ELSE /\ wu'     = w
          /\ status' = [status EXCEPT ![n] = "STOP"]
          /\ owed'   = [owed EXCEPT ![n] = 0]
  /\ remaining' = remaining - wu.counter[n]
  /\ hurried' = (hurried \/ Overtaken(wu', remaining'))
  /\ scan' = "callback"
  /\ UNCHANGED <<rate, type, save, auto>>

CallbackReturn ==
  /\ scan = "callback"
  /\ scan' = "scan"
  /\ UNCHANGED <<rate, wu, timerVars, remaining, owed, hurried>>

Next ==
  \/ Begin \/ End \/ CallbackReturn
  \/ \E n \in Nodes :
       \/ Fire(n) \/ Create(n) \/ Reset(n) \/ Cancel(n) \/ Delete(n)
       \/ \E init \in Ticks, period \in Periods, repeat \in BOOLEAN :
            Start(n, init, period, repeat)

Spec == Init /\ [][Next]_vars

-----------------------------------------------------------------------------
(* Properties.                                                             *)

\* A timer is on the line exactly while it runs, once, and the scan's pointer is
\* on the line: whatever call-backs start, cancel or delete, the scan goes on.
LineConsistent ==
  /\ IsInjective(wu.list)
  /\ \A n \in Nodes : Running(n) <=> OnLine(wu, n)
  /\ \A n \in Nodes : Running(n) => type[n] = "TIMER"
  /\ wu.op # NULL => OnLine(wu, wu.op)

\* The line of differences keeps the promise that TimerService states: no timer
\* is ever late; none is early at a rate of one tick, and by at most rate - 1
\* ticks at others -- as long as no cancel has lost ticks of the line and no
\* call-back has put a timer in front of its scan.
Service == INSTANCE TimerService WITH
  Ticks <- Ticks \cup (Periods \ {0}),
  armed <- {n \in Nodes : Running(n)},
  phase <- scan
FiresInTime == Service!Spec

-----------------------------------------------------------------------------
(* What comments and headers of the source say, and the code does not do.  *)

\* API_TimerCancel "stops one timer": the time that is left for another one, which
\* API_TimerStatus reports, stays what it was.
CancelStopsOne ==
  [][\A n, m \in Nodes :
       n # m /\ Running(n) /\ ~ Running(n)' /\ scan' = scan /\ Running(m) =>
         TimeLeft(wu', m) = TimeLeft(wu, m)]_vars
=============================================================================
