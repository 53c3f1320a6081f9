----------------------------- MODULE TimerService -----------------------------
(***************************************************************************)
(* What the timers promise, without a line, differences or scan pointers:  *)
(* every armed timer has the ticks it still has to wait, every scan takes  *)
(* rate ticks from all of them at once, and a timer fires in the scan that *)
(* takes its last tick: never later, and never earlier than a scan may     *)
(* look ahead -- unless timers are hurried: by a cancel, or, if a scan is  *)
(* of several ticks, by a timer that is armed in the middle of it.         *)
(***************************************************************************)
EXTENDS Integers

CONSTANTS Nodes, Rates, Ticks

VARIABLES
  rate,    \* ticks between two scans
  armed,   \* the timers that run
  owed,    \* the ticks each of them has to wait
  phase,   \* the scan sleeps, looks for the next timer, or runs a call-back
  hurried  \* timers may be early

vars == <<rate, armed, owed, phase, hurried>>

Init ==
  /\ rate \in Rates
  /\ armed = {}
  /\ owed = [n \in Nodes |-> 0]
  /\ phase = "sleep"
  /\ hurried = FALSE

Begin ==
  /\ phase = "sleep" /\ phase' = "scan"
  /\ owed' = [n \in Nodes |-> IF n \in armed THEN owed[n] - rate ELSE owed[n]]
  /\ UNCHANGED <<rate, armed, hurried>>

\* No timer is late: all that were due have fired.
End ==
  /\ phase = "scan" /\ phase' = "sleep"
  /\ \A n \in armed : owed[n] > 0
  /\ UNCHANGED <<rate, armed, owed, hurried>>

Disarmed(n) ==
  /\ armed' = armed \ {n}
  /\ owed'  = [owed EXCEPT ![n] = 0]

Armed(n) ==
  /\ armed' = armed \cup {n}
  /\ \E k \in Ticks : owed' = [owed EXCEPT ![n] = k]

\* A timer that is armed while a scan has ticks left to charge may hurry others.
\* A scan of one tick has none left when it has come to a timer.
ArmsInScan == UNCHANGED hurried \/ (rate > 1 /\ hurried' = TRUE)

\* The timer stops, or waits for another period.  A scan of several ticks may
\* charge some of them again to what its call-backs have started: then a timer
\* fires up to rate - 1 ticks before its time.
Fire(n) ==
  /\ phase = "scan" /\ phase' = "callback"
  /\ n \in armed
  /\ owed[n] < rate \/ hurried
  /\ \/ Disarmed(n) /\ UNCHANGED hurried
     \/ Armed(n) /\ ArmsInScan
  /\ UNCHANGED rate

CallbackReturn ==
  /\ phase = "callback" /\ phase' = "scan"
  /\ UNCHANGED <<rate, armed, owed, hurried>>

Arm(n) ==
  /\ phase # "scan"
  /\ Armed(n)
  /\ \/ UNCHANGED hurried
     \/ phase = "callback" /\ ArmsInScan
  /\ UNCHANGED <<rate, phase>>

Disarm(n) ==
  /\ phase # "scan"
  /\ Disarmed(n)
  /\ hurried' \in {hurried, TRUE}
  /\ UNCHANGED <<rate, phase>>

Next ==
  \/ Begin \/ End \/ CallbackReturn
  \/ \E n \in Nodes : Fire(n) \/ Arm(n) \/ Disarm(n)

Spec == Init /\ [][Next]_vars
=============================================================================
