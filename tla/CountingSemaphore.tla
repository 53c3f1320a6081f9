-------------------------- MODULE CountingSemaphore --------------------------
(***************************************************************************)
(* What a counting semaphore promises its callers, without queues, locks   *)
(* or flags: a call that succeeds has used up one unit, or was let through *)
(* by a call that says so; a call that fails has used up none; and no unit *)
(* disappears except through TryPend and Clear.                            *)
(***************************************************************************)
EXTENDS Naturals

CONSTANTS Threads, Events, NULL, InitCounter

VARIABLES
  units,    \* units that nobody has used yet, those handed to a waiter included
  asking,   \* the semaphore each thread's call is about
  passed,   \* threads whose call was ended without a unit
  result    \* what each thread's last call returned

vars == <<units, asking, passed, result>>

Init ==
  /\ units  = [e \in Events |-> InitCounter]
  /\ asking = [t \in Threads |-> NULL]
  /\ passed = {}
  /\ result = [t \in Threads |-> "NONE"]

Ask(t, e) ==
  /\ asking[t] = NULL
  /\ asking' = [asking EXCEPT ![t] = e]
  /\ UNCHANGED <<units, passed, result>>

\* The call ends, with one unit ...
Take(t) ==
  /\ asking[t] # NULL /\ t \notin passed
  /\ units[asking[t]] > 0
  /\ units'  = [units EXCEPT ![asking[t]] = @ - 1]
  /\ asking' = [asking EXCEPT ![t] = NULL]
  /\ result' = [result EXCEPT ![t] = "NONE"]
  /\ UNCHANGED passed

\* ... or without one: then it fails, unless it was let through.
Leave(t, r) ==
  /\ asking[t] # NULL
  /\ t \in passed \/ r # "NONE"
  /\ asking' = [asking EXCEPT ![t] = NULL]
  /\ result' = [result EXCEPT ![t] = r]
  /\ passed' = passed \ {t}
  /\ UNCHANGED units

\* A flush, a delete or a signal ends the wait; the call may start over.
LetThrough(t) ==
  /\ asking[t] # NULL
  /\ passed' = passed \cup {t}
  /\ UNCHANGED <<units, asking, result>>

AskAgain(t) ==
  /\ t \in passed
  /\ passed' = passed \ {t}
  /\ UNCHANGED <<units, asking, result>>

\* Post and Release, TryPend, Clear.
Give(e) ==
  /\ units' = [units EXCEPT ![e] = @ + 1]
  /\ UNCHANGED <<asking, passed, result>>

Drain(e) ==
  /\ \E n \in 0..units[e] : units' = [units EXCEPT ![e] = n]
  /\ UNCHANGED <<asking, passed, result>>

Next ==
  \/ \E t \in Threads :
       \/ \E e \in Events : Ask(t, e)
       \/ Take(t)
       \/ \E r \in {"NONE", "WAIT_TIMEOUT", "WAS_DELETED", "EINTR", "EVENT_TYPE"} : Leave(t, r)
       \/ LetThrough(t) \/ AskAgain(t)
  \/ \E e \in Events : Give(e) \/ Drain(e)

Spec == Init /\ [][Next]_vars
=============================================================================
