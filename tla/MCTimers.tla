------------------------------- MODULE MCTimers -------------------------------
(* Small instances of Timers for TLC. *)
EXTENDS Timers

\* Timers differ only in what is asked of them.
TimerSymmetry == Permutations(Nodes)
=============================================================================
