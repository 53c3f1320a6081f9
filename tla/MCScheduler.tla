----------------------------- MODULE MCScheduler -----------------------------
(* Small instances of the scheduler.                                        *)
EXTENDS Scheduler, TLC

CONSTANTS u1, u2, u3, idle0, idle1

OneCpu == {0}
TwoCpus == {0, 1}
ThreadSymmetry == Permutations(Users) \cup Permutations(Idle)

-----------------------------------------------------------------------------
(* The instance of Sched_smp.  Two threads ask a third one on another       *)
(* processor, the one to suspend it, the other to stop it, as a call of     *)
(* API_ThreadSetAffinity that lets it run on any processor does.            *)

\* Users that are all less urgent than a free priority behave as if they had it.
SmpInit == \E prio \in [Users -> Priorities \ {IdlePrio}] : 1 \in Range(prio) /\ InitWith(prio)

Peers == \A t, u \in Users : tab.prio[t] = tab.prio[u]

\* Bounds: no thread is given to a processor, and only peers stop each other.
SmpCall(c, u) ==
  \/ Post(c, u) \/ ThreadSuspend(c, u) \/ ThreadResume(c, u)
  \/ Peers /\ StopForAffinity(c, u, NULL)
  \/ SetOtherAffinity(c, u, NULL)

SmpNext ==
  \E c \in CPUs :
    \/ Pend(c) \/ KernelExit(c) \/ InterExit(c) \/ IpiInterrupt(c) \/ SecondaryStart(c)
    \/ \E u \in Users : SmpCall(c, u) \/ IsrPost(c, u)

SmpSpec == SmpInit /\ [][SmpNext]_vars
=============================================================================
