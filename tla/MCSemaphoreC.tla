----------------------------- MODULE MCSemaphoreC -----------------------------
(* Instances of SemaphoreC for TLC.                                        *)
EXTENDS SemaphoreC

\* EVENT_ulOption of the semaphores.
FifoOption      == [e \in Events |-> {}]
PriorityOption  == [e \in Events |-> {"WAIT_PRIORITY"}]
InterOption     == [e \in Events |-> {"SIGNAL_INTER"}]
AllOption       == [e \in Events |-> {"WAIT_PRIORITY", "SIGNAL_INTER"}]

\* Threads differ only in what they do.
ThreadSymmetry == Permutations(Threads)
=============================================================================
