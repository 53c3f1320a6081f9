----------------------------- MODULE MCSemaphoreM -----------------------------
(* Small instances of SemaphoreM for TLC. *)
EXTENDS SemaphoreM

\* The options of the mutexes of one instance.
PrioInheritSafe == [e \in Events |->
                     {"WAIT_PRIORITY", "INHERIT_PRIORITY", "DELETE_SAFE", "ERRORCHECK"}]
PrioCeiling     == [e \in Events |-> {"WAIT_PRIORITY", "SIGNAL_INTER"}]
FifoSafe        == [e \in Events |-> {"INHERIT_PRIORITY", "DELETE_SAFE"}]

TopCeiling == [e \in Events |-> 0]
MidCeiling == [e \in Events |-> 1]
=============================================================================
