------------------------------ MODULE MCMsgQueue ------------------------------
(* Instances of MsgQueue for TLC.                                          *)
EXTENDS MsgQueue

FifoOption  == [e \in Events |-> {}]
InterOption == [e \in Events |-> {"SIGNAL_INTER"}]

CONSTANTS short, long   \* a message of one unit and one of two
SizeOf == [m \in Messages |-> IF m = long THEN 2 ELSE 1]

\* A buffer for everything, one that cuts, and one that takes short messages only.
CutReceives    == {[max |-> 2, noError |-> FALSE], [max |-> 1, noError |-> TRUE]}
StrictReceives == {[max |-> 2, noError |-> FALSE], [max |-> 1, noError |-> FALSE]}

\* Threads differ only in what they do.
ThreadSymmetry == Permutations(Threads)
=============================================================================
