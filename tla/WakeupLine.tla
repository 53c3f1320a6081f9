------------------------------ MODULE WakeupLine ------------------------------
(***************************************************************************)
(* The wake-up line (kernel/core/_WakeupLine.c, kernel/include/            *)
(* k_scanlink.h): nodes in the order in which they expire, each with the   *)
(* number of ticks between it and the one before it.  The delays of        *)
(* threads, the software watchdogs and the timers are kept on such lines.  *)
(*                                                                         *)
(* A line w is the record of                                               *)
(*   list     the nodes, from WU_plineHeader on                            *)
(*   counter  WUN_ulCounter of every node, on the line or not              *)
(*   op       WU_plineOp, the node that a scan looks at next               *)
(***************************************************************************)
EXTENDS Integers, Sequences, SequencesExt

CONSTANTS
  Nodes,  \* the nodes that may be on the line
  NULL    \* LW_NULL

ASSUME WakeupLineAssumption == NULL \notin Nodes

\* __WAKEUP_INIT, __WAKEUP_NODE_INIT
EmptyLine == [list |-> << >>, counter |-> [n \in Nodes |-> 0], op |-> NULL]

LineType(w) == w \in [list : Seq(Nodes), counter : [Nodes -> Nat], op : Nodes \cup {NULL}]

\* WUN_bInQ
OnLine(w, n) == \E i \in 1..Len(w.list) : w.list[i] = n

PlaceOf(w, n) == CHOOSE i \in 1..Len(w.list) : w.list[i] = n

\* _list_line_get_next
NextOf(w, n) == LET i == PlaceOf(w, n) IN IF i < Len(w.list) THEN w.list[i + 1] ELSE NULL

First(w) == IF w.list = << >> THEN NULL ELSE w.list[1]

\* The ticks from now to each place of the line.
Sums(w) == LET sum[i \in 0..Len(w.list)] ==
                 IF i = 0 THEN 0 ELSE sum[i - 1] + w.counter[w.list[i]]
           IN  sum

\* _WakeupStatus: the time that is left until n expires.
TimeLeft(w, n) == IF OnLine(w, n) THEN Sums(w)[PlaceOf(w, n)] ELSE 0

\* The ticks a node is to wait are put in its counter before it is added.
SetCounter(w, n, ticks) ==
  [list |-> w.list, counter |-> [w.counter EXCEPT ![n] = ticks], op |-> w.op]

\* Faulty variant: the node on the right keeps its counter.
WakeupAdd_RightUnchanged(w, n) ==
  LET sum    == Sums(w)
      places == {i \in 0..Len(w.list) : sum[i] <= w.counter[n]}
      k      == CHOOSE i \in places : i + 1 \notin places
  IN  [list    |-> InsertAt(w.list, k + 1, n),
       counter |-> [w.counter EXCEPT ![n] = @ - sum[k]],
       op      |-> w.op]

\* Faulty variant: n goes behind the first node that expires later too.
WakeupAdd_OneTooFar(w, n) ==
  LET sum    == Sums(w)
      places == {i \in 0..Len(w.list) : i = 0 \/ sum[i - 1] <= w.counter[n]}
      k      == CHOOSE i \in places : i + 1 \notin places
      diff   == w.counter[n] - sum[k]
  IN  [list    |-> InsertAt(w.list, k + 1, n),
       counter |-> [m \in Nodes |->
           IF m = n THEN diff
           ELSE IF k < Len(w.list) /\ m = w.list[k + 1] THEN w.counter[m] - diff
           ELSE w.counter[m]],
       op      |-> w.op]

\* _WakeupAdd: n goes behind every node that does not expire later, and takes
\* its ticks from the node on its right.
WakeupAdd(w, n) ==
  LET sum    == Sums(w)
      places == {i \in 0..Len(w.list) : sum[i] <= w.counter[n]}
      k      == CHOOSE i \in places : i + 1 \notin places
      diff   == w.counter[n] - sum[k]
  IN  [list    |-> InsertAt(w.list, k + 1, n),
       counter |-> [m \in Nodes |->
           IF m = n THEN diff
           ELSE IF k < Len(w.list) /\ m = w.list[k + 1] THEN w.counter[m] - diff
           ELSE w.counter[m]],
       op      |-> w.op]

\* Faulty variant: the scan's pointer stays.
WakeupDel_KeepOp(w, n) ==
  [list    |-> RemoveAt(w.list, PlaceOf(w, n)),
   counter |-> [m \in Nodes |-> IF m = NextOf(w, n) THEN w.counter[m] + w.counter[n]
                                ELSE w.counter[m]],
   op      |-> w.op]

\* _WakeupDel: the ticks of n go to the node on its right, and a scan that was
\* about to look at n looks at that node instead.
WakeupDel(w, n) ==
  [list    |-> RemoveAt(w.list, PlaceOf(w, n)),
   counter |-> [m \in Nodes |-> IF m = NextOf(w, n) THEN w.counter[m] + w.counter[n]
                                ELSE w.counter[m]],
   op      |-> IF w.op = n THEN NextOf(w, n) ELSE w.op]

-----------------------------------------------------------------------------
(* The scan, __WAKEUP_PASS_FIRST to __WAKEUP_PASS_END.  remaining is its   *)
(* ulCounter: the ticks of this scan that it has not charged yet.          *)

ScanStart(w) == [list |-> w.list, counter |-> w.counter, op |-> First(w)]

ScanAtEnd(w) == w.op = NULL

\* The node at op has more ticks left than the scan can charge: it stops there.
ScanStops(w, remaining) == w.op # NULL /\ w.counter[w.op] > remaining

\* Or it has expired.
ScanExpires(w, remaining) == w.op # NULL /\ w.counter[w.op] <= remaining

\* WU_plineOp has moved on before the node is looked at.
StopAt(w, remaining) ==
  [list    |-> w.list,
   counter |-> [w.counter EXCEPT ![w.op] = @ - remaining],
   op      |-> NextOf(w, w.op)]

ExpireAt(w) ==
  [list |-> w.list, counter |-> [w.counter EXCEPT ![w.op] = 0], op |-> NextOf(w, w.op)]
=============================================================================
