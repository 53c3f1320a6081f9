-------------------------- MODULE EventWait_proofs --------------------------
(***************************************************************************)
(* Facts about the wait protocol that the theorems of every blocking       *)
(* object rest on: what the list operations do to the members of a list,   *)
(* and what each kernel operation does to types, queues and TCBs.          *)
(***************************************************************************)
EXTENDS EventWait, ListLemmas

-----------------------------------------------------------------------------
(* Lists of buckets.                                                       *)

LEMMA BucketsNat == Buckets \subseteq Nat
  BY EventWaitAssumption DEF Buckets

LEMMA BucketOfType ==
  ASSUME NEW e, NEW p \in Priorities
  PROVE  BucketOf(e, p) \in Buckets
  BY DEF BucketOf, Buckets

\* The search of _EVENT_DEL_Q_PRIORITY finds a list that is not empty.
LEMMA NextBucketFound ==
  ASSUME NEW e \in Events, HasWaiter(e)
  PROVE  /\ NextBucket(e) \in Buckets
         /\ waitList[e][NextBucket(e)] # << >>
<1> DEFINE T == {b \in Buckets : waitList[e][b] # << >>}
<1>1. T \subseteq Nat /\ T # {}
  BY BucketsNat DEF HasWaiter
<1>2. PICK b \in T : \A c \in T : ~ (c < b)
  BY <1>1, NatMin
<1>3. /\ b \in Buckets
      /\ waitList[e][b] # << >>
      /\ \A c \in Buckets : c < b => waitList[e][c] = << >>
  BY <1>2
<1>4. QED BY <1>3 DEF NextBucket

\* The first waiter is a thread.
LEMMA NextWaiterType ==
  ASSUME EventWaitTypeOK, NEW e \in Events, HasWaiter(e)
  PROVE  /\ NextWaiter(e) \in Threads
         /\ waitList[e][NextBucket(e)] \in Seq(Threads)
         /\ Tail(waitList[e][NextBucket(e)]) \in Seq(Threads)
<1>1. NextBucket(e) \in Buckets /\ waitList[e][NextBucket(e)] # << >>
  BY NextBucketFound
<1>2. waitList[e][NextBucket(e)] \in Seq(Threads)
  BY <1>1 DEF EventWaitTypeOK
<1>3. QED BY <1>1, <1>2 DEF NextWaiter

LEMMA UnlinkedType ==
  ASSUME NEW s \in Seq(Threads), NEW t
  PROVE  Unlinked(s, t) \in Seq(Threads)
<1>1. ASSUME NEW i \in 1..Len(s) PROVE RemoveAt(s, i) \in Seq(Threads)
  BY DEF RemoveAt
<1>2. QED BY <1>1 DEF Unlinked

LEMMA LinkedType ==
  ASSUME NEW e, NEW s \in Seq(Threads), NEW t \in Threads, NEW prio
  PROVE  Linked(e, s, t, prio) \in Seq(Threads)
  BY DEF Linked, Cons

-----------------------------------------------------------------------------
(* The kernel operations keep the types.                                   *)

LEMMA PriorityType == EventWaitTypeOK => priority \in [Threads -> Priorities]
  BY DEF EventWaitTypeOK

LEMMA EventWaitType ==
  ASSUME EventWaitTypeOK, NEW t \in Threads, NEW e \in Events, NEW timed \in BOOLEAN,
         NEW prio \in [Threads -> Priorities], EventWait(t, e, timed, prio)
  PROVE  EventWaitTypeOK'
<1> DEFINE b == BucketOf(e, prio[t])
<1>1. b \in Buckets
  BY BucketOfType DEF EventWaitTypeOK
<1>2. Linked(e, waitList[e][b], t, prio) \in Seq(Threads)
  BY <1>1, LinkedType DEF EventWaitTypeOK
<1> HIDE DEF b
<1>3. waitList' = [waitList EXCEPT ![e][b] = Linked(e, waitList[e][b], t, prio)]
  BY DEF EventWait, b
<1>4. waitList' \in [Events -> [Buckets -> Seq(Threads)]]
  BY <1>1, <1>2, <1>3 DEF EventWaitTypeOK
<1>5. ppringList' \in [Threads -> Buckets]
  BY <1>1 DEF EventWaitTypeOK, EventWait, b
<1>6. status' \in [Threads -> SUBSET StatusBits]
  BY DEF EventWaitTypeOK, EventWait, StatusBits
<1>7. QED BY <1>4, <1>5, <1>6 DEF EventWaitTypeOK, EventWait

LEMMA EventReadyType ==
  ASSUME EventWaitTypeOK, NEW e \in Events, NEW del \in BOOLEAN,
         NEW prio \in [Threads -> Priorities], HasWaiter(e), EventReady(e, del, prio)
  PROVE  EventWaitTypeOK'
<1> DEFINE t == NextWaiter(e)
           b == NextBucket(e)
<1>1. t \in Threads /\ b \in Buckets /\ Tail(waitList[e][b]) \in Seq(Threads)
  BY NextWaiterType, NextBucketFound
<1> HIDE DEF t, b
<1>2. waitList' = [waitList EXCEPT ![e][b] = Tail(waitList[e][b])]
  BY DEF EventReady, b
<1>3. waitList' \in [Events -> [Buckets -> Seq(Threads)]]
  BY <1>1, <1>2 DEF EventWaitTypeOK
<1>4. status' \in [Threads -> SUBSET StatusBits]
  BY <1>1 DEF EventWaitTypeOK, EventReady, StatusBits, t
<1>5. QED BY <1>1, <1>3, <1>4 DEF EventWaitTypeOK, EventReady, t

LEMMA EventTimeoutType ==
  ASSUME EventWaitTypeOK, NEW t \in Threads, NEW e \in Events, EventTimeout(t, e)
  PROVE  EventWaitTypeOK'
<1>1. Unlinked(waitList[e][ppringList[t]], t) \in Seq(Threads)
  BY UnlinkedType DEF EventWaitTypeOK
<1>2. QED BY <1>1 DEF EventWaitTypeOK, EventTimeout

LEMMA SigBreakWaitType ==
  ASSUME EventWaitTypeOK, NEW t \in Threads, NEW saType \in {"EINTR", "RESTART"},
         SigBreakWait(t, saType)
  PROVE  EventWaitTypeOK'
<1>1. waitList' \in [Events -> [Buckets -> Seq(Threads)]]
  <2>1. CASE peventPtr[t] \in Events
    <3>1. Unlinked(waitList[peventPtr[t]][ppringList[t]], t) \in Seq(Threads)
      BY <2>1, UnlinkedType DEF EventWaitTypeOK
    <3>2. QED BY <2>1, <3>1 DEF EventWaitTypeOK, SigBreakWait
  <2>2. CASE peventPtr[t] \notin Events
    BY <2>2 DEF EventWaitTypeOK, SigBreakWait
  <2>3. QED BY <2>1, <2>2
<1>2. status' \in [Threads -> SUBSET StatusBits]
  BY DEF EventWaitTypeOK, SigBreakWait, StatusBits
<1>3. QED BY <1>1, <1>2 DEF EventWaitTypeOK, SigBreakWait, SchedRets

LEMMA KernelType ==
  ASSUME EventWaitTypeOK, NEW t \in Threads,
         \/ SchedReturn(t) \/ ThreadTick(t) \/ ThreadStop(t) \/ SigNoWait(t)
         \/ SigReturn(t) \/ ThreadSuspend(t) \/ ThreadResume(t) \/ ThreadForceResume(t)
         \/ \E p \in Priorities : ThreadSetPriority(t, p)
  PROVE  EventWaitTypeOK'
<1>1. CASE SchedReturn(t)
  BY <1>1 DEF EventWaitTypeOK, SchedReturn, SchedRets
<1>2. CASE ThreadTick(t)
  BY <1>2 DEF EventWaitTypeOK, ThreadTick, StatusBits
<1>3. CASE ThreadStop(t)
  BY <1>3 DEF EventWaitTypeOK, ThreadStop, StatusBits
<1>4. CASE SigNoWait(t)
  BY <1>4 DEF EventWaitTypeOK, SigNoWait, StatusBits
<1>5. CASE SigReturn(t)
  BY <1>5 DEF EventWaitTypeOK, SigReturn, SchedRets
<1>6. CASE ThreadSuspend(t)
  BY <1>6 DEF EventWaitTypeOK, ThreadSuspend, StatusBits
<1>7. CASE ThreadResume(t)
  BY <1>7 DEF EventWaitTypeOK, ThreadResume, StatusBits
<1>8. CASE ThreadForceResume(t)
  BY <1>8 DEF EventWaitTypeOK, ThreadForceResume, StatusBits
<1>9. CASE \E p \in Priorities : ThreadSetPriority(t, p)
  BY <1>9 DEF EventWaitTypeOK, ThreadSetPriority
<1>10. QED BY <1>1, <1>2, <1>3, <1>4, <1>5, <1>6, <1>7, <1>8, <1>9

-----------------------------------------------------------------------------
(* Members of the lists.                                                   *)

LEMMA TailElements ==
  ASSUME NEW s \in Seq(Threads), s # << >>, IsInjective(s)
  PROVE  /\ IsInjective(Tail(s))
         /\ \A u : Contains(Tail(s), u) <=> Contains(s, u) /\ u # Head(s)
  BY TailMembers

LEMMA UnlinkedElements ==
  ASSUME NEW s \in Seq(Threads), IsInjective(s), NEW t
  PROVE  /\ IsInjective(Unlinked(s, t))
         /\ \A u : Contains(Unlinked(s, t), u) <=> Contains(s, u) /\ u # t
<1>1. CASE ~ Contains(s, t)
  <2>1. Unlinked(s, t) = s
    BY <1>1 DEF Unlinked, Contains
  <2>2. QED BY <1>1, <2>1
<1>2. CASE Contains(s, t)
  <2> DEFINE k == CHOOSE i \in 1..Len(s) : s[i] = t
  <2>1. k \in 1..Len(s) /\ s[k] = t
    BY <1>2 DEF Contains
  <2>2. Unlinked(s, t) = RemoveAt(s, k)
    BY <1>2 DEF Unlinked, Contains
  <2> HIDE DEF k
  <2>3. /\ IsInjective(RemoveAt(s, k))
        /\ \A u : Contains(RemoveAt(s, k), u) <=> Contains(s, u) /\ u # s[k]
    BY <2>1, RemoveMembers
  <2>4. QED BY <2>1, <2>2, <2>3
<1>3. QED BY <1>1, <1>2

LEMMA AppendElements ==
  ASSUME NEW s \in Seq(Threads), IsInjective(s), NEW t \in Threads, ~ Contains(s, t)
  PROVE  /\ IsInjective(Append(s, t))
         /\ \A u : Contains(Append(s, t), u) <=> Contains(s, u) \/ u = t
  BY AppendMembers

LEMMA ConsElements ==
  ASSUME NEW s \in Seq(Threads), IsInjective(s), NEW t \in Threads, ~ Contains(s, t)
  PROVE  /\ IsInjective(Cons(t, s))
         /\ \A u : Contains(Cons(t, s), u) <=> Contains(s, u) \/ u = t
  BY ConsMembers

LEMMA LinkedElements ==
  ASSUME NEW e, NEW s \in Seq(Threads), IsInjective(s), NEW t \in Threads, ~ Contains(s, t),
         NEW prio
  PROVE  /\ IsInjective(Linked(e, s, t, prio))
         /\ \A u : Contains(Linked(e, s, t, prio), u) <=> Contains(s, u) \/ u = t
  BY AppendElements, ConsElements DEF Linked

-----------------------------------------------------------------------------
(* Queues that shrink.                                                     *)

\* Waking, time-out, signals and the rest never put a thread into a queue.
Shrinks == \A e \in Events : HasWaiter(e)' => HasWaiter(e)

LEMMA UnlinkedEmpty == ASSUME NEW t PROVE Unlinked(<< >>, t) = << >>
  BY DEF Unlinked

LEMMA SameListsShrink == UNCHANGED waitList => Shrinks
  BY DEF Shrinks, HasWaiter

LEMMA EventReadyShrinks ==
  ASSUME EventWaitTypeOK, NEW e \in Events, NEW del, NEW prio, HasWaiter(e),
         EventReady(e, del, prio)
  PROVE  Shrinks
<1>1. NextBucket(e) \in Buckets /\ waitList[e][NextBucket(e)] # << >>
  BY NextBucketFound
<1>2. ASSUME NEW f \in Events, NEW b \in Buckets, waitList'[f][b] # << >>
      PROVE  waitList[f][b] # << >>
  BY <1>1, <1>2 DEF EventReady, EventWaitTypeOK
<1>3. QED BY <1>2 DEF Shrinks, HasWaiter

LEMMA UnlinkShrinks ==
  ASSUME EventWaitTypeOK, NEW t, NEW e, NEW b,
         waitList' = [waitList EXCEPT ![e][b] = Unlinked(waitList[e][b], t)]
  PROVE  Shrinks
<1>1. ASSUME NEW f \in Events, NEW c \in Buckets, waitList[f][c] = << >>
      PROVE  waitList'[f][c] = << >>
  BY <1>1, UnlinkedEmpty DEF EventWaitTypeOK
<1>2. QED BY <1>1 DEF Shrinks, HasWaiter

LEMMA KernelShrinks ==
  ASSUME EventWaitTypeOK, NEW t \in Threads,
         \/ SchedReturn(t) \/ ThreadTick(t) \/ ThreadStop(t) \/ SigNoWait(t)
         \/ SigReturn(t) \/ ThreadSuspend(t) \/ ThreadResume(t) \/ ThreadForceResume(t)
         \/ (\E p \in Priorities : ThreadSetPriority(t, p))
         \/ (\E e \in Events : EventTimeout(t, e))
         \/ (\E saType \in {"EINTR", "RESTART"} : Kill(t, saType))
  PROVE  Shrinks
<1>1. CASE UNCHANGED waitList
  BY <1>1, SameListsShrink
<1>2. CASE \E e \in Events : EventTimeout(t, e)
  <2>1. PICK e \in Events : EventTimeout(t, e)
    BY <1>2
  <2>2. waitList' = [waitList EXCEPT ![e][ppringList[t]] =
                       Unlinked(waitList[e][ppringList[t]], t)]
    BY <2>1 DEF EventTimeout
  <2>3. QED BY <2>2, UnlinkShrinks
<1>3. CASE \E saType \in {"EINTR", "RESTART"} : SigBreakWait(t, saType)
  <2>1. waitList' = [waitList EXCEPT ![peventPtr[t]][ppringList[t]] =
                       Unlinked(waitList[peventPtr[t]][ppringList[t]], t)]
    BY <1>3 DEF SigBreakWait
  <2>2. QED BY <2>1, UnlinkShrinks
<1>4. QED BY <1>1, <1>2, <1>3
         DEF SchedReturn, ThreadTick, ThreadStop, SigNoWait, SigReturn, ThreadSuspend,
             ThreadResume, ThreadForceResume, ThreadSetPriority, Kill

-----------------------------------------------------------------------------
(* The queues and the TCBs agree.                                          *)

\* One list gains or loses one thread, and the TCB of that thread says so.
LEMMA ListsGain ==
  ASSUME EventWaitTypeOK, ListsDistinct, ListsMatch,
         NEW t \in Threads, NEW e \in Events, NEW b \in Buckets, NEW s,
         peventPtr[t] = NULL,
         IsInjective(s), \A u : Contains(s, u) <=> Contains(waitList[e][b], u) \/ u = t,
         waitList' = [waitList EXCEPT ![e][b] = s],
         peventPtr' = [peventPtr EXCEPT ![t] = e],
         ppringList' = [ppringList EXCEPT ![t] = b]
  PROVE  ListsDistinct' /\ ListsMatch'
<1>1. ListsDistinct'
  BY DEF ListsDistinct, EventWaitTypeOK
<1>2. ASSUME NEW u \in Threads, NEW f \in Events, NEW c \in Buckets
      PROVE  Contains(waitList'[f][c], u) <=> peventPtr'[u] = f /\ ppringList'[u] = c
  <2>1. Contains(waitList[f][c], u) <=> peventPtr[u] = f /\ ppringList[u] = c
    BY DEF ListsMatch
  <2>2. NULL # f
    BY EventWaitAssumption
  <2>3. CASE f = e /\ c = b
    BY <2>1, <2>2, <2>3 DEF EventWaitTypeOK
  <2>4. CASE ~ (f = e /\ c = b)
    <3>1. waitList'[f][c] = waitList[f][c]
      BY <2>4 DEF EventWaitTypeOK
    <3>2. QED BY <2>1, <2>2, <2>4, <3>1 DEF EventWaitTypeOK
  <2>5. QED BY <2>3, <2>4
<1>3. QED BY <1>1, <1>2 DEF ListsMatch

LEMMA ListsLose ==
  ASSUME EventWaitTypeOK, ListsDistinct, ListsMatch,
         NEW t \in Threads, NEW e \in Events, NEW b \in Buckets, NEW s,
         peventPtr[t] = e, ppringList[t] = b,
         IsInjective(s), \A u : Contains(s, u) <=> Contains(waitList[e][b], u) /\ u # t,
         waitList' = [waitList EXCEPT ![e][b] = s],
         peventPtr' = [peventPtr EXCEPT ![t] = NULL],
         UNCHANGED ppringList
  PROVE  ListsDistinct' /\ ListsMatch'
<1>1. ListsDistinct'
  BY DEF ListsDistinct, EventWaitTypeOK
<1>2. ASSUME NEW u \in Threads, NEW f \in Events, NEW c \in Buckets
      PROVE  Contains(waitList'[f][c], u) <=> peventPtr'[u] = f /\ ppringList'[u] = c
  <2>1. Contains(waitList[f][c], u) <=> peventPtr[u] = f /\ ppringList[u] = c
    BY DEF ListsMatch
  <2>2. NULL # f
    BY EventWaitAssumption
  <2>3. CASE f = e /\ c = b
    BY <2>1, <2>2, <2>3 DEF EventWaitTypeOK
  <2>4. CASE ~ (f = e /\ c = b)
    <3>1. waitList'[f][c] = waitList[f][c]
      BY <2>4 DEF EventWaitTypeOK
    <3>2. QED BY <2>1, <2>2, <2>4, <3>1 DEF EventWaitTypeOK
  <2>5. QED BY <2>3, <2>4
<1>3. QED BY <1>1, <1>2 DEF ListsMatch

LEMMA SameLists ==
  ASSUME ListsDistinct, ListsMatch, UNCHANGED <<waitList, peventPtr, ppringList>>
  PROVE  ListsDistinct' /\ ListsMatch'
  BY DEF ListsDistinct, ListsMatch

LEMMA EventWaitLists ==
  ASSUME EventWaitTypeOK, ListsDistinct, ListsMatch,
         NEW t \in Threads, NEW e \in Events, NEW timed, NEW prio,
         prio \in [Threads -> Priorities], peventPtr[t] = NULL, EventWait(t, e, timed, prio)
  PROVE  ListsDistinct' /\ ListsMatch'
<1> DEFINE b == BucketOf(e, prio[t])
           s == waitList[e][b]
<1>1. b \in Buckets
  BY BucketOfType DEF EventWaitTypeOK
<1> HIDE DEF b
<1>2. s \in Seq(Threads) /\ IsInjective(s)
  BY <1>1 DEF EventWaitTypeOK, ListsDistinct
<1>3. ~ Contains(s, t)
  BY <1>1, EventWaitAssumption DEF ListsMatch
<1>4. /\ IsInjective(Linked(e, s, t, prio))
      /\ \A u : Contains(Linked(e, s, t, prio), u) <=> Contains(s, u) \/ u = t
  BY <1>2, <1>3, LinkedElements
<1>5. /\ waitList' = [waitList EXCEPT ![e][b] = Linked(e, s, t, prio)]
      /\ peventPtr' = [peventPtr EXCEPT ![t] = e]
      /\ ppringList' = [ppringList EXCEPT ![t] = b]
  BY DEF EventWait, b
<1>6. QED BY <1>1, <1>4, <1>5, ListsGain

\* The first waiter of an event says in its TCB that it waits there.
LEMMA NextWaiterQueued ==
  ASSUME EventWaitTypeOK, ListsMatch, NEW e \in Events, HasWaiter(e)
  PROVE  /\ peventPtr[NextWaiter(e)] = e
         /\ ppringList[NextWaiter(e)] = NextBucket(e)
<1> DEFINE s == waitList[e][NextBucket(e)]
<1>1. NextBucket(e) \in Buckets /\ s # << >> /\ s \in Seq(Threads)
  BY NextBucketFound, NextWaiterType
<1>2. 1 \in 1..Len(s) /\ s[1] = NextWaiter(e)
  BY <1>1 DEF NextWaiter
<1>3. Contains(s, NextWaiter(e))
  BY <1>2 DEF Contains
<1>4. QED BY <1>1, <1>3, NextWaiterType DEF ListsMatch

LEMMA EventReadyLists ==
  ASSUME EventWaitTypeOK, ListsDistinct, ListsMatch,
         NEW e \in Events, NEW del, NEW prio, HasWaiter(e),
         EventReady(e, del, prio)
  PROVE  ListsDistinct' /\ ListsMatch'
<1> DEFINE t == NextWaiter(e)
           b == NextBucket(e)
           s == waitList[e][b]
<1>1. t \in Threads /\ b \in Buckets /\ s \in Seq(Threads) /\ s # << >>
  BY NextWaiterType, NextBucketFound
<1>2. peventPtr[t] = e /\ ppringList[t] = b /\ t = Head(s)
  BY NextWaiterQueued DEF NextWaiter
<1>3. IsInjective(s)
  BY <1>1 DEF ListsDistinct
<1>4. /\ waitList' = [waitList EXCEPT ![e][b] = Tail(s)]
      /\ peventPtr' = [peventPtr EXCEPT ![t] = NULL]
      /\ UNCHANGED ppringList
  BY DEF EventReady
<1> HIDE DEF t, b
<1>5. /\ IsInjective(Tail(s))
      /\ \A u : Contains(Tail(s), u) <=> Contains(s, u) /\ u # t
  BY <1>1, <1>2, <1>3, TailElements
<1>6. QED BY <1>1, <1>2, <1>4, <1>5, ListsLose

\* A thread leaves the queue that its TCB names.
LEMMA UnlinkLists ==
  ASSUME EventWaitTypeOK, ListsDistinct, ListsMatch,
         NEW t \in Threads, NEW e \in Events, peventPtr[t] = e,
         waitList' = [waitList EXCEPT ![e][ppringList[t]] =
                        Unlinked(waitList[e][ppringList[t]], t)],
         peventPtr' = [peventPtr EXCEPT ![t] = NULL],
         UNCHANGED ppringList
  PROVE  ListsDistinct' /\ ListsMatch'
<1> DEFINE b == ppringList[t]
           s == waitList[e][b]
<1>1. b \in Buckets /\ s \in Seq(Threads) /\ IsInjective(s)
  BY DEF EventWaitTypeOK, ListsDistinct
<1>2. /\ IsInjective(Unlinked(s, t))
      /\ \A u : Contains(Unlinked(s, t), u) <=> Contains(s, u) /\ u # t
  BY <1>1, UnlinkedElements
<1>3. QED BY <1>1, <1>2, ListsLose
=============================================================================
