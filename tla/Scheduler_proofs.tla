-------------------------- MODULE Scheduler_proofs --------------------------
(***************************************************************************)
(* Proofs about the scheduler: the ready table and the candidates stay     *)
(* exact under every call, interrupt and switch, with one processor and    *)
(* with several.                                                           *)
(***************************************************************************)
EXTENDS Scheduler, ListLemmas, FiniteSetTheorems

-----------------------------------------------------------------------------
(* What the table says of the ready threads R.                             *)

\* Every ring holds exactly the threads of W that belong to its queue and its
\* priority, each once, and has its bit set when it is not empty.
RingHolds(s, W, q, p) ==
  /\ IsInjective(s.ring[q][p])
  /\ \A t : Contains(s.ring[q][p], t) <=>
              t \in W /\ t \in Threads /\ QueueOf(s, t) = q /\ s.prio[t] = p
  /\ p \in s.rdy[q] <=> s.ring[q][p] # << >>

RingsExact(s, W) == \A q \in Queues, p \in Priorities : RingHolds(s, W, q, p)

\* Candidates and processors name each other, but for the processors of D.
CandsExact(s, D) ==
  /\ \A c \in CPUs \ D : s.cand[c] # NULL => s.cand[c] \in s.isCand /\ s.cpuId[s.cand[c]] = c
  /\ \A t \in s.isCand : s.cpuId[t] \notin D /\ s.cand[s.cpuId[t]] = t

TableExact(s, R, D) ==
  /\ TableType(s)
  /\ s.isCand \subseteq R /\ R \subseteq Threads
  /\ RingsExact(s, R \ s.isCand)
  /\ CandsExact(s, D)

\* No processor holds an idle thread, which is always ready: there is always a
\* thread that can be made the candidate.
IdleThere(s, R) == Idle \subseteq R /\ \A t \in Idle : s.cpuLock[t] = NULL

HeldLive(s) == \A t \in Threads : s.cpuLock[t] # NULL => s.cpuLock[t] \in s.active

Live(s) ==
  /\ s.active = {c \in CPUs : s.cand[c] # NULL}
  /\ 0 \in s.active

Sound(s, R) == TableExact(s, R, {}) /\ IdleThere(s, R) /\ HeldLive(s) /\ Live(s)

\* No thread that waits in a ring is more urgent than the candidate of c.
Unbeaten(s, R, c) == \A u \in R \ s.isCand : ~(s.prio[u] < s.prio[s.cand[c]])

\* A processor with a candidate that is less urgent has been told to look again.
Told(s, R) == \A c \in s.active : s.rot[c] \/ Unbeaten(s, R, c)

\* No processor holds a thread, of several.
NoneHeld(s) == SMP_EN => \A t \in Threads : s.cpuLock[t] = NULL

TellsToo(s, R, x, Q) == NoneHeld(s) /\ Told(s, R) => NoneHeld(x) /\ Told(x, Q)

-----------------------------------------------------------------------------
(* The inductive invariant.                                                *)

AfterValues == {NoCall, SchedCall}
               \cup {AffinityCall(u, d) : u \in Users, d \in CPUs \cup {NULL}}
               \cup {DownCall(d) : d \in CPUs}

AfterOK == after \in [Threads -> AfterValues]

TypeInv == TypeOK /\ AfterOK

ReadyThreads == {t \in Threads : Ready(t)}

TableInv == Sound(tab, ReadyThreads)

\* A processor that runs a thread is up; one that holds the kernel, or is in an
\* interrupt, is up; one that boots is not.
PlacesInv ==
  /\ \A c \in CPUs : running[c] # NULL <=> c \in tab.active
  /\ kernel # NULL => kernel \in tab.active
  /\ isr \subseteq tab.active
  /\ booting \cap tab.active = {}

\* A processor that has been told to stop, or is about to be told, holds no thread.
DownInv ==
  /\ \A d \in CPUs : "DOWN" \in ipi[d] =>
       d # 0 /\ \A t \in Threads : tab.cpuLock[t] # d
  /\ \A u \in Threads, d \in CPUs : after[u] = DownCall(d) =>
       "DOWN" \in ipi[d] \/ (d # 0 /\ d \notin tab.active \cup booting)

Askers(u) == {t \in Threads : waitFor[t] = u}
AskersOf(u, r) == {t \in Threads : waitFor[t] = u /\ request[t] = r}

\* Who waits for the state of another is on the list of that one, once, and what he
\* asks for has still room.
ListsInv ==
  /\ \A u \in Threads : IsInjective(pending[u]) /\ Range(pending[u]) = Askers(u)
  /\ \A t \in Threads : waitFor[t] # NULL =>
       SMP_EN /\ t \in Users /\ waitFor[t] \in Users \ {t} /\ request[t] \in Requests
  /\ \A u \in Threads, r \in Requests : nest[r][u] + Cardinality(AskersOf(u, r)) <= MaxNest

\* With several processors a candidate is replaced only by its own processor, in the
\* kernel, when it has ceased to be ready.
RunsInv ==
  SMP_EN => \A c \in tab.active :
    \/ running[c] = tab.cand[c]
    \/ /\ kernel = c /\ running[c] \notin tab.isCand
       /\ lock[running[c]] = 0 \/ waitFor[running[c]] # NULL

\* With one processor it can be replaced at any time.
RunsInvUp ==
  ~SMP_EN => \A c \in tab.active :
    ~AboutToSchedule(c) =>
       Ready(running[c]) /\ (running[c] = tab.cand[c] \/ lock[running[c]] > 0)

\* The calls that have stopped u and not let it continue yet.
Stoppers(u) ==
  {t \in Threads : waitFor[t] # u /\ \E d \in CPUs \cup {NULL} : after[t] = AffinityCall(u, d)}

StopInv ==
  /\ \A u \in Threads : Cardinality(Stoppers(u)) <= nest["STOP"][u]
  /\ \A t \in Threads, u \in Users, d \in CPUs \cup {NULL} :
       after[t] = AffinityCall(u, d) /\ waitFor[t] # NULL =>
         waitFor[t] = u /\ request[t] = "STOP"

\* A thread that is asked runs, or has locked the scheduler.
AskedInv ==
  /\ \A u \in Threads : pending[u] # << >> =>
       lock[u] > 0 \/ \E c \in tab.active : running[c] = u
  /\ \A c \in tab.active : pending[running[c]] # << >> =>
       AboutToSchedule(c) \/ c \in irq \/ lock[running[c]] > 0

IInv == /\ TypeInv /\ TableInv /\ PlacesInv /\ DownInv /\ ListsInv
        /\ RunsInv /\ RunsInvUp /\ StopInv /\ AskedInv

-----------------------------------------------------------------------------
(* Types of the table, field by field.                                     *)

LEMMA TableFields ==
  ASSUME NEW s, TableType(s)
  PROVE  /\ s = [active |-> s.active, cand |-> s.cand, rot |-> s.rot, ring |-> s.ring,
                 rdy |-> s.rdy, isCand |-> s.isCand, cpuId |-> s.cpuId, cpuLock |-> s.cpuLock,
                 prio |-> s.prio, counter |-> s.counter, front |-> s.front]
         /\ s.active \subseteq CPUs /\ s.cand \in [CPUs -> Threads \cup {NULL}]
         /\ s.rot \in [CPUs -> BOOLEAN] /\ s.ring \in [Queues -> [Priorities -> Seq(Threads)]]
         /\ s.rdy \in [Queues -> SUBSET Priorities] /\ s.isCand \subseteq Threads
         /\ s.cpuId \in [Threads -> CPUs] /\ s.cpuLock \in [Threads -> CPUs \cup {NULL}]
         /\ s.prio \in [Threads -> Priorities] /\ s.counter \in [Threads -> 0..Slice]
         /\ s.front \in [Threads -> BOOLEAN]
  BY DEF TableType

LEMMA QueueOfType ==
  ASSUME NEW s, TableType(s), NEW t \in Threads
  PROVE  /\ QueueOf(s, t) \in Queues
         /\ s.prio[t] \in Priorities
         /\ RingOf(s, t) \in Seq(Threads)
<1>1. s.cpuLock \in [Threads -> CPUs \cup {NULL}] /\ s.prio \in [Threads -> Priorities]
  BY TableFields
<1>2. QueueOf(s, t) \in Queues /\ s.prio[t] \in Priorities
  BY <1>1 DEF QueueOf, Queues
<1>3. s.ring \in [Queues -> [Priorities -> Seq(Threads)]]
  BY TableFields
<1>4. QED BY <1>2, <1>3 DEF RingOf

\* The fields that only a change of a ring leaves alone.
SameButRings(s, x) ==
  /\ x.active = s.active /\ x.cand = s.cand /\ x.rot = s.rot /\ x.isCand = s.isCand
  /\ x.cpuId = s.cpuId /\ x.cpuLock = s.cpuLock /\ x.prio = s.prio
  /\ x.counter = s.counter /\ x.front = s.front

LEMMA SetRingIs ==
  ASSUME NEW s, TableType(s), NEW t \in Threads, NEW r \in Seq(Threads)
  PROVE  /\ TableType(SetRing(s, t, r))
         /\ SameButRings(s, SetRing(s, t, r))
         /\ SetRing(s, t, r).rdy = s.rdy
         /\ SetRing(s, t, r).ring = [s.ring EXCEPT ![QueueOf(s, t)][s.prio[t]] = r]
<1> DEFINE q == QueueOf(s, t)
           p == s.prio[t]
           ring == [s.ring EXCEPT ![q][p] = r]
<1>1. q \in Queues /\ p \in Priorities
  BY QueueOfType
<1> HIDE DEF q, p
<1>2. ring \in [Queues -> [Priorities -> Seq(Threads)]]
  BY <1>1, TableFields
<1> HIDE DEF ring
<1>3. s = [active |-> s.active, cand |-> s.cand, rot |-> s.rot, ring |-> s.ring,
            rdy |-> s.rdy, isCand |-> s.isCand, cpuId |-> s.cpuId, cpuLock |-> s.cpuLock,
            prio |-> s.prio, counter |-> s.counter, front |-> s.front]
  BY TableFields
<1>4. SetRing(s, t, r) = [s EXCEPT !.ring = ring]
  BY <1>3 DEF SetRing, ring, q, p
<1>5. SetRing(s, t, r) =
        [active |-> s.active, cand |-> s.cand, rot |-> s.rot, ring |-> ring,
         rdy |-> s.rdy, isCand |-> s.isCand, cpuId |-> s.cpuId, cpuLock |-> s.cpuLock,
         prio |-> s.prio, counter |-> s.counter, front |-> s.front]
  BY <1>3, <1>4
<1>6. TableType(SetRing(s, t, r))
  BY <1>2, <1>5 DEF TableType
<1>7. QED BY <1>5, <1>6 DEF SameButRings, ring, q, p

-----------------------------------------------------------------------------
(* One thread leaves or enters a ring.                                     *)

LEMMA UnlinkedMembers ==
  ASSUME NEW r \in Seq(Threads), IsInjective(r), NEW t
  PROVE  /\ Unlinked(r, t) \in Seq(Threads) /\ IsInjective(Unlinked(r, t))
         /\ \A u : Contains(Unlinked(r, t), u) <=> Contains(r, u) /\ u # t
<1>1. Unlinked(r, t) = Without(r, t)
  BY DEF Unlinked
<1>2. CASE ~ Contains(r, t)
  <2>1. Without(r, t) = r
    BY <1>2 DEF Without
  <2>2. QED BY <1>1, <1>2, <2>1
<1>3. CASE Contains(r, t)
  <2> DEFINE k == CHOOSE i \in 1..Len(r) : r[i] = t
  <2>1. k \in 1..Len(r) /\ r[k] = t
    BY <1>3 DEF Contains
  <2>2. Without(r, t) = RemoveAt(r, k)
    BY <1>3 DEF Without
  <2> HIDE DEF k
  <2>3. /\ RemoveAt(r, k) \in Seq(Threads) /\ IsInjective(RemoveAt(r, k))
        /\ \A u : Contains(RemoveAt(r, k), u) <=> Contains(r, u) /\ u # r[k]
    BY <2>1, RemoveMembers
  <2>4. QED BY <1>1, <2>1, <2>2, <2>3
<1>4. QED BY <1>2, <1>3

LEMMA EmptyHasNone ==
  ASSUME NEW r \in Seq(Threads)
  PROVE  r = << >> <=> \A u : ~Contains(r, u)
<1>1. ASSUME r # << >> PROVE \E u : Contains(r, u)
  <2>1. 1 \in 1..Len(r)
    BY <1>1
  <2>2. QED BY <2>1 DEF Contains
<1>2. ASSUME r = << >>, NEW u PROVE ~Contains(r, u)
  BY <1>2 DEF Contains
<1>3. QED BY <1>1, <1>2

\* The members of the ring of one queue and priority, when the threads in rings are V.
RingIs(s, V, q, p, r) ==
  /\ IsInjective(r)
  /\ \A u : Contains(r, u) <=> u \in V /\ u \in Threads /\ QueueOf(s, u) = q /\ s.prio[u] = p

\* Only the ring of q and p has changed, to r, and with it its bit.
RingSet(s, x, q, p, r) ==
  /\ x.cpuLock = s.cpuLock /\ x.prio = s.prio
  /\ x.ring = [s.ring EXCEPT ![q][p] = r]
  /\ p \in x.rdy[q] <=> r # << >>
  /\ \A a \in Queues, b \in Priorities : a # q \/ b # p => (b \in x.rdy[a] <=> b \in s.rdy[a])

SameBut(V, W, t) == \A u : u # t => (u \in V <=> u \in W)

LEMMA RingsChange ==
  ASSUME NEW s, TableType(s), NEW W, RingsExact(s, W),
         NEW t \in Threads, NEW V, SameBut(V, W, t), NEW q, NEW p, q = QueueOf(s, t), p = s.prio[t],
         NEW r, RingIs(s, V, q, p, r), NEW x, RingSet(s, x, q, p, r)
  PROVE  RingsExact(x, V)
<1>1. q \in Queues /\ p \in Priorities /\ s.ring \in [Queues -> [Priorities -> Seq(Threads)]]
  BY QueueOfType, TableFields
<1>2. \A u : QueueOf(x, u) = QueueOf(s, u)
  BY DEF QueueOf, RingSet
<1>3. SUFFICES ASSUME NEW a \in Queues, NEW b \in Priorities PROVE RingHolds(x, V, a, b)
  BY DEF RingsExact
<1>4. CASE a = q /\ b = p
  <2>1. x.ring[a][b] = r
    BY <1>1, <1>4 DEF RingSet
  <2>2. QED BY <1>2, <1>4, <2>1 DEF RingHolds, RingIs, RingSet
<1>5. CASE a # q \/ b # p
  <2>1. x.ring[a][b] = s.ring[a][b]
    BY <1>1, <1>5 DEF RingSet
  <2>2. RingHolds(s, W, a, b)
    BY DEF RingsExact
  <2>3. \A u : u \in V /\ u \in Threads /\ QueueOf(s, u) = a /\ s.prio[u] = b
               <=> u \in W /\ u \in Threads /\ QueueOf(s, u) = a /\ s.prio[u] = b
    BY <1>5 DEF SameBut
  <2>4. b \in x.rdy[a] <=> b \in s.rdy[a]
    BY <1>5 DEF RingSet
  <2>5. x.prio = s.prio
    BY DEF RingSet
  <2>6. QED BY <1>2, <2>1, <2>2, <2>3, <2>4, <2>5 DEF RingHolds
<1>6. QED BY <1>4, <1>5

LEMMA RingOfIs ==
  ASSUME NEW s, TableType(s), NEW W, RingsExact(s, W), NEW t \in Threads
  PROVE  /\ RingIs(s, W, QueueOf(s, t), s.prio[t], RingOf(s, t))
         /\ s.prio[t] \in s.rdy[QueueOf(s, t)] <=> RingOf(s, t) # << >>
<1>1. QueueOf(s, t) \in Queues /\ s.prio[t] \in Priorities
  BY QueueOfType
<1>2. RingHolds(s, W, QueueOf(s, t), s.prio[t])
  BY <1>1 DEF RingsExact
<1>3. QED BY <1>2 DEF RingHolds, RingIs, RingOf

\* The bits of the table.
LEMMA BitsIs ==
  ASSUME NEW s, TableType(s), NEW t \in Threads
  PROVE  /\ TableType(ReadyTableAdd(s, t)) /\ SameButRings(s, ReadyTableAdd(s, t))
         /\ ReadyTableAdd(s, t).ring = s.ring
         /\ ReadyTableAdd(s, t).rdy = [s.rdy EXCEPT ![QueueOf(s, t)] = @ \cup {s.prio[t]}]
         /\ TableType(ReadyTableDelIfEmpty(s, t)) /\ SameButRings(s, ReadyTableDelIfEmpty(s, t))
         /\ ReadyTableDelIfEmpty(s, t).ring = s.ring
         /\ ReadyTableDelIfEmpty(s, t).rdy =
              IF RingOf(s, t) = << >> THEN [s.rdy EXCEPT ![QueueOf(s, t)] = @ \ {s.prio[t]}]
              ELSE s.rdy
<1> DEFINE q == QueueOf(s, t)
           p == s.prio[t]
           more == [s.rdy EXCEPT ![q] = @ \cup {p}]
           less == [s.rdy EXCEPT ![q] = @ \ {p}]
<1>1. q \in Queues /\ p \in Priorities
  BY QueueOfType
<1> HIDE DEF q, p
<1>2. s.rdy \in [Queues -> SUBSET Priorities]
  BY TableFields
<1>3. more \in [Queues -> SUBSET Priorities] /\ less \in [Queues -> SUBSET Priorities]
  BY <1>1, <1>2
<1> HIDE DEF more, less
<1>4. s = [active |-> s.active, cand |-> s.cand, rot |-> s.rot, ring |-> s.ring,
            rdy |-> s.rdy, isCand |-> s.isCand, cpuId |-> s.cpuId, cpuLock |-> s.cpuLock,
            prio |-> s.prio, counter |-> s.counter, front |-> s.front]
  BY TableFields
<1>5. ReadyTableAdd(s, t) = [s EXCEPT !.rdy = more]
  BY <1>4 DEF ReadyTableAdd, more, q, p
<1>6. ReadyTableAdd(s, t) =
       [active |-> s.active, cand |-> s.cand, rot |-> s.rot, ring |-> s.ring,
            rdy |-> more, isCand |-> s.isCand, cpuId |-> s.cpuId, cpuLock |-> s.cpuLock,
            prio |-> s.prio, counter |-> s.counter, front |-> s.front]
  BY <1>4, <1>5
<1>7. RingOf(s, t) = << >> => ReadyTableDelIfEmpty(s, t) = [s EXCEPT !.rdy = less]
  BY <1>4 DEF ReadyTableDelIfEmpty, less, q, p
<1>8. RingOf(s, t) = << >> => ReadyTableDelIfEmpty(s, t) =
       [active |-> s.active, cand |-> s.cand, rot |-> s.rot, ring |-> s.ring,
            rdy |-> less, isCand |-> s.isCand, cpuId |-> s.cpuId, cpuLock |-> s.cpuLock,
            prio |-> s.prio, counter |-> s.counter, front |-> s.front]
  BY <1>4, <1>7
<1>9. RingOf(s, t) # << >> => ReadyTableDelIfEmpty(s, t) = s
  BY DEF ReadyTableDelIfEmpty
<1>10. TableType(ReadyTableAdd(s, t)) /\ SameButRings(s, ReadyTableAdd(s, t))
       /\ ReadyTableAdd(s, t).ring = s.ring /\ ReadyTableAdd(s, t).rdy = more
  BY <1>3, <1>6 DEF TableType, SameButRings
<1>11. TableType(ReadyTableDelIfEmpty(s, t)) /\ SameButRings(s, ReadyTableDelIfEmpty(s, t))
       /\ ReadyTableDelIfEmpty(s, t).ring = s.ring
       /\ ReadyTableDelIfEmpty(s, t).rdy = IF RingOf(s, t) = << >> THEN less ELSE s.rdy
  <2>1. CASE RingOf(s, t) = << >>
    BY <1>3, <1>8, <2>1 DEF TableType, SameButRings
  <2>2. CASE RingOf(s, t) # << >>
    BY <1>9, <2>2 DEF SameButRings
  <2>3. QED BY <2>1, <2>2
<1>12. QED BY <1>10, <1>11 DEF more, less, q, p

\* The ring that AddTCBToReadyRing makes.
AddedTo(s, ring, t) ==
  IF t \in RoundRobin /\ s.front[t] /\ ring # << >>
  THEN InsertAt(ring, 2, t)
  ELSE Append(ring, t)

LEMMA AddedMembers ==
  ASSUME NEW s, NEW r \in Seq(Threads), IsInjective(r), NEW t \in Threads, ~Contains(r, t)
  PROVE  /\ AddedTo(s, r, t) \in Seq(Threads) /\ IsInjective(AddedTo(s, r, t))
         /\ \A u : Contains(AddedTo(s, r, t), u) <=> Contains(r, u) \/ u = t
<1>1. /\ Append(r, t) \in Seq(Threads) /\ IsInjective(Append(r, t))
      /\ \A u : Contains(Append(r, t), u) <=> Contains(r, u) \/ u = t
  BY AppendMembers
<1>2. CASE t \in RoundRobin /\ s.front[t] /\ r # << >>
  <2>1. 2 \in 1..(Len(r) + 1)
    BY <1>2
  <2>2. AddedTo(s, r, t) = InsertAt(r, 2, t)
    BY <1>2 DEF AddedTo
  <2>3. QED BY <2>1, <2>2, InsertMembers
<1>3. CASE ~(t \in RoundRobin /\ s.front[t] /\ r # << >>)
  <2>1. AddedTo(s, r, t) = Append(r, t)
    BY <1>3 DEF AddedTo
  <2>2. QED BY <1>1, <2>1
<1>4. QED BY <1>2, <1>3

TakeOut(s, t) == ReadyTableDelIfEmpty(DelTCBFromReadyRing(s, t), t)

LEMMA TakeOutIs ==
  ASSUME NEW s, TableType(s), NEW W, RingsExact(s, W), NEW t \in Threads
  PROVE  /\ TableType(TakeOut(s, t)) /\ SameButRings(s, TakeOut(s, t))
         /\ RingsExact(TakeOut(s, t), W \ {t})
<1> DEFINE q == QueueOf(s, t)
           p == s.prio[t]
           ring == RingOf(s, t)
           r == Unlinked(ring, t)
           y == SetRing(s, t, r)
           x == ReadyTableDelIfEmpty(y, t)
<1>1. q \in Queues /\ p \in Priorities /\ ring \in Seq(Threads)
  BY QueueOfType
<1>2. RingIs(s, W, q, p, ring) /\ (p \in s.rdy[q] <=> ring # << >>)
  BY RingOfIs
<1>3. TakeOut(s, t) = x
  BY DEF TakeOut, DelTCBFromReadyRing
<1> HIDE DEF ring
<1>4. /\ r \in Seq(Threads) /\ IsInjective(r)
      /\ \A u : Contains(r, u) <=> Contains(ring, u) /\ u # t
  BY <1>1, <1>2, UnlinkedMembers DEF RingIs
<1>5. RingIs(s, W \ {t}, q, p, r)
  BY <1>2, <1>4 DEF RingIs
<1> HIDE DEF r
<1>6. /\ TableType(y) /\ SameButRings(s, y) /\ y.rdy = s.rdy
      /\ y.ring = [s.ring EXCEPT ![q][p] = r]
  <2>1. r \in Seq(Threads)
    BY <1>4
  <2>2. TableType(y) /\ SameButRings(s, y) /\ y.rdy = s.rdy
    BY <2>1, SetRingIs
  <2>3. y.ring = [s.ring EXCEPT ![QueueOf(s, t)][s.prio[t]] = r]
    BY <2>1, SetRingIs
  <2>4. QED BY <2>2, <2>3
<1> HIDE DEF y
<1>7. QueueOf(y, t) = q /\ y.prio[t] = p
  BY <1>6 DEF SameButRings, QueueOf
<1>8. /\ s.ring \in [Queues -> [Priorities -> Seq(Threads)]]
      /\ s.rdy \in [Queues -> SUBSET Priorities]
  BY TableFields
<1> HIDE DEF q, p
<1>9. RingOf(y, t) = r
  BY <1>1, <1>6, <1>7, <1>8 DEF RingOf
<1>10. /\ TableType(x) /\ SameButRings(y, x) /\ x.ring = y.ring
       /\ x.rdy = IF r = << >> THEN [s.rdy EXCEPT ![q] = @ \ {p}] ELSE s.rdy
  <2>1. /\ TableType(x) /\ SameButRings(y, x) /\ x.ring = y.ring
        /\ x.rdy = IF RingOf(y, t) = << >> THEN [y.rdy EXCEPT ![QueueOf(y, t)] = @ \ {y.prio[t]}]
                   ELSE y.rdy
    BY <1>6, BitsIs
  <2>2. QED BY <1>6, <1>7, <1>9, <2>1
<1> HIDE DEF x
<1>11. SameButRings(s, x)
  BY <1>6, <1>10 DEF SameButRings
<1>12. p \in x.rdy[q] <=> r # << >>
  <2>1. ring = << >> => r = << >>
    BY <1>1, <1>4, EmptyHasNone
  <2>2. CASE r = << >>
    BY <1>1, <1>8, <1>10, <2>2
  <2>3. CASE r # << >>
    BY <1>2, <1>10, <2>1, <2>3
  <2>4. QED BY <2>2, <2>3
<1>13. \A a \in Queues, b \in Priorities : a # q \/ b # p => (b \in x.rdy[a] <=> b \in s.rdy[a])
  BY <1>1, <1>8, <1>10
<1>14. RingsExact(x, W \ {t})
  <2>1. RingSet(s, x, q, p, r)
    BY <1>6, <1>10, <1>11, <1>12, <1>13 DEF RingSet, SameButRings
  <2>2. q = QueueOf(s, t) /\ p = s.prio[t]
    BY DEF q, p
  <2>3. SameBut(W \ {t}, W, t)
    BY DEF SameBut
  <2>4. QED BY <1>5, <2>1, <2>2, <2>3, RingsChange
<1>15. QED BY <1>3, <1>10, <1>11, <1>14

\* Into the ring of t goes r.
RingPut(s, x, t, r) ==
  /\ x.cpuLock = s.cpuLock /\ x.prio = s.prio
  /\ x.ring = [s.ring EXCEPT ![QueueOf(s, t)][s.prio[t]] = r]
  /\ x.rdy = IF RingOf(s, t) = << >>
             THEN [s.rdy EXCEPT ![QueueOf(s, t)] = @ \cup {s.prio[t]}] ELSE s.rdy

LEMMA PutIs ==
  ASSUME NEW s, TableType(s), NEW W, RingsExact(s, W), NEW t \in Threads, t \notin W,
         NEW r \in Seq(Threads), IsInjective(r),
         \A u : Contains(r, u) <=> Contains(RingOf(s, t), u) \/ u = t,
         NEW x, RingPut(s, x, t, r)
  PROVE  RingsExact(x, W \cup {t})
<1> DEFINE q == QueueOf(s, t)
           p == s.prio[t]
           ring == RingOf(s, t)
<1>1. q \in Queues /\ p \in Priorities /\ ring \in Seq(Threads)
  BY QueueOfType
<1>2. RingIs(s, W, q, p, ring) /\ (p \in s.rdy[q] <=> ring # << >>)
  BY RingOfIs
<1>3. RingIs(s, W \cup {t}, q, p, r)
  BY <1>2 DEF RingIs
<1>4. s.rdy \in [Queues -> SUBSET Priorities]
  BY TableFields
<1>5. r # << >>
  BY EmptyHasNone
<1>6. /\ x.ring = [s.ring EXCEPT ![q][p] = r] /\ q = QueueOf(s, t) /\ p = s.prio[t]
      /\ x.rdy = IF ring = << >> THEN [s.rdy EXCEPT ![q] = @ \cup {p}] ELSE s.rdy
      /\ x.cpuLock = s.cpuLock /\ x.prio = s.prio
  BY DEF RingPut
<1> HIDE DEF q, p, ring
<1>7. p \in x.rdy[q]
  <2>1. CASE ring = << >>
    BY <1>1, <1>4, <1>6, <2>1
  <2>2. CASE ring # << >>
    BY <1>2, <1>6, <2>2
  <2>3. QED BY <2>1, <2>2
<1>8. \A a \in Queues, b \in Priorities : a # q \/ b # p => (b \in x.rdy[a] <=> b \in s.rdy[a])
  BY <1>1, <1>4, <1>6
<1>9. SameBut(W \cup {t}, W, t)
  BY DEF SameBut
<1>10. RingSet(s, x, q, p, r)
  BY <1>5, <1>6, <1>7, <1>8 DEF RingSet
<1>11. QED BY <1>3, <1>6, <1>9, <1>10, RingsChange

LEMMA IntoRingIs ==
  ASSUME NEW s, TableType(s), NEW W, RingsExact(s, W), NEW t \in Threads, t \notin W
  PROVE  /\ TableType(IntoRing(s, t)) /\ SameButRings(s, IntoRing(s, t))
         /\ RingsExact(IntoRing(s, t), W \cup {t})
<1> DEFINE ring == RingOf(s, t)
           y == IF ring = << >> THEN ReadyTableAdd(s, t) ELSE s
           r == AddedTo(y, ring, t)
           x == SetRing(y, t, r)
<1>1. ring \in Seq(Threads) /\ IsInjective(ring) /\ ~Contains(ring, t)
  BY QueueOfType, RingOfIs DEF RingIs
<1>2. TableType(y) /\ SameButRings(s, y) /\ y.ring = s.ring
      /\ y.rdy = IF ring = << >> THEN [s.rdy EXCEPT ![QueueOf(s, t)] = @ \cup {s.prio[t]}]
                 ELSE s.rdy
  <2>1. CASE ring = << >>
    BY <2>1, BitsIs
  <2>2. CASE ring # << >>
    BY <2>2 DEF SameButRings
  <2>3. QED BY <2>1, <2>2
<1>3. IntoRing(s, t) = AddTCBToReadyRing(y, t)
  BY DEF IntoRing
<1> HIDE DEF y
<1>4. QueueOf(y, t) = QueueOf(s, t) /\ y.prio = s.prio /\ RingOf(y, t) = ring
  BY <1>2 DEF SameButRings, QueueOf, RingOf
<1>5. IntoRing(s, t) = x
  BY <1>3, <1>4 DEF AddTCBToReadyRing, AddedTo
<1>6. /\ r \in Seq(Threads) /\ IsInjective(r)
      /\ \A u : Contains(r, u) <=> Contains(ring, u) \/ u = t
  BY <1>1, AddedMembers
<1> HIDE DEF r
<1>7. /\ TableType(x) /\ SameButRings(y, x) /\ x.rdy = y.rdy
      /\ x.ring = [s.ring EXCEPT ![QueueOf(s, t)][s.prio[t]] = r]
  <2>1. /\ TableType(x) /\ SameButRings(y, x) /\ x.rdy = y.rdy
        /\ x.ring = [y.ring EXCEPT ![QueueOf(y, t)][y.prio[t]] = r]
    BY <1>2, <1>6, SetRingIs
  <2>2. QED BY <1>2, <1>4, <2>1
<1> HIDE DEF x
<1>8. SameButRings(s, x)
  BY <1>2, <1>7 DEF SameButRings
<1>9. RingsExact(x, W \cup {t})
  <2>1. RingPut(s, x, t, r)
    BY <1>2, <1>7, <1>8 DEF RingPut, SameButRings
  <2>2. QED BY <1>6, <2>1, PutIs
<1>10. QED BY <1>5, <1>7, <1>8, <1>9

-----------------------------------------------------------------------------
(* The candidate of a processor goes, and another is taken.                *)

LEMMA SameRings ==
  ASSUME NEW s, NEW W, RingsExact(s, W), NEW x,
         x.ring = s.ring, x.rdy = s.rdy, x.cpuLock = s.cpuLock, x.prio = s.prio
  PROVE  RingsExact(x, W)
<1>1. \A u : QueueOf(x, u) = QueueOf(s, u)
  BY DEF QueueOf
<1>2. QED BY <1>1 DEF RingsExact, RingHolds

\* The fields that a change of the candidates leaves alone.
SameButCands(s, x) ==
  /\ x.active = s.active /\ x.rot = s.rot /\ x.ring = s.ring /\ x.rdy = s.rdy
  /\ x.cpuLock = s.cpuLock /\ x.prio = s.prio /\ x.counter = s.counter /\ x.front = s.front

LEMMA BecomeCandIs ==
  ASSUME NEW s, TableType(s), NEW c \in CPUs, NEW t \in Threads
  PROVE  /\ TableType(BecomeCand(s, c, t)) /\ SameButCands(s, BecomeCand(s, c, t))
         /\ BecomeCand(s, c, t).cand = [s.cand EXCEPT ![c] = t]
         /\ BecomeCand(s, c, t).cpuId = [s.cpuId EXCEPT ![t] = c]
         /\ BecomeCand(s, c, t).isCand = s.isCand \cup {t}
<1> DEFINE cand == [s.cand EXCEPT ![c] = t]
           cpuId == [s.cpuId EXCEPT ![t] = c]
           isCand == s.isCand \cup {t}
<1>1. s = [active |-> s.active, cand |-> s.cand, rot |-> s.rot, ring |-> s.ring,
            rdy |-> s.rdy, isCand |-> s.isCand, cpuId |-> s.cpuId, cpuLock |-> s.cpuLock,
            prio |-> s.prio, counter |-> s.counter, front |-> s.front]
  BY TableFields
<1>2. /\ cand \in [CPUs -> Threads \cup {NULL}] /\ cpuId \in [Threads -> CPUs]
      /\ isCand \subseteq Threads
  BY TableFields
<1> HIDE DEF cand, cpuId, isCand
<1>3. BecomeCand(s, c, t) = [s EXCEPT !.cand = cand, !.cpuId = cpuId, !.isCand = isCand]
  BY <1>1 DEF BecomeCand, cand, cpuId, isCand
<1>4. BecomeCand(s, c, t) =
        [active |-> s.active, cand |-> cand, rot |-> s.rot, ring |-> s.ring,
            rdy |-> s.rdy, isCand |-> isCand, cpuId |-> cpuId, cpuLock |-> s.cpuLock,
            prio |-> s.prio, counter |-> s.counter, front |-> s.front]
  BY <1>1, <1>3
<1>5. TableType(BecomeCand(s, c, t))
  BY <1>2, <1>4 DEF TableType
<1>6. QED BY <1>4, <1>5 DEF SameButCands, cand, cpuId, isCand

\* What the removal of the candidate of c changes apart from the rings.
Gone(s, c, t) == [s EXCEPT !.isCand = @ \ {t}, !.cand[c] = NULL]

LEMMA GoneIs ==
  ASSUME NEW s, TableType(s), NEW c \in CPUs, NEW t
  PROVE  /\ TableType(Gone(s, c, t)) /\ SameButCands(s, Gone(s, c, t))
         /\ Gone(s, c, t).cand = [s.cand EXCEPT ![c] = NULL]
         /\ Gone(s, c, t).cpuId = s.cpuId /\ Gone(s, c, t).isCand = s.isCand \ {t}
<1> DEFINE cand == [s.cand EXCEPT ![c] = NULL]
           isCand == s.isCand \ {t}
<1>1. s = [active |-> s.active, cand |-> s.cand, rot |-> s.rot, ring |-> s.ring,
            rdy |-> s.rdy, isCand |-> s.isCand, cpuId |-> s.cpuId, cpuLock |-> s.cpuLock,
            prio |-> s.prio, counter |-> s.counter, front |-> s.front]
  BY TableFields
<1>2. cand \in [CPUs -> Threads \cup {NULL}] /\ isCand \subseteq Threads
  BY TableFields
<1> HIDE DEF cand, isCand
<1>3. Gone(s, c, t) = [s EXCEPT !.isCand = isCand, !.cand = cand]
  BY <1>1 DEF Gone, cand, isCand
<1>4. Gone(s, c, t) = [active |-> s.active, cand |-> cand, rot |-> s.rot, ring |-> s.ring,
            rdy |-> s.rdy, isCand |-> isCand, cpuId |-> s.cpuId, cpuLock |-> s.cpuLock,
            prio |-> s.prio, counter |-> s.counter, front |-> s.front]
  BY <1>1, <1>3
<1>5. TableType(Gone(s, c, t))
  BY <1>2, <1>4 DEF TableType
<1>6. QED BY <1>4, <1>5 DEF SameButCands, cand, isCand

\* _CandTableEmpty
LEMMA EmptyIs ==
  ASSUME NEW s, NEW R, TableExact(s, R, {}), NEW c \in CPUs, s.cand[c] # NULL,
         NEW y, y = CandTableEmpty(s, c)
  PROVE  /\ TableExact(y, R, {})
         /\ y.cand = [s.cand EXCEPT ![c] = NULL] /\ y.isCand = s.isCand \ {s.cand[c]}
         /\ y.active = s.active /\ y.rot = s.rot /\ y.cpuId = s.cpuId /\ y.cpuLock = s.cpuLock
         /\ y.prio = s.prio /\ y.counter = s.counter /\ y.front = s.front
<1> DEFINE t == s.cand[c]
           W == R \ s.isCand
           ring == RingOf(s, t)
           r == << t >> \o ring
           s1 == SetRing(s, t, r)
           s2 == [s1 EXCEPT !.isCand = @ \ {t}, !.cand[c] = NULL]
<1>1. TableType(s) /\ RingsExact(s, W) /\ CandsExact(s, {}) /\ s.isCand \subseteq R /\ R \subseteq Threads
  BY DEF TableExact
<1>2. t \in s.isCand /\ s.cpuId[t] = c /\ t \in R /\ t \in Threads /\ t \notin W
  BY <1>1 DEF CandsExact
<1>3. ring \in Seq(Threads) /\ IsInjective(ring) /\ ~Contains(ring, t)
  BY <1>1, <1>2, QueueOfType, RingOfIs DEF RingIs
<1> HIDE DEF t, W, ring
<1>4. r = Cons(t, ring)
  BY DEF Cons
<1>5. /\ r \in Seq(Threads) /\ IsInjective(r)
      /\ \A u : Contains(r, u) <=> Contains(ring, u) \/ u = t
  <2>1. Cons(t, ring) \in Seq(Threads)
    BY <1>2, <1>3 DEF Cons
  <2>2. /\ IsInjective(Cons(t, ring))
        /\ \A u : Contains(Cons(t, ring), u) <=> Contains(ring, u) \/ u = t
    BY <1>2, <1>3, ConsMembers
  <2>3. QED BY <1>4, <2>1, <2>2
<1>6. Len(r) = 1 <=> ring = << >>
  <2>1. << t >> \in Seq(Threads) /\ Len(<< t >>) = 1
    BY <1>2
  <2>2. Len(r) = 1 + Len(ring)
    BY <1>3, <2>1
  <2>3. Len(ring) \in Nat /\ (ring = << >> <=> Len(ring) = 0)
    BY <1>3
  <2>4. QED BY <2>2, <2>3
<1> HIDE DEF r
<1>7. /\ TableType(s1) /\ SameButRings(s, s1) /\ s1.rdy = s.rdy
      /\ s1.ring = [s.ring EXCEPT ![QueueOf(s, t)][s.prio[t]] = r]
  BY <1>1, <1>2, <1>5, SetRingIs
<1>8. y = IF Len(RingOf(s2, t)) = 1 THEN ReadyTableAdd(s2, t) ELSE s2
  BY DEF CandTableEmpty, r, ring, t
<1> HIDE DEF s1
<1>9. /\ TableType(s2) /\ SameButCands(s1, s2)
      /\ s2.cand = [s1.cand EXCEPT ![c] = NULL]
      /\ s2.cpuId = s1.cpuId /\ s2.isCand = s1.isCand \ {t}
  <2>1. s2 = Gone(s1, c, t)
    BY DEF Gone
  <2> HIDE DEF s2
  <2>2. /\ TableType(Gone(s1, c, t)) /\ SameButCands(s1, Gone(s1, c, t))
        /\ Gone(s1, c, t).cand = [s1.cand EXCEPT ![c] = NULL]
        /\ Gone(s1, c, t).cpuId = s1.cpuId /\ Gone(s1, c, t).isCand = s1.isCand \ {t}
    BY <1>7, GoneIs
  <2>3. QED BY <2>1, <2>2
<1> HIDE DEF s2
<1>10. QueueOf(s2, t) = QueueOf(s, t) /\ s2.prio = s.prio /\ s2.rdy = s.rdy
  BY <1>7, <1>9 DEF QueueOf, SameButRings, SameButCands
<1>11. RingOf(s2, t) = r
  <2>1. QueueOf(s, t) \in Queues /\ s.prio[t] \in Priorities
        /\ s.ring \in [Queues -> [Priorities -> Seq(Threads)]]
    BY <1>1, <1>2, QueueOfType, TableFields
  <2>2. s2.ring = [s.ring EXCEPT ![QueueOf(s, t)][s.prio[t]] = r]
    BY <1>7, <1>9 DEF SameButCands
  <2>3. QED BY <1>10, <2>1, <2>2 DEF RingOf
<1>12. /\ TableType(y) /\ SameButRings(s2, y) /\ y.ring = s2.ring
       /\ y.rdy = IF ring = << >> THEN [s.rdy EXCEPT ![QueueOf(s, t)] = @ \cup {s.prio[t]}]
                  ELSE s.rdy
  <2>1. CASE ring = << >>
    <3>0. Len(RingOf(s2, t)) = 1
      BY <1>6, <1>11, <2>1
    <3>1. y = ReadyTableAdd(s2, t)
      BY <1>8, <3>0
    <3>2. ReadyTableAdd(s2, t).rdy = [s2.rdy EXCEPT ![QueueOf(s2, t)] = @ \cup {s2.prio[t]}]
      BY <1>2, <1>9, BitsIs
    <3>3. /\ TableType(ReadyTableAdd(s2, t)) /\ SameButRings(s2, ReadyTableAdd(s2, t))
          /\ ReadyTableAdd(s2, t).ring = s2.ring
      BY <1>2, <1>9, BitsIs
    <3>4. QED BY <1>10, <2>1, <3>1, <3>2, <3>3
  <2>2. CASE ring # << >>
    <3>1. Len(RingOf(s2, t)) # 1
      BY <1>6, <1>11, <2>2
    <3>2. y = s2
      BY <1>8, <3>1
    <3>3. QED BY <1>9, <1>10, <2>2, <3>2 DEF SameButRings
  <2>3. QED BY <2>1, <2>2
<1>13. /\ y.cand = [s.cand EXCEPT ![c] = NULL] /\ y.isCand = s.isCand \ {t}
       /\ y.active = s.active /\ y.rot = s.rot /\ y.cpuId = s.cpuId /\ y.cpuLock = s.cpuLock
       /\ y.prio = s.prio /\ y.counter = s.counter /\ y.front = s.front
       /\ y.ring = [s.ring EXCEPT ![QueueOf(s, t)][s.prio[t]] = r]
  BY <1>7, <1>9, <1>12 DEF SameButRings, SameButCands
<1>14. RingsExact(y, W \cup {t})
  <2>1. \A u : Contains(r, u) <=> Contains(RingOf(s, t), u) \/ u = t
    BY <1>5 DEF ring
  <2>2. RingPut(s, y, t, r)
    BY <1>12, <1>13 DEF RingPut, ring
  <2>3. QED BY <1>1, <1>2, <1>5, <2>1, <2>2, PutIs
<1>15. W \cup {t} = R \ y.isCand
  BY <1>2, <1>13 DEF W
<1>16. CandsExact(y, {})
  <2>1. s.cand \in [CPUs -> Threads \cup {NULL}] /\ s.cpuId \in [Threads -> CPUs]
        /\ s.isCand \subseteq Threads
    BY <1>1, TableFields
  <2>2. ASSUME NEW d \in CPUs, y.cand[d] # NULL
        PROVE  y.cand[d] \in y.isCand /\ y.cpuId[y.cand[d]] = d
    <3>1. d # c /\ y.cand[d] = s.cand[d]
      BY <1>13, <2>1, <2>2
    <3>2. s.cand[d] \in s.isCand /\ s.cpuId[s.cand[d]] = d
      BY <1>1, <2>2, <3>1 DEF CandsExact
    <3>3. QED BY <1>2, <1>13, <3>1, <3>2
  <2>3. ASSUME NEW u \in y.isCand PROVE y.cand[y.cpuId[u]] = u
    <3>1. u \in s.isCand /\ u # t
      BY <1>13
    <3>2. s.cand[s.cpuId[u]] = u
      BY <1>1, <3>1 DEF CandsExact
    <3>3. s.cpuId[u] # c
      BY <3>1, <3>2 DEF t
    <3>4. QED BY <1>13, <2>1, <3>1, <3>2, <3>3
  <2>4. QED BY <2>2, <2>3 DEF CandsExact
<1>17. QED
  <2>1. y.isCand \subseteq R
    BY <1>1, <1>13
  <2>2. TableExact(y, R, {})
    BY <1>1, <1>12, <1>14, <1>15, <1>16, <2>1 DEF TableExact
  <2>3. QED BY <1>13, <2>2 DEF t

\* A ring that is not empty has been found.
Found(s, best) ==
  /\ best.queue \in Queues /\ best.prio \in Priorities
  /\ s.ring[best.queue][best.prio] # << >>

LEMMA HeadIs ==
  ASSUME NEW s, TableType(s), NEW W, RingsExact(s, W), NEW q \in Queues, NEW p \in Priorities,
         s.ring[q][p] # << >>
  PROVE  LET t == Head(s.ring[q][p])
         IN  t \in W /\ t \in Threads /\ QueueOf(s, t) = q /\ s.prio[t] = p
<1> DEFINE r == s.ring[q][p]
           t == Head(r)
<1>1. r \in Seq(Threads) /\ r # << >>
  BY TableFields
<1>2. RingHolds(s, W, q, p)
  BY DEF RingsExact
<1>3. 1 \in 1..Len(r) /\ t = r[1]
  BY <1>1
<1>4. Contains(r, t)
  BY <1>3 DEF Contains
<1>5. \A u : Contains(r, u) <=> u \in W /\ u \in Threads /\ QueueOf(s, u) = q /\ s.prio[u] = p
  BY <1>2 DEF RingHolds
<1> HIDE DEF r
<1>6. t \in W /\ t \in Threads /\ QueueOf(s, t) = q /\ s.prio[t] = p
  BY <1>4, <1>5
<1>7. QED BY <1>6 DEF r

\* _CandSeekThread
LEMMA SeekThreadIs ==
  ASSUME NEW s, TableType(s), NEW W, RingsExact(s, W), NEW best, Found(s, best),
         NEW y, y = CandSeekThread(s, best)
  PROVE  /\ TableType(y) /\ RingsExact(y, W) /\ Found(y, best)
         /\ y.active = s.active /\ y.cand = s.cand /\ y.rot = s.rot /\ y.isCand = s.isCand
         /\ y.cpuId = s.cpuId /\ y.cpuLock = s.cpuLock /\ y.prio = s.prio /\ y.front = s.front
<1> DEFINE q == best.queue
           p == best.prio
           ring == s.ring[q][p]
           t == Head(ring)
           r == Append(Tail(ring), t)
           counter == [s.counter EXCEPT ![t] = Slice]
           rings == [s.ring EXCEPT ![q][p] = r]
<1>1. CASE ~(t \in RoundRobin /\ s.counter[t] = 0)
  BY <1>1 DEF CandSeekThread
<1>2. CASE t \in RoundRobin /\ s.counter[t] = 0
  <2>1. q \in Queues /\ p \in Priorities /\ ring # << >>
    BY DEF Found
  <2>2. ring \in Seq(Threads) /\ s.ring \in [Queues -> [Priorities -> Seq(Threads)]]
    BY <2>1, TableFields
  <2>3. t \in Threads /\ QueueOf(s, t) = q /\ s.prio[t] = p
    BY <2>1, HeadIs
  <2>4. RingHolds(s, W, q, p)
    BY <2>1 DEF RingsExact
  <2>5. y = [s EXCEPT !.counter[t] = Slice, !.ring[q][p] = Append(Tail(ring), t)]
    BY <1>2 DEF CandSeekThread
  <2>6. Contains(ring, t)
    <3>1. 1 \in 1..Len(ring) /\ t = ring[1]
      BY <2>1, <2>2
    <3>2. QED BY <3>1 DEF Contains
  <2>7. IsInjective(ring)
        /\ \A u : Contains(ring, u) <=>
                    u \in W /\ u \in Threads /\ QueueOf(s, u) = q /\ s.prio[u] = p
    BY <2>4 DEF RingHolds
  <2>8. p \in s.rdy[q]
    BY <2>1, <2>4 DEF RingHolds
  <2>9. s = [active |-> s.active, cand |-> s.cand, rot |-> s.rot, ring |-> s.ring,
            rdy |-> s.rdy, isCand |-> s.isCand, cpuId |-> s.cpuId, cpuLock |-> s.cpuLock,
            prio |-> s.prio, counter |-> s.counter, front |-> s.front]
    BY TableFields
  <2>10. counter \in [Threads -> 0..Slice]
    <3>1. Slice \in 0..Slice
      BY CandTableAssumption
    <3>2. s.counter \in [Threads -> 0..Slice]
      BY TableFields
    <3>3. QED BY <3>1, <3>2
  <2>11. y = [s EXCEPT !.counter = counter, !.ring = rings]
    BY <2>5, <2>9
  <2> HIDE DEF q, p, ring
  <2>12. /\ Tail(ring) \in Seq(Threads) /\ IsInjective(Tail(ring))
         /\ \A u : Contains(Tail(ring), u) <=> Contains(ring, u) /\ u # t
    BY <2>1, <2>2, <2>7, TailMembers
  <2> HIDE DEF t
  <2>13. /\ r \in Seq(Threads) /\ IsInjective(r)
         /\ \A u : Contains(r, u) <=> Contains(Tail(ring), u) \/ u = t
    <3> DEFINE tail == Tail(ring)
    <3>1. tail \in Seq(Threads) /\ IsInjective(tail) /\ ~Contains(tail, t)
      BY <2>12
    <3> HIDE DEF tail
    <3>2. /\ Append(tail, t) \in Seq(Threads) /\ IsInjective(Append(tail, t))
          /\ \A u : Contains(Append(tail, t), u) <=> Contains(tail, u) \/ u = t
      BY <2>3, <3>1, AppendMembers
    <3>3. QED BY <3>2 DEF tail
  <2> HIDE DEF r, counter
  <2>14. \A u : Contains(r, u) <=> Contains(ring, u)
    BY <2>6, <2>12, <2>13
  <2>15. r # << >>
    BY <2>6, <2>13, <2>14, EmptyHasNone
  <2>16. rings \in [Queues -> [Priorities -> Seq(Threads)]] /\ rings[q][p] = r
    BY <2>1, <2>2, <2>13
  <2> HIDE DEF rings
  <2>17. y = [active |-> s.active, cand |-> s.cand, rot |-> s.rot, ring |-> rings,
            rdy |-> s.rdy, isCand |-> s.isCand, cpuId |-> s.cpuId, cpuLock |-> s.cpuLock,
            prio |-> s.prio, counter |-> counter, front |-> s.front]
    BY <2>9, <2>11
  <2>18. TableType(y)
    BY <2>10, <2>16, <2>17 DEF TableType
  <2>19. RingSet(s, y, q, p, r)
    BY <2>8, <2>15, <2>17 DEF RingSet, rings
  <2>20. RingIs(s, W, q, p, r)
    BY <2>7, <2>13, <2>14 DEF RingIs
  <2>21. RingsExact(y, W)
    <3>1. SameBut(W, W, t)
      BY DEF SameBut
    <3>2. QED BY <2>3, <2>19, <2>20, <3>1, RingsChange
  <2>22. Found(y, best)
    BY <2>1, <2>15, <2>16, <2>17 DEF Found, q, p
  <2>23. QED BY <2>17, <2>18, <2>21, <2>22
<1>3. QED BY <1>1, <1>2

\* What the choice of a candidate for c changes.
Took(s, x, c) ==
  /\ x.active = s.active /\ x.rot = s.rot
  /\ x.cpuLock = s.cpuLock /\ x.prio = s.prio /\ x.front = s.front
  /\ \E t \in Threads \ s.isCand :
       x.cand = [s.cand EXCEPT ![c] = t] /\ x.isCand = s.isCand \cup {t}

LEMMA ReselIs ==
  ASSUME NEW s, NEW R, NEW c \in CPUs, TableExact(s, R, {c}), NEW best, Found(s, best),
         NEW x, x = CandTableResel(s, c, best)
  PROVE  TableExact(x, R, {}) /\ Took(s, x, c) /\ x.prio[x.cand[c]] = best.prio
<1> DEFINE W == R \ s.isCand
           s1 == CandSeekThread(s, best)
           t == Head(s1.ring[best.queue][best.prio])
           s2 == BecomeCand(s1, c, t)
<1>1. TableType(s) /\ RingsExact(s, W) /\ CandsExact(s, {c}) /\ s.isCand \subseteq R /\ R \subseteq Threads
  BY DEF TableExact
<1>2. x = TakeOut(s2, t)
  BY DEF CandTableResel, BecomeCand, TakeOut
<1> HIDE DEF W
<1>3. /\ TableType(s1) /\ RingsExact(s1, W) /\ Found(s1, best)
      /\ s1.active = s.active /\ s1.cand = s.cand /\ s1.rot = s.rot /\ s1.isCand = s.isCand
      /\ s1.cpuId = s.cpuId /\ s1.cpuLock = s.cpuLock /\ s1.prio = s.prio /\ s1.front = s.front
  BY <1>1, SeekThreadIs
<1> HIDE DEF s1
<1>4. t \in W /\ t \in Threads /\ s1.prio[t] = best.prio
  BY <1>3, HeadIs DEF Found
<1> HIDE DEF t
<1>5. /\ TableType(s2) /\ SameButCands(s1, s2)
      /\ s2.cand = [s1.cand EXCEPT ![c] = t]
      /\ s2.cpuId = [s1.cpuId EXCEPT ![t] = c]
      /\ s2.isCand = s1.isCand \cup {t}
  BY <1>3, <1>4, BecomeCandIs
<1> HIDE DEF s2
<1>6. RingsExact(s2, W)
  <2>1. s2.ring = s1.ring /\ s2.rdy = s1.rdy /\ s2.cpuLock = s1.cpuLock /\ s2.prio = s1.prio
    BY <1>5 DEF SameButCands
  <2>2. QED BY <1>3, <2>1, SameRings
<1>7. TableType(x) /\ SameButRings(s2, x) /\ RingsExact(x, W \ {t})
  BY <1>2, <1>4, <1>5, <1>6, TakeOutIs
<1>8. /\ x.cand = [s.cand EXCEPT ![c] = t] /\ x.cpuId = [s.cpuId EXCEPT ![t] = c]
      /\ x.isCand = s.isCand \cup {t}
      /\ x.active = s.active /\ x.rot = s.rot /\ x.cpuLock = s.cpuLock /\ x.prio = s.prio
      /\ x.front = s.front
  BY <1>3, <1>5, <1>7 DEF SameButRings, SameButCands
<1>9. W \ {t} = R \ x.isCand /\ x.isCand \subseteq R
  BY <1>1, <1>4, <1>8 DEF W
<1>10. CandsExact(x, {})
  <2>1. s.cand \in [CPUs -> Threads \cup {NULL}] /\ s.cpuId \in [Threads -> CPUs]
        /\ s.isCand \subseteq Threads
    BY <1>1, TableFields
  <2>2. t \notin s.isCand
    BY <1>4 DEF W
  <2>3. ASSUME NEW d \in CPUs, x.cand[d] # NULL
        PROVE  x.cand[d] \in x.isCand /\ x.cpuId[x.cand[d]] = d
    <3>1. CASE d = c
      BY <1>4, <1>8, <2>1, <3>1
    <3>2. CASE d # c
      <4>1. x.cand[d] = s.cand[d]
        BY <1>8, <2>1, <3>2
      <4>2. s.cand[d] \in s.isCand /\ s.cpuId[s.cand[d]] = d
        BY <1>1, <2>3, <3>2, <4>1 DEF CandsExact
      <4>3. QED BY <1>8, <2>1, <2>2, <4>1, <4>2
    <3>3. QED BY <3>1, <3>2
  <2>4. ASSUME NEW u \in x.isCand PROVE x.cand[x.cpuId[u]] = u
    <3>1. CASE u = t
      BY <1>4, <1>8, <2>1, <3>1
    <3>2. CASE u # t
      <4>1. u \in s.isCand
        BY <1>8, <3>2
      <4>2. s.cpuId[u] # c /\ s.cand[s.cpuId[u]] = u
        BY <1>1, <4>1 DEF CandsExact
      <4>3. x.cpuId[u] = s.cpuId[u] /\ s.cpuId[u] \in CPUs
        BY <1>8, <2>1, <3>2, <4>1
      <4>4. QED BY <1>8, <2>1, <4>2, <4>3
    <3>3. QED BY <3>1, <3>2
  <2>5. QED BY <2>3, <2>4 DEF CandsExact
<1>11. TableExact(x, R, {})
  BY <1>1, <1>7, <1>9, <1>10 DEF TableExact
<1>12. t \in Threads \ s.isCand
  BY <1>4 DEF W
<1>13. Took(s, x, c)
  BY <1>8, <1>12 DEF Took
<1>14. x.prio[x.cand[c]] = best.prio
  BY <1>1, <1>3, <1>4, <1>8, TableFields
<1>15. QED BY <1>11, <1>13, <1>14

-----------------------------------------------------------------------------
(* There is always a thread that can be the candidate.                     *)

LEMMA SeekFound ==
  ASSUME NEW s, TableType(s), NEW W, RingsExact(s, W), NEW c \in CPUs,
         NEW best, best = SeekPriority(s, c), best # NULL \/ s.rdy[GLOBAL] # {}
  PROVE  Found(s, best)
<1> DEFINE mine == IF SMP_EN THEN s.rdy[c] ELSE {}
           global == s.rdy[GLOBAL]
           all == mine \cup global
           p == Min(all)
           q == IF p \in mine THEN c ELSE GLOBAL
<1>1. s.rdy \in [Queues -> SUBSET Priorities] /\ c \in Queues /\ GLOBAL \in Queues
  BY TableFields DEF Queues
<1>2. mine \subseteq Priorities /\ global \subseteq Priorities /\ all # {}
  BY <1>1 DEF SeekPriority
<1>3. all \subseteq Nat
  BY <1>2, CandTableAssumption
<1>4. best = [queue |-> q, prio |-> p]
  BY <1>2 DEF SeekPriority
<1>5. p \in all
  <2> HIDE DEF all
  <2>1. PICK x \in all : \A y \in all : ~(y < x)
    BY <1>2, <1>3, NatMin
  <2>2. \A y \in all : x <= y
    BY <1>3, <2>1
  <2>3. QED BY <2>1, <2>2 DEF Min
<1> HIDE DEF p
<1>6. q \in Queues /\ p \in Priorities /\ p \in s.rdy[q]
  BY <1>1, <1>2, <1>5
<1> HIDE DEF q
<1>7. s.ring[q][p] # << >>
  BY <1>6 DEF RingsExact, RingHolds
<1>8. QED BY <1>4, <1>6, <1>7 DEF Found

\* It is the most urgent one, when no processor holds a thread.
LEMMA SeekBest ==
  ASSUME NEW s, TableType(s), NEW W, RingsExact(s, W), NoneHeld(s), NEW c \in CPUs,
         NEW u \in W, u \in Threads
  PROVE  SeekPriority(s, c) # NULL /\ ~(s.prio[u] < SeekPriority(s, c).prio)
<1> DEFINE mine == IF SMP_EN THEN s.rdy[c] ELSE {}
           global == s.rdy[GLOBAL]
           all == mine \cup global
           p == Min(all)
           q == IF p \in mine THEN c ELSE GLOBAL
<1>1. s.rdy \in [Queues -> SUBSET Priorities] /\ c \in Queues /\ GLOBAL \in Queues
  BY TableFields DEF Queues
<1>2. QueueOf(s, u) = GLOBAL /\ s.prio[u] \in Priorities
  BY QueueOfType DEF NoneHeld, QueueOf
<1>3. s.prio[u] \in global
  <2>1. RingHolds(s, W, GLOBAL, s.prio[u])
    BY <1>1, <1>2 DEF RingsExact
  <2>2. Contains(s.ring[GLOBAL][s.prio[u]], u)
    BY <1>2, <2>1 DEF RingHolds
  <2>3. s.ring[GLOBAL][s.prio[u]] # << >>
    BY <2>2 DEF Contains
  <2>4. QED BY <2>1, <2>3 DEF RingHolds
<1>4. all \subseteq Priorities /\ all \subseteq Nat /\ s.prio[u] \in all
  BY <1>1, <1>3, CandTableAssumption
<1>5. SeekPriority(s, c) = [queue |-> q, prio |-> p]
  BY <1>4 DEF SeekPriority
<1>6. p \in all /\ \A y \in all : p <= y
  <2> HIDE DEF all
  <2>1. PICK x \in all : \A y \in all : ~(y < x)
    BY <1>4, NatMin
  <2>2. \A y \in all : x <= y
    BY <1>4, <2>1
  <2>3. QED BY <2>1, <2>2 DEF Min
<1> HIDE DEF p
<1>7. q \in Queues /\ p \in Priorities
  BY <1>1, <1>4, <1>6
<1>8. [queue |-> q, prio |-> p] # NULL
  BY <1>7, CandTableAssumption
<1>9. ~(s.prio[u] < p)
  BY <1>4, <1>6
<1>10. QED BY <1>5, <1>8, <1>9

\* There are as many idle threads as processors.
LEMMA IdleLeft ==
  ASSUME NEW s, NEW R, NEW c \in CPUs, TableExact(s, R, {c}), IdleThere(s, R)
  PROVE  s.rdy[GLOBAL] # {}
<1>1. TableType(s) /\ RingsExact(s, R \ s.isCand) /\ CandsExact(s, {c})
  BY DEF TableExact
<1>2. s.cpuId \in [Threads -> CPUs] /\ Idle \subseteq Threads
  BY <1>1, TableFields, SchedulerAssumption
<1>3. \E i \in Idle : i \notin s.isCand
  <2> SUFFICES ASSUME Idle \subseteq s.isCand PROVE FALSE
    OBVIOUS
  <2> DEFINE others == CPUs \ {c}
             f == [i \in Idle |-> s.cpuId[i]]
  <2>1. IsFiniteSet(CPUs) /\ IsFiniteSet(Threads)
    BY CandTableAssumption
  <2>2. IsFiniteSet(Idle)
    BY <1>2, <2>1, FS_Subset
  <2>3. IsFiniteSet(others) /\ Cardinality(others) = Cardinality(CPUs) - 1
    BY <2>1, FS_RemoveElement
  <2>4. Cardinality(CPUs) \in Nat
    BY <2>1, FS_CardinalityType
  <2>5. Cardinality(others) < Cardinality(Idle)
    BY <2>3, <2>4, SchedulerAssumption
  <2>6. f \in [Idle -> others]
    BY <1>1, <1>2 DEF CandsExact
  <2> HIDE DEF others
  <2>7. \E i, j \in Idle : i # j /\ f[i] = f[j]
    <3> HIDE DEF f
    <3>1. QED BY <2>2, <2>3, <2>5, <2>6, FS_PigeonHole
  <2>8. PICK i \in Idle, j \in Idle : i # j /\ s.cpuId[i] = s.cpuId[j]
    BY <2>7
  <2>9. s.cand[s.cpuId[i]] = i /\ s.cand[s.cpuId[j]] = j
    BY <1>1 DEF CandsExact
  <2>10. QED BY <2>8, <2>9
<1>4. PICK i \in Idle : i \notin s.isCand
  BY <1>3
<1>5. i \in R /\ i \in Threads /\ QueueOf(s, i) = GLOBAL /\ s.prio[i] \in Priorities
  BY <1>1, <1>2, TableFields DEF IdleThere, QueueOf
<1>6. RingHolds(s, R \ s.isCand, GLOBAL, s.prio[i])
  BY <1>1, <1>5 DEF RingsExact, Queues
<1>7. Contains(s.ring[GLOBAL][s.prio[i]], i)
  BY <1>4, <1>5, <1>6 DEF RingHolds
<1>8. s.ring[GLOBAL][s.prio[i]] # << >>
  BY <1>7 DEF Contains
<1>9. s.prio[i] \in s.rdy[GLOBAL]
  BY <1>6, <1>8 DEF RingHolds
<1>10. QED BY <1>9

LEMMA FillIs ==
  ASSUME NEW s, NEW R, NEW c \in CPUs, TableExact(s, R, {c}), IdleThere(s, R),
         NEW x, x = CandTableFill(s, c)
  PROVE  /\ TableExact(x, R, {}) /\ Took(s, x, c)
         /\ NoneHeld(s) => Unbeaten(x, R, c)
<1> DEFINE best == SeekPriority(s, c)
<1>1. s.rdy[GLOBAL] # {}
  BY IdleLeft
<1>2. Found(s, best)
  BY <1>1, SeekFound DEF TableExact
<1>3. x = CandTableResel(s, c, best)
  BY DEF CandTableFill
<1> HIDE DEF best
<1>4. TableExact(x, R, {}) /\ Took(s, x, c) /\ x.prio[x.cand[c]] = best.prio
  BY <1>2, <1>3, ReselIs
<1>5. ASSUME NoneHeld(s), NEW u \in R \ x.isCand PROVE ~(x.prio[u] < x.prio[x.cand[c]])
  <2>1. x.prio = s.prio /\ u \in R \ s.isCand /\ u \in Threads
    BY <1>4 DEF Took, TableExact
  <2>2. ~(s.prio[u] < best.prio)
    BY <1>5, <2>1, SeekBest DEF TableExact, best
  <2>3. QED BY <1>4, <2>1, <2>2
<1>6. QED BY <1>4, <1>5 DEF Unbeaten

-----------------------------------------------------------------------------
(* What the calls do to the table.                                         *)

\* Only marks, slices and the place in front have changed.
Dressed(s, x) ==
  /\ TableType(x)
  /\ x.active = s.active /\ x.cand = s.cand /\ x.ring = s.ring /\ x.rdy = s.rdy
  /\ x.isCand = s.isCand /\ x.cpuId = s.cpuId /\ x.cpuLock = s.cpuLock /\ x.prio = s.prio

LEMMA DressedExact ==
  ASSUME NEW s, NEW R, NEW D, TableExact(s, R, D), NEW x, Dressed(s, x)
  PROVE  TableExact(x, R, D)
<1>1. RingsExact(s, R \ s.isCand)
  BY DEF TableExact
<1>2. RingsExact(x, R \ s.isCand)
  BY <1>1, SameRings DEF Dressed
<1>3. CandsExact(x, D)
  BY DEF TableExact, Dressed, CandsExact
<1>4. QED BY <1>2, <1>3 DEF TableExact, Dressed

LEMMA DressedSound ==
  ASSUME NEW s, NEW R, Sound(s, R), NEW x, Dressed(s, x)
  PROVE  Sound(x, R)
<1>1. TableExact(x, R, {})
  BY DressedExact DEF Sound
<1>2. x.active = s.active /\ x.cand = s.cand /\ x.cpuLock = s.cpuLock
  BY DEF Dressed
<1>3. QED BY <1>1, <1>2 DEF Sound, IdleThere, HeldLive, Live

LEMMA RotIs ==
  ASSUME NEW s, TableType(s), NEW rot \in [CPUs -> BOOLEAN]
  PROVE  Dressed(s, [s EXCEPT !.rot = rot]) /\ [s EXCEPT !.rot = rot].rot = rot
<1>1. s = [active |-> s.active, cand |-> s.cand, rot |-> s.rot, ring |-> s.ring,
            rdy |-> s.rdy, isCand |-> s.isCand, cpuId |-> s.cpuId, cpuLock |-> s.cpuLock,
            prio |-> s.prio, counter |-> s.counter, front |-> s.front]
  BY TableFields
<1>2. [s EXCEPT !.rot = rot] =
       [active |-> s.active, cand |-> s.cand, rot |-> rot, ring |-> s.ring,
            rdy |-> s.rdy, isCand |-> s.isCand, cpuId |-> s.cpuId, cpuLock |-> s.cpuLock,
            prio |-> s.prio, counter |-> s.counter, front |-> s.front]
  BY <1>1
<1>3. TableType([s EXCEPT !.rot = rot])
  BY <1>2, TableFields DEF TableType
<1>4. QED BY <1>2, <1>3 DEF Dressed

LEMMA RotOneIs ==
  ASSUME NEW s, TableType(s), NEW c \in CPUs, NEW b \in BOOLEAN
  PROVE  /\ Dressed(s, [s EXCEPT !.rot[c] = b])
         /\ [s EXCEPT !.rot[c] = b].rot = [s.rot EXCEPT ![c] = b]
<1> DEFINE rot == [s.rot EXCEPT ![c] = b]
<1>1. rot \in [CPUs -> BOOLEAN]
  BY TableFields, Zenon
<1>2. [s EXCEPT !.rot[c] = b] = [s EXCEPT !.rot = rot]
  OBVIOUS
<1> HIDE DEF rot
<1>3. Dressed(s, [s EXCEPT !.rot = rot]) /\ [s EXCEPT !.rot = rot].rot = rot
  BY <1>1, RotIs
<1>4. QED BY <1>2, <1>3 DEF rot

LEMMA FrontIs ==
  ASSUME NEW s, TableType(s), NEW t \in Threads, NEW b \in BOOLEAN
  PROVE  Dressed(s, [s EXCEPT !.front[t] = b]) /\ [s EXCEPT !.front[t] = b].rot = s.rot
<1> DEFINE front == [s.front EXCEPT ![t] = b]
<1>1. s = [active |-> s.active, cand |-> s.cand, rot |-> s.rot, ring |-> s.ring,
            rdy |-> s.rdy, isCand |-> s.isCand, cpuId |-> s.cpuId, cpuLock |-> s.cpuLock,
            prio |-> s.prio, counter |-> s.counter, front |-> s.front]
  BY TableFields
<1>2. front \in [Threads -> BOOLEAN]
  BY TableFields, Zenon
<1>3. [s EXCEPT !.front[t] = b] = [s EXCEPT !.front = front]
  OBVIOUS
<1> HIDE DEF front
<1>4. [s EXCEPT !.front = front] =
       [active |-> s.active, cand |-> s.cand, rot |-> s.rot, ring |-> s.ring,
            rdy |-> s.rdy, isCand |-> s.isCand, cpuId |-> s.cpuId, cpuLock |-> s.cpuLock,
            prio |-> s.prio, counter |-> s.counter, front |-> front]
  BY <1>1
<1>5. TableType([s EXCEPT !.front = front])
  BY <1>2, <1>4, TableFields DEF TableType
<1>6. QED BY <1>3, <1>4, <1>5 DEF Dressed

\* Processors and locks are the same, and the candidates but those of D.
Kept(s, x, D) ==
  /\ x.active = s.active /\ x.cpuLock = s.cpuLock
  /\ \A c \in CPUs \ D : x.cand[c] = s.cand[c]

LEMMA KeptSound ==
  ASSUME NEW s, NEW R, Sound(s, R), NEW Q, Idle \subseteq Q, NEW x, TableExact(x, Q, {}),
         NEW D, Kept(s, x, D), \A c \in CPUs : x.cand[c] # NULL <=> s.cand[c] # NULL
  PROVE  Sound(x, Q)
<1>1. IdleThere(x, Q)
  BY DEF IdleThere, Kept, Sound
<1>2. HeldLive(x)
  BY DEF HeldLive, Kept, Sound
<1>3. Live(x)
  BY DEF Live, Kept, Sound
<1>4. QED BY <1>1, <1>2, <1>3 DEF Sound

\* Only the marks are more: the same processors have been told.
LEMMA DressedTells ==
  ASSUME NEW s, NEW R, NEW x, Dressed(s, x), \A c \in s.active : s.rot[c] => x.rot[c]
  PROVE  TellsToo(s, R, x, R)
<1>1. x.active = s.active /\ x.cand = s.cand /\ x.isCand = s.isCand /\ x.prio = s.prio
      /\ x.cpuLock = s.cpuLock
  BY DEF Dressed
<1>2. QED BY <1>1 DEF TellsToo, Told, Unbeaten, NoneHeld

\* Processor c has chosen the best candidate, and nobody waits now who is more urgent
\* than all those that waited before.
LEMMA ChosenTells ==
  ASSUME NEW s, NEW R, NoneHeld(s), Told(s, R), TableType(s), R \subseteq Threads, NEW c,
         NEW x, NEW Q, Q \subseteq Threads, x.cpuLock = s.cpuLock, x.prio = s.prio, Unbeaten(x, Q, c),
         \A d \in x.active \ {c} : /\ d \in s.active /\ x.cand[d] = s.cand[d] /\ s.cand[d] \in Threads
                                   /\ s.rot[d] => x.rot[d],
         \A v \in Q \ x.isCand : v \in R \ s.isCand
                                 \/ \E w \in R \ s.isCand : ~(s.prio[v] < s.prio[w])
  PROVE  NoneHeld(x) /\ Told(x, Q)
<1>1. \A t \in Threads : s.prio[t] \in Nat
  BY TableFields, CandTableAssumption
<1>2. NoneHeld(x)
  BY DEF NoneHeld
<1>3. ASSUME NEW d \in x.active, d # c, ~x.rot[d], NEW v \in Q \ x.isCand,
             x.prio[v] < x.prio[x.cand[d]]
      PROVE  FALSE
  <2>1. d \in s.active /\ x.cand[d] = s.cand[d] /\ s.cand[d] \in Threads /\ ~s.rot[d]
    BY <1>3
  <2>2. PICK w \in R \ s.isCand : ~(s.prio[v] < s.prio[w])
    <3>1. CASE v \in R \ s.isCand
      BY <1>1, <3>1
    <3>2. CASE v \notin R \ s.isCand
      BY <3>2
    <3>3. QED BY <3>1, <3>2
  <2>3. ~(s.prio[w] < s.prio[s.cand[d]])
    BY <2>1 DEF Told, Unbeaten
  <2>4. s.prio[v] \in Nat /\ s.prio[w] \in Nat /\ s.prio[s.cand[d]] \in Nat
    BY <1>1, <2>1
  <2>5. s.prio[v] < s.prio[s.cand[d]]
    BY <1>3, <2>1
  <2>6. QED BY <2>2, <2>3, <2>4, <2>5
<1>4. ASSUME NEW d \in x.active, d # c, ~x.rot[d] PROVE Unbeaten(x, Q, d)
  BY <1>3, <1>4 DEF Unbeaten
<1>5. QED BY <1>2, <1>4 DEF Told

\* __DEL_FROM_READY_RING
LEMMA DelIs ==
  ASSUME NEW s, NEW R, Sound(s, R), NEW t \in Threads \ Idle,
         NEW x, x = DelFromReadyRing(s, t)
  PROVE  /\ Sound(x, R \ {t})
         /\ Kept(s, x, IF t \in s.isCand THEN {s.cpuId[t]} ELSE {})
         /\ TellsToo(s, R, x, R \ {t})
<1> DEFINE c == s.cpuId[t]
<1>1. /\ TableExact(s, R, {}) /\ TableType(s) /\ RingsExact(s, R \ s.isCand) /\ CandsExact(s, {})
      /\ s.isCand \subseteq R /\ R \subseteq Threads /\ IdleThere(s, R)
  BY DEF Sound, TableExact
<1>2. /\ c \in CPUs /\ s.cand \in [CPUs -> Threads \cup {NULL}] /\ s.cpuId \in [Threads -> CPUs]
      /\ s.isCand \subseteq Threads
  BY <1>1, TableFields
<1>3. Idle \subseteq R \ {t} /\ R \ {t} \subseteq Threads /\ t # NULL
  BY <1>1, CandTableAssumption DEF IdleThere
<1>31. \A d \in s.active : d \in CPUs /\ s.cand[d] \in Threads
  BY <1>1, <1>2, TableFields DEF Sound, Live
<1>4. CASE t \in s.isCand
  <2> DEFINE isCand == s.isCand \ {t}
             s1 == [s EXCEPT !.isCand = isCand]
             y == CandTableFill(s1, c)
  <2>1. s.cand[c] = t
    BY <1>1, <1>4 DEF CandsExact
  <2>2. x = [y EXCEPT !.rot[c] = FALSE]
    BY <1>4, <2>1 DEF DelFromReadyRing
  <2>3. s = [active |-> s.active, cand |-> s.cand, rot |-> s.rot, ring |-> s.ring,
            rdy |-> s.rdy, isCand |-> s.isCand, cpuId |-> s.cpuId, cpuLock |-> s.cpuLock,
            prio |-> s.prio, counter |-> s.counter, front |-> s.front]
    BY <1>1, TableFields
  <2>4. s1 = [active |-> s.active, cand |-> s.cand, rot |-> s.rot, ring |-> s.ring,
            rdy |-> s.rdy, isCand |-> isCand, cpuId |-> s.cpuId, cpuLock |-> s.cpuLock,
            prio |-> s.prio, counter |-> s.counter, front |-> s.front]
    BY <2>3
  <2>5. TableType(s1)
    <3>1. isCand \subseteq Threads
      BY <1>2
    <3>2. QED BY <1>1, <2>4, <3>1, TableFields DEF TableType
  <2>6. (R \ {t}) \ isCand = R \ s.isCand
    BY <1>4
  <2>7. CandsExact(s1, {c})
    <3>1. ASSUME NEW d \in CPUs \ {c}, s1.cand[d] # NULL
          PROVE  s1.cand[d] \in s1.isCand /\ s1.cpuId[s1.cand[d]] = d
      <4>1. s.cand[d] \in s.isCand /\ s.cpuId[s.cand[d]] = d
        BY <1>1, <2>4, <3>1 DEF CandsExact
      <4>2. QED BY <2>4, <4>1
    <3>2. ASSUME NEW u \in s1.isCand PROVE s1.cpuId[u] # c /\ s1.cand[s1.cpuId[u]] = u
      <4>1. u \in s.isCand /\ u # t
        BY <2>4
      <4>2. s.cand[s.cpuId[u]] = u
        BY <1>1, <4>1 DEF CandsExact
      <4>3. QED BY <2>1, <2>4, <4>1, <4>2
    <3>3. QED BY <3>1, <3>2 DEF CandsExact
  <2>8. RingsExact(s1, R \ s.isCand)
    BY <1>1, <2>4, SameRings
  <2>9. s1.isCand = isCand /\ isCand \subseteq R \ {t}
    BY <1>1, <2>4
  <2>10. s1.cpuLock = s.cpuLock /\ s1.active = s.active /\ s1.cand = s.cand /\ s1.prio = s.prio
         /\ s1.rot = s.rot
    BY <2>4
  <2>101. isCand = s.isCand \ {t}
    OBVIOUS
  <2> HIDE DEF isCand, s1
  <2>11. TableExact(s1, R \ {t}, {c})
    BY <1>3, <2>5, <2>6, <2>7, <2>8, <2>9 DEF TableExact
  <2>12. IdleThere(s1, R \ {t})
    BY <1>1, <1>3, <2>10 DEF IdleThere
  <2>13. /\ TableExact(y, R \ {t}, {}) /\ Took(s1, y, c)
         /\ NoneHeld(s1) => Unbeaten(y, R \ {t}, c)
    BY <1>2, <2>11, <2>12, FillIs
  <2> HIDE DEF y
  <2>14. Dressed(y, x) /\ x.rot = [y.rot EXCEPT ![c] = FALSE]
    <3>1. TableType(y)
      BY <2>13 DEF TableExact
    <3>2. Dressed(y, [y EXCEPT !.rot[c] = FALSE])
          /\ [y EXCEPT !.rot[c] = FALSE].rot = [y.rot EXCEPT ![c] = FALSE]
      BY <1>2, <3>1, RotOneIs
    <3>3. QED BY <2>2, <3>2
  <2>15. TableExact(x, R \ {t}, {})
    BY <2>13, <2>14, DressedExact
  <2>16. PICK u \in Threads : x.cand = [s.cand EXCEPT ![c] = u]
    BY <2>10, <2>13, <2>14 DEF Took, Dressed
  <2>17. Kept(s, x, {c})
    BY <1>2, <2>10, <2>13, <2>14, <2>16 DEF Kept, Took, Dressed
  <2>18. \A d \in CPUs : x.cand[d] # NULL <=> s.cand[d] # NULL
    BY <1>2, <1>3, <2>1, <2>16, CandTableAssumption
  <2>19. Sound(x, R \ {t})
    BY <1>3, <2>15, <2>17, <2>18, KeptSound
  <2>20. ASSUME NoneHeld(s), Told(s, R) PROVE NoneHeld(x) /\ Told(x, R \ {t})
    <3>1. Unbeaten(x, R \ {t}, c)
      BY <2>10, <2>13, <2>14, <2>20 DEF NoneHeld, Unbeaten, Dressed
    <3>2. x.active = s.active /\ x.cpuLock = s.cpuLock /\ x.prio = s.prio
          /\ s1.isCand \subseteq x.isCand
      BY <2>10, <2>13, <2>14 DEF Took, Dressed
    <3>3. \A d \in x.active \ {c} : /\ d \in s.active /\ x.cand[d] = s.cand[d]
                                    /\ s.cand[d] \in Threads
                                    /\ s.rot[d] => x.rot[d]
      <4>1. s.rot \in [CPUs -> BOOLEAN] /\ y.rot = s.rot
        BY <1>1, <2>10, <2>13, TableFields DEF Took
      <4> HIDE DEF c
      <4>2. x.rot = [s.rot EXCEPT ![c] = FALSE]
        BY <2>14, <4>1
      <4>3. \A d \in CPUs \ {c} : x.rot[d] = s.rot[d]
        BY <4>1, <4>2
      <4>4. \A d \in CPUs \ {c} : x.cand[d] = s.cand[d]
        BY <1>2, <2>16
      <4>5. QED BY <1>31, <3>2, <4>3, <4>4
    <3>4. \A v \in (R \ {t}) \ x.isCand : v \in R \ s.isCand
      BY <2>9, <2>101, <3>2
    <3>5. QED BY <1>1, <1>3, <2>20, <3>1, <3>2, <3>3, <3>4, ChosenTells
  <2>21. QED BY <1>4, <2>17, <2>19, <2>20 DEF TellsToo
<1>5. CASE t \notin s.isCand
  <2> DEFINE s1 == DelTCBFromReadyRing(s, t)
  <2>1. RingOf(s, t) \in Seq(Threads)
    BY <1>1, QueueOfType
  <2>2. Unlinked(RingOf(s, t), t) \in Seq(Threads)
    BY <1>1, <2>1, RingOfIs, UnlinkedMembers DEF RingIs
  <2>3. SameButRings(s, s1)
    BY <1>1, <2>2, SetRingIs DEF DelTCBFromReadyRing
  <2>4. s1.cand[c] # t
    <3>1. s.cand[c] # t
      BY <1>1, <1>2, <1>3, <1>5 DEF CandsExact
    <3>2. QED BY <2>3, <3>1 DEF SameButRings
  <2>5. x = TakeOut(s, t)
    BY <1>5, <2>4 DEF DelFromReadyRing, TakeOut
  <2>6. TableType(x) /\ SameButRings(s, x) /\ RingsExact(x, (R \ s.isCand) \ {t})
    BY <1>1, <2>5, TakeOutIs
  <2>7. x.isCand = s.isCand /\ x.isCand \subseteq R \ {t}
    BY <1>1, <1>5, <2>6 DEF SameButRings
  <2>8. (R \ s.isCand) \ {t} = (R \ {t}) \ x.isCand
    BY <2>7
  <2>9. CandsExact(x, {})
    BY <1>1, <2>6 DEF CandsExact, SameButRings
  <2>10. TableExact(x, R \ {t}, {})
    BY <1>3, <2>6, <2>7, <2>8, <2>9 DEF TableExact
  <2>11. Kept(s, x, {})
    BY <2>6 DEF Kept, SameButRings
  <2>12. \A d \in CPUs : x.cand[d] # NULL <=> s.cand[d] # NULL
    BY <2>6 DEF SameButRings
  <2>13. Sound(x, R \ {t})
    BY <1>3, <2>10, <2>11, <2>12, KeptSound
  <2>14. TellsToo(s, R, x, R \ {t})
    <3>1. x.active = s.active /\ x.cand = s.cand /\ x.rot = s.rot /\ x.isCand = s.isCand
          /\ x.cpuLock = s.cpuLock /\ x.prio = s.prio
      BY <2>6 DEF SameButRings
    <3>2. QED BY <3>1 DEF TellsToo, Told, Unbeaten, NoneHeld
  <2>15. QED BY <1>5, <2>11, <2>13, <2>14
<1>6. QED BY <1>4, <1>5

LEMMA NullCand ==
  ASSUME NEW s, NEW R, TableExact(s, R, {}), NEW c \in CPUs, s.cand[c] = NULL
  PROVE  TableExact(s, R, {c})
<1>1. CandsExact(s, {}) /\ s.isCand \subseteq Threads /\ NULL \notin Threads
  BY TableFields, CandTableAssumption DEF TableExact
<1>2. \A t \in s.isCand : s.cpuId[t] # c
  BY <1>1 DEF CandsExact
<1>3. CandsExact(s, {c})
  BY <1>1, <1>2 DEF CandsExact
<1>4. QED BY <1>3 DEF TableExact

\* A thread that was not ready becomes the candidate of c, which had none.
LEMMA TakeCand ==
  ASSUME NEW s, NEW R, TableExact(s, R, {}), NEW c \in CPUs, s.cand[c] = NULL,
         NEW t \in Threads \ R, NEW x, x = BecomeCand(s, c, t)
  PROVE  /\ TableExact(x, R \cup {t}, {}) /\ SameButCands(s, x) /\ x.cand = [s.cand EXCEPT ![c] = t]
         /\ x.isCand = s.isCand \cup {t}
<1>1. /\ TableType(s) /\ RingsExact(s, R \ s.isCand) /\ CandsExact(s, {c})
      /\ s.isCand \subseteq R /\ R \subseteq Threads
  BY NullCand DEF TableExact
<1>2. /\ TableType(x) /\ SameButCands(s, x)
      /\ x.cand = [s.cand EXCEPT ![c] = t] /\ x.cpuId = [s.cpuId EXCEPT ![t] = c]
      /\ x.isCand = s.isCand \cup {t}
  BY <1>1, BecomeCandIs
<1>3. RingsExact(x, R \ s.isCand)
  BY <1>1, <1>2, SameRings DEF SameButCands
<1>4. R \ s.isCand = (R \cup {t}) \ x.isCand
  BY <1>1, <1>2
<1>5. CandsExact(x, {})
  <2>1. s.cand \in [CPUs -> Threads \cup {NULL}] /\ s.cpuId \in [Threads -> CPUs]
    BY <1>1, TableFields
  <2>2. t \notin s.isCand
    BY <1>1
  <2>3. ASSUME NEW d \in CPUs, x.cand[d] # NULL
        PROVE  x.cand[d] \in x.isCand /\ x.cpuId[x.cand[d]] = d
    <3>1. CASE d = c
      BY <1>2, <2>1, <3>1
    <3>2. CASE d # c
      <4>1. x.cand[d] = s.cand[d]
        BY <1>2, <2>1, <3>2
      <4>2. s.cand[d] \in s.isCand /\ s.cpuId[s.cand[d]] = d
        BY <1>1, <2>3, <3>2, <4>1 DEF CandsExact
      <4>3. QED BY <1>1, <1>2, <2>1, <2>2, <4>1, <4>2
    <3>3. QED BY <3>1, <3>2
  <2>4. ASSUME NEW u \in x.isCand PROVE x.cand[x.cpuId[u]] = u
    <3>1. CASE u = t
      BY <1>2, <2>1, <3>1
    <3>2. CASE u # t
      <4>1. u \in s.isCand /\ u \in Threads
        BY <1>1, <1>2, <3>2
      <4>2. s.cpuId[u] # c /\ s.cand[s.cpuId[u]] = u
        BY <1>1, <4>1 DEF CandsExact
      <4>3. x.cpuId[u] = s.cpuId[u] /\ s.cpuId[u] \in CPUs
        BY <1>2, <2>1, <3>2, <4>1
      <4>4. QED BY <1>2, <2>1, <4>2, <4>3
    <3>3. QED BY <3>1, <3>2
  <2>5. QED BY <2>3, <2>4 DEF CandsExact
<1>6. QED BY <1>1, <1>2, <1>3, <1>4, <1>5 DEF TableExact

\* A thread that was not ready goes to its ring.
LEMMA TakeRing ==
  ASSUME NEW s, NEW R, TableExact(s, R, {}), NEW t \in Threads \ R, NEW x, x = IntoRing(s, t)
  PROVE  TableExact(x, R \cup {t}, {}) /\ SameButRings(s, x)
<1>1. /\ TableType(s) /\ RingsExact(s, R \ s.isCand) /\ CandsExact(s, {})
      /\ s.isCand \subseteq R /\ R \subseteq Threads
  BY DEF TableExact
<1>2. TableType(x) /\ SameButRings(s, x) /\ RingsExact(x, (R \ s.isCand) \cup {t})
  BY <1>1, IntoRingIs
<1>3. (R \ s.isCand) \cup {t} = (R \cup {t}) \ x.isCand /\ x.isCand = s.isCand
  BY <1>1, <1>2 DEF SameButRings
<1>4. CandsExact(x, {})
  BY <1>1, <1>2 DEF CandsExact, SameButRings
<1>5. QED BY <1>1, <1>2, <1>3, <1>4 DEF TableExact

\* __ADD_TO_READY_RING
LEMMA AddSmpIs ==
  ASSUME SMP_EN, NEW s, NEW R, Sound(s, R), NEW t \in Threads \ R,
         NEW x, x = AddToReadyRingSmp(s, t)
  PROVE  /\ Sound(x, R \cup {t}) /\ Kept(s, x, {}) /\ x.isCand = s.isCand
         /\ TellsToo(s, R, x, R \cup {t})
<1> DEFINE places == IF s.cpuLock[t] # NULL THEN {s.cpuLock[t]} ELSE s.active
           vacant == {c \in places : s.cand[c] = NULL}
           rot == [c \in CPUs |-> s.rot[c] \/ (c \in places /\ LessUrgent(s, c, t))]
           s1 == [s EXCEPT !.rot = rot]
<1>1. TableExact(s, R, {}) /\ TableType(s) /\ Idle \subseteq R
  BY DEF Sound, TableExact, IdleThere
<1>2. vacant = {}
  <2>1. places \subseteq s.active
    BY DEF Sound, HeldLive
  <2>2. \A c \in s.active : s.cand[c] # NULL
    BY DEF Sound, Live
  <2>3. QED BY <2>1, <2>2
<1>3. rot \in [CPUs -> BOOLEAN]
  <2>1. s.rot \in [CPUs -> BOOLEAN]
    BY <1>1, TableFields
  <2>2. \A c \in CPUs : (s.rot[c] \/ (c \in places /\ LessUrgent(s, c, t))) \in BOOLEAN
    BY Zenon DEF LessUrgent
  <2> HIDE DEF places
  <2>3. QED BY <2>2, Zenon
<1>4. x = IntoRing(s1, t)
  BY <1>2 DEF AddToReadyRingSmp
<1>41. \A d \in CPUs : s.rot[d] \/ (d \in places /\ LessUrgent(s, d, t)) => rot[d]
  OBVIOUS
<1> HIDE DEF rot
<1>5. Dressed(s, s1) /\ s1.rot = rot
  BY <1>1, <1>3, RotIs
<1> HIDE DEF s1
<1>6. TableExact(s1, R, {})
  BY <1>1, <1>5, DressedExact
<1>7. TableExact(x, R \cup {t}, {}) /\ SameButRings(s1, x)
  BY <1>4, <1>6, TakeRing
<1>8. Kept(s, x, {}) /\ x.isCand = s.isCand /\ x.cand = s.cand
  BY <1>5, <1>7 DEF Kept, Dressed, SameButRings
<1>9. Sound(x, R \cup {t})
  <2>1. \A c \in CPUs : x.cand[c] # NULL <=> s.cand[c] # NULL
    BY <1>8
  <2>2. QED BY <1>1, <1>7, <1>8, <2>1, KeptSound
<1>10. ASSUME NoneHeld(s), Told(s, R) PROVE NoneHeld(x) /\ Told(x, R \cup {t})
  <2>1. x.active = s.active /\ x.cand = s.cand /\ x.isCand = s.isCand /\ x.rot = rot
        /\ x.cpuLock = s.cpuLock /\ x.prio = s.prio
    BY <1>5, <1>7 DEF Dressed, SameButRings
  <2>2. NoneHeld(x) /\ places = s.active
    BY <1>10, <2>1 DEF NoneHeld
  <2>3. ASSUME NEW d \in x.active, ~x.rot[d] PROVE Unbeaten(x, R \cup {t}, d)
    <3>1. d \in CPUs /\ s.cand[d] # NULL
      BY <1>1, <2>1, TableFields DEF Sound, Live
    <3>2. ~s.rot[d] /\ ~LessUrgent(s, d, t)
      BY <1>41, <2>1, <2>2, <2>3, <3>1
    <3>3. Unbeaten(s, R, d) /\ ~(s.prio[t] < s.prio[s.cand[d]])
      BY <1>10, <2>1, <3>1, <3>2 DEF Told, LessUrgent
    <3>4. QED BY <2>1, <3>3 DEF Unbeaten
  <2>4. QED BY <2>2, <2>3 DEF Told
<1>11. QED BY <1>8, <1>9, <1>10 DEF TellsToo

LEMMA AddUpIs ==
  ASSUME ~SMP_EN, NEW s, NEW R, Sound(s, R), NEW t \in Threads \ R, NEW locked,
         NEW x, x = AddToReadyRingUp(s, t, locked)
  PROVE  /\ Sound(x, R \cup {t}) /\ Kept(s, x, {0})
         /\ TellsToo(s, R, x, R \cup {t})
<1>1. TableExact(s, R, {}) /\ TableType(s) /\ Idle \subseteq R
  BY DEF Sound, TableExact, IdleThere
<1>2. s.cand[0] # NULL /\ 0 \in CPUs /\ t # NULL
  BY CandTableAssumption DEF Sound, Live
<1>21. s.active = {0} /\ NoneHeld(x) /\ s.cand[0] \in Threads /\ s.rot \in [CPUs -> BOOLEAN]
  BY <1>1, <1>2, TableFields, CandTableAssumption DEF NoneHeld, Sound, Live
<1>22. \A u \in Threads : s.prio[u] \in Nat
  BY <1>1, TableFields, CandTableAssumption
<1>23. R \subseteq Threads
  BY <1>1 DEF TableExact
<1>3. CASE LessUrgent(s, 0, t) /\ s.cand[0] \in locked
  <2> DEFINE s1 == [s EXCEPT !.rot[0] = TRUE]
  <2>1. x = IntoRing(s1, t)
    BY <1>2, <1>3 DEF AddToReadyRingUp
  <2>2. Dressed(s, s1) /\ s1.rot = [s.rot EXCEPT ![0] = TRUE]
    BY <1>1, <1>2, RotOneIs
  <2> HIDE DEF s1
  <2>3. TableExact(s1, R, {})
    BY <1>1, <2>2, DressedExact
  <2>4. TableExact(x, R \cup {t}, {}) /\ SameButRings(s1, x)
    BY <2>1, <2>3, TakeRing
  <2>5. Kept(s, x, {0}) /\ x.cand = s.cand
    BY <2>2, <2>4 DEF Kept, Dressed, SameButRings
  <2>6. \A c \in CPUs : x.cand[c] # NULL <=> s.cand[c] # NULL
    BY <2>5
  <2>7. x.rot[0] /\ x.active = {0}
    BY <1>2, <1>21, <2>2, <2>4 DEF Dressed, SameButRings
  <2>8. TellsToo(s, R, x, R \cup {t})
    BY <1>21, <2>7 DEF TellsToo, Told
  <2>9. QED BY <1>1, <2>4, <2>5, <2>6, <2>8, KeptSound
<1>4. CASE LessUrgent(s, 0, t) /\ s.cand[0] \notin locked
  <2> DEFINE y == CandTableEmpty(s, 0)
  <2>1. x = BecomeCand(y, 0, t)
    BY <1>2, <1>4 DEF AddToReadyRingUp
  <2>2. /\ TableExact(y, R, {})
        /\ y.cand = [s.cand EXCEPT ![0] = NULL] /\ y.isCand = s.isCand \ {s.cand[0]}
        /\ y.active = s.active /\ y.cpuLock = s.cpuLock /\ y.prio = s.prio /\ y.rot = s.rot
    BY <1>1, <1>2, EmptyIs
  <2> HIDE DEF y
  <2>3. s.cand \in [CPUs -> Threads \cup {NULL}]
    BY <1>1, TableFields
  <2>4. y.cand[0] = NULL
    BY <1>2, <2>2, <2>3
  <2>5. /\ TableExact(x, R \cup {t}, {}) /\ SameButCands(y, x)
        /\ x.cand = [y.cand EXCEPT ![0] = t] /\ x.isCand = y.isCand \cup {t}
    BY <1>2, <2>1, <2>2, <2>4, TakeCand
  <2>6. x.cand = [s.cand EXCEPT ![0] = t]
    BY <1>2, <2>2, <2>3, <2>5
  <2>7. Kept(s, x, {0})
    BY <2>2, <2>3, <2>5, <2>6 DEF Kept, SameButCands
  <2>8. \A c \in CPUs : x.cand[c] # NULL <=> s.cand[c] # NULL
    BY <1>2, <2>3, <2>6
  <2>9. ASSUME Told(s, R) PROVE Told(x, R \cup {t})
    <3>1. x.active = {0} /\ x.cand[0] = t /\ x.rot = s.rot /\ x.prio = s.prio
          /\ x.isCand = (s.isCand \ {s.cand[0]}) \cup {t}
      BY <1>2, <1>21, <2>2, <2>3, <2>5, <2>6 DEF SameButCands
    <3>2. SUFFICES ASSUME ~s.rot[0], NEW u \in (R \cup {t}) \ x.isCand
                   PROVE  ~(s.prio[u] < s.prio[t])
      BY <3>1 DEF Told, Unbeaten
    <3>3. Unbeaten(s, R, 0) /\ s.prio[t] < s.prio[s.cand[0]]
      BY <1>4, <1>21, <2>9, <3>2 DEF Told, LessUrgent
    <3>4. CASE u = s.cand[0]
      BY <1>21, <1>22, <3>3, <3>4
    <3>5. CASE u # s.cand[0]
      <4>1. u \in R \ s.isCand /\ u \in Threads
        BY <1>23, <3>1, <3>2, <3>5
      <4>2. ~(s.prio[u] < s.prio[s.cand[0]])
        BY <3>3, <4>1 DEF Unbeaten
      <4>3. QED BY <1>21, <1>22, <3>3, <4>1, <4>2
    <3>6. QED BY <3>4, <3>5
  <2>10. TellsToo(s, R, x, R \cup {t})
    BY <1>21, <2>9 DEF TellsToo
  <2>11. QED BY <1>1, <2>5, <2>7, <2>8, <2>10, KeptSound
<1>5. CASE ~LessUrgent(s, 0, t)
  <2>1. x = IntoRing(s, t)
    BY <1>2, <1>5 DEF AddToReadyRingUp
  <2>2. TableExact(x, R \cup {t}, {}) /\ SameButRings(s, x)
    BY <1>1, <2>1, TakeRing
  <2>3. Kept(s, x, {0}) /\ x.cand = s.cand
    BY <2>2 DEF Kept, SameButRings
  <2>4. \A c \in CPUs : x.cand[c] # NULL <=> s.cand[c] # NULL
    BY <2>3
  <2>5. ASSUME Told(s, R) PROVE Told(x, R \cup {t})
    <3>1. x.active = {0} /\ x.cand = s.cand /\ x.rot = s.rot /\ x.prio = s.prio /\ x.isCand = s.isCand
      BY <1>21, <2>2 DEF SameButRings
    <3>2. ~(s.prio[t] < s.prio[s.cand[0]])
      BY <1>2, <1>5 DEF LessUrgent
    <3>3. QED BY <1>21, <2>5, <3>1, <3>2 DEF Told, Unbeaten
  <2>6. TellsToo(s, R, x, R \cup {t})
    BY <1>21, <2>5 DEF TellsToo
  <2>7. QED BY <1>1, <2>2, <2>3, <2>4, <2>6, KeptSound
<1>6. QED BY <1>3, <1>4, <1>5

\* The candidates that may change when a thread becomes ready: none with several
\* processors.
AddCands == IF SMP_EN THEN {} ELSE {0}

LEMMA AddIs ==
  ASSUME NEW s, NEW R, Sound(s, R), NEW t \in Threads \ R, NEW locked,
         NEW x, x = AddToReadyRing(s, t, locked)
  PROVE  /\ Sound(x, R \cup {t}) /\ Kept(s, x, AddCands) /\ (SMP_EN => x.isCand = s.isCand)
         /\ TellsToo(s, R, x, R \cup {t})
<1>1. CASE SMP_EN
  <2>1. x = AddToReadyRingSmp(s, t)
    BY <1>1 DEF AddToReadyRing
  <2>2. QED BY <1>1, <2>1, AddSmpIs DEF AddCands
<1>2. CASE ~SMP_EN
  <2>1. x = AddToReadyRingUp(s, t, locked)
    BY <1>2 DEF AddToReadyRing
  <2>2. QED BY <1>2, <2>1, AddUpIs DEF AddCands
<1>3. QED BY <1>1, <1>2

LEMMA ActivateIs ==
  ASSUME NEW s, NEW R, Sound(s, R), NEW t \in Threads \ R, NEW front \in BOOLEAN, NEW locked,
         NEW x, x = Activate(s, t, front, locked)
  PROVE  /\ Sound(x, R \cup {t}) /\ Kept(s, x, AddCands) /\ (SMP_EN => x.isCand = s.isCand)
         /\ TellsToo(s, R, x, R \cup {t})
<1> DEFINE s1 == [s EXCEPT !.front[t] = front]
<1>1. TableType(s)
  BY DEF Sound, TableExact
<1>2. x = AddToReadyRing(s1, t, locked)
  BY DEF Activate
<1>3. Dressed(s, s1) /\ s1.rot = s.rot
  BY <1>1, FrontIs
<1> HIDE DEF s1
<1>4. Sound(s1, R)
  BY <1>3, DressedSound
<1>5. /\ Sound(x, R \cup {t}) /\ Kept(s1, x, AddCands) /\ (SMP_EN => x.isCand = s1.isCand)
      /\ TellsToo(s1, R, x, R \cup {t})
  BY <1>2, <1>4, AddIs
<1>6. TellsToo(s, R, x, R \cup {t})
  BY <1>3, <1>5, DressedTells DEF TellsToo
<1>7. QED BY <1>3, <1>5, <1>6 DEF Kept, Dressed

-----------------------------------------------------------------------------
(* What scheduling and the processors that come and go do to it.           *)

\* _CandTableUpdate, on a processor that is up.
LEMMA UpdateIs ==
  ASSUME NEW s, NEW R, Sound(s, R), NEW c \in s.active, NEW x, x = CandTableUpdate(s, c)
  PROVE  /\ Sound(x, R) /\ Kept(s, x, {c})
         /\ TellsToo(s, R, x, R) /\ (NoneHeld(s) => Unbeaten(x, R, c))
<1> DEFINE best == SeekPriority(s, c)
           t == s.cand[c]
<1>1. /\ TableExact(s, R, {}) /\ TableType(s) /\ RingsExact(s, R \ s.isCand) /\ IdleThere(s, R)
      /\ Idle \subseteq R
  BY DEF Sound, TableExact, IdleThere
<1>2. c \in CPUs /\ t # NULL /\ s.cand \in [CPUs -> Threads \cup {NULL}] /\ NULL \notin Threads
  BY <1>1, TableFields, CandTableAssumption DEF Sound, Live
<1>3. \/ x = [s EXCEPT !.rot[c] = FALSE] /\ (best # NULL => ~(best.prio < s.prio[t]))
      \/ /\ best # NULL /\ (best.prio < s.prio[t] \/ best.prio = s.prio[t])
         /\ x = [CandTableResel(CandTableEmpty(s, c), c, best) EXCEPT !.rot[c] = FALSE]
  BY <1>2 DEF CandTableUpdate
<1>31. R \subseteq Threads /\ t \in Threads
       /\ \A d \in s.active : d \in CPUs /\ s.cand[d] \in Threads
  BY <1>1, <1>2, TableFields DEF Sound, Live, TableExact
<1>32. /\ best # NULL => Found(s, best) /\ best.prio \in Nat
       /\ \A u \in Threads : s.prio[u] \in Nat
       /\ NoneHeld(s) => \A u \in R \ s.isCand : best # NULL /\ ~(s.prio[u] < best.prio)
  <2>1. best # NULL => Found(s, best) /\ best.prio \in Nat
    BY <1>1, <1>2, SeekFound, CandTableAssumption DEF Found
  <2>2. \A u \in Threads : s.prio[u] \in Nat
    BY <1>1, TableFields, CandTableAssumption
  <2>3. ASSUME NoneHeld(s), NEW u \in R \ s.isCand PROVE best # NULL /\ ~(s.prio[u] < best.prio)
    BY <1>1, <1>2, <1>31, <2>3, SeekBest
  <2>4. QED BY <2>1, <2>2, <2>3
<1> HIDE DEF best
<1>4. CASE x = [s EXCEPT !.rot[c] = FALSE] /\ (best # NULL => ~(best.prio < s.prio[t]))
  <2>1. Dressed(s, [s EXCEPT !.rot[c] = FALSE])
        /\ [s EXCEPT !.rot[c] = FALSE].rot = [s.rot EXCEPT ![c] = FALSE]
    BY <1>1, <1>2, RotOneIs
  <2>2. Dressed(s, x) /\ x.rot = [s.rot EXCEPT ![c] = FALSE]
    BY <1>4, <2>1
  <2>3. Sound(x, R) /\ Kept(s, x, {c})
    BY <2>2, DressedSound DEF Dressed, Kept
  <2>4. ASSUME NoneHeld(s) PROVE Unbeaten(x, R, c)
    <3>1. SUFFICES ASSUME NEW u \in R \ s.isCand PROVE ~(s.prio[u] < s.prio[t])
      BY <2>2 DEF Unbeaten, Dressed
    <3>2. best # NULL /\ ~(s.prio[u] < best.prio) /\ best.prio \in Nat
          /\ s.prio[u] \in Nat /\ s.prio[t] \in Nat
      BY <1>31, <1>32, <2>4
    <3>3. QED BY <1>4, <3>2
  <2>5. ASSUME NoneHeld(s), Told(s, R) PROVE NoneHeld(x) /\ Told(x, R)
    <3>1. \A d \in x.active \ {c} : /\ d \in s.active /\ x.cand[d] = s.cand[d]
                                    /\ s.cand[d] \in Threads
                                    /\ s.rot[d] => x.rot[d]
      <4>1. s.rot \in [CPUs -> BOOLEAN]
        BY <1>1, TableFields
      <4>2. QED BY <1>31, <2>2, <4>1 DEF Dressed
    <3>2. x.cpuLock = s.cpuLock /\ x.prio = s.prio /\ x.isCand = s.isCand
      BY <2>2 DEF Dressed
    <3>3. QED BY <1>1, <1>31, <2>4, <2>5, <3>1, <3>2, ChosenTells
  <2>6. QED BY <2>3, <2>4, <2>5 DEF TellsToo
<1>5. CASE /\ best # NULL /\ (best.prio < s.prio[t] \/ best.prio = s.prio[t])
           /\ x = [CandTableResel(CandTableEmpty(s, c), c, best) EXCEPT !.rot[c] = FALSE]
  <2> DEFINE y == CandTableEmpty(s, c)
             z == CandTableResel(y, c, best)
  <2>1. Found(s, best)
    BY <1>5, <1>32
  <2>2. x = [z EXCEPT !.rot[c] = FALSE]
    BY <1>5
  <2>3. /\ TableExact(y, R, {})
        /\ y.cand = [s.cand EXCEPT ![c] = NULL] /\ y.isCand = s.isCand \ {t}
        /\ y.active = s.active /\ y.cpuLock = s.cpuLock /\ y.prio = s.prio /\ y.rot = s.rot
    BY <1>1, <1>2, EmptyIs
  <2> HIDE DEF y
  <2>4. Found(y, best)
    <3> DEFINE q == best.queue
               p == best.prio
    <3>1. q \in Queues /\ p \in Priorities /\ s.ring[q][p] # << >>
      BY <2>1 DEF Found
    <3> HIDE DEF q, p
    <3>2. RingHolds(s, R \ s.isCand, q, p) /\ RingHolds(y, R \ y.isCand, q, p)
      BY <1>1, <2>3, <3>1 DEF TableExact, RingsExact
    <3>3. /\ Head(s.ring[q][p]) \in R \ s.isCand /\ Head(s.ring[q][p]) \in Threads
          /\ QueueOf(s, Head(s.ring[q][p])) = q /\ s.prio[Head(s.ring[q][p])] = p
      BY <1>1, <3>1, HeadIs
    <3>4. QueueOf(y, Head(s.ring[q][p])) = q
      BY <2>3, <3>3 DEF QueueOf
    <3>5. Contains(y.ring[q][p], Head(s.ring[q][p]))
      BY <2>3, <3>2, <3>3, <3>4 DEF RingHolds
    <3>6. y.ring[q][p] # << >>
      BY <3>5 DEF Contains
    <3>7. QED BY <3>1, <3>6 DEF Found, q, p
  <2>5. y.cand[c] = NULL
    BY <1>2, <2>3
  <2>6. TableExact(y, R, {c})
    BY <1>2, <2>3, <2>5, NullCand
  <2>7. TableExact(z, R, {}) /\ Took(y, z, c) /\ z.prio[z.cand[c]] = best.prio
    BY <1>2, <2>4, <2>6, ReselIs
  <2> HIDE DEF z
  <2>8. Dressed(z, x) /\ x.rot = [z.rot EXCEPT ![c] = FALSE]
    <3>1. Dressed(z, [z EXCEPT !.rot[c] = FALSE])
          /\ [z EXCEPT !.rot[c] = FALSE].rot = [z.rot EXCEPT ![c] = FALSE]
      BY <1>2, <2>7, RotOneIs DEF TableExact
    <3>2. QED BY <2>2, <3>1
  <2>9. TableExact(x, R, {})
    BY <2>7, <2>8, DressedExact
  <2>10. PICK u \in Threads : z.cand = [y.cand EXCEPT ![c] = u] /\ z.isCand = y.isCand \cup {u}
    BY <2>7 DEF Took
  <2>11. x.cand = [s.cand EXCEPT ![c] = u]
    BY <1>2, <2>3, <2>8, <2>10 DEF Dressed
  <2>12. Kept(s, x, {c})
    BY <1>2, <2>3, <2>7, <2>8, <2>11 DEF Kept, Took, Dressed
  <2>13. \A d \in CPUs : x.cand[d] # NULL <=> s.cand[d] # NULL
    BY <1>2, <2>11
  <2>14. Sound(x, R)
    BY <1>1, <2>9, <2>12, <2>13, KeptSound
  <2>15. /\ x.prio = s.prio /\ x.cpuLock = s.cpuLock /\ x.active = s.active
         /\ x.prio[x.cand[c]] = best.prio /\ x.isCand = (s.isCand \ {t}) \cup {u}
         /\ x.rot = [s.rot EXCEPT ![c] = FALSE]
    BY <2>3, <2>7, <2>8, <2>10 DEF Took, Dressed
  <2>16. \A v \in R \ x.isCand : v \in R \ s.isCand \/ v = t
    BY <2>15
  <2>17. ~(s.prio[t] < best.prio)
    BY <1>5, <1>31, <1>32
  <2>18. ASSUME NoneHeld(s) PROVE Unbeaten(x, R, c)
    BY <1>32, <2>15, <2>16, <2>17, <2>18 DEF Unbeaten
  <2>19. ASSUME NoneHeld(s), Told(s, R) PROVE NoneHeld(x) /\ Told(x, R)
    <3>1. \A d \in x.active \ {c} : /\ d \in s.active /\ x.cand[d] = s.cand[d]
                                    /\ s.cand[d] \in Threads
                                    /\ s.rot[d] => x.rot[d]
      <4>1. s.rot \in [CPUs -> BOOLEAN]
        BY <1>1, TableFields
      <4>2. QED BY <1>2, <1>31, <2>11, <2>15, <4>1
    <3>2. \E w \in R \ s.isCand : s.prio[w] = best.prio
      <4>1. RingsExact(s, R \ s.isCand) /\ TableType(s)
        BY <1>1
      <4>2. QED BY <2>1, <4>1, HeadIs DEF Found
    <3>3. \A v \in R \ x.isCand : v \in R \ s.isCand
                                 \/ \E w \in R \ s.isCand : ~(s.prio[v] < s.prio[w])
      BY <2>16, <2>17, <3>2
    <3>4. /\ NoneHeld(s) /\ Told(s, R) /\ TableType(s) /\ R \subseteq Threads
          /\ x.cpuLock = s.cpuLock /\ x.prio = s.prio /\ Unbeaten(x, R, c)
      BY <1>1, <1>31, <2>15, <2>18, <2>19
    <3> HIDE DEF best, t
    <3>5. QED BY <3>1, <3>3, <3>4, ChosenTells
  <2>20. QED BY <2>12, <2>14, <2>18, <2>19 DEF TellsToo
<1>6. QED BY <1>3, <1>4, <1>5

-----------------------------------------------------------------------------
(* Priorities, slices and processors.                                      *)

\* Queue and priority change only of threads that are in no ring.
LEMMA OutsideRings ==
  ASSUME NEW s, NEW W, RingsExact(s, W), NEW x, x.ring = s.ring, x.rdy = s.rdy,
         \A u \in W \cap Threads : QueueOf(x, u) = QueueOf(s, u) /\ x.prio[u] = s.prio[u]
  PROVE  RingsExact(x, W)
<1>1. SUFFICES ASSUME NEW q \in Queues, NEW p \in Priorities PROVE RingHolds(x, W, q, p)
  BY DEF RingsExact
<1>2. RingHolds(s, W, q, p)
  BY DEF RingsExact
<1>3. \A u : u \in W /\ u \in Threads /\ QueueOf(x, u) = q /\ x.prio[u] = p
             <=> u \in W /\ u \in Threads /\ QueueOf(s, u) = q /\ s.prio[u] = p
  OBVIOUS
<1>4. QED BY <1>2, <1>3 DEF RingHolds

\* All but the priority, the lock and the mark of a thread that is in no ring.
Reset(s, x) ==
  /\ TableType(x)
  /\ x.active = s.active /\ x.cand = s.cand /\ x.ring = s.ring /\ x.rdy = s.rdy
  /\ x.isCand = s.isCand /\ x.cpuId = s.cpuId

LEMMA ResetExact ==
  ASSUME NEW s, NEW R, NEW D, TableExact(s, R, D), NEW x, Reset(s, x),
         \A u \in R \ s.isCand : QueueOf(x, u) = QueueOf(s, u) /\ x.prio[u] = s.prio[u]
  PROVE  TableExact(x, R, D)
<1>1. RingsExact(s, R \ s.isCand)
  BY DEF TableExact
<1>2. x.ring = s.ring /\ x.rdy = s.rdy /\ x.isCand = s.isCand
  BY DEF Reset
<1>3. \A u \in (R \ s.isCand) \cap Threads : QueueOf(x, u) = QueueOf(s, u) /\ x.prio[u] = s.prio[u]
  OBVIOUS
<1>4. RingsExact(x, R \ x.isCand)
  BY <1>1, <1>2, <1>3, OutsideRings
<1>5. CandsExact(x, D)
  BY DEF TableExact, Reset, CandsExact
<1>6. QED BY <1>2, <1>4, <1>5 DEF TableExact, Reset

\* The thread t gets priority p, or the processor d that holds it.
Repriced(s, t, p) == [s EXCEPT !.prio[t] = p]
Relocked(s, t, d) == [s EXCEPT !.cpuLock[t] = d]

LEMMA PrioIs ==
  ASSUME NEW s, TableType(s), NEW t \in Threads, NEW p \in Priorities
  PROVE  /\ Reset(s, Repriced(s, t, p)) /\ Repriced(s, t, p).cpuLock = s.cpuLock
         /\ Repriced(s, t, p).prio = [s.prio EXCEPT ![t] = p] /\ Repriced(s, t, p).rot = s.rot
<1> DEFINE prio == [s.prio EXCEPT ![t] = p]
           x == Repriced(s, t, p)
<1>1. s = [active |-> s.active, cand |-> s.cand, rot |-> s.rot, ring |-> s.ring,
            rdy |-> s.rdy, isCand |-> s.isCand, cpuId |-> s.cpuId, cpuLock |-> s.cpuLock,
            prio |-> s.prio, counter |-> s.counter, front |-> s.front]
  BY TableFields
<1>2. prio \in [Threads -> Priorities]
  BY TableFields
<1>3. x = [s EXCEPT !.prio = prio]
  BY DEF Repriced
<1> HIDE DEF prio, x
<1>4. x = [active |-> s.active, cand |-> s.cand, rot |-> s.rot, ring |-> s.ring,
            rdy |-> s.rdy, isCand |-> s.isCand, cpuId |-> s.cpuId, cpuLock |-> s.cpuLock,
            prio |-> prio, counter |-> s.counter, front |-> s.front]
  BY <1>1, <1>3
<1>5. TableType(x)
  BY <1>2, <1>4, TableFields DEF TableType
<1>6. QED BY <1>4, <1>5 DEF Reset, prio, x

LEMMA LockIs ==
  ASSUME NEW s, TableType(s), NEW t \in Threads, NEW d \in CPUs \cup {NULL}
  PROVE  /\ Reset(s, Relocked(s, t, d)) /\ Relocked(s, t, d).prio = s.prio
         /\ Relocked(s, t, d).rot = s.rot
         /\ Relocked(s, t, d).cpuLock = [s.cpuLock EXCEPT ![t] = d]
<1> DEFINE cpuLock == [s.cpuLock EXCEPT ![t] = d]
           x == Relocked(s, t, d)
<1>1. s = [active |-> s.active, cand |-> s.cand, rot |-> s.rot, ring |-> s.ring,
            rdy |-> s.rdy, isCand |-> s.isCand, cpuId |-> s.cpuId, cpuLock |-> s.cpuLock,
            prio |-> s.prio, counter |-> s.counter, front |-> s.front]
  BY TableFields
<1>2. cpuLock \in [Threads -> CPUs \cup {NULL}]
  BY TableFields
<1>3. x = [s EXCEPT !.cpuLock = cpuLock]
  BY DEF Relocked
<1> HIDE DEF cpuLock, x
<1>4. x = [active |-> s.active, cand |-> s.cand, rot |-> s.rot, ring |-> s.ring,
            rdy |-> s.rdy, isCand |-> s.isCand, cpuId |-> s.cpuId, cpuLock |-> cpuLock,
            prio |-> s.prio, counter |-> s.counter, front |-> s.front]
  BY <1>1, <1>3
<1>5. TableType(x)
  BY <1>2, <1>4, TableFields DEF TableType
<1>6. QED BY <1>4, <1>5 DEF Reset, cpuLock, x

\* The priority of a thread that is in no ring.
LEMMA RepricedSound ==
  ASSUME NEW s, NEW R, Sound(s, R), NEW t \in Threads, t \notin R \ s.isCand,
         NEW p \in Priorities, NEW x, x = Repriced(s, t, p)
  PROVE  Sound(x, R) /\ Kept(s, x, {}) /\ x.isCand = s.isCand
<1>1. TableExact(s, R, {}) /\ TableType(s) /\ R \subseteq Threads /\ Idle \subseteq R
  BY DEF Sound, TableExact, IdleThere
<1>2. Reset(s, x) /\ x.cpuLock = s.cpuLock /\ x.prio = [s.prio EXCEPT ![t] = p]
  BY <1>1, PrioIs
<1>3. \A u \in R \ s.isCand : QueueOf(x, u) = QueueOf(s, u) /\ x.prio[u] = s.prio[u]
  <2>1. s.prio \in [Threads -> Priorities]
    BY <1>1, TableFields
  <2>2. QED BY <1>1, <1>2, <2>1 DEF QueueOf
<1>4. TableExact(x, R, {})
  BY <1>1, <1>2, <1>3, ResetExact
<1>5. Kept(s, x, {}) /\ x.isCand = s.isCand /\ x.cand = s.cand
  BY <1>2 DEF Kept, Reset
<1>6. \A c \in CPUs : x.cand[c] # NULL <=> s.cand[c] # NULL
  BY <1>5
<1>7. Sound(x, R)
  BY <1>1, <1>4, <1>5, <1>6, KeptSound
<1>8. QED BY <1>5, <1>7

\* A candidate gets its new priority when its processor has been told.
LEMMA RepricedTells ==
  ASSUME NEW s, NEW R, Sound(s, R), NEW t \in Threads, t \notin R \ s.isCand,
         t \in s.isCand => s.rot[s.cpuId[t]],
         NEW p \in Priorities, NEW x, x = Repriced(s, t, p)
  PROVE  TellsToo(s, R, x, R)
<1>1. /\ TableType(s) /\ R \subseteq Threads /\ CandsExact(s, {})
      /\ s.active = {c \in CPUs : s.cand[c] # NULL}
  BY DEF Sound, TableExact, Live
<1>2. x.prio = [s.prio EXCEPT ![t] = p] /\ x.cpuLock = s.cpuLock /\ x.rot = s.rot
      /\ x.active = s.active /\ x.cand = s.cand /\ x.isCand = s.isCand
  BY <1>1, PrioIs DEF Reset
<1>3. \A u \in Threads \ {t} : x.prio[u] = s.prio[u]
  BY <1>1, <1>2, TableFields
<1>4. ASSUME NEW c \in s.active, ~s.rot[c] PROVE s.cand[c] \in Threads \ {t}
  <2>1. c \in CPUs /\ s.cand[c] # NULL /\ s.cand[c] \in Threads
    BY <1>1, TableFields
  <2>2. s.cand[c] \in s.isCand /\ s.cpuId[s.cand[c]] = c
    BY <1>1, <2>1 DEF CandsExact
  <2>3. QED BY <1>4, <2>1, <2>2
<1>5. ASSUME NoneHeld(s), Told(s, R) PROVE NoneHeld(x) /\ Told(x, R)
  <2>1. ASSUME NEW c \in s.active, ~s.rot[c], NEW u \in R \ s.isCand
        PROVE  ~(x.prio[u] < x.prio[s.cand[c]])
    BY <1>1, <1>3, <1>4, <1>5, <2>1 DEF Told, Unbeaten
  <2>2. Told(x, R)
    BY <1>2, <2>1 DEF Told, Unbeaten
  <2>3. QED BY <1>2, <1>5, <2>2 DEF NoneHeld
<1>6. QED BY <1>5 DEF TellsToo

\* The processor that holds a thread that is in no ring.
LEMMA RelockedSound ==
  ASSUME NEW s, NEW R, Sound(s, R), NEW t \in Threads \ Idle, SMP_EN => t \notin R \ s.isCand,
         NEW d \in s.active \cup {NULL}, NEW x, x = Relocked(s, t, d)
  PROVE  /\ Sound(x, R) /\ Reset(s, x) /\ x.cpuLock = [s.cpuLock EXCEPT ![t] = d]
         /\ x.prio = s.prio /\ x.rot = s.rot
<1>1. /\ TableExact(s, R, {}) /\ TableType(s) /\ R \subseteq Threads /\ IdleThere(s, R)
      /\ HeldLive(s) /\ Live(s)
  BY DEF Sound, TableExact
<1>2. d \in CPUs \cup {NULL} /\ s.cpuLock \in [Threads -> CPUs \cup {NULL}]
  BY <1>1, TableFields
<1>3. /\ Reset(s, x) /\ x.cpuLock = [s.cpuLock EXCEPT ![t] = d]
      /\ x.prio = s.prio /\ x.rot = s.rot
  BY <1>1, <1>2, LockIs
<1>4. \A u \in R \ s.isCand : QueueOf(x, u) = QueueOf(s, u) /\ x.prio[u] = s.prio[u]
  BY <1>1, <1>2, <1>3 DEF QueueOf
<1>5. TableExact(x, R, {})
  BY <1>1, <1>3, <1>4, ResetExact
<1>6. IdleThere(x, R)
  BY <1>1, <1>2, <1>3, SchedulerAssumption DEF IdleThere
<1>7. HeldLive(x)
  BY <1>1, <1>2, <1>3 DEF HeldLive, Reset
<1>8. Live(x)
  BY <1>1, <1>3 DEF Live, Reset
<1>9. QED BY <1>3, <1>5, <1>6, <1>7, <1>8 DEF Sound

\* _SchedSetPrio
LEMMA SetPrioIs ==
  ASSUME NEW s, NEW R, Sound(s, R), NEW t \in Threads \ Idle, NEW p \in Priorities, NEW locked,
         NEW x, x = SchedSetPrio(s, t, p, t \in R, locked)
  PROVE  /\ Sound(x, R) /\ Kept(s, x, AddCands) /\ (SMP_EN => x.isCand = s.isCand)
         /\ TellsToo(s, R, x, R)
<1>1. TableExact(s, R, {}) /\ TableType(s) /\ s.cpuId[t] \in CPUs /\ s.isCand \subseteq R
  BY TableFields DEF Sound, TableExact
<1>2. CASE t \notin R
  <2>1. x = Repriced(s, t, p)
    BY <1>2 DEF SchedSetPrio, Repriced
  <2>2. TellsToo(s, R, x, R)
    BY <1>1, <1>2, <2>1, RepricedTells
  <2>3. QED BY <1>2, <2>1, <2>2, RepricedSound DEF Kept
<1>3. CASE t \in R /\ t \in s.isCand
  <2> DEFINE s1 == [s EXCEPT !.rot[s.cpuId[t]] = TRUE]
  <2>1. x = [s EXCEPT !.rot[s.cpuId[t]] = TRUE, !.prio[t] = p]
    BY <1>3 DEF SchedSetPrio
  <2>2. s = [active |-> s.active, cand |-> s.cand, rot |-> s.rot, ring |-> s.ring,
            rdy |-> s.rdy, isCand |-> s.isCand, cpuId |-> s.cpuId, cpuLock |-> s.cpuLock,
            prio |-> s.prio, counter |-> s.counter, front |-> s.front]
    BY <1>1, TableFields
  <2>3. x = Repriced(s1, t, p)
    BY <2>1, <2>2 DEF Repriced
  <2>4. Dressed(s, s1) /\ s1.rot = [s.rot EXCEPT ![s.cpuId[t]] = TRUE]
    BY <1>1, RotOneIs
  <2> HIDE DEF s1
  <2>5. Sound(s1, R) /\ s1.isCand = s.isCand
    BY <2>4, DressedSound DEF Dressed
  <2>6. Sound(x, R) /\ Kept(s1, x, {}) /\ x.isCand = s1.isCand
    BY <1>3, <2>3, <2>5, RepricedSound
  <2>7. s.rot \in [CPUs -> BOOLEAN] /\ s1.cpuId = s.cpuId
    BY <1>1, <2>4, TableFields DEF Dressed
  <2>8. s1.rot[s1.cpuId[t]] /\ \A c \in s.active : s.rot[c] => s1.rot[c]
    BY <1>1, <2>4, <2>7, TableFields
  <2>9. TellsToo(s, R, s1, R)
    BY <2>4, <2>8, DressedTells
  <2>10. TellsToo(s1, R, x, R)
    BY <1>3, <2>3, <2>5, <2>8, RepricedTells
  <2>11. TellsToo(s, R, x, R)
    BY <2>9, <2>10 DEF TellsToo
  <2>12. QED BY <2>4, <2>6, <2>11 DEF Kept, Dressed
<1>4. CASE t \in R /\ t \notin s.isCand
  <2> DEFINE s1 == DelFromReadyRing(s, t)
             s2 == Repriced(s1, t, p)
  <2>1. x = AddToReadyRing(s2, t, locked)
    BY <1>4 DEF SchedSetPrio, Repriced
  <2>2. Sound(s1, R \ {t}) /\ Kept(s, s1, {}) /\ TellsToo(s, R, s1, R \ {t})
    BY <1>4, DelIs
  <2>3. SMP_EN => s1.isCand = s.isCand
    <3>1. s1.cand = s.cand
      <4>1. s.cand \in [CPUs -> Threads \cup {NULL}] /\ s1.cand \in [CPUs -> Threads \cup {NULL}]
        BY <1>1, <2>2, TableFields DEF Sound, TableExact
      <4>2. QED BY <2>2, <4>1 DEF Kept
    <3>2. s.isCand = {s.cand[c] : c \in {d \in CPUs : s.cand[d] # NULL}}
      BY <1>1, TableFields, CandTableAssumption DEF TableExact, CandsExact
    <3>3. s1.isCand = {s1.cand[c] : c \in {d \in CPUs : s1.cand[d] # NULL}}
      BY <2>2, TableFields, CandTableAssumption DEF Sound, TableExact, CandsExact
    <3>4. QED BY <3>1, <3>2, <3>3
  <2> HIDE DEF s1
  <2>4. Sound(s2, R \ {t}) /\ Kept(s1, s2, {}) /\ s2.isCand = s1.isCand
    BY <2>2, RepricedSound
  <2>41. TellsToo(s1, R \ {t}, s2, R \ {t})
    <3>1. t \notin s1.isCand
      BY <2>2 DEF Sound, TableExact
    <3>2. QED BY <2>2, <3>1, RepricedTells
  <2> HIDE DEF s2
  <2>5. /\ Sound(x, (R \ {t}) \cup {t}) /\ Kept(s2, x, AddCands) /\ (SMP_EN => x.isCand = s2.isCand)
        /\ TellsToo(s2, R \ {t}, x, (R \ {t}) \cup {t})
    BY <2>1, <2>4, AddIs
  <2>6. (R \ {t}) \cup {t} = R
    BY <1>4
  <2>7. Kept(s, x, AddCands)
    BY <2>2, <2>4, <2>5 DEF Kept
  <2>8. TellsToo(s, R, x, R)
    BY <2>2, <2>41, <2>5, <2>6 DEF TellsToo
  <2>9. QED BY <2>3, <2>4, <2>5, <2>6, <2>7, <2>8
<1>5. QED BY <1>2, <1>3, <1>4

\* _SchedTick, _SchedYield
Recounted(s, rot, counter) == [s EXCEPT !.rot = rot, !.counter = counter]

LEMMA CounterIs ==
  ASSUME NEW s, TableType(s), NEW counter \in [Threads -> 0..Slice], NEW rot \in [CPUs -> BOOLEAN]
  PROVE  Dressed(s, Recounted(s, rot, counter)) /\ Recounted(s, rot, counter).rot = rot
<1> DEFINE y == [s EXCEPT !.rot = rot]
           x == [y EXCEPT !.counter = counter]
<1>1. Dressed(s, y) /\ TableType(y) /\ y.rot = rot
  BY RotIs DEF Dressed
<1>2. x = Recounted(s, rot, counter)
  BY DEF Recounted
<1> HIDE DEF y
<1>3. y = [active |-> y.active, cand |-> y.cand, rot |-> y.rot, ring |-> y.ring,
            rdy |-> y.rdy, isCand |-> y.isCand, cpuId |-> y.cpuId, cpuLock |-> y.cpuLock,
            prio |-> y.prio, counter |-> y.counter, front |-> y.front]
  BY <1>1, TableFields
<1>4. x = [active |-> y.active, cand |-> y.cand, rot |-> y.rot, ring |-> y.ring,
            rdy |-> y.rdy, isCand |-> y.isCand, cpuId |-> y.cpuId, cpuLock |-> y.cpuLock,
            prio |-> y.prio, counter |-> counter, front |-> y.front]
  BY <1>3
<1>5. TableType(x)
  BY <1>1, <1>4, TableFields DEF TableType
<1>6. Dressed(s, x) /\ x.rot = rot
  BY <1>1, <1>4, <1>5 DEF Dressed
<1>7. QED BY <1>2, <1>6

LEMMA TickIs ==
  ASSUME NEW s, TableType(s), NEW run
  PROVE  Dressed(s, SchedTick(s, run)) /\ \A c \in CPUs : s.rot[c] => SchedTick(s, run).rot[c]
<1> DEFINE sliced == {c \in s.active : run[c] \in RoundRobin}
           spent == {c \in sliced : s.counter[run[c]] = 0}
           rot == [c \in CPUs |-> s.rot[c] \/ (c \in spent /\ PeerWaits(s, c, run[c]))]
           counter == [t \in Threads |->
             IF \E c \in sliced \ spent : run[c] = t THEN s.counter[t] - 1 ELSE s.counter[t]]
<1>1. rot \in [CPUs -> BOOLEAN]
  <2> HIDE DEF spent
  <2>1. \A c \in CPUs : (s.rot[c] \/ (c \in spent /\ PeerWaits(s, c, run[c]))) \in BOOLEAN
    BY Zenon
  <2>2. QED BY <2>1, Zenon
<1>2. counter \in [Threads -> 0..Slice]
  <2>1. s.counter \in [Threads -> 0..Slice] /\ Slice \in Nat
    BY TableFields, CandTableAssumption
  <2>2. ASSUME NEW t \in Threads, \E c \in sliced \ spent : run[c] = t
        PROVE  s.counter[t] - 1 \in 0..Slice
    <3>1. s.counter[t] # 0
      BY <2>2
    <3>2. QED BY <2>1, <3>1
  <2>3. QED BY <2>1, <2>2
<1>3. SchedTick(s, run) = Recounted(s, rot, counter)
  BY TableFields DEF SchedTick, Recounted
<1>4. \A c \in CPUs : s.rot[c] => rot[c]
  OBVIOUS
<1> HIDE DEF rot, counter
<1>5. QED BY <1>1, <1>2, <1>3, <1>4, CounterIs

LEMMA YieldIs ==
  ASSUME NEW s, TableType(s), NEW c, NEW t \in Threads
  PROVE  Dressed(s, SchedYield(s, c, t)) /\ \A d \in CPUs : s.rot[d] => SchedYield(s, c, t).rot[d]
<1> DEFINE rot == [s.rot EXCEPT ![s.cpuId[t]] = TRUE]
           counter == [s.counter EXCEPT ![t] = 0]
<1>1. CASE PeerWaits(s, c, t)
  <2>1. counter \in [Threads -> 0..Slice]
    BY TableFields, CandTableAssumption
  <2>2. s.cpuId[t] \in CPUs
    BY TableFields
  <2>3. rot \in [CPUs -> BOOLEAN]
    BY <2>2, TableFields, Zenon
  <2>4. SchedYield(s, c, t) = Recounted(s, rot, counter)
    BY <1>1, TableFields DEF SchedYield, Recounted
  <2>5. \A d \in CPUs : s.rot[d] => rot[d]
    BY TableFields
  <2> HIDE DEF rot, counter
  <2>6. QED BY <2>1, <2>3, <2>4, <2>5, CounterIs
<1>2. CASE ~PeerWaits(s, c, t)
  BY <1>2 DEF SchedYield, Dressed
<1>3. QED BY <1>1, <1>2

\* The set of the processors that are up.
LEMMA ActiveIs ==
  ASSUME NEW s, NEW R, TableExact(s, R, {}), NEW A, A \subseteq CPUs,
         NEW x, x = [s EXCEPT !.active = A]
  PROVE  /\ TableExact(x, R, {}) /\ x.active = A
         /\ x.cand = s.cand /\ x.isCand = s.isCand /\ x.cpuLock = s.cpuLock
         /\ x.rot = s.rot /\ x.prio = s.prio
<1>1. TableType(s) /\ RingsExact(s, R \ s.isCand)
  BY DEF TableExact
<1>2. s = [active |-> s.active, cand |-> s.cand, rot |-> s.rot, ring |-> s.ring,
            rdy |-> s.rdy, isCand |-> s.isCand, cpuId |-> s.cpuId, cpuLock |-> s.cpuLock,
            prio |-> s.prio, counter |-> s.counter, front |-> s.front]
  BY <1>1, TableFields
<1>3. x = [active |-> A, cand |-> s.cand, rot |-> s.rot, ring |-> s.ring,
            rdy |-> s.rdy, isCand |-> s.isCand, cpuId |-> s.cpuId, cpuLock |-> s.cpuLock,
            prio |-> s.prio, counter |-> s.counter, front |-> s.front]
  BY <1>2
<1>4. TableType(x)
  BY <1>1, <1>3, TableFields DEF TableType
<1>5. RingsExact(x, R \ x.isCand)
  BY <1>1, <1>3, SameRings
<1>6. CandsExact(x, {})
  BY <1>3 DEF TableExact, CandsExact
<1>7. QED BY <1>3, <1>4, <1>5, <1>6 DEF TableExact

\* _CpuActive
LEMMA CpuActiveIs ==
  ASSUME NEW s, NEW R, Sound(s, R), NEW c \in CPUs \ s.active, NEW x, x = CpuActive(s, c)
  PROVE  /\ Sound(x, R) /\ x.active = s.active \cup {c} /\ x.cpuLock = s.cpuLock
         /\ \A d \in CPUs \ {c} : x.cand[d] = s.cand[d]
         /\ TellsToo(s, R, x, R) /\ (NoneHeld(s) => Unbeaten(x, R, c))
         /\ \A d \in s.active : Unbeaten(s, R, d) => Unbeaten(x, R, d)
<1> DEFINE A == s.active \cup {c}
           s1 == [s EXCEPT !.active = A]
           y == CandTableFill(s1, c)
<1>1. TableExact(s, R, {}) /\ TableType(s) /\ IdleThere(s, R) /\ HeldLive(s) /\ Live(s)
  BY DEF Sound, TableExact
<1>2. A \subseteq CPUs /\ s.cand \in [CPUs -> Threads \cup {NULL}] /\ s.cand[c] = NULL
  BY <1>1, TableFields DEF Live
<1>3. s1 = [s EXCEPT !.active = @ \cup {c}]
  BY <1>1, TableFields
<1> HIDE DEF A
<1>4. /\ TableExact(s1, R, {}) /\ s1.active = A
      /\ s1.cand = s.cand /\ s1.isCand = s.isCand /\ s1.cpuLock = s.cpuLock
      /\ s1.rot = s.rot /\ s1.prio = s.prio
  BY <1>1, <1>2, ActiveIs
<1>5. x = CandTableUpdate(s1, c)
  BY <1>3 DEF CpuActive
<1> HIDE DEF s1
<1>6. x = [y EXCEPT !.rot[c] = FALSE]
  BY <1>2, <1>4, <1>5 DEF CandTableUpdate, A
<1>7. TableExact(s1, R, {c}) /\ IdleThere(s1, R)
  BY <1>1, <1>2, <1>4, NullCand DEF IdleThere
<1>8. TableExact(y, R, {}) /\ Took(s1, y, c) /\ (NoneHeld(s1) => Unbeaten(y, R, c))
  BY <1>7, FillIs
<1> HIDE DEF y
<1>9. Dressed(y, x) /\ x.rot = [y.rot EXCEPT ![c] = FALSE]
  <2>1. /\ Dressed(y, [y EXCEPT !.rot[c] = FALSE])
        /\ [y EXCEPT !.rot[c] = FALSE].rot = [y.rot EXCEPT ![c] = FALSE]
    BY <1>8, RotOneIs DEF TableExact
  <2>2. QED BY <1>6, <2>1
<1>10. TableExact(x, R, {})
  BY <1>8, <1>9, DressedExact
<1>11. PICK u \in Threads : y.cand = [s1.cand EXCEPT ![c] = u]
  BY <1>8 DEF Took
<1>12. x.cand = [s.cand EXCEPT ![c] = u] /\ x.active = A /\ x.cpuLock = s.cpuLock
  BY <1>4, <1>8, <1>9, <1>11 DEF Took, Dressed
<1>13. IdleThere(x, R) /\ HeldLive(x)
  BY <1>1, <1>12 DEF IdleThere, HeldLive, A
<1>14. Live(x)
  BY <1>1, <1>2, <1>12, CandTableAssumption DEF Live, A
<1>15. x.prio = s.prio /\ x.rot = [s.rot EXCEPT ![c] = FALSE] /\ s.isCand \subseteq x.isCand
  BY <1>4, <1>8, <1>9 DEF Took, Dressed
<1>16. ASSUME NoneHeld(s) PROVE Unbeaten(x, R, c)
  BY <1>4, <1>8, <1>9, <1>16 DEF NoneHeld, Unbeaten, Dressed
<1>17. \A d \in s.active : /\ d \in CPUs \ {c} /\ x.cand[d] = s.cand[d]
                           /\ s.cand[d] \in Threads /\ x.rot[d] = s.rot[d]
  <2>1. /\ s.rot \in [CPUs -> BOOLEAN] /\ s.cand \in [CPUs -> Threads \cup {NULL}]
        /\ s.active \subseteq CPUs /\ c \notin s.active
    BY <1>1, TableFields
  <2>2. \A d \in s.active : d \in CPUs \ {c} /\ s.cand[d] \in Threads
    BY <1>1, <2>1 DEF Live
  <2>3. \A d \in CPUs \ {c} : x.cand[d] = s.cand[d]
    BY <1>12, <2>1
  <2>4. \A d \in CPUs \ {c} : x.rot[d] = s.rot[d]
    BY <1>15, <2>1
  <2>5. QED BY <2>2, <2>3, <2>4
<1>18. \A d \in s.active : Unbeaten(s, R, d) => Unbeaten(x, R, d)
  BY <1>15, <1>17 DEF Unbeaten
<1>19. TellsToo(s, R, x, R)
  <2>1. ASSUME NoneHeld(s), Told(s, R) PROVE NoneHeld(x) /\ Told(x, R)
    <3>1. \A d \in A : d = c \/ d \in s.active
      BY DEF A
    <3>2. QED BY <1>12, <1>16, <1>17, <1>18, <2>1, <3>1 DEF NoneHeld, Told
  <2>2. QED BY <2>1 DEF TellsToo
<1>20. QED BY <1>2, <1>10, <1>12, <1>13, <1>14, <1>16, <1>18, <1>19 DEF Sound, A

\* _CpuInactive, of a processor that holds no thread.
LEMMA CpuInactiveIs ==
  ASSUME NEW s, NEW R, Sound(s, R), NEW c \in s.active, c # 0,
         \A t \in Threads : s.cpuLock[t] # c, NEW x, x = CpuInactive(s, c)
  PROVE  /\ Sound(x, R) /\ x.active = s.active \ {c} /\ x.cpuLock = s.cpuLock
         /\ x.cand = [s.cand EXCEPT ![c] = NULL]
         /\ TellsToo(s, R, x, R)
<1> DEFINE A == s.active \ {c}
           s0 == [s EXCEPT !.active = A]
           s1 == CandTableEmpty(s0, c)
           t == s.cand[c]
           rot == [d \in CPUs |->
             IF d = c THEN FALSE ELSE s1.rot[d] \/ (d \in s1.active /\ LessUrgent(s1, d, t))]
<1>1. TableExact(s, R, {}) /\ TableType(s) /\ IdleThere(s, R) /\ HeldLive(s) /\ Live(s)
  BY DEF Sound, TableExact
<1>2. c \in CPUs /\ A \subseteq CPUs /\ s.cand \in [CPUs -> Threads \cup {NULL}] /\ s.cand[c] # NULL
  BY <1>1, TableFields DEF Live
<1>3. s0 = [s EXCEPT !.active = @ \ {c}]
  BY <1>1, TableFields
<1> HIDE DEF A
<1>4. /\ TableExact(s0, R, {}) /\ s0.active = A
      /\ s0.cand = s.cand /\ s0.isCand = s.isCand /\ s0.cpuLock = s.cpuLock
      /\ s0.rot = s.rot /\ s0.prio = s.prio
  BY <1>1, <1>2, ActiveIs
<1> HIDE DEF s0
<1>5. /\ TableExact(s1, R, {}) /\ s1.cand = [s.cand EXCEPT ![c] = NULL]
      /\ s1.active = A /\ s1.rot = s0.rot /\ s1.cpuLock = s.cpuLock
      /\ s1.prio = s0.prio /\ s1.isCand = s0.isCand \ {s0.cand[c]}
  BY <1>2, <1>4, EmptyIs
<1>6. x = [s1 EXCEPT !.rot = rot]
  <2>1. s1.rot \in [CPUs -> BOOLEAN] /\ TableType(s1)
    BY <1>5, TableFields DEF TableExact
  <2>2. QED BY <1>3, <2>1 DEF CpuInactive
<1>61. \A d \in CPUs \ {c} : s1.rot[d] \/ (d \in s1.active /\ LessUrgent(s1, d, t)) => rot[d]
  OBVIOUS
<1>62. s1.isCand = s.isCand \ {t}
  BY <1>4, <1>5
<1> HIDE DEF s1, t
<1>7. rot \in [CPUs -> BOOLEAN]
  <2>1. \A d \in CPUs : (IF d = c THEN FALSE
                         ELSE s1.rot[d] \/ (d \in s1.active /\ LessUrgent(s1, d, t))) \in BOOLEAN
    BY Zenon
  <2>2. QED BY <2>1, Zenon
<1> HIDE DEF rot
<1>8. Dressed(s1, x) /\ x.rot = rot
  <2>1. Dressed(s1, [s1 EXCEPT !.rot = rot]) /\ [s1 EXCEPT !.rot = rot].rot = rot
    BY <1>5, <1>7, RotIs DEF TableExact
  <2>2. QED BY <1>6, <2>1
<1>9. TableExact(x, R, {})
  BY <1>5, <1>8, DressedExact
<1>10. x.cand = [s.cand EXCEPT ![c] = NULL] /\ x.active = A /\ x.cpuLock = s.cpuLock
  BY <1>5, <1>8 DEF Dressed
<1>11. IdleThere(x, R) /\ HeldLive(x)
  BY <1>1, <1>10 DEF IdleThere, HeldLive, A
<1>12. Live(x)
  BY <1>1, <1>2, <1>10 DEF Live, A
<1>13. x.prio = s.prio /\ x.isCand = s.isCand \ {t}
  BY <1>4, <1>5, <1>62, <1>8 DEF Dressed
<1>14. ASSUME NoneHeld(s), Told(s, R) PROVE NoneHeld(x) /\ Told(x, R)
  <2>1. ASSUME NEW d \in A, ~rot[d], NEW v \in R \ x.isCand
        PROVE  ~(x.prio[v] < x.prio[x.cand[d]])
    <3>1. d \in CPUs \ {c} /\ d \in s.active /\ s.cand[d] # NULL
      BY <1>1, <1>2 DEF A, Live
    <3>2. x.cand[d] = s.cand[d] /\ s1.cand[d] = s.cand[d]
      BY <1>2, <1>5, <1>10, <3>1
    <3>3. ~s.rot[d] /\ ~LessUrgent(s1, d, t)
      BY <1>4, <1>5, <1>61, <2>1, <3>1
    <3>4. ~(s.prio[t] < s.prio[s.cand[d]])
      BY <1>4, <1>5, <3>1, <3>2, <3>3 DEF LessUrgent
    <3>5. Unbeaten(s, R, d)
      BY <1>14, <3>1, <3>3 DEF Told
    <3>6. CASE v = t
      BY <1>13, <3>2, <3>4, <3>6
    <3>7. CASE v # t
      BY <1>13, <2>1, <3>2, <3>5, <3>7 DEF Unbeaten
    <3>8. QED BY <3>6, <3>7
  <2>2. QED BY <1>8, <1>10, <1>14, <2>1 DEF NoneHeld, Told, Unbeaten
<1>15. TellsToo(s, R, x, R)
  BY <1>14 DEF TellsToo
<1>16. QED BY <1>9, <1>10, <1>11, <1>12, <1>15 DEF Sound, A

\* One thread of _ThreadOffAffinity
LEMMA OffAffinityIs ==
  ASSUME SMP_EN, NEW s, NEW R, Sound(s, R), NEW t \in Threads \ Idle,
         NEW x, x = ThreadOffAffinity(s, t, t \in R)
  PROVE  /\ Sound(x, R) /\ x.active = s.active /\ x.cand = s.cand /\ x.isCand = s.isCand
         /\ x.cpuLock = [s.cpuLock EXCEPT ![t] = NULL]
<1> DEFINE W == R \ s.isCand
<1>1. /\ TableExact(s, R, {}) /\ TableType(s) /\ IdleThere(s, R) /\ HeldLive(s) /\ Live(s)
      /\ RingsExact(s, W) /\ s.isCand \subseteq R /\ R \subseteq Threads /\ CandsExact(s, {})
  BY DEF Sound, TableExact
<1>2. CASE ~(t \in R /\ t \notin s.isCand)
  <2>1. x = Relocked(s, t, NULL)
    BY <1>2 DEF ThreadOffAffinity, Relocked
  <2>2. Sound(x, R) /\ Reset(s, x) /\ x.cpuLock = [s.cpuLock EXCEPT ![t] = NULL]
    BY <1>2, <2>1, RelockedSound
  <2>3. QED BY <2>2 DEF Reset
<1>3. CASE t \in R /\ t \notin s.isCand
  <2> DEFINE s1 == TakeOut(s, t)
             s2 == Relocked(s1, t, NULL)
             ring == RingOf(s2, t)
             r == AddedTo(s2, ring, t)
             s3 == SetRing(s2, t, r)
  <2>1. x = IF Len(RingOf(s3, t)) = 1 THEN ReadyTableAdd(s3, t) ELSE s3
    BY <1>3 DEF ThreadOffAffinity, TakeOut, Relocked, AddTCBToReadyRing, AddedTo
  <2>2. TableType(s1) /\ SameButRings(s, s1) /\ RingsExact(s1, W \ {t})
    BY <1>1, TakeOutIs
  <2> HIDE DEF s1, W
  <2>3. Reset(s1, s2) /\ s2.prio = s1.prio /\ s2.cpuLock = [s1.cpuLock EXCEPT ![t] = NULL]
    BY <2>2, LockIs
  <2>4. TableType(s2) /\ RingsExact(s2, W \ {t})
    <3>1. s1.cpuLock \in [Threads -> CPUs \cup {NULL}]
      BY <2>2, TableFields
    <3>2. \A u \in (W \ {t}) \cap Threads : QueueOf(s2, u) = QueueOf(s1, u) /\ s2.prio[u] = s1.prio[u]
      BY <2>3, <3>1 DEF QueueOf
    <3>3. s2.ring = s1.ring /\ s2.rdy = s1.rdy /\ TableType(s2)
      BY <2>3 DEF Reset
    <3>4. QED BY <2>2, <3>2, <3>3, OutsideRings
  <2> HIDE DEF s2
  <2>5. ring \in Seq(Threads) /\ IsInjective(ring) /\ ~Contains(ring, t)
    BY <2>4, QueueOfType, RingOfIs DEF RingIs
  <2> HIDE DEF ring
  <2>6. /\ r \in Seq(Threads) /\ IsInjective(r)
        /\ \A u : Contains(r, u) <=> Contains(ring, u) \/ u = t
    BY <2>5, AddedMembers
  <2>7. Len(r) = 1 <=> ring = << >>
    <3>1. Len(Append(ring, t)) = Len(ring) + 1 /\ Len(ring) \in Nat
      BY <2>5
    <3>2. CASE t \in RoundRobin /\ s2.front[t] /\ ring # << >>
      <4>1. 2 \in 1..(Len(ring) + 1)
        BY <2>5, <3>2
      <4>2. Len(InsertAt(ring, 2, t)) = Len(ring) + 1
        BY <2>5, <4>1, InsertAtElements
      <4>3. r = InsertAt(ring, 2, t)
        BY <3>2, Zenon DEF AddedTo
      <4>4. Len(ring) > 0
        BY <2>5, <3>2
      <4>5. Len(r) = Len(ring) + 1
        BY <4>2, <4>3
      <4>6. Len(ring) + 1 # 1
        BY <3>1, <4>4
      <4>7. QED BY <3>2, <4>5, <4>6
    <3>3. CASE ~(t \in RoundRobin /\ s2.front[t] /\ ring # << >>)
      <4>1. r = Append(ring, t)
        BY <3>3 DEF AddedTo
      <4>2. QED BY <2>5, <3>1, <4>1
    <3>4. QED BY <3>2, <3>3
  <2> HIDE DEF r
  <2>8. /\ TableType(s3) /\ SameButRings(s2, s3) /\ s3.rdy = s2.rdy
        /\ s3.ring = [s2.ring EXCEPT ![QueueOf(s2, t)][s2.prio[t]] = r]
    BY <2>4, <2>6, SetRingIs
  <2> HIDE DEF s3
  <2>9. QueueOf(s3, t) = QueueOf(s2, t) /\ s3.prio[t] = s2.prio[t]
    BY <2>8 DEF SameButRings, QueueOf
  <2>10. RingOf(s3, t) = r
    <3>1. /\ QueueOf(s2, t) \in Queues /\ s2.prio[t] \in Priorities
          /\ s2.ring \in [Queues -> [Priorities -> Seq(Threads)]]
      BY <2>4, QueueOfType, TableFields
    <3>2. QED BY <2>8, <2>9, <3>1 DEF RingOf
  <2>11. /\ TableType(x) /\ SameButRings(s3, x) /\ x.ring = s3.ring
         /\ x.rdy = IF ring = << >>
                    THEN [s2.rdy EXCEPT ![QueueOf(s2, t)] = @ \cup {s2.prio[t]}] ELSE s2.rdy
    <3>1. CASE ring = << >>
      <4>1. x = ReadyTableAdd(s3, t)
        BY <2>1, <2>7, <2>10, <3>1
      <4> DEFINE y == ReadyTableAdd(s3, t)
      <4>2. /\ TableType(y) /\ SameButRings(s3, y) /\ y.ring = s3.ring
            /\ y.rdy = [s3.rdy EXCEPT ![QueueOf(s3, t)] = @ \cup {s3.prio[t]}]
        BY <2>8, BitsIs
      <4> HIDE DEF y
      <4>3. x.rdy = [s2.rdy EXCEPT ![QueueOf(s2, t)] = @ \cup {s2.prio[t]}]
        BY <2>8, <2>9, <4>1, <4>2 DEF y
      <4>4. QED BY <3>1, <4>1, <4>2, <4>3 DEF y
    <3>2. CASE ring # << >>
      <4>1. x = s3
        BY <2>1, <2>7, <2>10, <3>2
      <4>2. QED BY <2>8, <3>2, <4>1 DEF SameButRings
    <3>3. QED BY <3>1, <3>2
  <2>12. SameButRings(s2, x)
    BY <2>8, <2>11 DEF SameButRings
  <2>13. RingPut(s2, x, t, r)
    BY <2>8, <2>11, <2>12 DEF RingPut, SameButRings, ring
  <2>14. RingsExact(x, (W \ {t}) \cup {t})
    <3>1. \A u : Contains(r, u) <=> Contains(RingOf(s2, t), u) \/ u = t
      BY <2>6 DEF ring
    <3>2. QED BY <2>4, <2>6, <2>13, <3>1, PutIs
  <2>15. /\ x.active = s.active /\ x.cand = s.cand /\ x.isCand = s.isCand /\ x.cpuId = s.cpuId
         /\ x.cpuLock = [s.cpuLock EXCEPT ![t] = NULL]
    BY <2>2, <2>3, <2>12 DEF SameButRings, Reset
  <2>16. (W \ {t}) \cup {t} = R \ x.isCand
    BY <1>3, <2>15 DEF W
  <2>17. CandsExact(x, {})
    BY <1>1, <2>15 DEF CandsExact
  <2>18. TableExact(x, R, {})
    BY <1>1, <2>11, <2>14, <2>15, <2>16, <2>17 DEF TableExact
  <2>19. s.cpuLock \in [Threads -> CPUs \cup {NULL}]
    BY <1>1, TableFields
  <2>20. IdleThere(x, R) /\ HeldLive(x) /\ Live(x)
    BY <1>1, <2>15, <2>19, SchedulerAssumption DEF IdleThere, HeldLive, Live
  <2>21. QED BY <2>15, <2>18, <2>20 DEF Sound
<1>4. QED BY <1>2, <1>3

-----------------------------------------------------------------------------
(* Lists of threads and what is done for one thread after the other.       *)

LEMMA SetToSeqIs ==
  ASSUME NEW S, IsFiniteSet(S)
  PROVE  /\ SetToSeq(S) \in Seq(S) /\ Len(SetToSeq(S)) = Cardinality(S)
         /\ IsInjective(SetToSeq(S))
         /\ \A u \in S : \E i \in 1..Cardinality(S) : SetToSeq(S)[i] = u
<1> DEFINE n == Cardinality(S)
           f == SetToSeq(S)
<1>1. n \in Nat /\ ExistsBijection(1..n, S)
  BY FS_CardinalityType
<1> HIDE DEF n
<1>2. PICK g : g \in Bijection(1..n, S)
  BY <1>1 DEF ExistsBijection
<1>3. g \in [1..n -> S] /\ IsInjective(g)
  BY <1>2 DEF Bijection, Injection
<1>4. f \in [1..n -> S] /\ IsInjective(f)
  BY <1>3 DEF SetToSeq, n
<1> HIDE DEF f
<1>5. f \in Injection(1..n, S)
  BY <1>4 DEF Injection
<1>6. IsFiniteSet(1..n) /\ Cardinality(1..n) = n
  BY <1>1, FS_Interval
<1>7. f \in Surjection(1..n, S)
  BY <1>5, <1>6, FS_Injection DEF n
<1>8. \A u \in S : \E i \in 1..n : f[i] = u
  BY <1>7 DEF Surjection
<1>9. f \in Seq(S) /\ Len(f) = n
  BY <1>1, <1>4
<1>10. QED BY <1>4, <1>8, <1>9 DEF n, f

LEMMA ListSize ==
  ASSUME NEW S, NEW r \in Seq(S), IsInjective(r)
  PROVE  IsFiniteSet(Range(r)) /\ Cardinality(Range(r)) = Len(r)
<1> DEFINE n == Len(r)
<1>1. n \in Nat /\ DOMAIN r = 1..n /\ r \in [1..n -> Range(r)]
  BY DEF Range
<1>2. r \in Surjection(1..n, Range(r)) /\ r \in Injection(1..n, Range(r))
  BY <1>1 DEF Surjection, Injection, Range
<1>3. IsFiniteSet(1..n) /\ Cardinality(1..n) = n
  BY <1>1, FS_Interval
<1>4. QED BY <1>2, <1>3, FS_Surjection

\* The tables of _ThreadOffAffinity, for the first k threads of h.
OffTables(s, h, k, f) ==
  f = [i \in 0..k |-> IF i = 0 THEN s ELSE ThreadOffAffinity(f[i - 1], h[i], Ready(h[i]))]

LEMMA OffExists ==
  ASSUME NEW s, NEW h, NEW n \in Nat
  PROVE  \E f : OffTables(s, h, n, f)
<1> DEFINE T == {k \in 0..n : ~ \E f : OffTables(s, h, k, f)}
<1> SUFFICES ASSUME T # {} PROVE FALSE
  OBVIOUS
<1>1. PICK k \in T : \A y \in T : ~ (y < k)
  <2>1. T \subseteq Nat
    OBVIOUS
  <2>2. QED BY <2>1, NatMin
<1>2. CASE k = 0
  <2>1. OffTables(s, h, 0, [i \in 0..0 |-> s])
    BY DEF OffTables
  <2>2. QED BY <1>1, <1>2, <2>1
<1>3. CASE k # 0
  <2>1. k - 1 \in 0..n /\ k - 1 \notin T /\ k \in Nat \ {0}
    BY <1>1, <1>3
  <2>2. PICK f : OffTables(s, h, k - 1, f)
    BY <2>1
  <2> DEFINE G(x, i) == ThreadOffAffinity(x, h[i], Ready(h[i]))
             g == [i \in 0..k |-> IF i = k THEN G(f[k - 1], k) ELSE f[i]]
  <2>3. f = [i \in 0..(k - 1) |-> IF i = 0 THEN s ELSE G(f[i - 1], i)]
    BY <2>2 DEF OffTables
  <2> HIDE DEF G
  <2>4. ASSUME NEW i \in 0..k PROVE g[i] = IF i = 0 THEN s ELSE G(g[i - 1], i)
    <3>1. CASE i = k
      BY <2>1, <3>1
    <3>2. CASE i # k
      BY <2>1, <2>3, <3>2
    <3>3. QED BY <3>1, <3>2
  <2>5. g = [i \in 0..k |-> IF i = 0 THEN s ELSE G(g[i - 1], i)]
    BY <2>4
  <2>6. OffTables(s, h, k, g)
    BY <2>5 DEF OffTables, G
  <2>7. QED BY <1>1, <2>6
<1>4. QED BY <1>2, <1>3

\* What API_CpuDown leaves of the locks.
Freed(s, x, d) ==
  /\ x.active = s.active /\ x.cand = s.cand /\ x.isCand = s.isCand
  /\ x.cpuLock = [t \in Threads |-> IF s.cpuLock[t] = d THEN NULL ELSE s.cpuLock[t]]

LEMMA HeldOffIs ==
  ASSUME SMP_EN, TableInv, NEW d \in CPUs
  PROVE  Sound(HeldOff(d), ReadyThreads) /\ Freed(tab, HeldOff(d), d)
<1> DEFINE R == ReadyThreads
           H == {t \in Threads : tab.cpuLock[t] = d}
           h == SetToSeq(H)
           n == Len(h)
           s == CHOOSE f : OffTables(tab, h, n, f)
<1>1. Sound(tab, R) /\ TableType(tab) /\ IdleThere(tab, R)
  BY DEF TableInv, Sound, TableExact
<1>2. IsFiniteSet(H)
  BY CandTableAssumption, FS_Subset
<1>3. H \subseteq Threads \ Idle
  BY <1>1, CandTableAssumption DEF IdleThere
<1>4. h \in Seq(H) /\ \A u \in H : \E i \in 1..n : h[i] = u
  BY <1>2, SetToSeqIs
<1>5. HeldOff(d) = s[n]
  BY DEF HeldOff, OffTables
<1>6. \A u \in Threads : tab.cpuLock[u] = d <=> u \in H
  OBVIOUS
<1> HIDE DEF H, h
<1>7. n \in Nat /\ \A i \in 1..n : h[i] \in H
  BY <1>4
<1>8. OffTables(tab, h, n, s)
  BY <1>7, OffExists
<1> HIDE DEF s, n
<1> DEFINE G(x, i) == ThreadOffAffinity(x, h[i], Ready(h[i]))
<1>9. s[0] = tab /\ \A i \in 1..n : s[i] = G(s[i - 1], i)
  <2>1. s = [i \in 0..n |-> IF i = 0 THEN tab ELSE G(s[i - 1], i)]
    BY <1>8 DEF OffTables
  <2> HIDE DEF G
  <2>2. QED BY <1>7, <2>1
<1> DEFINE Part(k) == /\ Sound(s[k], R) /\ s[k].active = tab.active
                      /\ s[k].cand = tab.cand /\ s[k].isCand = tab.isCand
                      /\ s[k].cpuLock = [t \in Threads |-> IF \E i \in 1..k : h[i] = t
                                                           THEN NULL ELSE tab.cpuLock[t]]
           T == {k \in 0..n : ~Part(k)}
<1> HIDE DEF R
<1>10. Part(0)
  <2>1. tab.cpuLock = [t \in Threads |-> IF \E i \in 1..0 : h[i] = t THEN NULL ELSE tab.cpuLock[t]]
    BY <1>1, TableFields
  <2>2. QED BY <1>1, <1>9, <2>1
<1>11. ASSUME NEW k \in 1..n, Part(k - 1) PROVE Part(k)
  <2> DEFINE t == h[k]
             x == s[k - 1]
             y == s[k]
  <2>1. t \in Threads \ Idle
    BY <1>3, <1>7
  <2>2. y = ThreadOffAffinity(x, t, Ready(t))
    BY <1>9
  <2>3. ThreadOffAffinity(x, t, Ready(t)) = ThreadOffAffinity(x, t, t \in R)
    <3>1. Ready(t) <=> t \in R
      BY <2>1 DEF R, ReadyThreads
    <3>2. QED BY <3>1 DEF ThreadOffAffinity
  <2>4. /\ Sound(x, R) /\ x.active = tab.active /\ x.cand = tab.cand /\ x.isCand = tab.isCand
        /\ x.cpuLock = [u \in Threads |-> IF \E i \in 1..(k - 1) : h[i] = u
                                          THEN NULL ELSE tab.cpuLock[u]]
    BY <1>11
  <2>5. y = ThreadOffAffinity(x, t, t \in R)
    BY <2>2, <2>3
  <2> HIDE DEF x, y
  <2>6. /\ Sound(y, R) /\ y.active = x.active /\ y.cand = x.cand /\ y.isCand = x.isCand
        /\ y.cpuLock = [x.cpuLock EXCEPT ![t] = NULL]
    BY <2>1, <2>4, <2>5, OffAffinityIs
  <2>7. y.cpuLock = [u \in Threads |-> IF \E i \in 1..k : h[i] = u THEN NULL ELSE tab.cpuLock[u]]
    <3>1. \A u : (\E i \in 1..k : h[i] = u) <=> (\E i \in 1..(k - 1) : h[i] = u) \/ u = t
      BY <1>7
    <3> HIDE DEF t
    <3>2. QED BY <2>1, <2>4, <2>6, <3>1
  <2>8. QED BY <2>4, <2>6, <2>7 DEF y
<1> HIDE DEF Part
<1>12. T = {}
  <2> SUFFICES ASSUME T # {} PROVE FALSE
    OBVIOUS
  <2>1. T \subseteq Nat
    BY <1>7
  <2>2. PICK k \in T : \A y \in T : ~ (y < k)
    BY <2>1, NatMin
  <2>3. k # 0 /\ k \in 1..n
    BY <1>7, <1>10, <2>2
  <2>4. k - 1 \in 0..n /\ k - 1 \notin T
    BY <1>7, <2>2, <2>3
  <2>5. QED BY <1>11, <2>2, <2>3, <2>4
<1>13. Part(n)
  BY <1>7, <1>12
<1>14. \A u \in Threads : (\E i \in 1..n : h[i] = u) <=> tab.cpuLock[u] = d
  BY <1>4, <1>6, <1>7 DEF n
<1>15. QED BY <1>5, <1>13, <1>14 DEF Part, Freed, R

\* There is nothing to leave when no processor holds a thread.
LEMMA HeldOffNone ==
  ASSUME NEW d \in CPUs, \A t \in Threads : tab.cpuLock[t] = NULL
  PROVE  HeldOff(d) = tab
<1> DEFINE H == {t \in Threads : tab.cpuLock[t] = d}
           h == SetToSeq(H)
           n == Len(h)
           s == CHOOSE f : OffTables(tab, h, n, f)
<1>1. H = {}
  BY CandTableAssumption
<1>2. HeldOff(d) = s[n]
  BY DEF HeldOff, OffTables
<1> HIDE DEF H
<1>3. n = 0
  <2>1. Len(SetToSeq(H)) = Cardinality(H)
    BY <1>1, FS_EmptySet, SetToSeqIs
  <2>2. QED BY <1>1, <2>1, FS_EmptySet
<1> HIDE DEF h, n
<1>4. OffTables(tab, h, n, s)
  BY <1>3, OffExists
<1> HIDE DEF s
<1>5. s[0] = tab
  BY <1>3, <1>4 DEF OffTables
<1>6. QED BY <1>2, <1>3, <1>5

\* Is u ready when it no longer waits for the state of another to change?
Wakeable(u) == ReadyWith(u, pend, nest, [waitFor EXCEPT ![u] = NULL])

\* The tables of _ThreadStatusChangeCur, when the first k threads of h go on.
WokenTables(s, h, k, f) ==
  f = [i \in 0..k |->
         IF i = 0 THEN s
         ELSE IF Wakeable(h[i]) THEN Activate(f[i - 1], h[i], TRUE, {}) ELSE f[i - 1]]

LEMMA WokenExists ==
  ASSUME NEW s, NEW h, NEW n \in Nat
  PROVE  \E f : WokenTables(s, h, n, f)
<1> DEFINE T == {k \in 0..n : ~ \E f : WokenTables(s, h, k, f)}
<1> SUFFICES ASSUME T # {} PROVE FALSE
  OBVIOUS
<1>1. PICK k \in T : \A y \in T : ~ (y < k)
  <2>1. T \subseteq Nat
    OBVIOUS
  <2>2. QED BY <2>1, NatMin
<1>2. CASE k = 0
  <2>1. WokenTables(s, h, 0, [i \in 0..0 |-> s])
    BY DEF WokenTables
  <2>2. QED BY <1>1, <1>2, <2>1
<1>3. CASE k # 0
  <2>1. k - 1 \in 0..n /\ k - 1 \notin T /\ k \in Nat \ {0}
    BY <1>1, <1>3
  <2>2. PICK f : WokenTables(s, h, k - 1, f)
    BY <2>1
  <2> DEFINE G(x, i) == IF Wakeable(h[i]) THEN Activate(x, h[i], TRUE, {}) ELSE x
             g == [i \in 0..k |-> IF i = k THEN G(f[k - 1], k) ELSE f[i]]
  <2>3. f = [i \in 0..(k - 1) |-> IF i = 0 THEN s ELSE G(f[i - 1], i)]
    BY <2>2 DEF WokenTables
  <2> HIDE DEF G
  <2>4. ASSUME NEW i \in 0..k PROVE g[i] = IF i = 0 THEN s ELSE G(g[i - 1], i)
    <3>1. CASE i = k
      BY <2>1, <3>1
    <3>2. CASE i # k
      BY <2>1, <2>3, <3>2
    <3>3. QED BY <3>1, <3>2
  <2>5. g = [i \in 0..k |-> IF i = 0 THEN s ELSE G(g[i - 1], i)]
    BY <2>4
  <2>6. WokenTables(s, h, k, g)
    BY <2>5 DEF WokenTables, G
  <2>7. QED BY <1>1, <2>6
<1>4. QED BY <1>2, <1>3

\* The ready threads after _ThreadStatusChangeCur on c: the thread that runs has
\* left, those that waited for it are back.
ReadyServed(c) ==
  (ReadyThreads \ {running[c]}) \cup {u \in Range(pending[running[c]]) : Wakeable(u)}

LEMMA TableServedIs ==
  ASSUME SMP_EN, TableInv, NEW c \in CPUs, running[c] \in Users,
         pending[running[c]] \in Seq(Users), IsInjective(pending[running[c]]),
         \A u \in Range(pending[running[c]]) : ~Ready(u)
  PROVE  /\ Sound(TableServed(c), ReadyServed(c))
         /\ Kept(tab, TableServed(c),
                 IF running[c] \in tab.isCand THEN {tab.cpuId[running[c]]} ELSE {})
         /\ TellsToo(tab, ReadyThreads, TableServed(c), ReadyServed(c))
<1> DEFINE R == ReadyThreads
           t == running[c]
           h == pending[t]
           n == Len(h)
           a == IF Ready(t) THEN DelFromReadyRing(tab, t) ELSE tab
           s == CHOOSE f : WokenTables(a, h, n, f)
           D == IF t \in tab.isCand THEN {tab.cpuId[t]} ELSE {}
           Rk(k) == (R \ {t}) \cup {u \in Users : \E i \in 1..k : h[i] = u /\ Wakeable(u)}
<1>1. Sound(tab, R) /\ t \in Threads \ Idle /\ Users = Threads \ Idle /\ R \subseteq Threads
  BY DEF TableInv, Users, ReadyThreads
<1>2. TableServed(c) = s[n]
  BY DEF TableServed, WokenTables, Wakeable
<1>3. n \in Nat /\ h \in Seq(Users) /\ \A i \in 1..n : h[i] \in Users
  OBVIOUS
<1>4. \A i, j \in 1..n : h[i] = h[j] => i = j
  BY <1>3 DEF IsInjective
<1>5. Range(h) = {u \in Users : \E i \in 1..n : h[i] = u}
  BY <1>3 DEF Range
<1>6. \A i \in 1..n : ~Ready(h[i])
  BY <1>3, <1>5
<1>7. Sound(a, R \ {t}) /\ Kept(tab, a, D) /\ TellsToo(tab, R, a, R \ {t})
  <2>1. CASE Ready(t)
    <3>1. a = DelFromReadyRing(tab, t)
      BY <2>1
    <3>2. QED BY <1>1, <3>1, DelIs
  <2>2. CASE ~Ready(t)
    <3>1. R \ {t} = R
      BY <2>2 DEF ReadyThreads
    <3>2. a = tab
      BY <2>2
    <3> HIDE DEF a, R, D
    <3>3. QED BY <1>1, <3>1, <3>2 DEF Kept, TellsToo
  <2>3. QED BY <2>1, <2>2
<1> HIDE DEF a
<1>8. WokenTables(a, h, n, s)
  BY <1>3, WokenExists
<1> HIDE DEF s, h, n, D
<1> DEFINE G(x, i) == IF Wakeable(h[i]) THEN Activate(x, h[i], TRUE, {}) ELSE x
<1>9. s[0] = a /\ \A i \in 1..n : s[i] = G(s[i - 1], i)
  <2>1. s = [i \in 0..n |-> IF i = 0 THEN a ELSE G(s[i - 1], i)]
    BY <1>8 DEF WokenTables
  <2> HIDE DEF G
  <2>2. QED BY <1>3, <2>1
<1> DEFINE Part(k) == Sound(s[k], Rk(k)) /\ Kept(tab, s[k], D) /\ TellsToo(tab, R, s[k], Rk(k))
           T == {k \in 0..n : ~Part(k)}
<1>10. Part(0)
  <2>1. Rk(0) = R \ {t}
    OBVIOUS
  <2>2. QED BY <1>7, <1>9, <2>1
<1>11. ASSUME NEW k \in 1..n, Part(k - 1) PROVE Part(k)
  <2> DEFINE u == h[k]
             x == s[k - 1]
             y == s[k]
             V == Rk(k - 1)
             W == Rk(k)
  <2>1. Sound(x, V) /\ Kept(tab, x, D) /\ TellsToo(tab, R, x, V)
    BY <1>11
  <2>2. u \in Threads \ Idle /\ u \in Users /\ ~Ready(u) /\ k \in Nat
    BY <1>1, <1>3, <1>6
  <2>3. y = IF Wakeable(u) THEN Activate(x, u, TRUE, {}) ELSE x
    BY <1>9
  <2>4. \A v : (\E i \in 1..k : h[i] = v /\ Wakeable(v))
               <=> (\E i \in 1..(k - 1) : h[i] = v /\ Wakeable(v)) \/ (v = u /\ Wakeable(u))
    BY <1>3
  <2>5. CASE Wakeable(u)
    <3>1. u \notin V
      <4>1. u \notin R
        BY <2>2 DEF ReadyThreads
      <4>2. ~ \E i \in 1..(k - 1) : h[i] = u
        BY <1>3, <1>4
      <4>3. QED BY <4>1, <4>2
    <3>2. W = V \cup {u}
      BY <2>2, <2>4, <2>5
    <3>3. y = Activate(x, u, TRUE, {})
      BY <2>3, <2>5
    <3> HIDE DEF x, y, V, W, u
    <3>4. u \in Threads \ V
      BY <2>2, <3>1
    <3>5. Sound(y, V \cup {u}) /\ Kept(x, y, AddCands) /\ TellsToo(x, V, y, V \cup {u})
      BY <2>1, <3>3, <3>4, ActivateIs
    <3>6. Kept(tab, y, D)
      BY <2>1, <3>5 DEF Kept, AddCands
    <3>7. TellsToo(tab, R, y, V \cup {u})
      BY <2>1, <3>5 DEF TellsToo
    <3>8. QED BY <3>2, <3>5, <3>6, <3>7 DEF y, W
  <2>6. CASE ~Wakeable(u)
    <3>1. W = V
      BY <2>4, <2>6
    <3>2. y = x
      BY <2>3, <2>6
    <3> HIDE DEF x, y, V, W
    <3>3. QED BY <2>1, <3>1, <3>2 DEF y, W
  <2>7. QED BY <2>5, <2>6
<1> HIDE DEF Part
<1>12. T = {}
  <2> SUFFICES ASSUME T # {} PROVE FALSE
    OBVIOUS
  <2>1. T \subseteq Nat
    BY <1>3
  <2>2. PICK k \in T : \A y \in T : ~ (y < k)
    BY <2>1, NatMin
  <2>3. k # 0 /\ k \in 1..n
    BY <1>3, <1>10, <2>2
  <2>4. k - 1 \in 0..n /\ k - 1 \notin T
    BY <1>3, <2>2, <2>3
  <2>5. QED BY <1>11, <2>2, <2>3, <2>4
<1>13. Part(n)
  BY <1>3, <1>12
<1>14. Rk(n) = ReadyServed(c)
  <2>1. \A u : u \in {v \in Users : \E i \in 1..n : h[i] = v /\ Wakeable(v)}
               <=> u \in {v \in Range(h) : Wakeable(v)}
    BY <1>5
  <2>2. QED BY <2>1 DEF ReadyServed, h
<1>15. QED BY <1>2, <1>13, <1>14 DEF Part, D

-----------------------------------------------------------------------------
(* What the invariant says of the thread that calls.                       *)

LEMMA CandIs ==
  ASSUME NEW s, NEW R, Sound(s, R)
  PROVE  /\ \A c \in s.active : /\ c \in CPUs /\ s.cand[c] \in s.isCand /\ s.cand[c] \in R
                                /\ s.cand[c] \in Threads /\ s.cpuId[s.cand[c]] = c
         /\ \A t \in s.isCand : s.cpuId[t] \in s.active /\ s.cand[s.cpuId[t]] = t /\ t \in R
         /\ \A c, d \in s.active : s.cand[c] = s.cand[d] => c = d
         /\ s.active \subseteq CPUs /\ 0 \in s.active /\ R \subseteq Threads
<1>1. TableExact(s, R, {}) /\ Live(s) /\ TableType(s) /\ CandsExact(s, {})
      /\ s.isCand \subseteq R /\ R \subseteq Threads
  BY DEF Sound, TableExact
<1>2. s.active \subseteq CPUs /\ s.cpuId \in [Threads -> CPUs] /\ s.isCand \subseteq Threads
  BY <1>1, TableFields
<1>3. \A c \in s.active : s.cand[c] # NULL
  BY <1>1 DEF Live
<1>4. \A c \in s.active : s.cand[c] \in s.isCand /\ s.cpuId[s.cand[c]] = c
  BY <1>1, <1>2, <1>3 DEF CandsExact
<1>5. ASSUME NEW t \in s.isCand PROVE s.cpuId[t] \in s.active /\ s.cand[s.cpuId[t]] = t
  <2>1. s.cand[s.cpuId[t]] = t
    BY <1>1 DEF CandsExact
  <2>2. t # NULL /\ s.cpuId[t] \in CPUs
    BY <1>2, CandTableAssumption
  <2>3. QED BY <1>1, <2>1, <2>2 DEF Live
<1>6. \A c, d \in s.active : s.cand[c] = s.cand[d] => c = d
  BY <1>4
<1>7. 0 \in s.active
  BY <1>1 DEF Live
<1>8. QED BY <1>1, <1>2, <1>4, <1>5, <1>6, <1>7

LEMMA StateTypes ==
  ASSUME IInv
  PROVE  /\ running \in [CPUs -> Threads \cup {NULL}]
         /\ ipi \in [CPUs -> SUBSET {"SCHED", "STATUS_REQ", "DOWN"}]
         /\ irq \subseteq CPUs /\ isr \subseteq CPUs /\ booting \subseteq CPUs
         /\ kernel \in CPUs \cup {NULL}
         /\ pend \subseteq Threads
         /\ nest \in [Requests -> [Threads -> 0..MaxNest]]
         /\ waitFor \in [Threads -> Threads \cup {NULL}]
         /\ request \in [Threads -> Requests \cup {NULL}]
         /\ pending \in [Threads -> Seq(Threads)]
         /\ lock \in [Threads -> 0..MaxNest]
         /\ AfterOK /\ Sound(tab, ReadyThreads) /\ TableType(tab)
  BY DEF IInv, TypeInv, TypeOK, TableInv

\* No processor but one that is in the kernel runs another thread than its candidate.
LEMMA CallerIs ==
  ASSUME IInv, NEW c \in CPUs, Enters(c)
  PROVE  /\ running[c] \in Users /\ running[c] \in Threads \ Idle
         /\ waitFor[running[c]] = NULL
         /\ SMP_EN => \A d \in tab.active : running[d] = tab.cand[d]
         /\ SMP_EN => Ready(running[c]) /\ running[c] \in tab.isCand /\ tab.cpuId[running[c]] = c
         /\ after[running[c]] # SchedCall => Ready(running[c])
<1>1. kernel = NULL /\ c \in tab.active /\ c \notin isr /\ running[c] \in Users
  BY DEF Enters
<1>2. Sound(tab, ReadyThreads) /\ Users = Threads \ Idle
  BY StateTypes DEF Users
<1>3. \A d \in CPUs : d # NULL
  BY CandTableAssumption
<1>4. CASE SMP_EN
  <2>1. \A d \in tab.active : running[d] = tab.cand[d]
    BY <1>1, <1>2, <1>3, <1>4, CandIs DEF IInv, RunsInv
  <2>2. running[c] \in tab.isCand /\ tab.cpuId[running[c]] = c /\ running[c] \in ReadyThreads
    BY <1>1, <1>2, <2>1, CandIs
  <2>3. Ready(running[c])
    BY <2>2 DEF ReadyThreads
  <2>4. waitFor[running[c]] = NULL
    BY <2>3 DEF Ready, ReadyWith
  <2>5. QED BY <1>1, <1>2, <1>4, <2>1, <2>2, <2>3, <2>4
<1>5. CASE ~SMP_EN
  <2>1. waitFor[running[c]] = NULL
    BY <1>1, <1>2, <1>5 DEF IInv, ListsInv
  <2>2. ASSUME after[running[c]] # SchedCall PROVE Ready(running[c])
    <3>1. ~AboutToSchedule(c)
      BY <1>1, <1>3, <2>2 DEF AboutToSchedule
    <3>2. QED BY <1>1, <1>5, <3>1 DEF IInv, RunsInvUp
  <2>3. QED BY <1>1, <1>2, <1>5, <2>1, <2>2
<1>6. QED BY <1>4, <1>5

-----------------------------------------------------------------------------
(* The table stays sound, for the threads that are ready then.             *)

LEMMA SameReady ==
  ASSUME UNCHANGED << pend, nest, waitFor >>
  PROVE  ReadyThreads' = ReadyThreads
  BY DEF ReadyThreads, Ready, ReadyWith

\* Pend, Post, the end of a time
LEMMA PendTable ==
  ASSUME IInv, NEW t \in Users, pend' = pend \cup {t}, UNCHANGED << nest, waitFor >>,
         tab' = DelFromReadyRing(tab, t)
  PROVE  /\ TableInv' /\ t \notin ReadyThreads'
         /\ Kept(tab, tab', IF t \in tab.isCand THEN {tab.cpuId[t]} ELSE {})
         /\ TellsToo(tab, ReadyThreads, tab', ReadyThreads')
<1>1. ReadyThreads' = ReadyThreads \ {t}
  BY DEF ReadyThreads, Ready, ReadyWith
<1>2. t \in Threads \ Idle /\ Sound(tab, ReadyThreads)
  BY StateTypes DEF Users
<1>3. /\ Sound(tab', ReadyThreads \ {t})
      /\ Kept(tab, tab', IF t \in tab.isCand THEN {tab.cpuId[t]} ELSE {})
      /\ TellsToo(tab, ReadyThreads, tab', ReadyThreads \ {t})
  BY <1>2, DelIs
<1>4. QED BY <1>1, <1>3 DEF TableInv

LEMMA WakesTable ==
  ASSUME IInv, NEW u \in Users, NEW front \in BOOLEAN, NEW locked, Wakes(u, front, locked)
  PROVE  /\ TableInv' /\ Kept(tab, tab', AddCands)
         /\ SMP_EN => tab'.isCand = tab.isCand
         /\ TellsToo(tab, ReadyThreads, tab', ReadyThreads')
<1>1. u \in Threads /\ Sound(tab, ReadyThreads) /\ u \notin ReadyThreads
  BY StateTypes DEF Users, Wakes, ReadyThreads, Ready, ReadyWith
<1>2. CASE ReadyWith(u, pend', nest, waitFor)
  <2>1. ReadyThreads' = ReadyThreads \cup {u}
    BY <1>1, <1>2 DEF Wakes, ReadyThreads, Ready, ReadyWith
  <2>2. tab' = Activate(tab, u, front, locked)
    BY <1>2 DEF Wakes
  <2>3. /\ Sound(tab', ReadyThreads \cup {u}) /\ Kept(tab, tab', AddCands)
        /\ SMP_EN => tab'.isCand = tab.isCand
        /\ TellsToo(tab, ReadyThreads, tab', ReadyThreads \cup {u})
    BY <1>1, <2>2, ActivateIs
  <2>4. QED BY <2>1, <2>3 DEF TableInv
<1>3. CASE ~ReadyWith(u, pend', nest, waitFor)
  <2>1. ReadyThreads' = ReadyThreads
    BY <1>3 DEF Wakes, ReadyThreads, Ready, ReadyWith
  <2>2. tab' = tab
    BY <1>3 DEF Wakes
  <2>3. QED BY <1>1, <2>1, <2>2 DEF TableInv, Kept, TellsToo
<1>4. QED BY <1>2, <1>3

\* _ThreadStatusChange
LEMMA ChangeTable ==
  ASSUME IInv, NEW c \in CPUs, NEW u \in Users, NEW r \in Requests, ChangeAtOnce(c, u, r)
  PROVE  /\ TableInv' /\ u \notin ReadyThreads'
         /\ Kept(tab, tab', IF u \in tab.isCand THEN {tab.cpuId[u]} ELSE {})
         /\ TellsToo(tab, ReadyThreads, tab', ReadyThreads')
<1>1. u \in Threads \ Idle /\ Sound(tab, ReadyThreads)
  BY StateTypes DEF Users
<1>2. nest \in [Requests -> [Threads -> 0..MaxNest]] /\ MaxNest \in Nat
  BY StateTypes, SchedulerAssumption
<1>3. nest' = [nest EXCEPT ![r][u] = @ + 1] /\ pend' = pend /\ waitFor' = waitFor
  BY DEF ChangeAtOnce
<1>4. ReadyThreads' = ReadyThreads \ {u}
  <2>1. nest'[r][u] # 0
    BY <1>1, <1>2, <1>3
  <2>2. ~Ready(u)'
    BY <2>1 DEF Ready, ReadyWith, Requests
  <2>3. \A t \in Threads \ {u} : Ready(t)' <=> Ready(t)
    BY <1>1, <1>2, <1>3 DEF Ready, ReadyWith
  <2>4. QED BY <1>1, <2>2, <2>3 DEF ReadyThreads
<1>5. CASE Ready(u)
  <2>1. tab' = DelFromReadyRing(tab, u)
    BY <1>5 DEF ChangeAtOnce
  <2>2. /\ Sound(tab', ReadyThreads \ {u})
        /\ Kept(tab, tab', IF u \in tab.isCand THEN {tab.cpuId[u]} ELSE {})
        /\ TellsToo(tab, ReadyThreads, tab', ReadyThreads \ {u})
    BY <1>1, <2>1, DelIs
  <2>3. QED BY <1>4, <2>2 DEF TableInv
<1>6. CASE ~Ready(u)
  <2>1. tab' = tab /\ ReadyThreads \ {u} = ReadyThreads
    BY <1>6 DEF ChangeAtOnce, ReadyThreads
  <2>2. QED BY <1>1, <1>4, <2>1 DEF TableInv, Kept, TellsToo
<1>7. QED BY <1>5, <1>6

LEMMA AskTable ==
  ASSUME IInv, NEW c \in CPUs, running[c] \in Users, NEW u \in Users, NEW r \in Requests,
         AskForChange(c, u, r)
  PROVE  /\ TableInv' /\ running[c] \notin ReadyThreads'
         /\ Kept(tab, tab', IF running[c] \in tab.isCand THEN {tab.cpuId[running[c]]} ELSE {})
         /\ TellsToo(tab, ReadyThreads, tab', ReadyThreads')
<1> DEFINE t == running[c]
<1>1. t \in Threads \ Idle /\ u \in Threads /\ u # NULL /\ Sound(tab, ReadyThreads)
  BY StateTypes, CandTableAssumption DEF Users
<1>2. waitFor \in [Threads -> Threads \cup {NULL}]
  BY StateTypes
<1>3. waitFor' = [waitFor EXCEPT ![t] = u] /\ pend' = pend /\ nest' = nest
      /\ tab' = IF Ready(t) THEN DelFromReadyRing(tab, t) ELSE tab
  BY DEF AskForChange
<1> HIDE DEF t
<1>4. ReadyThreads' = ReadyThreads \ {t}
  BY <1>1, <1>2, <1>3 DEF ReadyThreads, Ready, ReadyWith
<1>5. CASE Ready(t)
  <2>1. tab' = DelFromReadyRing(tab, t)
    BY <1>3, <1>5
  <2>2. /\ Sound(tab', ReadyThreads \ {t})
        /\ Kept(tab, tab', IF t \in tab.isCand THEN {tab.cpuId[t]} ELSE {})
        /\ TellsToo(tab, ReadyThreads, tab', ReadyThreads \ {t})
    BY <1>1, <2>1, DelIs
  <2>3. QED BY <1>4, <2>2 DEF TableInv, t
<1>6. CASE ~Ready(t)
  <2>1. tab' = tab /\ ReadyThreads \ {t} = ReadyThreads
    BY <1>3, <1>6 DEF ReadyThreads
  <2>2. QED BY <1>1, <1>4, <2>1 DEF TableInv, Kept, TellsToo, t
<1>7. QED BY <1>5, <1>6

\* API_ThreadResume, _ThreadContinue
LEMMA ReleasesTable ==
  ASSUME IInv, NEW s, Sound(s, ReadyThreads), NEW u \in Users, NEW r \in Requests, NEW locked,
         Releases(s, u, r, locked)
  PROVE  /\ TableInv' /\ Kept(s, tab', AddCands)
         /\ SMP_EN => tab'.isCand = s.isCand
         /\ TellsToo(s, ReadyThreads, tab', ReadyThreads')
<1>1. u \in Threads
  BY DEF Users
<1>2. nest \in [Requests -> [Threads -> 0..MaxNest]] /\ MaxNest \in Nat
  BY StateTypes, SchedulerAssumption
<1>3. nest' = [nest EXCEPT ![r][u] = IF @ > 0 THEN @ - 1 ELSE @]
      /\ pend' = pend /\ waitFor' = waitFor
  BY DEF Releases
<1>4. \A t \in Threads \ {u} : Ready(t)' <=> Ready(t)
  BY <1>1, <1>2, <1>3 DEF Ready, ReadyWith
<1>5. Ready(u)' <=> ReadyWith(u, pend, nest', waitFor)
  BY <1>3 DEF Ready
<1>6. CASE nest[r][u] = 1 /\ ReadyWith(u, pend, nest', waitFor)
  <2>1. ~Ready(u)
    BY <1>6 DEF Ready, ReadyWith, Requests
  <2>2. ReadyThreads' = ReadyThreads \cup {u} /\ u \in Threads \ ReadyThreads
    BY <1>1, <1>4, <1>5, <1>6, <2>1 DEF ReadyThreads
  <2>3. tab' = Activate(s, u, TRUE, locked)
    BY <1>6 DEF Releases
  <2>4. /\ Sound(tab', ReadyThreads \cup {u}) /\ Kept(s, tab', AddCands)
        /\ SMP_EN => tab'.isCand = s.isCand
        /\ TellsToo(s, ReadyThreads, tab', ReadyThreads \cup {u})
    <3> DEFINE y == tab'
    <3>1. PICK front \in BOOLEAN : front = TRUE
      OBVIOUS
    <3>2. y = Activate(s, u, front, locked)
      BY <2>3, <3>1
    <3> HIDE DEF y
    <3>3. /\ Sound(y, ReadyThreads \cup {u}) /\ Kept(s, y, AddCands)
          /\ SMP_EN => y.isCand = s.isCand
          /\ TellsToo(s, ReadyThreads, y, ReadyThreads \cup {u})
      BY <2>2, <3>2, ActivateIs
    <3>4. QED BY <3>3 DEF y
  <2>5. QED BY <2>2, <2>4 DEF TableInv
<1>7. CASE ~(nest[r][u] = 1 /\ ReadyWith(u, pend, nest', waitFor))
  <2>1. Ready(u)' <=> Ready(u)
    <3>1. CASE nest[r][u] = 1
      BY <1>5, <1>7, <3>1 DEF Ready, ReadyWith, Requests
    <3>2. CASE nest[r][u] # 1
      <4>1. nest[r][u] \in 0..MaxNest
        BY <1>1, <1>2
      <4>2. nest'[r][u] = 0 <=> nest[r][u] = 0
        BY <1>1, <1>2, <1>3, <3>2, <4>1
      <4>3. \A q \in Requests : q # r => nest'[q][u] = nest[q][u]
        BY <1>1, <1>2, <1>3
      <4>4. QED BY <1>3, <4>2, <4>3 DEF Ready, ReadyWith, Requests
    <3>3. QED BY <3>1, <3>2
  <2>2. ReadyThreads' = ReadyThreads
    BY <1>4, <2>1 DEF ReadyThreads
  <2>3. tab' = s
    BY <1>7 DEF Releases
  <2>4. QED BY <2>2, <2>3 DEF TableInv, Kept, TellsToo
<1>8. QED BY <1>6, <1>7

-----------------------------------------------------------------------------
(* The parts of the invariant under what many steps have in common.        *)

LEMMA CallsDiffer ==
  /\ NoCall # SchedCall
  /\ \A u, d : AffinityCall(u, d) # NoCall /\ AffinityCall(u, d) # SchedCall
  /\ \A d : DownCall(d) # NoCall /\ DownCall(d) # SchedCall
  /\ \A u, d, e : AffinityCall(u, d) # DownCall(e)
  /\ \A u, d, v, e : AffinityCall(u, d) = AffinityCall(v, e) => u = v /\ d = e
  /\ \A d, e : DownCall(d) = DownCall(e) => d = e
<1>1. NoCall.op = "none" /\ SchedCall.op = "Sched"
  BY DEF NoCall, SchedCall
<1>2. \A u, d : /\ AffinityCall(u, d).op = "SetAffinity"
                /\ AffinityCall(u, d).thread = u /\ AffinityCall(u, d).cpu = d
  BY DEF AffinityCall
<1>3. \A d : DownCall(d).op = "CpuDown" /\ DownCall(d).cpu = d
  BY DEF DownCall
<1>4. QED BY <1>1, <1>2, <1>3

LEMMA AfterValuesAre ==
  /\ NoCall \in AfterValues /\ SchedCall \in AfterValues
  /\ \A u \in Users, d \in CPUs \cup {NULL} : AffinityCall(u, d) \in AfterValues
  /\ \A d \in CPUs : DownCall(d) \in AfterValues
  BY DEF AfterValues

\* The thread t goes on to the part x of its call.
LEMMA AfterIs ==
  ASSUME IInv, NEW t \in Threads, NEW x \in AfterValues, after' = [after EXCEPT ![t] = x]
  PROVE  /\ after'[t] = x /\ \A u \in Threads : u # t => after'[u] = after[u]
         /\ AfterOK'
  BY StateTypes DEF AfterOK

LEMMA CallPlaces ==
  ASSUME IInv, NEW c \in CPUs, Enters(c), tab'.active = tab.active
  PROVE  PlacesInv' /\ RunsInvUp'
<1>1. c \in tab.active /\ kernel' = c /\ running' = running /\ isr' = isr /\ booting' = booting
  BY DEF Enters
<1>2. PlacesInv'
  BY <1>1 DEF IInv, PlacesInv
<1>3. ~SMP_EN => tab'.active \subseteq {c}
  <2>1. tab.active \subseteq CPUs
    BY StateTypes, CandIs
  <2>2. QED BY <2>1, CandTableAssumption
<1>4. AboutToSchedule(c)'
  BY <1>1 DEF AboutToSchedule
<1>5. RunsInvUp'
  BY <1>3, <1>4 DEF RunsInvUp
<1>6. QED BY <1>2, <1>5

LEMMA IsrPlaces ==
  ASSUME IInv, NEW c \in CPUs, InterEnter(c), tab'.active = tab.active
  PROVE  PlacesInv' /\ RunsInvUp'
<1>1. /\ c \in tab.active /\ kernel' = kernel /\ running' = running /\ isr' = isr \cup {c}
      /\ booting' = booting
  BY DEF InterEnter
<1>2. PlacesInv'
  BY <1>1 DEF IInv, PlacesInv
<1>3. ~SMP_EN => tab'.active \subseteq {c}
  <2>1. tab.active \subseteq CPUs
    BY StateTypes, CandIs
  <2>2. QED BY <2>1, CandTableAssumption
<1>4. AboutToSchedule(c)'
  BY <1>1 DEF AboutToSchedule
<1>5. RunsInvUp'
  BY <1>3, <1>4 DEF RunsInvUp
<1>6. QED BY <1>2, <1>5

LEMMA DownSame ==
  ASSUME IInv, tab'.active = tab.active, tab'.cpuLock = tab.cpuLock, booting' = booting,
         \A d \in CPUs : "DOWN" \in ipi'[d] <=> "DOWN" \in ipi[d],
         \A u \in Threads, d \in CPUs : after'[u] = DownCall(d) => after[u] = DownCall(d)
  PROVE  DownInv'
  BY DEF IInv, DownInv

LEMMA ListsSame ==
  ASSUME IInv, UNCHANGED << nest, waitFor, request, pending >>
  PROVE  ListsInv'
<1>1. \A u : Askers(u)' = Askers(u)
  BY DEF Askers
<1>2. \A u, r : AskersOf(u, r)' = AskersOf(u, r)
  BY DEF AskersOf
<1>3. QED BY <1>1, <1>2 DEF IInv, ListsInv

\* Who stops u is counted by the stops of u: a call that is left, or that waits for
\* another thread than u, leaves less to count.
LEMMA StopFewer ==
  ASSUME IInv, NEW u \in Threads, Stoppers(u)' \subseteq Stoppers(u)
  PROVE  Cardinality(Stoppers(u)') <= nest["STOP"][u]
<1>1. IsFiniteSet(Stoppers(u))
  BY CandTableAssumption, FS_Subset DEF Stoppers
<1>2. Cardinality(Stoppers(u)') <= Cardinality(Stoppers(u))
  BY <1>1, FS_Subset
<1>3. Cardinality(Stoppers(u)) <= nest["STOP"][u]
  BY DEF IInv, StopInv
<1>4. Cardinality(Stoppers(u)) \in Nat /\ Cardinality(Stoppers(u)') \in Nat
  BY <1>1, FS_Subset, FS_CardinalityType
<1>5. nest["STOP"][u] \in Nat
  BY StateTypes, SchedulerAssumption DEF Requests
<1>6. QED BY <1>2, <1>3, <1>4, <1>5

LEMMA StopSame ==
  ASSUME IInv, nest'["STOP"] = nest["STOP"], waitFor' = waitFor,
         \A t \in Threads : waitFor[t] # NULL => request'[t] = request[t],
         \A t \in Threads, u \in Threads, d \in CPUs \cup {NULL} :
           after'[t] = AffinityCall(u, d) => after[t] = AffinityCall(u, d)
  PROVE  StopInv'
<1>1. ASSUME NEW u \in Threads PROVE Cardinality(Stoppers(u)') <= nest'["STOP"][u]
  <2>1. Stoppers(u)' \subseteq Stoppers(u)
    BY DEF Stoppers
  <2>2. QED BY <2>1, StopFewer
<1>2. Users \subseteq Threads
  BY DEF Users
<1>3. QED BY <1>1, <1>2 DEF IInv, StopInv

LEMMA AskedSame ==
  ASSUME IInv, UNCHANGED << running, pending, lock >>, tab'.active = tab.active,
         \A d \in tab.active : AboutToSchedule(d) => AboutToSchedule(d)',
         \A d \in tab.active : d \in irq => d \in irq' \/ AboutToSchedule(d)'
  PROVE  AskedInv'
  BY DEF IInv, AskedInv

\* A call on c: nobody was in the kernel, and c leaves it by scheduling.
LEMMA CallAbout ==
  ASSUME IInv, NEW c \in CPUs, Enters(c), \A u \in Threads : u # running[c] => after'[u] = after[u]
  PROVE  /\ \A d \in tab.active : AboutToSchedule(d) => AboutToSchedule(d)'
         /\ \A d, e \in tab.active : running[d] = running[e] => d = e
         /\ \A d \in tab.active : running[d] \in Threads
<1>1. c \in tab.active /\ kernel = NULL /\ kernel' = c /\ running' = running /\ isr' = isr
  BY DEF Enters
<1>2. tab.active \subseteq CPUs /\ running \in [CPUs -> Threads \cup {NULL}]
  BY StateTypes, CandIs
<1>3. \A d \in tab.active : running[d] # NULL /\ d # NULL
  BY <1>2, CandTableAssumption DEF IInv, PlacesInv
<1>4. ASSUME NEW d \in tab.active, AboutToSchedule(d), running[d] # running[c]
      PROVE  AboutToSchedule(d)'
  BY <1>1, <1>2, <1>3, <1>4 DEF AboutToSchedule
<1>5. ASSUME NEW d \in tab.active, NEW e \in tab.active, running[d] = running[e]
      PROVE  d = e
  <2>1. SMP_EN => running[d] = tab.cand[d] /\ running[e] = tab.cand[e]
    BY <1>1, CallerIs
  <2>2. CASE SMP_EN
    BY <1>1, <1>5, <2>1, <2>2, StateTypes, CandIs
  <2>3. CASE ~SMP_EN
    BY <1>2, <2>3, CandTableAssumption
  <2>4. QED BY <2>2, <2>3
<1>6. AboutToSchedule(c)'
  BY <1>1 DEF AboutToSchedule
<1>7. \A d \in tab.active : AboutToSchedule(d) => AboutToSchedule(d)'
  BY <1>1, <1>4, <1>5, <1>6
<1>8. QED BY <1>2, <1>3, <1>5, <1>7

LEMMA CallAsked ==
  ASSUME IInv, NEW c \in CPUs, Enters(c), UNCHANGED << pending, lock, irq >>,
         tab'.active = tab.active,
         \A u \in Threads : u # running[c] => after'[u] = after[u]
  PROVE  AskedInv'
<1>1. running' = running
  BY DEF Enters
<1>2. \A d \in tab.active : AboutToSchedule(d) => AboutToSchedule(d)'
  BY CallAbout
<1>3. QED BY <1>1, <1>2, AskedSame

\* An interrupt on c.
LEMMA IsrAsked ==
  ASSUME IInv, NEW c \in CPUs, InterEnter(c), UNCHANGED pending, irq \ {c} \subseteq irq',
         tab'.active = tab.active
  PROVE  AskedInv'
<1>1. kernel' = kernel /\ running' = running /\ isr' = isr \cup {c} /\ lock' = lock /\ after' = after
  BY DEF InterEnter
<1>2. \A d \in tab.active : AboutToSchedule(d) => AboutToSchedule(d)'
  BY <1>1 DEF AboutToSchedule
<1>3. AboutToSchedule(c)'
  BY <1>1 DEF AboutToSchedule
<1>4. QED BY <1>1, <1>2, <1>3, AskedSame

\* The candidates of the others stay, and so does that of c unless its thread leaves.
LEMMA CallRuns ==
  ASSUME IInv, NEW c \in CPUs, Enters(c), NEW D, Kept(tab, tab', D),
         SMP_EN => \/ D = {}
                   \/ /\ D \subseteq {c} /\ running[c] \notin tab'.isCand
                      /\ lock'[running[c]] = 0 \/ waitFor'[running[c]] # NULL
  PROVE  RunsInv'
<1>1. kernel' = c /\ running' = running /\ kernel = NULL /\ tab'.active = tab.active
  BY DEF Enters, Kept
<1>2. SMP_EN => \A d \in tab.active : running[d] = tab.cand[d]
  BY CallerIs
<1>3. tab.active \subseteq CPUs
  BY StateTypes, CandIs
<1>4. QED BY <1>1, <1>2, <1>3 DEF RunsInv, Kept

LEMMA IsrRuns ==
  ASSUME IInv, NEW c \in CPUs, InterEnter(c), Kept(tab, tab', AddCands), waitFor' = waitFor,
         SMP_EN => tab'.isCand = tab.isCand
  PROVE  RunsInv'
<1>1. kernel' = kernel /\ running' = running /\ lock' = lock /\ tab'.active = tab.active
  BY DEF InterEnter, Kept
<1>2. tab.active \subseteq CPUs
  BY StateTypes, CandIs
<1>3. SMP_EN => \A d \in tab.active : tab'.cand[d] = tab.cand[d]
  BY <1>2 DEF Kept, AddCands
<1>4. QED BY <1>1, <1>3 DEF IInv, RunsInv

\* The interrupt requests of other processors.
LEMMA SendSchedIs ==
  ASSUME IInv, NEW to, ipi' = SendSched(ipi, to)
  PROVE  /\ ipi' \in [CPUs -> SUBSET {"SCHED", "STATUS_REQ", "DOWN"}]
         /\ \A d \in CPUs : "DOWN" \in ipi'[d] <=> "DOWN" \in ipi[d]
  BY StateTypes DEF SendSched

-----------------------------------------------------------------------------
(* Every step keeps the invariant: the calls of threads.                   *)

\* A call that changes no more than the table and the threads that wait for events.
LEMMA QuietCall ==
  ASSUME IInv, NEW c \in CPUs, Enters(c), TableInv', NEW D, Kept(tab, tab', D),
         SMP_EN => \/ D = {}
                   \/ /\ D \subseteq {c} /\ running[c] \notin tab'.isCand
                      /\ lock'[running[c]] = 0 \/ waitFor'[running[c]] # NULL,
         pend' \subseteq Threads,
         UNCHANGED << ipi, irq, nest, waitFor, request, pending, lock >>,
         after' = after \/ after' = [after EXCEPT ![running[c]] = NoCall]
  PROVE  IInv'
<1>1. tab'.active = tab.active /\ tab'.cpuLock = tab.cpuLock /\ running[c] \in Threads
  BY CallerIs DEF Kept
<1>2. /\ kernel' = c /\ UNCHANGED << running, isr, booting >>
  BY DEF Enters
<1>3. \A u \in Threads : after'[u] = after[u] \/ (u = running[c] /\ after'[u] = NoCall)
  BY <1>1, AfterIs, AfterValuesAre
<1>4. AfterOK'
  <2>1. after' = after => AfterOK'
    BY StateTypes DEF AfterOK
  <2>2. QED BY <1>1, <2>1, AfterIs, AfterValuesAre
<1>5. TypeInv'
  <2>1. TableType(tab)'
    BY DEF TableInv, Sound, TableExact
  <2>2. QED BY <1>2, <1>4, <2>1, StateTypes DEF TypeInv, TypeOK
<1>6. PlacesInv' /\ RunsInvUp'
  BY <1>1, CallPlaces
<1>7. DownInv'
  <2>1. \A u \in Threads, d \in CPUs : after'[u] = DownCall(d) => after[u] = DownCall(d)
    BY <1>3, CallsDiffer
  <2>2. QED BY <1>1, <1>2, <2>1, DownSame
<1>8. ListsInv'
  BY ListsSame
<1>9. RunsInv'
  BY CallRuns
<1>10. StopInv'
  <2>1. \A t \in Threads, u \in Threads, d \in CPUs \cup {NULL} :
          after'[t] = AffinityCall(u, d) => after[t] = AffinityCall(u, d)
    BY <1>3, CallsDiffer
  <2>2. QED BY <2>1, StopSame
<1>11. AskedInv'
  BY <1>1, <1>3, CallAsked
<1>12. QED BY <1>5, <1>6, <1>7, <1>8, <1>9, <1>10, <1>11 DEF IInv

\* The table after a call that dresses it.
LEMMA DressedTable ==
  ASSUME IInv, Dressed(tab, tab'), UNCHANGED << pend, nest, waitFor >>
  PROVE  TableInv' /\ Kept(tab, tab', {}) /\ tab'.isCand = tab.isCand
<1>1. Sound(tab, ReadyThreads)
  BY StateTypes
<1>2. Sound(tab', ReadyThreads)
  BY <1>1, DressedSound
<1>3. QED BY <1>2, SameReady DEF TableInv, Kept, Dressed

LEMMA PendKeeps ==
  ASSUME IInv, NEW c \in CPUs, Pend(c)
  PROVE  IInv'
<1> DEFINE t == running[c]
           D == IF t \in tab.isCand THEN {tab.cpuId[t]} ELSE {}
<1>1. /\ Enters(c) /\ lock[t] = 0 /\ pend' = pend \cup {t} /\ tab' = DelFromReadyRing(tab, t)
      /\ UNCHANGED << ipi, irq, nest, waitFor, request, pending, lock, after >>
  BY DEF Pend, CallingToBlock, Calling
<1>2. t \in Users /\ t \in Threads /\ (SMP_EN => tab.cpuId[t] = c)
  BY <1>1, CallerIs
<1>3. TableInv' /\ t \notin ReadyThreads' /\ Kept(tab, tab', D)
  BY <1>1, <1>2, PendTable
<1>4. t \notin tab'.isCand
  BY <1>3 DEF TableInv, Sound, TableExact
<1>5. pend' \subseteq Threads
  BY <1>1, <1>2, StateTypes
<1>6. SMP_EN => D \subseteq {c}
  BY <1>2
<1> HIDE DEF D
<1>7. QED BY <1>1, <1>3, <1>4, <1>5, <1>6, QuietCall

LEMMA PostKeeps ==
  ASSUME IInv, NEW c \in CPUs, NEW u \in Users, Post(c, u)
  PROVE  IInv'
<1>1. Enters(c) /\ Wakes(u, TRUE, Locked(c)) /\ UNCHANGED << ipi, irq, lock, after >>
  BY DEF Post, Calling
<1>2. PICK front \in BOOLEAN : front = TRUE
  OBVIOUS
<1>3. PICK locked : locked = Locked(c)
  OBVIOUS
<1>4. Wakes(u, front, locked)
  BY <1>1, <1>2, <1>3
<1>5. TableInv' /\ Kept(tab, tab', AddCands)
  BY <1>4, WakesTable
<1>6. pend' \subseteq Threads /\ UNCHANGED << nest, waitFor, request, pending >>
  BY <1>1, StateTypes DEF Wakes
<1>7. SMP_EN => AddCands = {}
  BY DEF AddCands
<1>8. QED BY <1>1, <1>5, <1>6, <1>7, QuietCall

LEMMA SetPriorityKeeps ==
  ASSUME IInv, NEW c \in CPUs, NEW u \in Users, NEW p \in Priorities, ThreadSetPriority(c, u, p)
  PROVE  IInv'
<1>1. /\ Enters(c) /\ tab' = SchedSetPrio(tab, u, p, Ready(u), Locked(c))
      /\ UNCHANGED << ipi, irq, svars, lock, after >>
  BY DEF ThreadSetPriority, Calling
<1>2. Sound(tab, ReadyThreads) /\ u \in Threads \ Idle
  BY StateTypes DEF Users
<1>3. SchedSetPrio(tab, u, p, Ready(u), Locked(c))
        = SchedSetPrio(tab, u, p, u \in ReadyThreads, Locked(c))
  <2>1. Ready(u) <=> u \in ReadyThreads
    BY <1>2 DEF ReadyThreads
  <2>2. QED BY <2>1 DEF SchedSetPrio
<1>4. Sound(tab', ReadyThreads) /\ Kept(tab, tab', AddCands)
  BY <1>1, <1>2, <1>3, SetPrioIs
<1>5. TableInv'
  BY <1>1, <1>4, SameReady DEF TableInv, svars
<1>6. pend' \subseteq Threads /\ UNCHANGED << nest, waitFor, request, pending >>
  BY <1>1, StateTypes DEF svars
<1>7. SMP_EN => AddCands = {}
  BY DEF AddCands
<1>8. QED BY <1>1, <1>4, <1>5, <1>6, <1>7, QuietCall

LEMMA YieldKeeps ==
  ASSUME IInv, NEW c \in CPUs, NEW u \in Users, ThreadYield(c, u)
  PROVE  IInv'
<1>1. /\ Enters(c) /\ tab' = SchedYield(tab, c, u)
      /\ UNCHANGED << ipi, irq, svars, lock, after >>
  BY DEF ThreadYield, Calling
<1>2. TableType(tab) /\ u \in Threads
  BY StateTypes DEF Users
<1>3. Dressed(tab, tab')
  BY <1>1, <1>2, YieldIs
<1>4. pend' \subseteq Threads /\ UNCHANGED << pend, nest, waitFor, request, pending >>
  BY <1>1, StateTypes DEF svars
<1>5. TableInv' /\ Kept(tab, tab', {})
  BY <1>3, <1>4, DressedTable
<1>6. QED BY <1>1, <1>4, <1>5, QuietCall

LEMMA SchedKeeps ==
  ASSUME IInv, NEW c \in CPUs, ThreadSched(c)
  PROVE  IInv'
<1>1. /\ Enters(c) /\ after' = [after EXCEPT ![running[c]] = NoCall]
      /\ tab' = tab /\ UNCHANGED << ipi, irq, svars, lock >>
  BY DEF ThreadSched
<1>2. pend' \subseteq Threads /\ UNCHANGED << pend, nest, waitFor, request, pending >>
  BY <1>1, StateTypes DEF svars
<1>3. TableInv' /\ Kept(tab, tab', {})
  BY <1>1, <1>2, SameReady, StateTypes DEF TableInv, Kept
<1>4. QED BY <1>1, <1>2, <1>3, QuietCall

\* _ThreadStatusChange: what MaxNest leaves room for.
LEMMA RoomIs ==
  ASSUME IInv, NEW u \in Users, NEW r \in Requests, Room(u, r)
  PROVE  /\ nest[r][u] \in Nat /\ nest[r][u] + 1 <= MaxNest /\ MaxNest \in Nat
         /\ IsFiniteSet(AskersOf(u, r))
         /\ nest[r][u] + Cardinality(AskersOf(u, r)) + 1 <= MaxNest
<1>1. u \in Threads
  BY DEF Users
<1>2. pending[u] \in Seq(Threads) /\ nest[r][u] \in 0..MaxNest /\ MaxNest \in Nat
  BY <1>1, StateTypes, SchedulerAssumption
<1>3. IsInjective(pending[u]) /\ Range(pending[u]) = Askers(u)
  BY <1>1 DEF IInv, ListsInv
<1>4. IsFiniteSet(Askers(u)) /\ Cardinality(Askers(u)) = Len(pending[u])
  BY <1>2, <1>3, ListSize
<1>5. AskersOf(u, r) \subseteq Askers(u)
  BY DEF Askers, AskersOf
<1>6. IsFiniteSet(AskersOf(u, r)) /\ Cardinality(AskersOf(u, r)) <= Len(pending[u])
  BY <1>4, <1>5, FS_Subset
<1>7. Cardinality(AskersOf(u, r)) \in Nat /\ Len(pending[u]) \in Nat
  BY <1>2, <1>6, FS_CardinalityType
<1>8. nest[r][u] + Len(pending[u]) < MaxNest
  BY DEF Room
<1>9. QED BY <1>2, <1>6, <1>7, <1>8

LEMMA ChangeLists ==
  ASSUME IInv, NEW c \in CPUs, NEW u \in Users, NEW r \in Requests, Room(u, r),
         running[c] \in Threads, waitFor[running[c]] = NULL, ChangeAtOnce(c, u, r)
  PROVE  /\ ListsInv'
         /\ nest' \in [Requests -> [Threads -> 0..MaxNest]]
         /\ request' \in [Threads -> Requests \cup {NULL}]
<1> DEFINE t == running[c]
<1>1. /\ nest' = [nest EXCEPT ![r][u] = @ + 1] /\ request' = [request EXCEPT ![t] = NULL]
      /\ waitFor' = waitFor /\ pending' = pending
  BY DEF ChangeAtOnce
<1>2. /\ nest \in [Requests -> [Threads -> 0..MaxNest]] /\ request \in [Threads -> Requests \cup {NULL}]
      /\ u \in Threads /\ t \in Threads /\ waitFor[t] = NULL
  BY StateTypes DEF Users
<1> HIDE DEF t
<1>3. nest[r][u] \in Nat /\ MaxNest \in Nat /\ nest[r][u] + 1 <= MaxNest
      /\ nest[r][u] + Cardinality(AskersOf(u, r)) + 1 <= MaxNest /\ IsFiniteSet(AskersOf(u, r))
  BY RoomIs
<1>4. nest' \in [Requests -> [Threads -> 0..MaxNest]] /\ request' \in [Threads -> Requests \cup {NULL}]
  BY <1>1, <1>2, <1>3
<1>5. \A v : Askers(v)' = Askers(v)
  BY <1>1 DEF Askers
<1>6. \A v \in Threads : \A q : AskersOf(v, q)' = AskersOf(v, q)
  BY <1>1, <1>2, CandTableAssumption DEF AskersOf
<1>7. \A v \in Threads, q \in Requests : nest'[q][v] + Cardinality(AskersOf(v, q)') <= MaxNest
  <2>1. TAKE v \in Threads, q \in Requests
  <2>2. nest[q][v] + Cardinality(AskersOf(v, q)) <= MaxNest
    BY DEF IInv, ListsInv
  <2>3. CASE v = u /\ q = r
    <3>1. nest'[q][v] = nest[r][u] + 1
      BY <1>1, <1>2, <2>3
    <3>2. Cardinality(AskersOf(u, r)) \in Nat
      BY <1>3, FS_CardinalityType
    <3>3. QED BY <1>3, <1>6, <2>3, <3>1, <3>2
  <2>4. CASE ~(v = u /\ q = r)
    <3>1. nest'[q][v] = nest[q][v]
      BY <1>1, <1>2, <2>4
    <3>2. QED BY <1>6, <2>2, <3>1
  <2>5. QED BY <2>3, <2>4
<1>8. \A v \in Threads : waitFor'[v] # NULL => request'[v] = request[v]
  BY <1>1, <1>2
<1>9. ListsInv'
  BY <1>1, <1>5, <1>7, <1>8 DEF IInv, ListsInv
<1>10. QED BY <1>4, <1>9

LEMMA AskLists ==
  ASSUME IInv, SMP_EN, NEW c \in CPUs, NEW u \in Users, NEW r \in Requests, Room(u, r),
         running[c] \in Users \ {u}, waitFor[running[c]] = NULL, AskForChange(c, u, r)
  PROVE  /\ ListsInv'
         /\ waitFor' \in [Threads -> Threads \cup {NULL}]
         /\ request' \in [Threads -> Requests \cup {NULL}]
         /\ pending' \in [Threads -> Seq(Threads)]
<1> DEFINE t == running[c]
           l == Cons(t, pending[u])
<1>1. /\ waitFor' = [waitFor EXCEPT ![t] = u] /\ request' = [request EXCEPT ![t] = r]
      /\ pending' = [pending EXCEPT ![u] = l] /\ nest' = nest
  BY DEF AskForChange, Cons
<1>2. /\ waitFor \in [Threads -> Threads \cup {NULL}] /\ request \in [Threads -> Requests \cup {NULL}]
      /\ pending \in [Threads -> Seq(Threads)]
      /\ t \in Threads /\ t \in Users /\ waitFor[t] = NULL /\ u \in Threads /\ u # t /\ u # NULL
  BY StateTypes, CandTableAssumption DEF Users
<1> HIDE DEF t
<1>3. IsInjective(pending[u]) /\ Range(pending[u]) = Askers(u) /\ pending[u] \in Seq(Threads)
  BY <1>2 DEF IInv, ListsInv
<1>4. \A v : v \in Range(pending[u]) <=> Contains(pending[u], v)
  BY <1>3 DEF Range, Contains
<1>5. ~Contains(pending[u], t)
  BY <1>2, <1>3, <1>4 DEF Askers
<1>6. l \in Seq(Threads) /\ IsInjective(l) /\ \A v : Contains(l, v) <=> Contains(pending[u], v) \/ v = t
  <2>1. l \in Seq(Threads)
    BY <1>2, <1>3 DEF Cons
  <2>2. QED BY <1>2, <1>3, <1>5, <2>1, ConsMembers
<1> HIDE DEF l
<1>7. Range(l) = Askers(u) \cup {t}
  <2>1. \A v : v \in Range(l) <=> Contains(l, v)
    BY <1>6 DEF Range, Contains
  <2>2. QED BY <1>3, <1>4, <1>6, <2>1
<1>8. Askers(u)' = Askers(u) \cup {t} /\ \A v \in Threads \ {u} : Askers(v)' = Askers(v)
  BY <1>1, <1>2, CandTableAssumption DEF Askers
<1>9. \A v \in Threads : IsInjective(pending'[v]) /\ Range(pending'[v]) = Askers(v)'
  <2>1. TAKE v \in Threads
  <2>2. CASE v = u
    BY <1>1, <1>2, <1>6, <1>7, <1>8, <2>2
  <2>3. CASE v # u
    <3>1. pending'[v] = pending[v]
      BY <1>1, <1>2, <2>3
    <3>2. QED BY <1>8, <2>3, <3>1 DEF IInv, ListsInv
  <2>4. QED BY <2>2, <2>3
<1>10. \A v \in Threads : waitFor'[v] # NULL =>
         v \in Users /\ waitFor'[v] \in Users \ {v} /\ request'[v] \in Requests
  BY <1>1, <1>2 DEF IInv, ListsInv
<1>11. AskersOf(u, r)' = AskersOf(u, r) \cup {t}
  BY <1>1, <1>2 DEF AskersOf
<1>12. \A v \in Threads, q \in Requests : v # u \/ q # r => AskersOf(v, q)' = AskersOf(v, q)
  BY <1>1, <1>2, CandTableAssumption DEF AskersOf
<1>13. \A v \in Threads, q \in Requests : nest'[q][v] + Cardinality(AskersOf(v, q)') <= MaxNest
  <2>1. TAKE v \in Threads, q \in Requests
  <2>2. CASE v = u /\ q = r
    <3>1. /\ nest[r][u] \in Nat /\ IsFiniteSet(AskersOf(u, r))
          /\ nest[r][u] + Cardinality(AskersOf(u, r)) + 1 <= MaxNest
      BY RoomIs
    <3>2. t \notin AskersOf(u, r) /\ Cardinality(AskersOf(u, r)) \in Nat
      BY <1>2, <3>1, FS_CardinalityType DEF AskersOf
    <3>3. Cardinality(AskersOf(u, r) \cup {t}) = Cardinality(AskersOf(u, r)) + 1
      BY <3>1, <3>2, FS_AddElement
    <3>4. AskersOf(v, q)' = AskersOf(u, r) \cup {t} /\ nest'[q][v] = nest[r][u]
      BY <1>1, <1>11, <2>2
    <3>5. nest[r][u] + Cardinality(AskersOf(u, r) \cup {t}) <= MaxNest
      BY <3>1, <3>2, <3>3
    <3>6. QED BY <3>4, <3>5
  <2>3. CASE v # u \/ q # r
    BY <1>1, <1>12, <2>3 DEF IInv, ListsInv
  <2>4. QED BY <2>2, <2>3
<1>14. ListsInv'
  BY <1>9, <1>10, <1>13 DEF ListsInv
<1>15. QED BY <1>1, <1>2, <1>6, <1>14

\* What the caller goes on to after the state of u has changed: nothing, or the rest
\* of the call that has stopped u.
GoesOn(c, u, r) ==
  \/ after' = after /\ r = "SUSPEND"
  \/ r = "STOP" /\ \E d \in CPUs \cup {NULL} :
                     after' = [after EXCEPT ![running[c]] = AffinityCall(u, d)]

LEMMA GoesOnIs ==
  ASSUME IInv, NEW c \in CPUs, Calling(c), NEW u \in Users, NEW r \in Requests, GoesOn(c, u, r)
  PROVE  /\ AfterOK' /\ \A v \in Threads : v # running[c] => after'[v] = after[v]
         /\ \A v \in Threads, d \in CPUs : after'[v] = DownCall(d) => after[v] = DownCall(d)
         /\ \A v \in Threads, x \in Threads, d \in CPUs \cup {NULL} :
              after'[v] = AffinityCall(x, d) =>
                after[v] = AffinityCall(x, d) \/ (v = running[c] /\ x = u /\ r = "STOP")
<1>1. running[c] \in Threads /\ after[running[c]] = NoCall
  BY CallerIs DEF Calling
<1>2. CASE after' = after
  BY <1>2, StateTypes DEF AfterOK
<1>3. CASE r = "STOP" /\ \E d \in CPUs \cup {NULL} :
                           after' = [after EXCEPT ![running[c]] = AffinityCall(u, d)]
  <2>1. PICK d \in CPUs \cup {NULL} : after' = [after EXCEPT ![running[c]] = AffinityCall(u, d)]
    BY <1>3
  <2>2. AffinityCall(u, d) \in AfterValues
    BY AfterValuesAre
  <2>3. /\ AfterOK' /\ after'[running[c]] = AffinityCall(u, d)
        /\ \A v \in Threads : v # running[c] => after'[v] = after[v]
    BY <1>1, <2>1, <2>2, AfterIs
  <2>4. QED BY <1>3, <2>3, CallsDiffer
<1>4. QED BY <1>2, <1>3 DEF GoesOn

\* On several processors the state of a candidate is changed by its own processor.
LEMMA ElsewhereIs ==
  ASSUME IInv, NEW c \in CPUs, Enters(c), SMP_EN, NEW u \in Users \ {running[c]},
         ~RunsElsewhere(c, u)
  PROVE  u \notin tab.isCand
<1>1. SUFFICES ASSUME u \in tab.isCand PROVE FALSE
  OBVIOUS
<1>2. tab.cpuId[u] \in tab.active /\ tab.cand[tab.cpuId[u]] = u /\ u \in ReadyThreads
  BY <1>1, StateTypes, CandIs
<1>3. running[tab.cpuId[u]] = u
  BY <1>2, CallerIs
<1>4. QED BY <1>2, <1>3 DEF RunsElsewhere, Running, ReadyThreads

LEMMA ChangeKeeps ==
  ASSUME IInv, NEW c \in CPUs, Calling(c), NEW u \in Users, NEW r \in Requests, Room(u, r),
         u = running[c] => lock[u] = 0, SMP_EN /\ u # running[c] => u \notin tab.isCand,
         ChangeAtOnce(c, u, r), UNCHANGED << ipi, irq, lock >>, GoesOn(c, u, r)
  PROVE  IInv'
<1> DEFINE t == running[c]
           D == IF u \in tab.isCand THEN {tab.cpuId[u]} ELSE {}
<1>1. Enters(c) /\ UNCHANGED << running, isr, booting >> /\ kernel' = c
  BY DEF Calling, Enters
<1>2. /\ t \in Users /\ t \in Threads /\ waitFor[t] = NULL
      /\ SMP_EN => tab.cpuId[t] = c
  BY <1>1, CallerIs
<1>3. TableInv' /\ u \notin ReadyThreads' /\ Kept(tab, tab', D)
  BY ChangeTable
<1>4. tab'.active = tab.active /\ tab'.cpuLock = tab.cpuLock /\ TableType(tab)'
      /\ u \notin tab'.isCand
  BY <1>3 DEF Kept, TableInv, Sound, TableExact
<1>5. /\ pend' = pend /\ waitFor' = waitFor /\ pending' = pending
      /\ nest' = [nest EXCEPT ![r][u] = @ + 1] /\ request' = [request EXCEPT ![t] = NULL]
  BY DEF ChangeAtOnce
<1>6. /\ ListsInv' /\ nest' \in [Requests -> [Threads -> 0..MaxNest]]
      /\ request' \in [Threads -> Requests \cup {NULL}]
  BY <1>2, ChangeLists
<1>7. /\ AfterOK' /\ \A v \in Threads : v # t => after'[v] = after[v]
      /\ \A v \in Threads, d \in CPUs : after'[v] = DownCall(d) => after[v] = DownCall(d)
      /\ \A v \in Threads, x \in Threads, d \in CPUs \cup {NULL} :
           after'[v] = AffinityCall(x, d) =>
             after[v] = AffinityCall(x, d) \/ (v = t /\ x = u /\ r = "STOP")
  BY GoesOnIs
<1>8. TypeInv'
  BY <1>1, <1>4, <1>5, <1>6, <1>7, StateTypes DEF TypeInv, TypeOK
<1>9. PlacesInv' /\ RunsInvUp'
  BY <1>1, <1>4, CallPlaces
<1>10. DownInv'
  BY <1>1, <1>4, <1>7, DownSame
<1>11. RunsInv'
  <2>1. SMP_EN => \/ D = {}
                  \/ /\ D \subseteq {c} /\ t \notin tab'.isCand
                     /\ lock'[t] = 0 \/ waitFor'[t] # NULL
    BY <1>2, <1>4
  <2> HIDE DEF D, t
  <2>2. QED BY <1>1, <1>3, <2>1, CallRuns DEF t
<1>12. AskedInv'
  BY <1>1, <1>4, <1>5, <1>7, CallAsked
<1>13. \A v \in Threads : waitFor[v] # NULL => request'[v] = request[v]
  BY <1>2, <1>5, StateTypes
<1> HIDE DEF D, t
<1>14. StopInv'
  <2>1. u \in Threads /\ nest \in [Requests -> [Threads -> 0..MaxNest]]
    BY StateTypes DEF Users
  <2>2. CASE r = "SUSPEND"
    <3>1. nest'["STOP"] = nest["STOP"]
      BY <1>5, <2>1, <2>2 DEF Requests
    <3>2. QED BY <1>5, <1>7, <1>13, <2>2, <3>1, StopSame
  <2>3. CASE r = "STOP"
    <3>1. nest'["STOP"][u] = nest["STOP"][u] + 1 /\ nest["STOP"][u] \in Nat
          /\ \A v \in Threads \ {u} : nest'["STOP"][v] = nest["STOP"][v]
      BY <1>5, <2>1, <2>3, SchedulerAssumption DEF Requests
    <3>2. ASSUME NEW v \in Threads PROVE Cardinality(Stoppers(v)') <= nest'["STOP"][v]
      <4>1. CASE v # u
        <5>1. Stoppers(v)' \subseteq Stoppers(v)
          BY <1>5, <1>7, <4>1 DEF Stoppers
        <5>2. QED BY <3>1, <4>1, <5>1, StopFewer
      <4>2. CASE v = u
        <5>1. Stoppers(u)' \subseteq Stoppers(u) \cup {t}
          BY <1>5, <1>7, <2>1 DEF Stoppers
        <5>2. IsFiniteSet(Stoppers(u))
          BY CandTableAssumption, FS_Subset DEF Stoppers
        <5>3. /\ IsFiniteSet(Stoppers(u) \cup {t})
              /\ Cardinality(Stoppers(u) \cup {t}) <= Cardinality(Stoppers(u)) + 1
              /\ Cardinality(Stoppers(u)) \in Nat
          <6>1. /\ IsFiniteSet(Stoppers(u) \cup {t})
                /\ Cardinality(Stoppers(u) \cup {t})
                     = IF t \in Stoppers(u) THEN Cardinality(Stoppers(u)) ELSE Cardinality(Stoppers(u)) + 1
            BY <5>2, FS_AddElement
          <6>2. Cardinality(Stoppers(u)) \in Nat
            BY <5>2, FS_CardinalityType
          <6>3. QED BY <6>1, <6>2
        <5>4. /\ Cardinality(Stoppers(u)') <= Cardinality(Stoppers(u) \cup {t})
              /\ Cardinality(Stoppers(u)') \in Nat /\ Cardinality(Stoppers(u) \cup {t}) \in Nat
          BY <5>1, <5>3, FS_Subset, FS_CardinalityType
        <5>5. Cardinality(Stoppers(u)) <= nest["STOP"][u]
          BY <2>1 DEF IInv, StopInv
        <5>6. QED BY <3>1, <4>2, <5>3, <5>4, <5>5
      <4>3. QED BY <4>1, <4>2
    <3>3. ASSUME NEW v \in Threads, NEW x \in Users, NEW d \in CPUs \cup {NULL},
                 after'[v] = AffinityCall(x, d), waitFor'[v] # NULL
          PROVE  waitFor'[v] = x /\ request'[v] = "STOP"
      <4>1. v # t /\ request'[v] = request[v] /\ waitFor'[v] = waitFor[v]
        BY <1>2, <1>5, <1>13, <3>3
      <4>2. after[v] = AffinityCall(x, d)
        BY <1>7, <3>3, <4>1
      <4>3. QED BY <3>3, <4>1, <4>2 DEF IInv, StopInv
    <3>4. QED BY <3>2, <3>3 DEF StopInv
  <2>4. QED BY <2>2, <2>3 DEF Requests
<1>15. QED BY <1>3, <1>6, <1>8, <1>9, <1>10, <1>11, <1>12, <1>14 DEF IInv

LEMMA AskKeeps ==
  ASSUME IInv, NEW c \in CPUs, Calling(c), NEW u \in Users, NEW r \in Requests, Room(u, r),
         RunsElsewhere(c, u), AskForChange(c, u, r), lock' = lock, GoesOn(c, u, r)
  PROVE  IInv'
<1> DEFINE t == running[c]
           d == tab.cpuId[u]
           D == IF t \in tab.isCand THEN {tab.cpuId[t]} ELSE {}
<1>1. Enters(c) /\ UNCHANGED << running, isr, booting >> /\ kernel' = c
  BY DEF Calling, Enters
<1>2. /\ SMP_EN /\ u # t /\ running[d] = u
      /\ u \in Threads /\ d \in CPUs /\ u # NULL
  BY StateTypes, TableFields, CandTableAssumption DEF RunsElsewhere, Running, Users
<1>3. /\ t \in Users /\ t \in Threads /\ waitFor[t] = NULL /\ tab.cpuId[t] = c
  BY <1>1, <1>2, CallerIs
<1>4. d \in tab.active
  BY <1>2 DEF IInv, PlacesInv
<1>5. TableInv' /\ t \notin ReadyThreads' /\ Kept(tab, tab', D)
  BY <1>3, AskTable
<1>6. tab'.active = tab.active /\ tab'.cpuLock = tab.cpuLock /\ TableType(tab)'
      /\ t \notin tab'.isCand
  BY <1>5 DEF Kept, TableInv, Sound, TableExact
<1>7. /\ pend' = pend /\ nest' = nest
      /\ ipi' = [ipi EXCEPT ![d] = @ \cup {"STATUS_REQ"}] /\ irq' = irq \cup {d}
      /\ waitFor' = [waitFor EXCEPT ![t] = u] /\ request' = [request EXCEPT ![t] = r]
      /\ pending' = [pending EXCEPT ![u] = << t >> \o @]
  BY DEF AskForChange
<1>8. /\ ListsInv'
      /\ waitFor' \in [Threads -> Threads \cup {NULL}]
      /\ request' \in [Threads -> Requests \cup {NULL}]
      /\ pending' \in [Threads -> Seq(Threads)]
  BY <1>2, <1>3, AskLists
<1>9. /\ AfterOK' /\ \A v \in Threads : v # t => after'[v] = after[v]
      /\ \A v \in Threads, e \in CPUs : after'[v] = DownCall(e) => after[v] = DownCall(e)
      /\ \A v \in Threads, x \in Threads, e \in CPUs \cup {NULL} :
           after'[v] = AffinityCall(x, e) =>
             after[v] = AffinityCall(x, e) \/ (v = t /\ x = u /\ r = "STOP")
  BY GoesOnIs
<1>10. /\ ipi' \in [CPUs -> SUBSET {"SCHED", "STATUS_REQ", "DOWN"}] /\ irq' \subseteq CPUs
       /\ \A e \in CPUs : "DOWN" \in ipi'[e] <=> "DOWN" \in ipi[e]
  BY <1>2, <1>7, StateTypes
<1>11. TypeInv'
  BY <1>1, <1>6, <1>7, <1>8, <1>9, <1>10, StateTypes DEF TypeInv, TypeOK
<1>12. PlacesInv' /\ RunsInvUp'
  BY <1>1, <1>6, CallPlaces
<1>13. DownInv'
  BY <1>1, <1>6, <1>9, <1>10, DownSame
<1>14. waitFor'[t] = u /\ request'[t] = r
       /\ \A v \in Threads : v # t => waitFor'[v] = waitFor[v] /\ request'[v] = request[v]
  BY <1>3, <1>7, StateTypes
<1>15. RunsInv'
  <2>1. \/ D = {}
        \/ /\ D \subseteq {c} /\ t \notin tab'.isCand
           /\ lock'[t] = 0 \/ waitFor'[t] # NULL
    BY <1>2, <1>3, <1>6, <1>14
  <2> HIDE DEF D, t
  <2>2. QED BY <1>1, <1>5, <2>1, CallRuns DEF t
<1>16. after[t] = NoCall
  BY DEF Calling
<1> HIDE DEF D, t, d
<1>17. StopInv'
  <2>1. ASSUME NEW v \in Threads PROVE Cardinality(Stoppers(v)') <= nest'["STOP"][v]
    <3>1. ASSUME NEW x \in Stoppers(v)' PROVE x \in Stoppers(v)
      <4>1. x \in Threads /\ waitFor'[x] # v /\ \E e \in CPUs \cup {NULL} : after'[x] = AffinityCall(v, e)
        BY <3>1 DEF Stoppers
      <4>2. PICK e \in CPUs \cup {NULL} : after'[x] = AffinityCall(v, e)
        BY <4>1
      <4>3. x # t
        BY <1>9, <1>14, <1>16, <4>1, <4>2, CallsDiffer
      <4>4. waitFor'[x] = waitFor[x] /\ after'[x] = after[x]
        BY <1>9, <1>14, <4>1, <4>3
      <4>5. QED BY <4>1, <4>2, <4>4 DEF Stoppers
    <3>2. Stoppers(v)' \subseteq Stoppers(v)
      BY <3>1
    <3>3. QED BY <1>7, <3>2, StopFewer
  <2>2. ASSUME NEW v \in Threads, NEW x \in Users, NEW e \in CPUs \cup {NULL},
               after'[v] = AffinityCall(x, e), waitFor'[v] # NULL
        PROVE  waitFor'[v] = x /\ request'[v] = "STOP"
    <3>1. CASE v = t
      <4>1. x \in Threads
        BY DEF Users
      <4>2. QED BY <1>9, <1>14, <1>16, <2>2, <3>1, <4>1, CallsDiffer
    <3>2. CASE v # t
      BY <1>9, <1>14, <2>2, <3>2 DEF IInv, StopInv
    <3>3. QED BY <3>1, <3>2
  <2>3. QED BY <2>1, <2>2 DEF StopInv
<1>18. AskedInv'
  <2>1. /\ \A e \in tab.active : AboutToSchedule(e) => AboutToSchedule(e)'
        /\ \A e, f \in tab.active : running[e] = running[f] => e = f
        /\ \A e \in tab.active : running[e] \in Threads
    BY <1>1, <1>9, CallAbout DEF t
  <2>2. \A v \in Threads : v # u => pending'[v] = pending[v]
    BY <1>7, StateTypes
  <2>3. ASSUME NEW v \in Threads, pending'[v] # << >>
        PROVE  lock'[v] > 0 \/ \E e \in tab'.active : running'[e] = v
    <3>1. CASE v = u
      BY <1>1, <1>2, <1>4, <1>6, <3>1
    <3>2. CASE v # u
      BY <1>1, <1>6, <2>2, <2>3, <3>2 DEF IInv, AskedInv
    <3>3. QED BY <3>1, <3>2
  <2>4. ASSUME NEW e \in tab'.active, pending'[running'[e]] # << >>
        PROVE  AboutToSchedule(e)' \/ e \in irq' \/ lock'[running'[e]] > 0
    <3>1. e \in tab.active /\ running'[e] = running[e]
      BY <1>1, <1>6, <2>4
    <3>2. CASE running[e] = u
      BY <1>2, <1>4, <1>7, <2>1, <3>1, <3>2
    <3>3. CASE running[e] # u
      <4>1. pending[running[e]] # << >>
        BY <2>1, <2>2, <2>4, <3>1, <3>3
      <4>2. AboutToSchedule(e) \/ e \in irq \/ lock[running[e]] > 0
        BY <3>1, <4>1 DEF IInv, AskedInv
      <4>3. QED BY <1>7, <2>1, <3>1, <4>2
    <3>4. QED BY <3>2, <3>3
  <2>5. QED BY <2>3, <2>4 DEF AskedInv
<1>19. QED BY <1>5, <1>8, <1>11, <1>12, <1>13, <1>15, <1>17, <1>18 DEF IInv

LEMMA StatusChangeKeeps ==
  ASSUME IInv, NEW c \in CPUs, Calling(c), NEW u \in Users, NEW r \in Requests, Room(u, r),
         u = running[c] => lock[u] = 0, StatusChange(c, u, r), lock' = lock, GoesOn(c, u, r)
  PROVE  IInv'
<1>1. CASE RunsElsewhere(c, u)
  BY <1>1, AskKeeps DEF StatusChange
<1>2. CASE ~RunsElsewhere(c, u)
  <2>1. ChangeAtOnce(c, u, r) /\ UNCHANGED << ipi, irq >>
    BY <1>2 DEF StatusChange
  <2>2. SMP_EN /\ u # running[c] => u \notin tab.isCand
    BY <1>2, ElsewhereIs DEF Calling
  <2>3. QED BY <2>1, <2>2, ChangeKeeps
<1>3. QED BY <1>1, <1>2

LEMMA SuspendKeeps ==
  ASSUME IInv, NEW c \in CPUs, NEW u \in Users, ThreadSuspend(c, u)
  PROVE  IInv'
<1>1. PICK r \in Requests : r = "SUSPEND"
  BY DEF Requests
<1>2. /\ Calling(c) /\ Room(u, r) /\ StatusChange(c, u, r) /\ UNCHANGED << lock, after >>
      /\ u = running[c] => lock[u] = 0
  BY <1>1 DEF ThreadSuspend, CallingToBlock
<1>3. GoesOn(c, u, r)
  BY <1>1, <1>2 DEF GoesOn
<1>4. QED BY <1>2, <1>3, StatusChangeKeeps

LEMMA StopForAffinityKeeps ==
  ASSUME IInv, NEW c \in CPUs, NEW u \in Users, NEW d \in CPUs \cup {NULL}, StopForAffinity(c, u, d)
  PROVE  IInv'
<1>1. PICK r \in Requests : r = "STOP"
  BY DEF Requests
<1>2. /\ Calling(c) /\ Room(u, r) /\ StatusChange(c, u, r) /\ lock' = lock /\ u # running[c]
      /\ after' = [after EXCEPT ![running[c]] = AffinityCall(u, d)]
  BY <1>1 DEF StopForAffinity
<1>3. GoesOn(c, u, r)
  BY <1>1, <1>2 DEF GoesOn
<1>4. QED BY <1>2, <1>3, StatusChangeKeeps

\* API_ThreadResume, _ThreadContinue: less is counted.
LEMMA ReleaseLists ==
  ASSUME IInv, NEW s, NEW u \in Users, NEW r \in Requests, NEW locked, Releases(s, u, r, locked)
  PROVE  /\ ListsInv' /\ nest' \in [Requests -> [Threads -> 0..MaxNest]]
         /\ \A q \in Requests, v \in Threads : q # r \/ v # u => nest'[q][v] = nest[q][v]
         /\ nest[r][u] > 0 => nest'[r][u] = nest[r][u] - 1
<1>1. nest' = [nest EXCEPT ![r][u] = IF @ > 0 THEN @ - 1 ELSE @]
      /\ UNCHANGED << pend, waitFor, request, pending >>
  BY DEF Releases
<1>2. nest \in [Requests -> [Threads -> 0..MaxNest]] /\ MaxNest \in Nat /\ u \in Threads
  BY StateTypes, SchedulerAssumption DEF Users
<1>3. /\ \A q \in Requests, v \in Threads : q # r \/ v # u => nest'[q][v] = nest[q][v]
      /\ nest'[r][u] = IF nest[r][u] > 0 THEN nest[r][u] - 1 ELSE nest[r][u]
  BY <1>1, <1>2
<1>4. nest[r][u] \in 0..MaxNest
  BY <1>2
<1>5. nest' \in [Requests -> [Threads -> 0..MaxNest]]
  BY <1>1, <1>2, <1>4
<1>6. \A q \in Requests, v \in Threads : nest'[q][v] <= nest[q][v]
  BY <1>2, <1>3, <1>4
<1>7. \A v : Askers(v)' = Askers(v)
  BY <1>1 DEF Askers
<1>8. \A v, q : AskersOf(v, q)' = AskersOf(v, q)
  BY <1>1 DEF AskersOf
<1>9. ASSUME NEW v \in Threads, NEW q \in Requests
      PROVE  nest'[q][v] + Cardinality(AskersOf(v, q)') <= MaxNest
  <2>1. nest[q][v] + Cardinality(AskersOf(v, q)) <= MaxNest
    BY DEF IInv, ListsInv
  <2>2. Cardinality(AskersOf(v, q)) \in Nat
    BY CandTableAssumption, FS_Subset, FS_CardinalityType DEF AskersOf
  <2>3. nest[q][v] \in Nat /\ nest'[q][v] \in Nat
    BY <1>2, <1>5
  <2>4. QED BY <1>2, <1>6, <1>8, <2>1, <2>2, <2>3
<1>10. ListsInv'
  BY <1>1, <1>7, <1>9 DEF IInv, ListsInv
<1>11. QED BY <1>3, <1>4, <1>5, <1>10

LEMMA ResumeKeeps ==
  ASSUME IInv, NEW c \in CPUs, NEW u \in Users, ThreadResume(c, u)
  PROVE  IInv'
<1>1. PICK r \in Requests : r = "SUSPEND"
  BY DEF Requests
<1>2. PICK s : s = tab
  OBVIOUS
<1>3. PICK locked : locked = Locked(c)
  OBVIOUS
<1>4. Enters(c) /\ Releases(s, u, r, locked) /\ UNCHANGED << ipi, irq, lock, after >>
  BY <1>1, <1>2, <1>3 DEF ThreadResume, Calling
<1>5. Sound(s, ReadyThreads)
  BY <1>2, StateTypes
<1>6. TableInv' /\ Kept(s, tab', AddCands) /\ (SMP_EN => tab'.isCand = s.isCand)
  BY <1>4, <1>5, ReleasesTable
<1>7. /\ ListsInv' /\ nest' \in [Requests -> [Threads -> 0..MaxNest]]
      /\ \A q \in Requests, v \in Threads : q # r \/ v # u => nest'[q][v] = nest[q][v]
  BY <1>4, ReleaseLists
<1>8. UNCHANGED << pend, waitFor, request, pending >>
  BY <1>4 DEF Releases
<1>9. /\ Kept(tab, tab', AddCands) /\ tab'.active = tab.active /\ tab'.cpuLock = tab.cpuLock
      /\ TableType(tab)'
  BY <1>2, <1>6 DEF Kept, TableInv, Sound, TableExact
<1>10. kernel' = c /\ UNCHANGED << running, isr, booting >>
  BY <1>4 DEF Enters
<1>11. TypeInv'
  BY <1>4, <1>7, <1>8, <1>9, <1>10, StateTypes DEF TypeInv, TypeOK, AfterOK
<1>12. PlacesInv' /\ RunsInvUp'
  BY <1>4, <1>9, CallPlaces
<1>13. DownInv'
  BY <1>4, <1>9, <1>10, DownSame
<1>14. RunsInv'
  <2>1. SMP_EN => AddCands = {}
    BY DEF AddCands
  <2>2. QED BY <1>4, <1>9, <2>1, CallRuns
<1>15. StopInv'
  <2>1. nest'["STOP"] = nest["STOP"]
    <3>1. "STOP" \in Requests /\ "STOP" # r
      BY <1>1 DEF Requests
    <3>2. \A v \in Threads : nest'["STOP"][v] = nest["STOP"][v]
      BY <1>7, <3>1
    <3>3. nest["STOP"] \in [Threads -> 0..MaxNest] /\ nest'["STOP"] \in [Threads -> 0..MaxNest]
      BY <1>7, <3>1, StateTypes
    <3>4. QED BY <3>2, <3>3
  <2>2. QED BY <1>4, <1>8, <2>1, StopSame
<1>16. AskedInv'
  BY <1>4, <1>8, <1>9, CallAsked
<1>17. QED BY <1>6, <1>7, <1>11, <1>12, <1>13, <1>14, <1>15, <1>16 DEF IInv

\* API_ThreadSetAffinity: a thread that has been stopped is not ready.
LEMMA StoppedIs ==
  ASSUME IInv, NEW t \in Threads, NEW u \in Users, NEW d \in CPUs \cup {NULL},
         after[t] = AffinityCall(u, d), waitFor[t] = NULL
  PROVE  /\ t \in Stoppers(u) /\ nest["STOP"][u] > 0 /\ u \notin ReadyThreads
         /\ Cardinality(Stoppers(u) \ {t}) = Cardinality(Stoppers(u)) - 1
         /\ Cardinality(Stoppers(u)) \in Nat
<1>1. u \in Threads /\ u # NULL
  BY CandTableAssumption DEF Users
<1>2. t \in Stoppers(u)
  BY <1>1 DEF Stoppers
<1>3. IsFiniteSet(Stoppers(u))
  BY CandTableAssumption, FS_Subset DEF Stoppers
<1>4. /\ IsFiniteSet(Stoppers(u) \ {t})
      /\ Cardinality(Stoppers(u) \ {t}) = Cardinality(Stoppers(u)) - 1
  BY <1>2, <1>3, FS_RemoveElement
<1>5. Cardinality(Stoppers(u)) \in Nat /\ Cardinality(Stoppers(u) \ {t}) \in Nat
  BY <1>3, <1>4, FS_CardinalityType
<1>6. Cardinality(Stoppers(u)) <= nest["STOP"][u] /\ nest["STOP"][u] \in Nat
  BY <1>1, StateTypes, SchedulerAssumption DEF IInv, StopInv, Requests
<1>7. nest["STOP"][u] > 0
  BY <1>4, <1>5, <1>6
<1>8. u \notin ReadyThreads
  BY <1>6, <1>7 DEF ReadyThreads, Ready, ReadyWith
<1>9. QED BY <1>2, <1>4, <1>5, <1>7, <1>8

\* _ThreadSetAffinity: the processor that u is given to is up and stays up.
LEMMA SetAffinityIs ==
  ASSUME IInv, NEW u \in Users, NEW d \in CPUs \cup {NULL}, SMP_EN => u \notin ReadyThreads \ tab.isCand,
         NEW s, s = SetAffinity(tab, u, d)
  PROVE  /\ Sound(s, ReadyThreads) /\ Reset(tab, s)
         /\ \A v \in Threads, e \in CPUs :
              s.cpuLock[v] = e => tab.cpuLock[v] = e \/ "DOWN" \notin ipi[e]
         /\ ~SMP_EN => TellsToo(tab, ReadyThreads, s, ReadyThreads)
<1> DEFINE e == IF d \in tab.active /\ "DOWN" \notin ipi[d] THEN d ELSE NULL
<1>1. e \in tab.active \cup {NULL} /\ (e # NULL => "DOWN" \notin ipi[e])
  OBVIOUS
<1>2. s = Relocked(tab, u, e)
  BY DEF SetAffinity, Relocked
<1> HIDE DEF e
<1>3. Sound(tab, ReadyThreads) /\ TableType(tab) /\ u \in Threads \ Idle
  BY StateTypes DEF Users
<1>4. /\ Sound(s, ReadyThreads) /\ Reset(tab, s) /\ s.cpuLock = [tab.cpuLock EXCEPT ![u] = e]
      /\ s.prio = tab.prio /\ s.rot = tab.rot
  BY <1>1, <1>2, <1>3, RelockedSound
<1>5. tab.cpuLock \in [Threads -> CPUs \cup {NULL}]
  BY <1>3, TableFields
<1>6. ASSUME NEW v \in Threads, NEW g \in CPUs, s.cpuLock[v] = g
      PROVE  tab.cpuLock[v] = g \/ "DOWN" \notin ipi[g]
  <2>1. g # NULL
    BY CandTableAssumption
  <2>2. QED BY <1>1, <1>3, <1>4, <1>5, <1>6, <2>1
<1>7. ~SMP_EN => TellsToo(tab, ReadyThreads, s, ReadyThreads)
  BY <1>4 DEF Reset, TellsToo, NoneHeld, Told, Unbeaten
<1>8. QED BY <1>4, <1>6, <1>7

LEMMA SetOwnAffinityKeeps ==
  ASSUME IInv, NEW c \in CPUs, NEW d \in CPUs \cup {NULL}, SetOwnAffinity(c, d)
  PROVE  IInv'
<1> DEFINE t == running[c]
<1>1. /\ Enters(c) /\ tab' = SetAffinity(tab, t, d) /\ UNCHANGED << ipi, irq, svars, lock, after >>
  BY DEF SetOwnAffinity, Calling
<1>2. t \in Users /\ (SMP_EN => t \in tab.isCand)
  BY <1>1, CallerIs
<1>3. UNCHANGED << pend, nest, waitFor, request, pending >>
  BY <1>1 DEF svars
<1> HIDE DEF t
<1>4. PICK s : s = SetAffinity(tab, t, d)
  OBVIOUS
<1>5. /\ Sound(s, ReadyThreads) /\ Reset(tab, s)
      /\ \A v \in Threads, e \in CPUs :
           s.cpuLock[v] = e => tab.cpuLock[v] = e \/ "DOWN" \notin ipi[e]
  BY <1>2, <1>4, SetAffinityIs
<1>6. tab' = s
  BY <1>1, <1>4
<1>7. TableInv' /\ TableType(tab)' /\ tab'.active = tab.active /\ tab'.cand = tab.cand
  BY <1>3, <1>5, <1>6, SameReady DEF TableInv, Reset
<1>8. kernel' = c /\ UNCHANGED << running, isr, booting >>
  BY <1>1 DEF Enters
<1>9. TypeInv'
  BY <1>1, <1>3, <1>7, <1>8, StateTypes DEF TypeInv, TypeOK, AfterOK
<1>10. PlacesInv' /\ RunsInvUp'
  BY <1>1, <1>7, CallPlaces
<1>11. DownInv'
  BY <1>1, <1>5, <1>6, <1>7, <1>8 DEF IInv, DownInv
<1>12. ListsInv'
  BY <1>3, ListsSame
<1>13. RunsInv'
  <2>1. SMP_EN => \A g \in tab.active : running[g] = tab.cand[g]
    BY <1>1, CallerIs
  <2>2. QED BY <1>7, <1>8, <2>1 DEF RunsInv
<1>14. StopInv'
  BY <1>1, <1>3, StopSame
<1>15. AskedInv'
  BY <1>1, <1>3, <1>7, CallAsked
<1>16. QED BY <1>7, <1>9, <1>10, <1>11, <1>12, <1>13, <1>14, <1>15 DEF IInv

LEMMA SetOtherAffinityKeeps ==
  ASSUME IInv, NEW c \in CPUs, NEW u \in Users, NEW d \in CPUs \cup {NULL}, SetOtherAffinity(c, u, d)
  PROVE  IInv'
<1> DEFINE t == running[c]
<1>1. PICK r \in Requests : r = "STOP"
  BY DEF Requests
<1>2. PICK s : s = SetAffinity(tab, u, d)
  OBVIOUS
<1>3. PICK locked : locked = Locked(c)
  OBVIOUS
<1>4. /\ Enters(c) /\ after[t] = AffinityCall(u, d) /\ Releases(s, u, r, locked)
      /\ after' = [after EXCEPT ![t] = NoCall] /\ UNCHANGED << ipi, irq, lock >>
  BY <1>1, <1>2, <1>3 DEF SetOtherAffinity
<1>5. t \in Users /\ t \in Threads /\ waitFor[t] = NULL
  BY <1>4, CallerIs
<1>6. /\ t \in Stoppers(u) /\ nest["STOP"][u] > 0 /\ u \notin ReadyThreads
      /\ Cardinality(Stoppers(u) \ {t}) = Cardinality(Stoppers(u)) - 1
      /\ Cardinality(Stoppers(u)) \in Nat
  BY <1>4, <1>5, StoppedIs
<1>7. /\ Sound(s, ReadyThreads) /\ Reset(tab, s)
      /\ \A v \in Threads, e \in CPUs :
           s.cpuLock[v] = e => tab.cpuLock[v] = e \/ "DOWN" \notin ipi[e]
  BY <1>2, <1>6, SetAffinityIs
<1>8. TableInv' /\ Kept(s, tab', AddCands) /\ (SMP_EN => tab'.isCand = s.isCand)
  BY <1>4, <1>7, ReleasesTable
<1>9. /\ ListsInv' /\ nest' \in [Requests -> [Threads -> 0..MaxNest]]
      /\ \A q \in Requests, v \in Threads : q # r \/ v # u => nest'[q][v] = nest[q][v]
      /\ nest[r][u] > 0 => nest'[r][u] = nest[r][u] - 1
  BY <1>4, ReleaseLists
<1>10. UNCHANGED << pend, waitFor, request, pending >>
  BY <1>4 DEF Releases
<1>11. /\ tab'.active = tab.active /\ tab'.cpuLock = s.cpuLock /\ TableType(tab)'
       /\ \A e \in CPUs \ AddCands : tab'.cand[e] = tab.cand[e]
  BY <1>7, <1>8 DEF Kept, Reset, TableInv, Sound, TableExact
<1>12. kernel' = c /\ UNCHANGED << running, isr, booting >>
  BY <1>4 DEF Enters
<1>13. /\ AfterOK' /\ after'[t] = NoCall /\ \A v \in Threads : v # t => after'[v] = after[v]
  BY <1>4, <1>5, AfterValuesAre, AfterIs
<1> HIDE DEF t
<1>14. TypeInv'
  BY <1>4, <1>9, <1>10, <1>11, <1>12, <1>13, StateTypes DEF TypeInv, TypeOK
<1>15. PlacesInv' /\ RunsInvUp'
  BY <1>4, <1>11, CallPlaces
<1>16. DownInv'
  <2>1. \A v \in Threads, e \in CPUs : after'[v] = DownCall(e) => after[v] = DownCall(e)
    BY <1>13, CallsDiffer
  <2>2. QED BY <1>4, <1>7, <1>11, <1>12, <2>1 DEF IInv, DownInv
<1>17. RunsInv'
  <2>1. SMP_EN => \A g \in tab.active : running[g] = tab.cand[g]
    BY <1>4, CallerIs
  <2>2. SMP_EN => AddCands = {}
    BY DEF AddCands
  <2>3. tab.active \subseteq CPUs
    BY StateTypes, CandIs
  <2>4. QED BY <1>11, <1>12, <2>1, <2>2, <2>3 DEF RunsInv
<1>18. StopInv'
  <2>1. \A v \in Threads, x \in Threads, e \in CPUs \cup {NULL} :
          after'[v] = AffinityCall(x, e) => v # t /\ after[v] = AffinityCall(x, e)
    BY <1>13, CallsDiffer
  <2>2. ASSUME NEW x \in Threads PROVE Cardinality(Stoppers(x)') <= nest'["STOP"][x]
    <3>1. CASE x = u
      <4>1. Stoppers(u)' = Stoppers(u) \ {t}
        <5>1. Stoppers(u)' \subseteq Stoppers(u) \ {t}
          BY <1>10, <2>1, <3>1 DEF Stoppers
        <5>2. Stoppers(u) \ {t} \subseteq Stoppers(u)'
          BY <1>10, <1>13 DEF Stoppers
        <5>3. QED BY <5>1, <5>2
      <4>2. Cardinality(Stoppers(u)) <= nest["STOP"][u] /\ nest["STOP"][u] \in Nat
        BY <3>1, StateTypes, SchedulerAssumption DEF IInv, StopInv, Requests
      <4>3. nest'["STOP"][u] = nest["STOP"][u] - 1
        BY <1>1, <1>6, <1>9
      <4>4. QED BY <1>6, <3>1, <4>1, <4>2, <4>3
    <3>2. CASE x # u
      <4>1. Stoppers(x)' \subseteq Stoppers(x)
        BY <1>10, <2>1 DEF Stoppers
      <4>2. nest'["STOP"][x] = nest["STOP"][x]
        BY <1>1, <1>9, <3>2
      <4>3. QED BY <4>1, <4>2, StopFewer
    <3>3. QED BY <3>1, <3>2
  <2>3. ASSUME NEW v \in Threads, NEW x \in Users, NEW e \in CPUs \cup {NULL},
               after'[v] = AffinityCall(x, e), waitFor'[v] # NULL
        PROVE  waitFor'[v] = x /\ request'[v] = "STOP"
    <3>1. x \in Threads
      BY DEF Users
    <3>2. QED BY <1>10, <2>1, <2>3, <3>1 DEF IInv, StopInv
  <2>4. QED BY <2>2, <2>3 DEF StopInv
<1>19. AskedInv'
  BY <1>4, <1>10, <1>11, <1>13, CallAsked DEF t
<1>20. QED BY <1>8, <1>9, <1>14, <1>15, <1>16, <1>17, <1>18, <1>19 DEF IInv

LEMMA CpuDownKeeps ==
  ASSUME IInv, NEW c \in CPUs, NEW d \in CPUs, CpuDown(c, d)
  PROVE  IInv'
<1> DEFINE t == running[c]
<1>1. /\ d # 0 /\ d \in tab.active /\ Enters(c) /\ tab' = HeldOff(d)
      /\ ipi' = [ipi EXCEPT ![d] = @ \cup {"DOWN"}] /\ after' = [after EXCEPT ![t] = DownCall(d)]
      /\ UNCHANGED << irq, svars, lock >>
  BY DEF CpuDown, Calling
<1>2. SMP_EN
  BY <1>1, CandTableAssumption
<1>3. t \in Users /\ t \in Threads
  BY <1>1, CallerIs
<1>4. UNCHANGED << pend, nest, waitFor, request, pending >>
  BY <1>1 DEF svars
<1> HIDE DEF t
<1>5. Sound(HeldOff(d), ReadyThreads) /\ Freed(tab, HeldOff(d), d)
  BY <1>2, HeldOffIs DEF IInv
<1>6. /\ TableInv' /\ TableType(tab)' /\ tab'.active = tab.active /\ tab'.cand = tab.cand
      /\ tab'.cpuLock = [v \in Threads |-> IF tab.cpuLock[v] = d THEN NULL ELSE tab.cpuLock[v]]
  <2>1. Sound(tab', ReadyThreads) /\ Freed(tab, tab', d)
    BY <1>1, <1>5
  <2>2. QED BY <1>4, <2>1, SameReady DEF TableInv, Freed, Sound, TableExact
<1>7. kernel' = c /\ UNCHANGED << running, isr, booting >>
  BY <1>1 DEF Enters
<1>8. /\ AfterOK' /\ after'[t] = DownCall(d) /\ \A v \in Threads : v # t => after'[v] = after[v]
  BY <1>1, <1>3, AfterValuesAre, AfterIs
<1>9. /\ ipi' \in [CPUs -> SUBSET {"SCHED", "STATUS_REQ", "DOWN"}] /\ "DOWN" \in ipi'[d]
      /\ \A e \in CPUs \ {d} : ipi'[e] = ipi[e]
  BY <1>1, StateTypes
<1>10. TypeInv'
  BY <1>1, <1>4, <1>6, <1>7, <1>8, <1>9, StateTypes DEF TypeInv, TypeOK
<1>11. PlacesInv' /\ RunsInvUp'
  BY <1>1, <1>6, CallPlaces
<1>12. DownInv'
  <2>1. ASSUME NEW e \in CPUs, "DOWN" \in ipi'[e]
        PROVE  e # 0 /\ \A v \in Threads : tab'.cpuLock[v] # e
    <3>1. e # NULL
      BY CandTableAssumption
    <3>2. QED BY <1>1, <1>6, <1>9, <2>1, <3>1 DEF IInv, DownInv
  <2>2. ASSUME NEW v \in Threads, NEW e \in CPUs, after'[v] = DownCall(e)
        PROVE  "DOWN" \in ipi'[e] \/ (e # 0 /\ e \notin tab'.active \cup booting')
    <3>1. CASE v = t
      BY <1>8, <1>9, <2>2, <3>1, CallsDiffer
    <3>2. CASE v # t
      BY <1>6, <1>7, <1>8, <1>9, <2>2, <3>2 DEF IInv, DownInv
    <3>3. QED BY <3>1, <3>2
  <2>3. QED BY <2>1, <2>2 DEF DownInv
<1>13. ListsInv'
  BY <1>4, ListsSame
<1>14. RunsInv'
  <2>1. \A g \in tab.active : running[g] = tab.cand[g]
    BY <1>1, <1>2, CallerIs
  <2>2. QED BY <1>6, <1>7, <2>1 DEF RunsInv
<1>15. StopInv'
  <2>1. \A v \in Threads, x \in Threads, e \in CPUs \cup {NULL} :
          after'[v] = AffinityCall(x, e) => after[v] = AffinityCall(x, e)
    BY <1>8, CallsDiffer
  <2>2. QED BY <1>4, <2>1, StopSame
<1>16. AskedInv'
  BY <1>1, <1>4, <1>6, <1>8, CallAsked DEF t
<1>17. QED BY <1>6, <1>10, <1>11, <1>12, <1>13, <1>14, <1>15, <1>16 DEF IInv

\* What a thread does outside the kernel leaves the tables and the requests alone.
LEMMA OutsideCall ==
  ASSUME IInv, UNCHANGED << tab, svars >>, NEW t \in Threads, NEW x \in {NoCall, SchedCall},
         after' = after \/ after' = [after EXCEPT ![t] = x]
  PROVE  /\ TableInv' /\ ListsInv' /\ StopInv' /\ AfterOK'
         /\ UNCHANGED << pend, nest, waitFor, request, pending >>
         /\ \A v \in Threads : v # t => after'[v] = after[v]
         /\ \A v \in Threads, d \in CPUs : after'[v] = DownCall(d) => after[v] = DownCall(d)
<1>1. UNCHANGED << pend, nest, waitFor, request, pending >>
  BY DEF svars
<1>2. x \in AfterValues
  BY AfterValuesAre
<1>3. AfterOK' /\ \A v \in Threads : after'[v] = after[v] \/ (v = t /\ after'[v] = x)
  <2>1. CASE after' = after
    BY <2>1, StateTypes DEF AfterOK
  <2>2. CASE after' = [after EXCEPT ![t] = x]
    BY <1>2, <2>2, AfterIs
  <2>3. QED BY <2>1, <2>2
<1>4. TableInv'
  BY <1>1, SameReady, StateTypes DEF TableInv
<1>5. ListsInv'
  BY <1>1, ListsSame
<1>6. StopInv'
  <2>1. \A v \in Threads, u \in Threads, e \in CPUs \cup {NULL} :
          after'[v] = AffinityCall(u, e) => after[v] = AffinityCall(u, e)
    BY <1>3, CallsDiffer
  <2>2. QED BY <1>1, <2>1, StopSame
<1>7. \A v \in Threads, d \in CPUs : after'[v] = DownCall(d) => after[v] = DownCall(d)
  BY <1>3, CallsDiffer
<1>8. QED BY <1>1, <1>3, <1>4, <1>5, <1>6, <1>7

LEMMA LockKeeps ==
  ASSUME IInv, NEW c \in CPUs, ThreadLock(c)
  PROVE  IInv'
<1> DEFINE t == running[c]
<1>1. /\ c \in tab.active /\ c \notin isr /\ kernel # c /\ t \in Users /\ after[t] = NoCall
      /\ lock[t] < MaxNest /\ lock' = [lock EXCEPT ![t] = @ + 1]
      /\ UNCHANGED << tab, running, ipi, irq, kvars, svars, after >>
  BY DEF ThreadLock
<1>2. t \in Threads /\ lock \in [Threads -> 0..MaxNest] /\ MaxNest \in Nat
  BY <1>1, StateTypes, SchedulerAssumption DEF Users
<1>3. UNCHANGED << kernel, isr, booting >>
  BY <1>1 DEF kvars
<1>4. /\ TableInv' /\ ListsInv' /\ StopInv' /\ AfterOK'
      /\ UNCHANGED << pend, nest, waitFor, request, pending >>
      /\ \A v \in Threads, d \in CPUs : after'[v] = DownCall(d) => after[v] = DownCall(d)
  <2>1. PICK x \in {NoCall, SchedCall} : TRUE
    OBVIOUS
  <2>2. QED BY <1>1, <1>2, OutsideCall
<1>5. /\ lock' \in [Threads -> 0..MaxNest] /\ \A v \in Threads : lock[v] > 0 => lock'[v] > 0
      /\ \A v \in Threads : v # t => lock'[v] = lock[v]
  BY <1>1, <1>2
<1>6. TypeInv'
  BY <1>1, <1>3, <1>4, <1>5, StateTypes DEF TypeInv, TypeOK
<1>7. PlacesInv'
  BY <1>1, <1>3 DEF IInv, PlacesInv
<1>8. DownInv'
  BY <1>1, <1>3, <1>4, DownSame
<1>9. \A d \in tab.active : running[d] \in Threads
  BY StateTypes, CandIs DEF IInv, PlacesInv
<1>10. \A d : AboutToSchedule(d)' <=> AboutToSchedule(d)
  BY <1>1, <1>3 DEF AboutToSchedule
<1>11. RunsInv'
  <2>1. SMP_EN => t \in tab.isCand
    BY <1>1, StateTypes, CandIs DEF IInv, RunsInv
  <2>2. QED BY <1>1, <1>3, <1>4, <1>5, <1>9, <2>1 DEF IInv, RunsInv
<1>12. RunsInvUp'
  <2>1. \A v : Ready(v)' <=> Ready(v)
    BY <1>4 DEF Ready, ReadyWith
  <2>2. QED BY <1>1, <1>5, <1>9, <1>10, <2>1 DEF IInv, RunsInvUp
<1>13. AskedInv'
  BY <1>1, <1>4, <1>5, <1>9, <1>10 DEF IInv, AskedInv
<1>14. QED BY <1>4, <1>6, <1>7, <1>8, <1>11, <1>12, <1>13 DEF IInv

LEMMA UnlockKeeps ==
  ASSUME IInv, NEW c \in CPUs, ThreadUnlock(c)
  PROVE  IInv'
<1> DEFINE t == running[c]
           x == IF lock'[t] = 0 THEN SchedCall ELSE NoCall
<1>1. /\ c \in tab.active /\ c \notin isr /\ kernel # c /\ t \in Users /\ after[t] = NoCall
      /\ lock[t] > 0 /\ lock' = [lock EXCEPT ![t] = @ - 1] /\ after' = [after EXCEPT ![t] = x]
      /\ UNCHANGED << tab, running, ipi, irq, kvars, svars >>
  BY DEF ThreadUnlock
<1>2. t \in Threads /\ lock \in [Threads -> 0..MaxNest] /\ MaxNest \in Nat
      /\ x \in {NoCall, SchedCall} /\ t # NULL
  BY <1>1, StateTypes, SchedulerAssumption, CandTableAssumption DEF Users
<1>3. UNCHANGED << kernel, isr, booting >>
  BY <1>1 DEF kvars
<1>4. /\ TableInv' /\ ListsInv' /\ StopInv' /\ AfterOK'
      /\ UNCHANGED << pend, nest, waitFor, request, pending >>
      /\ \A v \in Threads : v # t => after'[v] = after[v]
      /\ \A v \in Threads, d \in CPUs : after'[v] = DownCall(d) => after[v] = DownCall(d)
  <2> HIDE DEF x
  <2>1. QED BY <1>1, <1>2, OutsideCall
<1>5. after'[t] = SchedCall \/ lock'[t] > 0
  <2>1. after'[t] = x
    BY <1>1, <1>2, StateTypes DEF AfterOK
  <2>2. lock'[t] \in Nat
    BY <1>1, <1>2
  <2>3. QED BY <2>1, <2>2
<1> HIDE DEF x
<1>6. /\ lock' \in [Threads -> 0..MaxNest] /\ \A v \in Threads : lock[v] = 0 => lock'[v] = 0
      /\ \A v \in Threads : v # t => lock'[v] = lock[v]
  BY <1>1, <1>2
<1>7. TypeInv'
  BY <1>1, <1>3, <1>4, <1>6, StateTypes DEF TypeInv, TypeOK
<1>8. PlacesInv'
  BY <1>1, <1>3 DEF IInv, PlacesInv
<1>9. DownInv'
  BY <1>1, <1>3, <1>4, DownSame
<1>10. \A d \in tab.active : running[d] \in Threads
  BY StateTypes, CandIs DEF IInv, PlacesInv
<1>11. /\ \A d \in tab.active : AboutToSchedule(d) => AboutToSchedule(d)'
       /\ \A d \in tab.active : ~AboutToSchedule(d)' => running[d] # t \/ lock'[t] > 0
  BY <1>1, <1>2, <1>3, <1>4, <1>5, <1>10, CallsDiffer DEF AboutToSchedule
<1>12. RunsInv'
  BY <1>1, <1>3, <1>4, <1>6, <1>10 DEF IInv, RunsInv
<1>13. RunsInvUp'
  <2>1. \A v : Ready(v)' <=> Ready(v)
    BY <1>4 DEF Ready, ReadyWith
  <2>2. QED BY <1>1, <1>6, <1>10, <1>11, <2>1 DEF IInv, RunsInvUp
<1>14. AskedInv'
  BY <1>1, <1>4, <1>6, <1>10, <1>11 DEF IInv, AskedInv
<1>15. QED BY <1>4, <1>7, <1>8, <1>9, <1>12, <1>13, <1>14 DEF IInv

LEMMA CpuUpKeeps ==
  ASSUME IInv, "CpuUpEarly" \notin Calls, NEW c \in CPUs, NEW d \in CPUs, CpuUp(c, d)
  PROVE  IInv'
<1>1. /\ d \notin tab.active /\ "DOWN" \notin ipi[d] /\ running[c] \in Users
      /\ \A u \in Threads : after[u] # DownCall(d)
      /\ booting' = booting \cup {d}
      /\ UNCHANGED << tab, running, ipi, irq, kernel, isr, svars, lock, after >>
  BY DEF CpuUp
<1>2. /\ TableInv' /\ ListsInv' /\ StopInv' /\ AfterOK'
      /\ UNCHANGED << pend, nest, waitFor, request, pending >>
  <2>1. PICK x \in {NoCall, SchedCall} : TRUE
    OBVIOUS
  <2>2. running[c] \in Threads
    BY <1>1 DEF Users
  <2>3. QED BY <1>1, <2>2, OutsideCall
<1>3. TypeInv'
  BY <1>1, <1>2, StateTypes DEF TypeInv, TypeOK
<1>4. PlacesInv'
  BY <1>1 DEF IInv, PlacesInv
<1>5. DownInv'
  BY <1>1 DEF IInv, DownInv
<1>6. \A e : AboutToSchedule(e)' <=> AboutToSchedule(e)
  BY <1>1 DEF AboutToSchedule
<1>7. RunsInv'
  BY <1>1, <1>2 DEF IInv, RunsInv
<1>8. RunsInvUp'
  <2>1. \A v : Ready(v)' <=> Ready(v)
    BY <1>2 DEF Ready, ReadyWith
  <2>2. QED BY <1>1, <1>6, <2>1 DEF IInv, RunsInvUp
<1>9. AskedInv'
  BY <1>1, <1>2, <1>6, AskedSame
<1>10. QED BY <1>2, <1>3, <1>4, <1>5, <1>7, <1>8, <1>9 DEF IInv

LEMMA SendDownKeeps ==
  ASSUME IInv, NEW c \in CPUs, NEW d \in CPUs, SendDown(c, d)
  PROVE  IInv'
<1> DEFINE t == running[c]
<1>1. /\ c \in tab.active /\ after[t] = DownCall(d) /\ after' = [after EXCEPT ![t] = NoCall]
      /\ UNCHANGED << tab, running, kvars, svars, lock >>
  BY DEF SendDown
<1>2. \A e \in tab.active : running[e] \in Threads
  BY StateTypes, CandIs DEF IInv, PlacesInv
<1>3. t \in Threads
  BY <1>1, <1>2
<1>4. UNCHANGED << kernel, isr, booting >>
  BY <1>1 DEF kvars
<1>5. /\ TableInv' /\ ListsInv' /\ StopInv' /\ AfterOK'
      /\ UNCHANGED << pend, nest, waitFor, request, pending >>
      /\ \A v \in Threads : v # t => after'[v] = after[v]
      /\ \A v \in Threads, e \in CPUs : after'[v] = DownCall(e) => after[v] = DownCall(e)
  <2>1. PICK x \in {NoCall, SchedCall} : x = NoCall
    OBVIOUS
  <2>2. after' = [after EXCEPT ![t] = x]
    BY <1>1, <2>1
  <2>3. UNCHANGED << tab, svars >>
    BY <1>1
  <2> HIDE DEF t
  <2>4. QED BY <1>3, <2>2, <2>3, OutsideCall
<1>6. after'[t] = NoCall
  BY <1>1, <1>3, StateTypes DEF AfterOK
<1> HIDE DEF t
<1>7. /\ ipi' \in [CPUs -> SUBSET {"SCHED", "STATUS_REQ", "DOWN"}]
      /\ irq' \subseteq CPUs /\ irq \subseteq irq'
      /\ \A e \in CPUs : "DOWN" \in ipi'[e] <=> "DOWN" \in ipi[e]
  <2>1. CASE d \in tab.active
    <3>1. "DOWN" \in ipi[d]
      BY <1>1, <1>3, <2>1 DEF IInv, DownInv
    <3>2. ipi' = [ipi EXCEPT ![d] = @ \cup {"DOWN"}] /\ irq' = irq \cup {d}
      BY <2>1 DEF SendDown
    <3>3. QED BY <3>1, <3>2, StateTypes
  <2>2. CASE d \notin tab.active
    <3>1. ipi' = ipi /\ irq' = irq
      BY <2>2 DEF SendDown
    <3>2. QED BY <3>1, StateTypes
  <2>3. QED BY <2>1, <2>2
<1>8. TypeInv'
  BY <1>1, <1>4, <1>5, <1>7, StateTypes DEF TypeInv, TypeOK
<1>9. PlacesInv'
  BY <1>1, <1>4 DEF IInv, PlacesInv
<1>10. DownInv'
  BY <1>1, <1>4, <1>5, <1>7, DownSame
<1>11. \A e \in tab.active : AboutToSchedule(e)' <=> AboutToSchedule(e)
  BY <1>1, <1>2, <1>4, <1>5, <1>6, CallsDiffer DEF AboutToSchedule
<1>12. RunsInv'
  BY <1>1, <1>4, <1>5 DEF IInv, RunsInv
<1>13. RunsInvUp'
  <2>1. \A v : Ready(v)' <=> Ready(v)
    BY <1>5 DEF Ready, ReadyWith
  <2>2. QED BY <1>1, <1>11, <2>1 DEF IInv, RunsInvUp
<1>14. AskedInv'
  BY <1>1, <1>5, <1>7, <1>11, AskedSame
<1>15. QED BY <1>5, <1>8, <1>9, <1>10, <1>12, <1>13, <1>14 DEF IInv

-----------------------------------------------------------------------------
(* Every step keeps the invariant: interrupts.                             *)

LEMMA QuietIsr ==
  ASSUME IInv, NEW c \in CPUs, InterEnter(c), TableInv', Kept(tab, tab', AddCands),
         SMP_EN => tab'.isCand = tab.isCand,
         pend' \subseteq Threads, ListsInv',
         nest' \in [Requests -> [Threads -> 0..MaxNest]], nest'["STOP"] = nest["STOP"],
         request' \in [Threads -> Requests \cup {NULL}],
         \A t \in Threads : waitFor[t] # NULL => request'[t] = request[t],
         UNCHANGED << waitFor, pending >>,
         ipi' \in [CPUs -> SUBSET {"SCHED", "STATUS_REQ", "DOWN"}],
         \A d \in CPUs : "DOWN" \in ipi'[d] <=> "DOWN" \in ipi[d],
         irq \ {c} \subseteq irq', irq' \subseteq CPUs
  PROVE  IInv'
<1>1. /\ kernel' = kernel /\ running' = running /\ isr' = isr \cup {c} /\ booting' = booting
      /\ lock' = lock /\ after' = after
  BY DEF InterEnter
<1>2. tab'.active = tab.active /\ tab'.cpuLock = tab.cpuLock /\ TableType(tab)'
  BY DEF Kept, TableInv, Sound, TableExact
<1>3. TypeInv'
  BY <1>1, <1>2, StateTypes DEF TypeInv, TypeOK, AfterOK
<1>4. PlacesInv' /\ RunsInvUp'
  BY <1>2, IsrPlaces
<1>5. DownInv'
  BY <1>1, <1>2, DownSame
<1>6. RunsInv'
  BY IsrRuns
<1>7. StopInv'
  BY <1>1, StopSame
<1>8. AskedInv'
  BY <1>2, IsrAsked
<1>9. QED BY <1>3, <1>4, <1>5, <1>6, <1>7, <1>8 DEF IInv

LEMMA IsrExitIs ==
  ASSUME IInv, tab'.active \subseteq CPUs, NEW c \in CPUs, IsrExit(c)
  PROVE  /\ ipi' \in [CPUs -> SUBSET {"SCHED", "STATUS_REQ", "DOWN"}]
         /\ \A d \in CPUs : "DOWN" \in ipi'[d] <=> "DOWN" \in ipi[d]
         /\ irq \ {c} \subseteq irq' /\ irq' \subseteq CPUs
<1>1. PICK to : to = IF kernel = NULL THEN SmpNotify(tab', c) ELSE {}
  OBVIOUS
<1>2. ipi' = SendSched(ipi, to) /\ irq' = irq \cup to
  BY <1>1 DEF IsrExit
<1>3. to \subseteq CPUs
  <2>1. SmpNotify(tab', c) \subseteq CPUs
    BY DEF SmpNotify
  <2>2. QED BY <1>1, <2>1
<1>4. QED BY <1>2, <1>3, SendSchedIs, StateTypes

LEMMA IpiKeeps ==
  ASSUME IInv, NEW c \in CPUs, IpiInterrupt(c)
  PROVE  IInv'
<1>1. /\ InterEnter(c) /\ irq' = irq \ {c} /\ UNCHANGED << tab, ipi, svars >>
  BY DEF IpiInterrupt
<1>2. UNCHANGED << pend, nest, waitFor, request, pending >>
  BY <1>1 DEF svars
<1>3. TableInv' /\ Kept(tab, tab', AddCands) /\ tab'.isCand = tab.isCand
  BY <1>1, <1>2, SameReady, StateTypes DEF TableInv, Kept
<1>4. ListsInv'
  BY <1>2, ListsSame
<1>5. pend' \subseteq Threads /\ nest' \in [Requests -> [Threads -> 0..MaxNest]]
      /\ request' \in [Threads -> Requests \cup {NULL}]
      /\ ipi' \in [CPUs -> SUBSET {"SCHED", "STATUS_REQ", "DOWN"}] /\ irq' \subseteq CPUs
  BY <1>1, <1>2, StateTypes
<1>6. QED BY <1>1, <1>2, <1>3, <1>4, <1>5, QuietIsr

LEMMA TickKeeps ==
  ASSUME IInv, NEW c \in CPUs, IsrTick(c)
  PROVE  IInv'
<1>1. /\ InterEnter(c) /\ tab' = SchedTick(tab, running) /\ UNCHANGED << ipi, irq, svars >>
  BY DEF IsrTick
<1>2. UNCHANGED << pend, nest, waitFor, request, pending >>
  BY <1>1 DEF svars
<1>3. Dressed(tab, tab')
  BY <1>1, StateTypes, TickIs
<1>4. TableInv' /\ Kept(tab, tab', {}) /\ tab'.isCand = tab.isCand
  BY <1>2, <1>3, DressedTable
<1>5. Kept(tab, tab', AddCands)
  BY <1>4 DEF Kept
<1>6. ListsInv'
  BY <1>2, ListsSame
<1>7. pend' \subseteq Threads /\ nest' \in [Requests -> [Threads -> 0..MaxNest]]
      /\ request' \in [Threads -> Requests \cup {NULL}]
      /\ ipi' \in [CPUs -> SUBSET {"SCHED", "STATUS_REQ", "DOWN"}] /\ irq' \subseteq CPUs
  BY <1>1, <1>2, StateTypes
<1>8. QED BY <1>1, <1>2, <1>4, <1>5, <1>6, <1>7, QuietIsr

LEMMA IsrPostKeeps ==
  ASSUME IInv, NEW c \in CPUs, NEW u \in Users, IsrPost(c, u)
  PROVE  IInv'
<1>1. PICK front \in BOOLEAN : InterEnter(c) /\ Wakes(u, front, Locked(kernel)) /\ IsrExit(c)
  BY DEF IsrPost
<1>2. PICK locked : locked = Locked(kernel)
  OBVIOUS
<1>3. Wakes(u, front, locked)
  BY <1>1, <1>2
<1>4. TableInv' /\ Kept(tab, tab', AddCands) /\ (SMP_EN => tab'.isCand = tab.isCand)
  BY <1>3, WakesTable
<1>5. pend' \subseteq Threads /\ UNCHANGED << nest, waitFor, request, pending >>
  BY <1>1, StateTypes DEF Wakes
<1>6. ListsInv'
  BY <1>5, ListsSame
<1>7. /\ ipi' \in [CPUs -> SUBSET {"SCHED", "STATUS_REQ", "DOWN"}]
      /\ \A d \in CPUs : "DOWN" \in ipi'[d] <=> "DOWN" \in ipi[d]
      /\ irq \ {c} \subseteq irq' /\ irq' \subseteq CPUs
  <2>1. tab'.active \subseteq CPUs
    BY <1>4, StateTypes, CandIs DEF Kept
  <2>2. QED BY <1>1, <2>1, IsrExitIs
<1>8. nest' \in [Requests -> [Threads -> 0..MaxNest]] /\ request' \in [Threads -> Requests \cup {NULL}]
  BY <1>5, StateTypes
<1>9. QED BY <1>1, <1>4, <1>5, <1>6, <1>7, <1>8, QuietIsr

LEMMA IsrResumeKeeps ==
  ASSUME IInv, NEW c \in CPUs, NEW u \in Users, IsrResume(c, u)
  PROVE  IInv'
<1>1. PICK r \in Requests : r = "SUSPEND"
  BY DEF Requests
<1>2. PICK s : s = tab
  OBVIOUS
<1>3. PICK locked : locked = Locked(kernel)
  OBVIOUS
<1>4. InterEnter(c) /\ Releases(s, u, r, locked) /\ IsrExit(c)
  BY <1>1, <1>2, <1>3 DEF IsrResume
<1>5. Sound(s, ReadyThreads)
  BY <1>2, StateTypes
<1>6. TableInv' /\ Kept(s, tab', AddCands) /\ (SMP_EN => tab'.isCand = s.isCand)
  BY <1>4, <1>5, ReleasesTable
<1>7. /\ ListsInv' /\ nest' \in [Requests -> [Threads -> 0..MaxNest]]
      /\ \A q \in Requests, v \in Threads : q # r \/ v # u => nest'[q][v] = nest[q][v]
  BY <1>4, ReleaseLists
<1>8. UNCHANGED << pend, waitFor, request, pending >>
  BY <1>4 DEF Releases
<1>9. nest'["STOP"] = nest["STOP"]
  <2>1. "STOP" \in Requests /\ "STOP" # r
    BY <1>1 DEF Requests
  <2>2. \A v \in Threads : nest'["STOP"][v] = nest["STOP"][v]
    BY <1>7, <2>1
  <2>3. nest["STOP"] \in [Threads -> 0..MaxNest] /\ nest'["STOP"] \in [Threads -> 0..MaxNest]
    BY <1>7, <2>1, StateTypes
  <2>4. QED BY <2>2, <2>3
<1>10. /\ ipi' \in [CPUs -> SUBSET {"SCHED", "STATUS_REQ", "DOWN"}]
       /\ \A d \in CPUs : "DOWN" \in ipi'[d] <=> "DOWN" \in ipi[d]
       /\ irq \ {c} \subseteq irq' /\ irq' \subseteq CPUs
  <2>1. tab'.active \subseteq CPUs
    BY <1>2, <1>6, StateTypes, CandIs DEF Kept
  <2>2. QED BY <1>4, <2>1, IsrExitIs
<1>11. pend' \subseteq Threads /\ request' \in [Threads -> Requests \cup {NULL}]
  BY <1>8, StateTypes
<1>12. QED BY <1>2, <1>4, <1>6, <1>7, <1>8, <1>9, <1>10, <1>11, QuietIsr

\* An interrupt suspends a thread on a system with one processor.
LEMMA IsrSuspendKeeps ==
  ASSUME IInv, ~SMP_EN, NEW c \in CPUs, NEW u \in Users, IsrSuspend(c, u)
  PROVE  IInv'
<1>1. PICK r \in Requests : r = "SUSPEND"
  BY DEF Requests
<1>2. InterEnter(c) /\ Room(u, r) /\ ChangeAtOnce(c, u, r) /\ IsrExit(c)
  BY <1>1 DEF IsrSuspend
<1>3. running[c] \in Threads /\ waitFor[running[c]] = NULL
  <2>1. c \in tab.active
    BY <1>2 DEF InterEnter
  <2>2. running[c] \in Threads
    BY <2>1, StateTypes DEF IInv, PlacesInv
  <2>3. QED BY <2>2 DEF IInv, ListsInv
<1>4. TableInv' /\ Kept(tab, tab', IF u \in tab.isCand THEN {tab.cpuId[u]} ELSE {})
  BY <1>2, ChangeTable
<1>5. Kept(tab, tab', AddCands)
  <2>1. CPUs \ AddCands = {}
    BY CandTableAssumption DEF AddCands
  <2>2. QED BY <1>4, <2>1 DEF Kept
<1>6. /\ ListsInv' /\ nest' \in [Requests -> [Threads -> 0..MaxNest]]
      /\ request' \in [Threads -> Requests \cup {NULL}]
  BY <1>2, <1>3, ChangeLists
<1>7. /\ pend' = pend /\ waitFor' = waitFor /\ pending' = pending
      /\ nest' = [nest EXCEPT ![r][u] = @ + 1]
  BY <1>2 DEF ChangeAtOnce
<1>8. nest'["STOP"] = nest["STOP"]
  BY <1>1, <1>7, StateTypes DEF Requests
<1>9. \A t \in Threads : waitFor[t] = NULL
  BY DEF IInv, ListsInv
<1>10. /\ ipi' \in [CPUs -> SUBSET {"SCHED", "STATUS_REQ", "DOWN"}]
       /\ \A d \in CPUs : "DOWN" \in ipi'[d] <=> "DOWN" \in ipi[d]
       /\ irq \ {c} \subseteq irq' /\ irq' \subseteq CPUs
  <2>1. tab'.active \subseteq CPUs
    BY <1>5, StateTypes, CandIs DEF Kept
  <2>2. QED BY <1>2, <2>1, IsrExitIs
<1>11. pend' \subseteq Threads
  BY <1>7, StateTypes
<1>12. QED BY <1>2, <1>4, <1>5, <1>6, <1>7, <1>8, <1>9, <1>10, <1>11, QuietIsr

-----------------------------------------------------------------------------
(* Every step keeps the invariant: the scheduler.                          *)

\* _ThreadStatusChangeCur: who is asked, and by whom.
LEMMA AskersAre ==
  ASSUME IInv, NEW t \in Threads
  PROVE  /\ pending[t] \in Seq(Users) /\ IsInjective(pending[t]) /\ Range(pending[t]) = Askers(t)
         /\ \A u \in Askers(t) : u \in Users /\ u # t /\ ~Ready(u) /\ request[u] \in Requests /\ t \in Users
         /\ pending[t] # << >> => SMP_EN /\ \E u : u \in Askers(t)
         /\ \A r : /\ {u \in Range(pending[t]) : request[u] = r} = AskersOf(t, r)
                   /\ IsFiniteSet(AskersOf(t, r)) /\ Cardinality(AskersOf(t, r)) \in Nat
<1>1. t # NULL /\ pending[t] \in Seq(Threads)
  BY StateTypes, CandTableAssumption
<1>2. IsInjective(pending[t]) /\ Range(pending[t]) = Askers(t)
  BY DEF IInv, ListsInv
<1>3. ASSUME NEW u \in Askers(t)
      PROVE  u \in Users /\ u # t /\ ~Ready(u) /\ request[u] \in Requests /\ t \in Users /\ SMP_EN
  <2>1. u \in Threads /\ waitFor[u] = t
    BY DEF Askers
  <2>2. QED BY <1>1, <2>1 DEF IInv, ListsInv, Ready, ReadyWith
<1>4. \A i \in 1..Len(pending[t]) : pending[t][i] \in Askers(t)
  BY <1>1, <1>2 DEF Range
<1>5. pending[t] \in Seq(Users)
  BY <1>1, <1>3, <1>4
<1>6. ASSUME pending[t] # << >> PROVE SMP_EN /\ \E u : u \in Askers(t)
  BY <1>1, <1>3, <1>4, <1>6
<1>7. ASSUME NEW r
      PROVE  /\ {u \in Range(pending[t]) : request[u] = r} = AskersOf(t, r)
             /\ IsFiniteSet(AskersOf(t, r)) /\ Cardinality(AskersOf(t, r)) \in Nat
  <2>1. {u \in Range(pending[t]) : request[u] = r} = AskersOf(t, r)
    BY <1>2 DEF Askers, AskersOf
  <2>2. IsFiniteSet(AskersOf(t, r))
    BY CandTableAssumption, FS_Subset DEF AskersOf
  <2>3. QED BY <2>1, <2>2, FS_CardinalityType
<1>8. QED BY <1>2, <1>3, <1>5, <1>6, <1>7

\* What the requests to t come to.
LEMMA ServeCounts ==
  ASSUME IInv, NEW c \in CPUs, NEW t \in Threads, t = running[c], StatusChangeCur(c)
  PROVE  /\ \A r \in Requests : nest'[r][t] = nest[r][t] + Cardinality(AskersOf(t, r))
         /\ \A r \in Requests, v \in Threads \ {t} : nest'[r][v] = nest[r][v]
         /\ nest' \in [Requests -> [Threads -> 0..MaxNest]]
         /\ \A v \in Threads :
              /\ waitFor[v] = t => waitFor'[v] = NULL /\ request'[v] = NULL
              /\ waitFor[v] # t => waitFor'[v] = waitFor[v] /\ request'[v] = request[v]
         /\ waitFor' \in [Threads -> Threads \cup {NULL}]
         /\ request' \in [Threads -> Requests \cup {NULL}]
         /\ pending' \in [Threads -> Seq(Threads)] /\ pending'[t] = << >>
         /\ \A v \in Threads \ {t} : pending'[v] = pending[v]
         /\ pend' = pend
<1>1. /\ nest' = [r \in Requests |-> [nest[r] EXCEPT
                    ![t] = @ + Cardinality({u \in Range(pending[t]) : request[u] = r})]]
      /\ waitFor' = [u \in Threads |-> IF waitFor[u] = t THEN NULL ELSE waitFor[u]]
      /\ request' = [u \in Threads |-> IF waitFor[u] = t THEN NULL ELSE request[u]]
      /\ pending' = [pending EXCEPT ![t] = << >>] /\ pend' = pend
  BY DEF StatusChangeCur
<1>2. /\ nest \in [Requests -> [Threads -> 0..MaxNest]] /\ MaxNest \in Nat
      /\ waitFor \in [Threads -> Threads \cup {NULL}] /\ request \in [Threads -> Requests \cup {NULL}]
      /\ pending \in [Threads -> Seq(Threads)]
  BY StateTypes, SchedulerAssumption
<1>3. ASSUME NEW r \in Requests
      PROVE  /\ nest'[r][t] = nest[r][t] + Cardinality(AskersOf(t, r))
             /\ nest'[r][t] \in 0..MaxNest
             /\ \A v \in Threads \ {t} : nest'[r][v] = nest[r][v]
             /\ nest'[r] \in [Threads -> 0..MaxNest]
  <2>1. PICK k : k = Cardinality({u \in Range(pending[t]) : request[u] = r})
    OBVIOUS
  <2>2. k = Cardinality(AskersOf(t, r)) /\ k \in Nat
    BY <2>1, AskersAre
  <2>3. nest'[r] = [nest[r] EXCEPT ![t] = @ + k]
    BY <1>1, <2>1
  <2>4. nest[r] \in [Threads -> 0..MaxNest] /\ nest[r][t] \in 0..MaxNest
    BY <1>2
  <2>5. nest[r][t] + k <= MaxNest
    BY <2>2 DEF IInv, ListsInv
  <2>6. nest'[r][t] = nest[r][t] + k /\ \A v \in Threads \ {t} : nest'[r][v] = nest[r][v]
    BY <2>3, <2>4
  <2>7. nest[r][t] + k \in 0..MaxNest
    BY <1>2, <2>2, <2>4, <2>5
  <2>8. nest'[r] \in [Threads -> 0..MaxNest]
    BY <2>3, <2>4, <2>7
  <2>9. QED BY <2>2, <2>6, <2>7, <2>8
<1>4. nest' \in [Requests -> [Threads -> 0..MaxNest]]
  <2>1. DOMAIN nest' = Requests /\ nest' = [r \in Requests |-> nest'[r]]
    BY <1>1
  <2>2. QED BY <1>3, <2>1
<1>5. /\ pending' \in [Threads -> Seq(Threads)] /\ pending'[t] = << >>
      /\ \A v \in Threads \ {t} : pending'[v] = pending[v]
  BY <1>1, <1>2
<1>6. /\ waitFor' \in [Threads -> Threads \cup {NULL}]
      /\ request' \in [Threads -> Requests \cup {NULL}]
      /\ \A v \in Threads :
           /\ waitFor[v] = t => waitFor'[v] = NULL /\ request'[v] = NULL
           /\ waitFor[v] # t => waitFor'[v] = waitFor[v] /\ request'[v] = request[v]
  BY <1>1, <1>2
<1>7. QED BY <1>1, <1>3, <1>4, <1>5, <1>6

LEMMA ServeLists ==
  ASSUME IInv, NEW c \in CPUs, NEW t \in Threads, t = running[c], StatusChangeCur(c)
  PROVE  ListsInv'
<1>1. /\ \A r \in Requests : nest'[r][t] = nest[r][t] + Cardinality(AskersOf(t, r))
      /\ \A r \in Requests, v \in Threads \ {t} : nest'[r][v] = nest[r][v]
      /\ nest' \in [Requests -> [Threads -> 0..MaxNest]]
      /\ \A v \in Threads :
           /\ waitFor[v] = t => waitFor'[v] = NULL /\ request'[v] = NULL
           /\ waitFor[v] # t => waitFor'[v] = waitFor[v] /\ request'[v] = request[v]
      /\ pending'[t] = << >> /\ \A v \in Threads \ {t} : pending'[v] = pending[v]
  BY ServeCounts
<1>2. t # NULL /\ NULL \notin Threads
  BY CandTableAssumption
<1>3. Askers(t)' = {} /\ \A v \in Threads \ {t} : Askers(v)' = Askers(v)
  BY <1>1, <1>2 DEF Askers
<1>4. \A r \in Requests : AskersOf(t, r)' = {}
  BY <1>1, <1>2 DEF AskersOf
<1>5. ASSUME NEW v \in Threads, v # t, NEW r \in Requests PROVE AskersOf(v, r)' = AskersOf(v, r)
  <2>1. \A x \in Threads : waitFor'[x] = v /\ request'[x] = r <=> waitFor[x] = v /\ request[x] = r
    BY <1>1, <1>2, <1>5
  <2>2. QED BY <2>1 DEF AskersOf
<1>6. ASSUME NEW v \in Threads PROVE IsInjective(pending'[v]) /\ Range(pending'[v]) = Askers(v)'
  <2>1. CASE v = t
    BY <1>1, <1>3, <2>1 DEF IsInjective, Range
  <2>2. CASE v # t
    BY <1>1, <1>3, <2>2 DEF IInv, ListsInv
  <2>3. QED BY <2>1, <2>2
<1>7. ASSUME NEW v \in Threads, NEW r \in Requests
      PROVE  nest'[r][v] + Cardinality(AskersOf(v, r)') <= MaxNest
  <2>1. CASE v = t
    <3>1. Cardinality(AskersOf(v, r)') = 0
      BY <1>4, <2>1, FS_EmptySet
    <3>2. nest'[r][v] \in 0..MaxNest /\ MaxNest \in Nat
      BY <1>1, SchedulerAssumption
    <3>3. QED BY <3>1, <3>2
  <2>2. CASE v # t
    <3>1. nest[r][v] + Cardinality(AskersOf(v, r)) <= MaxNest
      BY DEF IInv, ListsInv
    <3>2. nest'[r][v] = nest[r][v] /\ AskersOf(v, r)' = AskersOf(v, r)
      BY <1>1, <1>5, <2>2
    <3>3. QED BY <3>1, <3>2
  <2>3. QED BY <2>1, <2>2
<1>8. ASSUME NEW v \in Threads, waitFor'[v] # NULL
      PROVE  SMP_EN /\ v \in Users /\ waitFor'[v] \in Users \ {v} /\ request'[v] \in Requests
  BY <1>1, <1>8 DEF IInv, ListsInv
<1>9. QED BY <1>6, <1>7, <1>8 DEF ListsInv

LEMMA ServeStop ==
  ASSUME IInv, NEW c \in CPUs, NEW t \in Threads, t = running[c], StatusChangeCur(c), after' = after
  PROVE  StopInv'
<1>1. /\ \A r \in Requests : nest'[r][t] = nest[r][t] + Cardinality(AskersOf(t, r))
      /\ \A r \in Requests, v \in Threads \ {t} : nest'[r][v] = nest[r][v]
      /\ \A v \in Threads :
           /\ waitFor[v] = t => waitFor'[v] = NULL /\ request'[v] = NULL
           /\ waitFor[v] # t => waitFor'[v] = waitFor[v] /\ request'[v] = request[v]
  BY ServeCounts
<1>2. t # NULL /\ "STOP" \in Requests
  BY CandTableAssumption DEF Requests
<1>3. ASSUME NEW u \in Threads PROVE Cardinality(Stoppers(u)') <= nest'["STOP"][u]
  <2>1. CASE u # t
    <3>1. Stoppers(u)' \subseteq Stoppers(u)
      BY <1>1, <2>1 DEF Stoppers
    <3>2. QED BY <1>1, <1>2, <2>1, <3>1, StopFewer
  <2>2. CASE u = t
    <3> DEFINE A == Stoppers(u)
               B == AskersOf(u, "STOP")
    <3>1. Stoppers(u)' \subseteq A \cup B
      <4>1. SUFFICES ASSUME NEW x \in Stoppers(u)', waitFor[x] = u PROVE x \in B
        BY <1>1, <2>2 DEF Stoppers
      <4>2. x \in Threads /\ \E e \in CPUs \cup {NULL} : after[x] = AffinityCall(u, e)
        BY DEF Stoppers
      <4>3. u \in Users
        <5>1. x \in Askers(u)
          BY <4>1, <4>2 DEF Askers
        <5>2. QED BY <5>1, AskersAre
      <4>4. request[x] = "STOP"
        BY <1>2, <2>2, <4>1, <4>2, <4>3 DEF IInv, StopInv
      <4>5. QED BY <4>1, <4>2, <4>4 DEF AskersOf
    <3>2. IsFiniteSet(A) /\ IsFiniteSet(B)
      BY CandTableAssumption, FS_Subset DEF Stoppers, AskersOf
    <3>3. Cardinality(A) <= nest["STOP"][u] /\ nest["STOP"][u] \in Nat
      BY <1>2, StateTypes, SchedulerAssumption DEF IInv, StopInv
    <3>4. nest'["STOP"][u] = nest["STOP"][u] + Cardinality(B)
      BY <1>1, <1>2, <2>2
    <3> HIDE DEF A, B
    <3>5. /\ IsFiniteSet(A \cup B)
          /\ Cardinality(A \cup B) = Cardinality(A) + Cardinality(B) - Cardinality(A \cap B)
      BY <3>2, FS_Union
    <3>6. IsFiniteSet(A \cap B) /\ IsFiniteSet(Stoppers(u)')
          /\ Cardinality(Stoppers(u)') <= Cardinality(A \cup B)
      BY <3>1, <3>2, <3>5, FS_Subset, FS_Intersection
    <3>7. /\ Cardinality(A) \in Nat /\ Cardinality(B) \in Nat /\ Cardinality(A \cap B) \in Nat
          /\ Cardinality(Stoppers(u)') \in Nat
      BY <3>2, <3>6, FS_CardinalityType
    <3>8. QED BY <3>3, <3>4, <3>5, <3>6, <3>7
  <2>3. QED BY <2>1, <2>2
<1>4. ASSUME NEW v \in Threads, NEW x \in Users, NEW e \in CPUs \cup {NULL},
             after'[v] = AffinityCall(x, e), waitFor'[v] # NULL
      PROVE  waitFor'[v] = x /\ request'[v] = "STOP"
  BY <1>1, <1>4 DEF IInv, StopInv
<1>5. QED BY <1>3, <1>4 DEF StopInv

LEMMA ServeReady ==
  ASSUME IInv, NEW c \in CPUs, NEW t \in Threads, t = running[c], StatusChangeCur(c),
         pending[t] # << >>
  PROVE  ReadyThreads' = ReadyServed(c)
<1>1. /\ \A r \in Requests : nest'[r][t] = nest[r][t] + Cardinality(AskersOf(t, r))
      /\ \A r \in Requests, v \in Threads \ {t} : nest'[r][v] = nest[r][v]
      /\ \A v \in Threads :
           /\ waitFor[v] = t => waitFor'[v] = NULL /\ request'[v] = NULL
           /\ waitFor[v] # t => waitFor'[v] = waitFor[v] /\ request'[v] = request[v]
      /\ pend' = pend
  BY ServeCounts
<1>2. "STOP" \in Requests /\ "SUSPEND" \in Requests /\ t # NULL
      /\ waitFor \in [Threads -> Threads \cup {NULL}]
  BY StateTypes, CandTableAssumption DEF Requests
<1>3. ~Ready(t)'
  <2>1. PICK u \in Askers(t) : request[u] \in Requests
    BY AskersAre
  <2>2. u \in AskersOf(t, request[u])
    BY DEF Askers, AskersOf
  <2>3. PICK r \in Requests : r = request[u]
    BY <2>1
  <2>4. Cardinality(AskersOf(t, r)) \in Nat /\ Cardinality(AskersOf(t, r)) # 0
    <3>1. IsFiniteSet(AskersOf(t, r)) /\ Cardinality(AskersOf(t, r)) \in Nat
      BY AskersAre
    <3>2. AskersOf(t, r) # {}
      BY <2>2, <2>3
    <3>3. QED BY <3>1, <3>2, FS_EmptySet
  <2>5. nest[r][t] \in Nat
    BY StateTypes, SchedulerAssumption
  <2>6. nest'[r][t] # 0
    BY <1>1, <2>4, <2>5
  <2>7. QED BY <2>6 DEF Ready, ReadyWith, Requests
<1>4. \A u \in Range(pending[t]) : u \in Threads /\ waitFor[u] = t /\ u # t /\ ~Ready(u)
  BY AskersAre DEF Askers
<1>5. ASSUME NEW u \in Range(pending[t]) PROVE Ready(u)' <=> Wakeable(u)
  <2>1. waitFor'[u] = NULL /\ [waitFor EXCEPT ![u] = NULL][u] = NULL /\ u \in Threads \ {t}
    BY <1>1, <1>2, <1>4
  <2>2. QED BY <1>1, <1>2, <2>1 DEF Ready, ReadyWith, Wakeable
<1>6. ASSUME NEW u \in Threads \ {t}, u \notin Range(pending[t]) PROVE Ready(u)' <=> Ready(u)
  <2>1. waitFor[u] # t
    BY <1>6, AskersAre DEF Askers
  <2>2. QED BY <1>1, <1>2, <2>1 DEF Ready, ReadyWith
<1>7. QED BY <1>3, <1>4, <1>5, <1>6 DEF ReadyThreads, ReadyServed

\* The requests to the thread on c have been served, if they may be.
LEMMA ServedIs ==
  ASSUME IInv, NEW c \in CPUs, c \in tab.active, Serve(c), after' = after,
         NEW t \in Threads, t = running[c]
  PROVE  /\ Sound(Served(c), ReadyThreads') /\ Kept(tab, Served(c), {c})
         /\ ListsInv' /\ StopInv' /\ pend' \subseteq Threads
         /\ nest' \in [Requests -> [Threads -> 0..MaxNest]]
         /\ waitFor' \in [Threads -> Threads \cup {NULL}]
         /\ request' \in [Threads -> Requests \cup {NULL}]
         /\ pending' \in [Threads -> Seq(Threads)]
         /\ pending'[t] = << >> \/ lock[t] > 0
         /\ \A v \in Threads \ {t} : pending'[v] = pending[v]
         /\ lock[t] > 0 => Served(c) = tab /\ UNCHANGED << pend, nest, waitFor >>
         /\ TellsToo(tab, ReadyThreads, Served(c), ReadyThreads')
<1>1. Sound(tab, ReadyThreads) /\ lock[t] \in Nat
  BY StateTypes, SchedulerAssumption
<1>2. CASE MustServe(c)
  <2>1. SMP_EN /\ pending[t] # << >> /\ lock[t] = 0 /\ StatusChangeCur(c) /\ Served(c) = TableServed(c)
    BY <1>2 DEF MustServe, Serve, Served
  <2>2. ReadyThreads' = ReadyServed(c)
    BY <2>1, ServeReady
  <2>3. t \in Users /\ pending[t] \in Seq(Users) /\ IsInjective(pending[t])
        /\ \A u \in Range(pending[t]) : ~Ready(u)
    BY <2>1, AskersAre
  <2>4. /\ Sound(TableServed(c), ReadyServed(c))
        /\ Kept(tab, TableServed(c), IF t \in tab.isCand THEN {tab.cpuId[t]} ELSE {})
        /\ TellsToo(tab, ReadyThreads, TableServed(c), ReadyServed(c))
    BY <2>1, <2>3, TableServedIs DEF IInv
  <2>5. t \in tab.isCand => tab.cpuId[t] = c
    <3>1. running[c] = tab.cand[c] \/ running[c] \notin tab.isCand
      BY <2>1 DEF IInv, RunsInv
    <3>2. QED BY <1>1, <3>1, CandIs
  <2>6. Kept(tab, TableServed(c), {c})
    BY <2>4, <2>5 DEF Kept
  <2>7. ListsInv' /\ StopInv'
    BY <2>1, ServeLists, ServeStop
  <2>8. /\ nest' \in [Requests -> [Threads -> 0..MaxNest]]
        /\ waitFor' \in [Threads -> Threads \cup {NULL}]
        /\ request' \in [Threads -> Requests \cup {NULL}]
        /\ pending' \in [Threads -> Seq(Threads)] /\ pending'[t] = << >>
        /\ \A v \in Threads \ {t} : pending'[v] = pending[v]
        /\ pend' = pend
    BY <2>1, ServeCounts
  <2>9. pend' \subseteq Threads
    BY <2>8, StateTypes
  <2>10. QED BY <2>1, <2>2, <2>4, <2>6, <2>7, <2>8, <2>9
<1>3. CASE ~MustServe(c)
  <2>1. UNCHANGED << pend, nest, waitFor, request, pending >> /\ Served(c) = tab
    BY <1>3 DEF Serve, Served, svars
  <2>2. ReadyThreads' = ReadyThreads
    BY <2>1, SameReady
  <2>3. Kept(tab, Served(c), {c})
    BY <2>1 DEF Kept
  <2>4. ListsInv' /\ StopInv'
    BY <2>1, ListsSame, StopSame
  <2>5. pending[t] = << >> \/ lock[t] > 0
    BY <1>1, <1>3, AskersAre DEF MustServe
  <2>6. /\ pend' \subseteq Threads
        /\ nest' \in [Requests -> [Threads -> 0..MaxNest]]
        /\ waitFor' \in [Threads -> Threads \cup {NULL}]
        /\ request' \in [Threads -> Requests \cup {NULL}]
        /\ pending' \in [Threads -> Seq(Threads)]
    BY <2>1, StateTypes
  <2>7. Sound(Served(c), ReadyThreads') /\ TellsToo(tab, ReadyThreads, Served(c), ReadyThreads')
    BY <1>1, <2>1, <2>2 DEF TellsToo
  <2>8. QED BY <2>1, <2>3, <2>4, <2>5, <2>6, <2>7
<1>4. QED BY <1>2, <1>3

LEMMA IpiServedIs ==
  ASSUME NEW c \in CPUs, NEW i \in [CPUs -> SUBSET {"SCHED", "STATUS_REQ", "DOWN"}]
  PROVE  /\ IpiServed(i, c) \in [CPUs -> SUBSET {"SCHED", "STATUS_REQ", "DOWN"}]
         /\ \A d \in CPUs : "DOWN" \in IpiServed(i, c)[d] <=> "DOWN" \in i[d]
<1>1. CASE MustServe(c)
  <2>1. IpiServed(i, c) = [i EXCEPT ![c] = @ \ {"STATUS_REQ"}]
    BY <1>1 DEF IpiServed
  <2>2. QED BY <2>1
<1>2. CASE ~MustServe(c)
  BY <1>2 DEF IpiServed
<1>3. QED BY <1>1, <1>2

\* What c leaves the kernel or an interrupt with: it goes down, ...
WentDown(c) ==
  /\ Sound(tab', ReadyThreads') /\ tab'.active = tab.active \ {c} /\ tab'.cpuLock = tab.cpuLock
  /\ \A d \in CPUs \ {c} : tab'.cand[d] = tab.cand[d]
  /\ c # 0 /\ running' = [running EXCEPT ![c] = NULL]
  /\ irq' \subseteq CPUs /\ irq \ {c} \subseteq irq'
  /\ ipi' \in [CPUs -> SUBSET {"SCHED", "STATUS_REQ", "DOWN"}]
  /\ "DOWN" \notin ipi'[c]
  /\ \A d \in CPUs \ {c} : "DOWN" \in ipi'[d] <=> "DOWN" \in ipi[d]

\* ... or it runs its candidate, or the thread that has locked the scheduler.
WentOn(c, next) ==
  /\ Sound(tab', ReadyThreads') /\ Kept(tab, tab', {c})
  /\ next \in Threads /\ running' = [running EXCEPT ![c] = next]
  /\ \/ next = tab'.cand[c]
     \/ next = running[c] /\ lock[next] > 0 /\ Ready(next)' /\ tab'.cand = tab.cand
  /\ irq' \subseteq CPUs /\ irq \subseteq irq'
  /\ ipi' \in [CPUs -> SUBSET {"SCHED", "STATUS_REQ", "DOWN"}]
  /\ \A d \in CPUs : "DOWN" \in ipi'[d] <=> "DOWN" \in ipi[d]

LEMMA SendIs ==
  ASSUME NEW i \in [CPUs -> SUBSET {"SCHED", "STATUS_REQ", "DOWN"}], NEW to
  PROVE  /\ SendSched(i, to) \in [CPUs -> SUBSET {"SCHED", "STATUS_REQ", "DOWN"}]
         /\ \A d \in CPUs : "DOWN" \in SendSched(i, to)[d] <=> "DOWN" \in i[d]
  BY DEF SendSched

LEMMA GoDownIs ==
  ASSUME IInv, NEW c \in CPUs, c \in tab.active, NEW s, Sound(s, ReadyThreads'), Kept(tab, s, {c}),
         NEW i \in [CPUs -> SUBSET {"SCHED", "STATUS_REQ", "DOWN"}],
         \A d \in CPUs : "DOWN" \in i[d] <=> "DOWN" \in ipi[d], "DOWN" \in i[c], GoDown(c, s, i)
  PROVE  WentDown(c)
<1>1. PICK s1 : s1 = CpuInactive(s, c)
  OBVIOUS
<1>2. PICK to : to = SmpNotify(s1, c)
  OBVIOUS
<1>3. /\ tab' = s1 /\ running' = [running EXCEPT ![c] = NULL]
      /\ ipi' = [SendSched(i, to) EXCEPT ![c] = {}] /\ irq' = (irq \cup to) \ {c}
  BY <1>1, <1>2 DEF GoDown
<1>4. c # 0 /\ \A t \in Threads : tab.cpuLock[t] # c
  BY DEF IInv, DownInv
<1>5. s.active = tab.active /\ s.cpuLock = tab.cpuLock
      /\ \A d \in CPUs \ {c} : s.cand[d] = tab.cand[d]
  BY DEF Kept
<1>6. PICK R : R = ReadyThreads'
  OBVIOUS
<1>7. /\ Sound(s1, R) /\ s1.active = s.active \ {c} /\ s1.cpuLock = s.cpuLock
      /\ s1.cand = [s.cand EXCEPT ![c] = NULL]
  BY <1>1, <1>4, <1>5, <1>6, CpuInactiveIs
<1>8. TableType(s) /\ s1.active \subseteq CPUs
  BY <1>7, TableFields DEF Sound, TableExact
<1>9. \A d \in CPUs \ {c} : s1.cand[d] = tab.cand[d]
  BY <1>5, <1>7, <1>8, TableFields
<1>10. to \subseteq CPUs
  BY <1>2, <1>8 DEF SmpNotify
<1>11. irq' \subseteq CPUs /\ irq \ {c} \subseteq irq'
  BY <1>3, <1>10, StateTypes
<1>12. /\ SendSched(i, to) \in [CPUs -> SUBSET {"SCHED", "STATUS_REQ", "DOWN"}]
       /\ \A d \in CPUs : "DOWN" \in SendSched(i, to)[d] <=> "DOWN" \in i[d]
  BY SendIs
<1>13. /\ ipi' \in [CPUs -> SUBSET {"SCHED", "STATUS_REQ", "DOWN"}] /\ "DOWN" \notin ipi'[c]
       /\ \A d \in CPUs \ {c} : "DOWN" \in ipi'[d] <=> "DOWN" \in ipi[d]
  BY <1>3, <1>12
<1>14. QED BY <1>3, <1>4, <1>5, <1>6, <1>7, <1>9, <1>11, <1>13 DEF WentDown

LEMMA SwitchIs ==
  ASSUME IInv, NEW c \in CPUs, c \in tab.active, NEW t \in Threads, t = running[c],
         NEW s, Sound(s, ReadyThreads'), Kept(tab, s, {c}), lock[t] > 0 => s = tab,
         NEW i \in [CPUs -> SUBSET {"SCHED", "STATUS_REQ", "DOWN"}],
         \A d \in CPUs : "DOWN" \in i[d] <=> "DOWN" \in ipi[d], Switch(c, s, i)
  PROVE  WentDown(c) \/ \E next : WentOn(c, next)
<1>1. PICK stays : stays \in BOOLEAN /\ (stays <=> lock[t] > 0 /\ ReadyWith(t, pend', nest', waitFor'))
  <2>1. (lock[t] > 0 /\ ReadyWith(t, pend', nest', waitFor')) \in BOOLEAN
    BY DEF ReadyWith
  <2>2. QED BY <2>1
<1>2. PICK s1 : s1 = IF ~stays /\ s.rot[c] THEN CandTableUpdate(s, c) ELSE s
  OBVIOUS
<1>3. PICK next : next = IF stays THEN t ELSE s1.cand[c]
  OBVIOUS
<1>4. PICK to : to = SmpNotify(s1, c)
  OBVIOUS
<1>5. IF next # t /\ "DOWN" \in i[c] THEN GoDown(c, s1, i)
      ELSE /\ tab' = s1
           /\ running' = [running EXCEPT ![c] = next]
           /\ ipi' = SendSched(i, to)
           /\ irq' = irq \cup to
  BY <1>1, <1>2, <1>3, <1>4 DEF Switch
<1>6. PICK R : R = ReadyThreads'
  OBVIOUS
<1>7. s.active = tab.active
  BY DEF Kept
<1>8. Sound(s1, R) /\ Kept(tab, s1, {c}) /\ (stays => s1 = tab)
  <2>1. CASE ~stays /\ s.rot[c]
    <3>1. s1 = CandTableUpdate(s, c)
      BY <1>2, <2>1
    <3>2. Sound(s1, R) /\ Kept(s, s1, {c})
      BY <1>6, <1>7, <3>1, UpdateIs
    <3>3. QED BY <2>1, <3>2 DEF Kept
  <2>2. CASE ~(~stays /\ s.rot[c])
    <3>1. s1 = s
      BY <1>2, <2>2
    <3>2. stays => s = tab
      BY <1>1
    <3>3. QED BY <1>6, <3>1, <3>2
  <2>3. QED BY <2>1, <2>2
<1>9. CASE next # t /\ "DOWN" \in i[c]
  <2>1. GoDown(c, s1, i)
    BY <1>5, <1>9
  <2>2. Sound(s1, ReadyThreads')
    BY <1>6, <1>8
  <2>3. WentDown(c)
    BY <1>8, <1>9, <2>1, <2>2, GoDownIs
  <2>4. QED BY <2>3
<1>10. CASE ~(next # t /\ "DOWN" \in i[c])
  <2>1. /\ tab' = s1 /\ running' = [running EXCEPT ![c] = next]
        /\ ipi' = SendSched(i, to) /\ irq' = irq \cup to
    BY <1>5, <1>10
  <2>2. Sound(tab', ReadyThreads') /\ Kept(tab, tab', {c})
    BY <1>6, <1>8, <2>1
  <2>3. s1.active \subseteq CPUs /\ s1.cand[c] \in Threads
    <3>1. s1.active = tab.active
      BY <1>8 DEF Kept
    <3>2. QED BY <1>8, <3>1, CandIs
  <2>4. to \subseteq CPUs
    BY <1>4, <2>3 DEF SmpNotify
  <2>5. irq' \subseteq CPUs /\ irq \subseteq irq'
    BY <2>1, <2>4, StateTypes
  <2>6. /\ ipi' \in [CPUs -> SUBSET {"SCHED", "STATUS_REQ", "DOWN"}]
        /\ \A d \in CPUs : "DOWN" \in ipi'[d] <=> "DOWN" \in ipi[d]
    BY <2>1, SendIs
  <2>7. next \in Threads
    BY <1>3, <2>3
  <2>8. \/ next = tab'.cand[c]
        \/ next = running[c] /\ lock[next] > 0 /\ Ready(next)' /\ tab'.cand = tab.cand
    <3>1. CASE ~stays
      BY <1>3, <2>1, <3>1
    <3>2. CASE stays
      <4>1. next = t /\ lock[t] > 0 /\ ReadyWith(t, pend', nest', waitFor')
        BY <1>1, <1>3, <3>2
      <4>2. Ready(t)'
        BY <4>1 DEF Ready
      <4>3. tab' = tab
        BY <1>8, <2>1, <3>2
      <4>4. QED BY <4>1, <4>2, <4>3
    <3>3. QED BY <1>1, <3>1, <3>2
  <2>9. WentOn(c, next)
    BY <2>1, <2>2, <2>5, <2>6, <2>7, <2>8 DEF WentOn
  <2>10. QED BY <2>9
<1>11. QED BY <1>9, <1>10

\* Does c leave the kernel, or an interrupt that it has not come to in the kernel?
Leaves(c) ==
  /\ (kernel = c /\ c \notin isr) \/ (kernel = NULL /\ c \in isr)
  /\ kernel' = NULL /\ isr' = isr \ {c} /\ UNCHANGED << booting, lock, after >>

LEMMA LeaverIs ==
  ASSUME IInv, NEW c \in CPUs, Leaves(c)
  PROVE  /\ c \in tab.active /\ running[c] \in Threads
         /\ SMP_EN => \A d \in tab.active \ {c} : running[d] = tab.cand[d]
         /\ SMP_EN /\ lock[running[c]] > 0 /\ Ready(running[c]) => running[c] = tab.cand[c]
         /\ \A d \in tab.active : d # c => running[d] # running[c] \/ ~SMP_EN
         /\ ~SMP_EN => tab.active \subseteq {c}
<1>1. c # NULL /\ c \in tab.active
  BY CandTableAssumption DEF IInv, PlacesInv, Leaves
<1>2. running[c] \in Threads /\ tab.active \subseteq CPUs
  BY <1>1, StateTypes, CandIs DEF IInv, PlacesInv
<1>3. \A d \in CPUs : d # NULL
  BY CandTableAssumption
<1>4. ASSUME SMP_EN, NEW d \in tab.active \ {c} PROVE running[d] = tab.cand[d]
  <2>1. kernel # d
    BY <1>2, <1>3 DEF Leaves
  <2>2. QED BY <1>4, <2>1 DEF IInv, RunsInv
<1>5. ASSUME SMP_EN, lock[running[c]] > 0, Ready(running[c]) PROVE running[c] = tab.cand[c]
  <2>1. lock[running[c]] # 0 /\ waitFor[running[c]] = NULL
    BY <1>5 DEF Ready, ReadyWith
  <2>2. QED BY <1>1, <1>5, <2>1 DEF IInv, RunsInv
<1>6. ASSUME SMP_EN, NEW d \in tab.active, d # c PROVE running[d] # running[c]
  <2>1. running[d] = tab.cand[d] /\ tab.cand[d] \in tab.isCand
    BY <1>4, <1>6, StateTypes, CandIs
  <2>2. running[c] = tab.cand[c] \/ running[c] \notin tab.isCand
    BY <1>1, <1>6 DEF IInv, RunsInv
  <2>3. QED BY <1>1, <1>6, <2>1, <2>2, StateTypes, CandIs
<1>7. ~SMP_EN => tab.active \subseteq {c}
  BY <1>2, CandTableAssumption
<1>8. QED BY <1>1, <1>2, <1>4, <1>5, <1>6, <1>7

LEMMA WentDownKeeps ==
  ASSUME IInv, NEW c \in CPUs, Leaves(c), Serve(c), WentDown(c)
  PROVE  IInv'
<1> DEFINE t == running[c]
<1>1. /\ c \in tab.active /\ t \in Threads
      /\ SMP_EN => \A d \in tab.active \ {c} : running[d] = tab.cand[d]
      /\ \A d \in tab.active : d # c => running[d] # t \/ ~SMP_EN
  BY LeaverIs
<1>2. SMP_EN
  BY CandTableAssumption DEF WentDown
<1>3. kernel' = NULL /\ isr' = isr \ {c} /\ UNCHANGED << booting, lock, after >> /\ kernel \in {c, NULL}
  BY DEF Leaves
<1>4. /\ Sound(tab', ReadyThreads') /\ tab'.active = tab.active \ {c} /\ tab'.cpuLock = tab.cpuLock
      /\ \A d \in CPUs \ {c} : tab'.cand[d] = tab.cand[d]
      /\ c # 0 /\ running' = [running EXCEPT ![c] = NULL]
      /\ irq' \subseteq CPUs /\ irq \ {c} \subseteq irq'
      /\ ipi' \in [CPUs -> SUBSET {"SCHED", "STATUS_REQ", "DOWN"}]
      /\ "DOWN" \notin ipi'[c]
      /\ \A d \in CPUs \ {c} : "DOWN" \in ipi'[d] <=> "DOWN" \in ipi[d]
  BY DEF WentDown
<1>5. /\ ListsInv' /\ StopInv' /\ pend' \subseteq Threads
      /\ nest' \in [Requests -> [Threads -> 0..MaxNest]]
      /\ waitFor' \in [Threads -> Threads \cup {NULL}]
      /\ request' \in [Threads -> Requests \cup {NULL}]
      /\ pending' \in [Threads -> Seq(Threads)]
      /\ pending'[t] = << >> \/ lock[t] > 0
      /\ \A v \in Threads \ {t} : pending'[v] = pending[v]
  BY <1>1, <1>3, ServedIs
<1>6. running \in [CPUs -> Threads \cup {NULL}] /\ tab.active \subseteq CPUs /\ \A d \in CPUs : d # NULL
  BY StateTypes, CandIs, CandTableAssumption
<1> HIDE DEF t
<1>7. TableInv' /\ TableType(tab)'
  BY <1>4 DEF TableInv, Sound, TableExact
<1>8. /\ running' \in [CPUs -> Threads \cup {NULL}] /\ running'[c] = NULL
      /\ \A d \in CPUs \ {c} : running'[d] = running[d]
  BY <1>4, <1>6
<1>9. TypeInv'
  <2>1. irq' \subseteq CPUs /\ isr' \subseteq CPUs /\ booting' \subseteq CPUs
    BY <1>3, <1>4, StateTypes
  <2>2. QED BY <1>3, <1>4, <1>5, <1>7, <1>8, <2>1, StateTypes DEF TypeInv, TypeOK, AfterOK
<1>10. PlacesInv'
  BY <1>3, <1>4, <1>6, <1>8 DEF IInv, PlacesInv
<1>11. DownInv'
  <2>1. c \notin booting
    BY <1>1 DEF IInv, PlacesInv
  <2>2. QED BY <1>3, <1>4, <2>1 DEF IInv, DownInv
<1>12. RunsInv'
  BY <1>1, <1>2, <1>4, <1>6, <1>8 DEF RunsInv
<1>13. RunsInvUp'
  BY <1>2 DEF RunsInvUp
<1>14. \A d \in tab.active \ {c} : AboutToSchedule(d) => AboutToSchedule(d)'
  BY <1>3, <1>6, <1>8 DEF AboutToSchedule
<1>15. \A d \in tab.active \ {c} : running[d] \in Threads \ {t}
  BY <1>1, <1>2, <1>6 DEF IInv, PlacesInv
<1>16. AskedInv'
  <2>1. ASSUME NEW u \in Threads, pending'[u] # << >>
        PROVE  lock'[u] > 0 \/ \E e \in tab'.active : running'[e] = u
    <3>1. CASE u = t
      BY <1>3, <1>5, <2>1, <3>1
    <3>2. CASE u # t
      <4>1. lock[u] > 0 \/ \E e \in tab.active : running[e] = u
        BY <1>5, <2>1, <3>2 DEF IInv, AskedInv
      <4>2. CASE lock[u] > 0
        BY <1>3, <4>2
      <4>3. CASE \E e \in tab.active : running[e] = u
        BY <1>4, <1>6, <1>8, <3>2, <4>3 DEF t
      <4>4. QED BY <4>1, <4>2, <4>3
    <3>3. QED BY <3>1, <3>2
  <2>2. ASSUME NEW e \in tab'.active, pending'[running'[e]] # << >>
        PROVE  AboutToSchedule(e)' \/ e \in irq' \/ lock'[running'[e]] > 0
    <3>1. e \in tab.active \ {c} /\ running'[e] = running[e]
      BY <1>4, <1>6, <1>8
    <3>2. pending[running[e]] # << >>
      BY <1>5, <1>15, <2>2, <3>1
    <3>3. AboutToSchedule(e) \/ e \in irq \/ lock[running[e]] > 0
      BY <3>1, <3>2 DEF IInv, AskedInv
    <3>4. QED BY <1>3, <1>4, <1>14, <3>1, <3>3
  <2>3. QED BY <2>1, <2>2 DEF AskedInv
<1>17. QED BY <1>5, <1>7, <1>9, <1>10, <1>11, <1>12, <1>13, <1>16 DEF IInv

LEMMA WentOnKeeps ==
  ASSUME IInv, NEW c \in CPUs, Leaves(c), Serve(c), NEW next, WentOn(c, next)
  PROVE  IInv'
<1> DEFINE t == running[c]
<1>1. /\ c \in tab.active /\ t \in Threads
      /\ SMP_EN => \A d \in tab.active \ {c} : running[d] = tab.cand[d]
      /\ SMP_EN /\ lock[t] > 0 /\ Ready(t) => t = tab.cand[c]
      /\ \A d \in tab.active : d # c => running[d] # t \/ ~SMP_EN
      /\ ~SMP_EN => tab.active \subseteq {c}
  BY LeaverIs
<1>2. kernel' = NULL /\ isr' = isr \ {c} /\ UNCHANGED << booting, lock, after >> /\ kernel \in {c, NULL}
  BY DEF Leaves
<1>3. /\ Sound(tab', ReadyThreads') /\ Kept(tab, tab', {c})
      /\ next \in Threads /\ running' = [running EXCEPT ![c] = next]
      /\ \/ next = tab'.cand[c]
         \/ next = t /\ lock[next] > 0 /\ Ready(next)' /\ tab'.cand = tab.cand
      /\ irq' \subseteq CPUs /\ irq \subseteq irq'
      /\ ipi' \in [CPUs -> SUBSET {"SCHED", "STATUS_REQ", "DOWN"}]
      /\ \A d \in CPUs : "DOWN" \in ipi'[d] <=> "DOWN" \in ipi[d]
  BY DEF WentOn
<1>4. /\ ListsInv' /\ StopInv' /\ pend' \subseteq Threads
      /\ nest' \in [Requests -> [Threads -> 0..MaxNest]]
      /\ waitFor' \in [Threads -> Threads \cup {NULL}]
      /\ request' \in [Threads -> Requests \cup {NULL}]
      /\ pending' \in [Threads -> Seq(Threads)]
      /\ pending'[t] = << >> \/ lock[t] > 0
      /\ \A v \in Threads \ {t} : pending'[v] = pending[v]
      /\ lock[t] > 0 => UNCHANGED << pend, nest, waitFor >>
  BY <1>1, <1>2, ServedIs
<1>5. running \in [CPUs -> Threads \cup {NULL}] /\ tab.active \subseteq CPUs
      /\ NULL \notin CPUs \cup Threads
  BY StateTypes, CandIs, CandTableAssumption
<1> HIDE DEF t
<1>6. /\ TableInv' /\ TableType(tab)' /\ tab'.active = tab.active /\ tab'.cpuLock = tab.cpuLock
      /\ \A d \in CPUs \ {c} : tab'.cand[d] = tab.cand[d]
  BY <1>3 DEF TableInv, Sound, TableExact, Kept
<1>7. /\ running' \in [CPUs -> Threads \cup {NULL}] /\ running'[c] = next
      /\ \A d \in CPUs \ {c} : running'[d] = running[d]
  BY <1>3, <1>5
<1>8. TypeInv'
  <2>1. irq' \subseteq CPUs /\ isr' \subseteq CPUs /\ booting' \subseteq CPUs
    BY <1>2, <1>3, StateTypes
  <2>2. QED BY <1>2, <1>3, <1>4, <1>5, <1>6, <1>7, <2>1, StateTypes DEF TypeInv, TypeOK, AfterOK
<1>9. PlacesInv'
  BY <1>1, <1>2, <1>3, <1>5, <1>6, <1>7 DEF IInv, PlacesInv
<1>10. DownInv'
  BY <1>2, <1>3, <1>6, DownSame
<1>11. SMP_EN => next = tab'.cand[c]
  <2>1. SUFFICES ASSUME SMP_EN, next = t, lock[next] > 0, Ready(next)', tab'.cand = tab.cand
                 PROVE  next = tab'.cand[c]
    BY <1>3
  <2>2. UNCHANGED << pend, nest, waitFor >>
    BY <1>4, <2>1
  <2>3. Ready(next)
    BY <2>1, <2>2 DEF Ready, ReadyWith
  <2>4. QED BY <1>1, <2>1, <2>3
<1>12. RunsInv'
  BY <1>1, <1>5, <1>6, <1>7, <1>11 DEF RunsInv
<1>13. RunsInvUp'
  <2>1. SUFFICES ASSUME ~SMP_EN
                 PROVE  Ready(next)' /\ (next = tab'.cand[c] \/ lock'[next] > 0)
    BY <1>1, <1>6, <1>7 DEF RunsInvUp
  <2>2. CASE next = tab'.cand[c]
    <3>1. next \in ReadyThreads'
      BY <1>1, <1>3, <1>6, <2>2, CandIs
    <3>2. Ready(next)'
      BY <3>1 DEF ReadyThreads
    <3>3. QED BY <2>2, <3>2
  <2>3. QED BY <1>2, <1>3, <2>2
<1>14. \A d \in tab.active \ {c} : AboutToSchedule(d) => AboutToSchedule(d)'
  BY <1>2, <1>5, <1>7 DEF AboutToSchedule
<1>15. \A d \in tab.active \ {c} : running[d] \in Threads \ {t}
  BY <1>1, <1>5 DEF IInv, PlacesInv
<1>16. \A v \in Threads \ {t} : pending'[v] # << >> => SMP_EN
  BY <1>4, AskersAre
<1>17. ASSUME NEW u \in Threads \ {t}, pending'[u] # << >>
       PROVE  lock[u] > 0 \/ \E e \in tab.active \ {c} : running[e] = u
  <2>1. pending[u] # << >>
    BY <1>4, <1>17
  <2>2. lock[u] > 0 \/ \E e \in tab.active : running[e] = u
    BY <2>1 DEF IInv, AskedInv
  <2>3. QED BY <2>2 DEF t
<1>18. AskedInv'
  <2>1. ASSUME NEW u \in Threads, pending'[u] # << >>
        PROVE  lock'[u] > 0 \/ \E e \in tab'.active : running'[e] = u
    <3>1. CASE u = t
      BY <1>2, <1>4, <2>1, <3>1
    <3>2. CASE u # t
      BY <1>2, <1>5, <1>6, <1>7, <1>17, <2>1, <3>2
    <3>3. QED BY <3>1, <3>2
  <2>2. ASSUME NEW e \in tab'.active, pending'[running'[e]] # << >>
        PROVE  AboutToSchedule(e)' \/ e \in irq' \/ lock'[running'[e]] > 0
    <3>1. CASE e # c
      <4>1. e \in tab.active \ {c} /\ running'[e] = running[e]
        BY <1>5, <1>6, <1>7, <3>1
      <4>2. pending[running[e]] # << >>
        BY <1>4, <1>15, <2>2, <4>1
      <4>3. AboutToSchedule(e) \/ e \in irq \/ lock[running[e]] > 0
        BY <4>1, <4>2 DEF IInv, AskedInv
      <4>4. QED BY <1>2, <1>3, <1>14, <4>1, <4>3
    <3>2. CASE e = c
      <4>1. pending'[next] # << >>
        BY <1>7, <2>2, <3>2
      <4>2. CASE next = t
        BY <1>2, <1>4, <1>7, <3>2, <4>1, <4>2
      <4>3. CASE next # t
        <5>1. SUFFICES ASSUME NEW f \in tab.active \ {c}, running[f] = next PROVE FALSE
          BY <1>2, <1>3, <1>7, <1>17, <3>2, <4>1, <4>3
        <5>2. SMP_EN
          BY <1>3, <1>16, <4>1, <4>3
        <5>3. next = tab'.cand[c] /\ tab'.cand[f] = next
          BY <1>1, <1>5, <1>6, <1>11, <5>1, <5>2
        <5>4. QED BY <1>1, <1>3, <1>6, <5>1, <5>3, CandIs
      <4>4. QED BY <4>2, <4>3
    <3>3. QED BY <3>1, <3>2
  <2>3. QED BY <2>1, <2>2 DEF AskedInv
<1>19. QED BY <1>4, <1>6, <1>8, <1>9, <1>10, <1>12, <1>13, <1>18 DEF IInv

LEMMA LeaverSwitches ==
  ASSUME IInv, NEW c \in CPUs, Leaves(c), Serve(c),
         NEW i \in [CPUs -> SUBSET {"SCHED", "STATUS_REQ", "DOWN"}],
         \A d \in CPUs : "DOWN" \in i[d] <=> "DOWN" \in ipi[d],
         Switch(c, Served(c), i) \/ ("DOWN" \in i[c] /\ GoDown(c, Served(c), i))
  PROVE  IInv'
<1>1. PICK t \in Threads : t = running[c]
  BY LeaverIs
<1>2. c \in tab.active /\ after' = after
  BY LeaverIs DEF Leaves
<1>3. PICK s : s = Served(c)
  OBVIOUS
<1>4. Sound(s, ReadyThreads') /\ Kept(tab, s, {c}) /\ (lock[t] > 0 => s = tab)
  BY <1>1, <1>2, <1>3, ServedIs
<1>5. Switch(c, s, i) \/ ("DOWN" \in i[c] /\ GoDown(c, s, i))
  BY <1>3
<1>6. WentDown(c) \/ \E next : WentOn(c, next)
  <2>1. CASE Switch(c, s, i)
    BY <1>1, <1>2, <1>4, <2>1, SwitchIs
  <2>2. CASE "DOWN" \in i[c] /\ GoDown(c, s, i)
    BY <1>2, <1>4, <2>2, GoDownIs
  <2>3. QED BY <1>5, <2>1, <2>2
<1>7. QED BY <1>6, WentDownKeeps, WentOnKeeps

LEMMA KernelExitKeeps ==
  ASSUME IInv, NEW c \in CPUs, KernelExit(c)
  PROVE  IInv'
<1>1. /\ kernel = c /\ c \notin isr /\ kernel' = NULL /\ Serve(c)
      /\ Switch(c, Served(c), IpiServed(ipi, c))
      /\ UNCHANGED << isr, booting, lock, after >>
  BY DEF KernelExit
<1>2. Leaves(c)
  <2>1. isr \ {c} = isr
    BY <1>1
  <2>2. kernel' = NULL /\ isr' = isr \ {c} /\ UNCHANGED << booting, lock, after >>
    BY <1>1, <2>1
  <2>3. QED BY <1>1, <2>2 DEF Leaves
<1>3. PICK i : i = IpiServed(ipi, c)
  OBVIOUS
<1>4. /\ i \in [CPUs -> SUBSET {"SCHED", "STATUS_REQ", "DOWN"}]
      /\ \A d \in CPUs : "DOWN" \in i[d] <=> "DOWN" \in ipi[d]
  BY <1>3, StateTypes, IpiServedIs
<1>5. Switch(c, Served(c), i)
  BY <1>1, <1>3
<1>6. QED BY <1>1, <1>2, <1>4, <1>5, LeaverSwitches

LEMMA NestedKeeps ==
  ASSUME IInv, NEW c \in CPUs, c \in isr, isr' = isr \ {c}, InterExitNested(c),
         UNCHANGED << kernel, booting, lock, after >>
  PROVE  IInv'
<1>1. PICK to : to = SmpNotify(tab, c)
  OBVIOUS
<1>2. /\ kernel = c /\ ipi' = [SendSched(ipi, to) EXCEPT ![c] = @ \ {"SCHED"}]
      /\ irq' = irq \cup to /\ UNCHANGED << tab, running, svars >>
  BY <1>1 DEF InterExitNested
<1>3. UNCHANGED << pend, nest, waitFor, request, pending >>
  BY <1>2 DEF svars
<1>4. TableInv' /\ ListsInv' /\ StopInv'
  BY <1>2, <1>3, SameReady, ListsSame, StopSame DEF IInv, TableInv
<1>5. to \subseteq CPUs
  BY <1>1, StateTypes, CandIs DEF SmpNotify
<1>6. /\ SendSched(ipi, to) \in [CPUs -> SUBSET {"SCHED", "STATUS_REQ", "DOWN"}]
      /\ \A d \in CPUs : "DOWN" \in SendSched(ipi, to)[d] <=> "DOWN" \in ipi[d]
  BY StateTypes, SendIs
<1>7. /\ ipi' \in [CPUs -> SUBSET {"SCHED", "STATUS_REQ", "DOWN"}]
      /\ \A d \in CPUs : "DOWN" \in ipi'[d] <=> "DOWN" \in ipi[d]
  BY <1>2, <1>6
<1>8. irq' \subseteq CPUs /\ isr' \subseteq CPUs
  BY <1>2, <1>5, StateTypes
<1>9. TypeInv'
  BY <1>2, <1>3, <1>7, <1>8, StateTypes DEF TypeInv, TypeOK, AfterOK
<1>10. PlacesInv'
  BY <1>2 DEF IInv, PlacesInv
<1>11. DownInv'
  BY <1>2, <1>7, DownSame
<1>12. \A d \in tab.active : AboutToSchedule(d)' <=> AboutToSchedule(d)
  BY <1>2 DEF AboutToSchedule
<1>13. RunsInv'
  BY <1>2, <1>3 DEF IInv, RunsInv
<1>14. RunsInvUp'
  <2>1. \A v : Ready(v)' <=> Ready(v)
    BY <1>3 DEF Ready, ReadyWith
  <2>2. QED BY <1>2, <1>12, <2>1 DEF IInv, RunsInvUp
<1>15. AskedInv'
  BY <1>2, <1>3, <1>12, AskedSame
<1>16. QED BY <1>4, <1>9, <1>10, <1>11, <1>13, <1>14, <1>15 DEF IInv

LEMMA InterExitKeeps ==
  ASSUME IInv, NEW c \in CPUs, InterExit(c)
  PROVE  IInv'
<1>1. /\ c \in isr /\ isr' = isr \ {c} /\ UNCHANGED << kernel, booting, lock, after >>
      /\ InterExitNested(c) \/ ScheduleInt(c)
  BY DEF InterExit
<1>2. CASE InterExitNested(c)
  BY <1>1, <1>2, NestedKeeps
<1>3. CASE ScheduleInt(c)
  <2>1. PICK j : j = [ipi EXCEPT ![c] = @ \ {"SCHED"}]
    OBVIOUS
  <2>2. PICK i : i = IpiServed(j, c)
    OBVIOUS
  <2>3. /\ kernel = NULL /\ Serve(c)
        /\ IF "DOWN" \in ipi[c] /\ lock[running[c]] = 0
           THEN GoDown(c, Served(c), i) ELSE Switch(c, Served(c), i)
    BY <1>3, <2>1, <2>2 DEF ScheduleInt
  <2>4. /\ j \in [CPUs -> SUBSET {"SCHED", "STATUS_REQ", "DOWN"}]
        /\ \A d \in CPUs : "DOWN" \in j[d] <=> "DOWN" \in ipi[d]
    BY <2>1, StateTypes
  <2>5. /\ i \in [CPUs -> SUBSET {"SCHED", "STATUS_REQ", "DOWN"}]
        /\ \A d \in CPUs : "DOWN" \in i[d] <=> "DOWN" \in j[d]
    BY <2>2, <2>4, IpiServedIs
  <2>6. Leaves(c)
    BY <1>1, <2>3 DEF Leaves
  <2>7. Switch(c, Served(c), i) \/ ("DOWN" \in i[c] /\ GoDown(c, Served(c), i))
    BY <2>3, <2>4, <2>5
  <2>8. \A d \in CPUs : "DOWN" \in i[d] <=> "DOWN" \in ipi[d]
    BY <2>4, <2>5
  <2>9. QED BY <2>3, <2>5, <2>6, <2>7, <2>8, LeaverSwitches
<1>4. QED BY <1>1, <1>2, <1>3

LEMMA SecondaryStartKeeps ==
  ASSUME IInv, NEW d \in CPUs, SecondaryStart(d)
  PROVE  IInv'
<1>1. /\ d \in booting /\ kernel = NULL /\ booting' = booting \ {d}
      /\ tab' = CpuActive(tab, d) /\ running' = [running EXCEPT ![d] = tab'.cand[d]]
      /\ UNCHANGED << ipi, irq, kernel, isr, svars, lock, after >>
  BY DEF SecondaryStart
<1>2. UNCHANGED << pend, nest, waitFor, request, pending >>
  BY <1>1 DEF svars
<1>3. d \notin tab.active /\ Sound(tab, ReadyThreads) /\ tab.active \subseteq CPUs
      /\ NULL \notin Threads \cup CPUs
  BY <1>1, StateTypes, CandIs, CandTableAssumption DEF IInv, PlacesInv
<1>4. SMP_EN
  BY <1>3, CandIs, CandTableAssumption
<1>5. /\ Sound(tab', ReadyThreads) /\ tab'.active = tab.active \cup {d} /\ tab'.cpuLock = tab.cpuLock
      /\ \A e \in CPUs \ {d} : tab'.cand[e] = tab.cand[e]
  BY <1>1, <1>3, CpuActiveIs
<1>6. tab'.cand[d] \in Threads
  BY <1>5, CandIs
<1>7. /\ running' \in [CPUs -> Threads \cup {NULL}] /\ running'[d] = tab'.cand[d]
      /\ \A e \in CPUs \ {d} : running'[e] = running[e]
  BY <1>1, <1>6, StateTypes
<1>8. TableInv' /\ TableType(tab)' /\ ListsInv' /\ StopInv'
  BY <1>1, <1>2, <1>5, SameReady, ListsSame, StopSame DEF TableInv, Sound, TableExact
<1>9. TypeInv'
  <2>1. booting' \subseteq CPUs
    BY <1>1, StateTypes
  <2>2. QED BY <1>1, <1>2, <1>7, <1>8, <2>1, StateTypes DEF TypeInv, TypeOK, AfterOK
<1>10. PlacesInv'
  BY <1>1, <1>3, <1>5, <1>6, <1>7 DEF IInv, PlacesInv
<1>11. DownInv'
  BY <1>1, <1>5 DEF IInv, DownInv
<1>12. \A e \in tab.active : running[e] = tab.cand[e] /\ e # d /\ running[e] \in Threads
  BY <1>1, <1>3, <1>4, CandIs DEF IInv, RunsInv
<1>13. RunsInv'
  BY <1>3, <1>5, <1>7, <1>12 DEF RunsInv
<1>14. RunsInvUp'
  BY <1>4 DEF RunsInvUp
<1>15. \A e \in tab.active : AboutToSchedule(e) => AboutToSchedule(e)'
  BY <1>1, <1>3, <1>7, <1>12 DEF AboutToSchedule
<1>16. AskedInv'
  <2>1. ASSUME NEW u \in Threads, pending[u] # << >>
        PROVE  lock[u] > 0 \/ \E e \in tab.active : running[e] = u /\ running'[e] = u
    BY <1>3, <1>7, <1>12, <2>1 DEF IInv, AskedInv
  <2>2. ASSUME NEW u \in Threads, pending'[u] # << >>
        PROVE  lock'[u] > 0 \/ \E e \in tab'.active : running'[e] = u
    BY <1>1, <1>2, <1>5, <2>1, <2>2
  <2>3. ASSUME NEW e \in tab'.active, pending'[running'[e]] # << >>
        PROVE  AboutToSchedule(e)' \/ e \in irq' \/ lock'[running'[e]] > 0
    <3>1. CASE e # d
      <4>1. e \in tab.active /\ running'[e] = running[e]
        BY <1>3, <1>5, <1>7, <3>1
      <4>2. AboutToSchedule(e) \/ e \in irq \/ lock[running[e]] > 0
        BY <1>2, <2>3, <4>1 DEF IInv, AskedInv
      <4>3. QED BY <1>1, <1>15, <4>1, <4>2
    <3>2. CASE e = d
      <4>1. PICK u \in Threads : u = tab'.cand[d]
        BY <1>6
      <4>2. pending[u] # << >> /\ running'[e] = u
        BY <1>2, <1>7, <2>3, <3>2, <4>1
      <4>3. SUFFICES ASSUME NEW f \in tab.active, running[f] = u PROVE FALSE
        BY <1>1, <2>1, <4>2
      <4>4. tab'.cand[f] = tab'.cand[d] /\ f # d /\ f \in tab'.active /\ d \in tab'.active
        BY <1>3, <1>5, <1>12, <4>1, <4>3
      <4>5. QED BY <1>5, <4>4, CandIs
    <3>3. QED BY <3>1, <3>2
  <2>4. QED BY <2>2, <2>3 DEF AskedInv
<1>17. QED BY <1>8, <1>9, <1>10, <1>11, <1>13, <1>14, <1>16 DEF IInv

-----------------------------------------------------------------------------
(* The initial state.                                                      *)

LEMMA InitialIs ==
  ASSUME NEW prio \in [Users -> Priorities \ {IdlePrio}], NEW s, s = InitialTable(prio)
  PROVE  /\ Sound(s, Idle) /\ s.active = {0}
         /\ s.cand[0] \in Idle /\ \A c \in CPUs \ {0} : s.cand[c] = NULL
<1> DEFINE idle == SetToSeq(Idle)
           t0 == idle[1]
           n == Len(idle)
<1>1. /\ IsFiniteSet(Idle) /\ Idle \subseteq Threads /\ Cardinality(Idle) = Cardinality(CPUs)
      /\ IdlePrio \in Priorities /\ Slice \in Nat \ {0} /\ 0 \in CPUs /\ GLOBAL \notin CPUs
      /\ NULL \notin Threads \cup CPUs
  BY CandTableAssumption, SchedulerAssumption, FS_Subset
<1>2. Cardinality(CPUs) \in Nat \ {0}
  BY CandTableAssumption, FS_CardinalityType, FS_EmptySet
<1>3. idle \in Seq(Idle) /\ n \in Nat \ {0} /\ IsInjective(idle)
      /\ \A u \in Idle : \E i \in 1..n : idle[i] = u
  BY <1>1, <1>2, SetToSeqIs
<1>4. idle \in Seq(Threads) /\ idle # << >> /\ Head(idle) = t0 /\ t0 \in Idle
      /\ \A i \in 1..n : idle[i] \in Idle
  BY <1>1, <1>3
<1>5. s = [active  |-> {0},
           cand    |-> [c \in CPUs |-> IF c = 0 THEN t0 ELSE NULL],
           rot     |-> [c \in CPUs |-> FALSE],
           ring    |-> [q \in Queues |-> [p \in Priorities |->
                          IF q = GLOBAL /\ p = IdlePrio THEN Tail(idle) ELSE << >>]],
           rdy     |-> [q \in Queues |-> IF q = GLOBAL /\ n > 1 THEN {IdlePrio} ELSE {}],
           isCand  |-> {t0},
           cpuId   |-> [t \in Threads |-> 0],
           cpuLock |-> [t \in Threads |-> NULL],
           prio    |-> [t \in Threads |-> IF t \in Users THEN prio[t] ELSE IdlePrio],
           counter |-> [t \in Threads |-> Slice],
           front   |-> [t \in Threads |-> FALSE]]
  BY DEF InitialTable
<1>6. \A u : Contains(idle, u) <=> u \in Idle
  BY <1>3, <1>4 DEF Contains
<1>7. /\ Tail(idle) \in Seq(Threads) /\ IsInjective(Tail(idle))
      /\ \A u : Contains(Tail(idle), u) <=> u \in Idle \ {t0}
      /\ Tail(idle) = << >> <=> ~(n > 1)
  <2>1. Tail(idle) \in Seq(Threads) /\ Len(Tail(idle)) = n - 1
    BY <1>3, <1>4
  <2>2. Tail(idle) = << >> <=> ~(n > 1)
    <3>1. \A r \in Seq(Threads) : r = << >> <=> Len(r) = 0
      OBVIOUS
    <3>2. Tail(idle) = << >> <=> Len(Tail(idle)) = 0
      BY <2>1, <3>1
    <3> HIDE DEF n
    <3>3. QED BY <1>3, <2>1, <3>2
  <2>3. IsInjective(Tail(idle)) /\ \A u : Contains(Tail(idle), u) <=> Contains(idle, u) /\ u # Head(idle)
    BY <1>3, <1>4, TailMembers
  <2>4. QED BY <1>4, <1>6, <2>1, <2>2, <2>3
<1> HIDE DEF t0
<1> DEFINE rest == Tail(idle)
<1>8. /\ rest \in Seq(Threads) /\ IsInjective(rest) /\ \A u : Contains(rest, u) <=> u \in Idle \ {t0}
      /\ rest = << >> <=> ~(n > 1)
  BY <1>7
<1>9. s.ring = [q \in Queues |-> [p \in Priorities |-> IF q = GLOBAL /\ p = IdlePrio THEN rest ELSE << >>]]
  BY <1>5
<1>10. s.rdy = [q \in Queues |-> IF q = GLOBAL /\ n > 1 THEN {IdlePrio} ELSE {}]
  BY <1>5
<1>11. /\ s.active = {0} /\ s.cand = [c \in CPUs |-> IF c = 0 THEN t0 ELSE NULL]
       /\ s.isCand = {t0} /\ s.cpuId = [t \in Threads |-> 0] /\ s.cpuLock = [t \in Threads |-> NULL]
       /\ s.prio = [t \in Threads |-> IF t \in Users THEN prio[t] ELSE IdlePrio]
       /\ s.rot = [c \in CPUs |-> FALSE] /\ s.counter = [t \in Threads |-> Slice]
       /\ s.front = [t \in Threads |-> FALSE]
  BY <1>5
<1>12. s = [active |-> s.active, cand |-> s.cand, rot |-> s.rot, ring |-> s.ring,
            rdy |-> s.rdy, isCand |-> s.isCand, cpuId |-> s.cpuId, cpuLock |-> s.cpuLock,
            prio |-> s.prio, counter |-> s.counter, front |-> s.front]
  BY <1>5
<1> HIDE DEF rest, n
<1>13. TableType(s)
  <2>1. s.ring \in [Queues -> [Priorities -> Seq(Threads)]]
    <3>1. << >> \in Seq(Threads)
      OBVIOUS
    <3>2. QED BY <1>8, <1>9, <3>1
  <2>2. s.rdy \in [Queues -> SUBSET Priorities]
    BY <1>1, <1>10
  <2>3. /\ s.active \in SUBSET CPUs /\ s.cand \in [CPUs -> Threads \cup {NULL}]
        /\ s.isCand \in SUBSET Threads /\ s.cpuId \in [Threads -> CPUs]
        /\ s.cpuLock \in [Threads -> CPUs \cup {NULL}]
    BY <1>1, <1>4, <1>11
  <2>4. s.prio \in [Threads -> Priorities]
    BY <1>1, <1>11
  <2>5. s.rot \in [CPUs -> BOOLEAN] /\ s.front \in [Threads -> BOOLEAN]
    BY <1>11
  <2>6. s.counter \in [Threads -> 0..Slice]
    BY <1>1, <1>11
  <2>7. QED BY <1>12, <2>1, <2>2, <2>3, <2>4, <2>5, <2>6 DEF TableType
<1>14. \A t \in Threads : QueueOf(s, t) = GLOBAL
  BY <1>11 DEF QueueOf
<1>15. \A t \in Idle : s.prio[t] = IdlePrio
  BY <1>1, <1>11 DEF Users
<1>16. ASSUME NEW q \in Queues, NEW p \in Priorities PROVE RingHolds(s, Idle \ {t0}, q, p)
  <2>1. CASE q = GLOBAL /\ p = IdlePrio
    <3>1. s.ring[q][p] = rest
      BY <1>9, <2>1
    <3>2. p \in s.rdy[q] <=> n > 1
      BY <1>10, <2>1
    <3>3. QED BY <1>1, <1>8, <1>14, <1>15, <2>1, <3>1, <3>2 DEF RingHolds
  <2>2. CASE ~(q = GLOBAL /\ p = IdlePrio)
    <3>1. s.ring[q][p] = << >>
      BY <1>9, <2>2
    <3>2. p \notin s.rdy[q]
      BY <1>10, <2>2
    <3>3. IsInjective(<< >>) /\ \A u : ~Contains(<< >>, u)
      BY DEF IsInjective, Contains
    <3>4. \A t : ~(t \in Idle \ {t0} /\ t \in Threads /\ QueueOf(s, t) = q /\ s.prio[t] = p)
      BY <1>1, <1>14, <1>15, <2>2
    <3>5. QED BY <3>1, <3>2, <3>3, <3>4 DEF RingHolds
  <2>3. QED BY <2>1, <2>2
<1>17. RingsExact(s, Idle \ s.isCand)
  BY <1>11, <1>16 DEF RingsExact
<1>18. CandsExact(s, {})
  BY <1>1, <1>4, <1>11 DEF CandsExact
<1>19. TableExact(s, Idle, {})
  BY <1>1, <1>4, <1>11, <1>13, <1>17, <1>18 DEF TableExact
<1>20. IdleThere(s, Idle) /\ HeldLive(s)
  BY <1>1, <1>11 DEF IdleThere, HeldLive
<1>21. Live(s)
  BY <1>1, <1>4, <1>11 DEF Live
<1>22. QED BY <1>1, <1>4, <1>11, <1>19, <1>20, <1>21 DEF Sound

LEMMA InitIs ==
  ASSUME Init PROVE IInv
<1>1. PICK prio \in [Users -> Priorities \ {IdlePrio}] : InitWith(prio)
  BY DEF Init
<1>2. PICK s : s = InitialTable(prio)
  OBVIOUS
<1>3. /\ Sound(s, Idle) /\ s.active = {0}
      /\ s.cand[0] \in Idle /\ \A c \in CPUs \ {0} : s.cand[c] = NULL
  BY <1>2, InitialIs
<1>4. /\ tab = s /\ running = tab.cand /\ ipi = [c \in CPUs |-> {}] /\ irq = {}
      /\ kernel = NULL /\ isr = {} /\ booting = CPUs \ {0} /\ pend = Users
      /\ nest = [r \in Requests |-> [t \in Threads |-> 0]]
      /\ waitFor = [t \in Threads |-> NULL] /\ request = [t \in Threads |-> NULL]
      /\ pending = [t \in Threads |-> << >>] /\ lock = [t \in Threads |-> 0]
      /\ after = [t \in Threads |-> NoCall]
  BY <1>1, <1>2 DEF InitWith
<1>5. /\ Idle \subseteq Threads /\ Users \subseteq Threads /\ MaxNest \in Nat /\ 0 \in CPUs
      /\ NULL \notin Threads \cup CPUs
  BY CandTableAssumption, SchedulerAssumption DEF Users
<1>6. ReadyThreads = Idle
  BY <1>4, <1>5 DEF ReadyThreads, Ready, ReadyWith, Requests, Users
<1>7. TableInv /\ TableType(tab) /\ tab.cand \in [CPUs -> Threads \cup {NULL}]
  <2>1. Sound(tab, Idle)
    BY <1>3, <1>4
  <2>2. QED BY <1>6, <2>1, TableFields DEF TableInv, Sound, TableExact
<1>8. TypeInv
  <2>1. nest \in [Requests -> [Threads -> 0..MaxNest]] /\ lock \in [Threads -> 0..MaxNest]
    BY <1>4, <1>5
  <2>2. pending \in [Threads -> Seq(Threads)]
    <3>1. << >> \in Seq(Threads)
      OBVIOUS
    <3>2. QED BY <1>4, <3>1
  <2>3. AfterOK
    BY <1>4, AfterValuesAre DEF AfterOK
  <2>4. QED BY <1>4, <1>5, <1>7, <2>1, <2>2, <2>3 DEF TypeInv, TypeOK
<1>9. \A c \in CPUs : running[c] # NULL <=> c \in tab.active
  BY <1>3, <1>4, <1>5
<1>10. PlacesInv
  BY <1>3, <1>4, <1>9 DEF PlacesInv
<1>11. DownInv
  BY <1>4, CallsDiffer DEF DownInv
<1>12. \A u : Askers(u) = {} \/ u = NULL
  BY <1>4 DEF Askers
<1>13. \A u, r : AskersOf(u, r) = {} \/ u = NULL
  BY <1>4 DEF AskersOf
<1>14. ListsInv
  <2>1. ASSUME NEW u \in Threads PROVE IsInjective(pending[u]) /\ Range(pending[u]) = Askers(u)
    BY <1>4, <1>5, <1>12 DEF IsInjective, Range
  <2>2. ASSUME NEW u \in Threads, NEW r \in Requests
        PROVE  nest[r][u] + Cardinality(AskersOf(u, r)) <= MaxNest
    <3>1. AskersOf(u, r) = {} /\ nest[r][u] = 0
      BY <1>4, <1>5, <1>13
    <3>2. QED BY <1>5, <3>1, FS_EmptySet
  <2>3. QED BY <1>4, <2>1, <2>2 DEF ListsInv
<1>15. RunsInv /\ RunsInvUp
  <2>1. tab.cand[0] \in ReadyThreads
    BY <1>3, <1>4, <1>6
  <2>2. Ready(tab.cand[0])
    BY <2>1 DEF ReadyThreads
  <2>3. QED BY <1>3, <1>4, <2>2 DEF RunsInv, RunsInvUp
<1>16. StopInv
  <2>1. \A u : Stoppers(u) = {}
    BY <1>4, CallsDiffer DEF Stoppers
  <2>2. \A u \in Threads : Cardinality(Stoppers(u)) <= nest["STOP"][u]
    <3>1. TAKE u \in Threads
    <3>2. Stoppers(u) = {} /\ nest["STOP"][u] = 0
      BY <1>4, <2>1 DEF Requests
    <3>3. QED BY <3>2, FS_EmptySet
  <2>3. QED BY <1>4, <2>2 DEF StopInv
<1>17. AskedInv
  BY <1>4, <1>5, <1>9, <1>3 DEF AskedInv
<1>18. QED BY <1>7, <1>8, <1>10, <1>11, <1>14, <1>15, <1>16, <1>17 DEF IInv

-----------------------------------------------------------------------------
(* The invariant, and what it implies.                                     *)

\* No processor is started before the call that has stopped it is over, and with
\* several processors no interrupt suspends the thread that it has interrupted: without
\* the one a thread can be held by a processor that is down, without the other a
\* thread can run on two processors.
CarefulCalls == "CpuUpEarly" \notin Calls /\ (SMP_EN => "IsrSuspend" \notin Calls)

LEMMA NextKeeps ==
  ASSUME CarefulCalls, IInv, [Next]_vars
  PROVE  IInv'
<1>1. CASE UNCHANGED vars
  <2>1. /\ UNCHANGED << tab, running, ipi, irq, kernel, isr, booting, lock, after >>
        /\ UNCHANGED << pend, nest, waitFor, request, pending >>
    BY <1>1 DEF vars, kvars, svars
  <2>2. /\ TypeInv' /\ TableInv'
    BY <2>1, SameReady DEF IInv, TypeInv, TypeOK, AfterOK, TableInv
  <2>3. PlacesInv' /\ DownInv'
    BY <2>1 DEF IInv, PlacesInv, DownInv
  <2>4. ListsInv' /\ StopInv'
    BY <2>1, ListsSame, StopSame
  <2>5. \A c : AboutToSchedule(c)' <=> AboutToSchedule(c)
    BY <2>1 DEF AboutToSchedule
  <2>6. RunsInv' /\ AskedInv'
    BY <2>1, <2>5 DEF IInv, RunsInv, AskedInv
  <2>7. RunsInvUp'
    <3>1. \A t : Ready(t)' <=> Ready(t)
      BY <2>1 DEF Ready, ReadyWith
    <3>2. QED BY <2>1, <2>5, <3>1 DEF IInv, RunsInvUp
  <2>8. QED BY <2>2, <2>3, <2>4, <2>6, <2>7 DEF IInv
<1>2. ASSUME NEW c \in CPUs, ThreadCall(c) PROVE IInv'
  <2>1. CASE Pend(c)
    BY <2>1, PendKeeps
  <2>2. CASE ThreadLock(c)
    BY <2>2, LockKeeps
  <2>3. CASE ThreadUnlock(c)
    BY <2>3, UnlockKeeps
  <2>4. CASE ThreadSched(c)
    BY <2>4, SchedKeeps
  <2>5. ASSUME NEW u \in Users, Post(c, u) PROVE IInv'
    BY <2>5, PostKeeps
  <2>6. ASSUME NEW u \in Users, ThreadSuspend(c, u) PROVE IInv'
    BY <2>6, SuspendKeeps
  <2>7. ASSUME NEW u \in Users, ThreadResume(c, u) PROVE IInv'
    BY <2>7, ResumeKeeps
  <2>8. ASSUME NEW u \in Users, ThreadYield(c, u) PROVE IInv'
    BY <2>8, YieldKeeps
  <2>9. ASSUME NEW u \in Users, NEW p \in Priorities, ThreadSetPriority(c, u, p) PROVE IInv'
    BY <2>9, SetPriorityKeeps
  <2>10. ASSUME NEW u \in Users, NEW d \in CPUs \cup {NULL}, StopForAffinity(c, u, d) PROVE IInv'
    BY <2>10, StopForAffinityKeeps
  <2>11. ASSUME NEW u \in Users, NEW d \in CPUs \cup {NULL}, SetOtherAffinity(c, u, d) PROVE IInv'
    BY <2>11, SetOtherAffinityKeeps
  <2>12. ASSUME NEW d \in CPUs \cup {NULL}, SetOwnAffinity(c, d) PROVE IInv'
    BY <2>12, SetOwnAffinityKeeps
  <2>13. ASSUME NEW d \in CPUs, CpuUp(c, d) PROVE IInv'
    BY <2>13, CpuUpKeeps DEF CarefulCalls
  <2>14. ASSUME NEW d \in CPUs, CpuDown(c, d) PROVE IInv'
    BY <2>14, CpuDownKeeps
  <2>15. ASSUME NEW d \in CPUs, SendDown(c, d) PROVE IInv'
    BY <2>15, SendDownKeeps
  <2>16. QED
    BY <1>2, <2>1, <2>2, <2>3, <2>4, <2>5, <2>6, <2>7, <2>8, <2>9, <2>10, <2>11, <2>12, <2>13,
       <2>14, <2>15
    DEF ThreadCall
<1>3. ASSUME NEW c \in CPUs, Interrupt(c) PROVE IInv'
  <2>1. CASE IpiInterrupt(c)
    BY <2>1, IpiKeeps
  <2>2. CASE IsrTick(c)
    BY <2>2, TickKeeps
  <2>3. ASSUME NEW u \in Users, IsrPost(c, u) PROVE IInv'
    BY <2>3, IsrPostKeeps
  <2>4. ASSUME NEW u \in Users, IsrSuspend(c, u) PROVE IInv'
    <3>1. ~SMP_EN
      BY <2>4 DEF CarefulCalls, IsrSuspend
    <3>2. QED BY <2>4, <3>1, IsrSuspendKeeps
  <2>5. ASSUME NEW u \in Users, IsrResume(c, u) PROVE IInv'
    BY <2>5, IsrResumeKeeps
  <2>6. QED BY <1>3, <2>1, <2>2, <2>3, <2>4, <2>5 DEF Interrupt
<1>4. QED
  BY <1>1, <1>2, <1>3, KernelExitKeeps, InterExitKeeps, SecondaryStartKeeps DEF Next

LEMMA Invariant ==
  ASSUME CarefulCalls
  PROVE  Spec => []IInv
<1>1. Init => IInv
  BY InitIs
<1>2. IInv /\ [Next]_vars => IInv'
  BY NextKeeps
<1>3. QED BY <1>1, <1>2, PTL DEF Spec

\* The variables of the scheduler keep their types.
THEOREM TypeCorrect ==
  ASSUME CarefulCalls
  PROVE  Spec => []TypeOK
<1>1. IInv => TypeOK
  BY DEF IInv, TypeInv
<1>2. QED BY <1>1, Invariant, PTL

\* A thread that a processor holds is held by one that is up (_CandTable.c:162), when
\* processors come and go and threads are given to processors at the same time.
THEOREM HeldByLiveCpuCorrect ==
  ASSUME CarefulCalls
  PROVE  Spec => []HeldByLiveCpu
<1>1. IInv => HeldByLiveCpu
  BY DEF IInv, TableInv, Sound, HeldLive, HeldByLiveCpu
<1>2. QED BY <1>1, Invariant, PTL

LEMMA OneRuns ==
  ASSUME IInv PROVE RunsItsCandidate
<1>1. Sound(tab, ReadyThreads) /\ tab.active \subseteq CPUs /\ NULL \notin CPUs
  BY StateTypes, CandIs, CandTableAssumption
<1>2. ASSUME NEW c \in tab.active, NEW d \in tab.active, c # d PROVE running[c] # running[d]
  <2>1. SMP_EN
    BY <1>1, <1>2, CandTableAssumption
  <2>2. \A e \in tab.active : running[e] = tab.cand[e] \/ (kernel = e /\ running[e] \notin tab.isCand)
    BY <2>1 DEF IInv, RunsInv
  <2>3. \A e \in tab.active : tab.cand[e] \in tab.isCand
    BY <1>1, CandIs
  <2>4. tab.cand[c] # tab.cand[d]
    BY <1>1, <1>2, CandIs
  <2>5. QED BY <1>2, <2>2, <2>3, <2>4
<1>3. ASSUME NEW c \in tab.active, ~AboutToSchedule(c)
      PROVE  Ready(running[c]) /\ (running[c] = tab.cand[c] \/ lock[running[c]] > 0)
  <2>1. CASE SMP_EN
    <3>1. running[c] = tab.cand[c]
      BY <1>3, <2>1 DEF IInv, RunsInv, AboutToSchedule
    <3>2. running[c] \in ReadyThreads
      BY <1>1, <3>1, CandIs
    <3>3. QED BY <3>1, <3>2 DEF ReadyThreads
  <2>2. CASE ~SMP_EN
    BY <1>3, <2>2 DEF IInv, RunsInvUp
  <2>3. QED BY <2>1, <2>2
<1>4. QED BY <1>2, <1>3 DEF RunsItsCandidate

\* No thread runs on two processors, and a processor that has nothing left to do
\* runs its candidate, which is ready, or the thread that has locked the scheduler.
THEOREM RunsItsCandidateCorrect ==
  ASSUME CarefulCalls
  PROVE  Spec => []RunsItsCandidate
<1>1. IInv => RunsItsCandidate
  BY OneRuns
<1>2. QED BY <1>1, Invariant, PTL

\* A thread that waits for the state of another is on its list, and the processor
\* that runs that one is going to see the list.
THEOREM RequestsArriveCorrect ==
  ASSUME CarefulCalls
  PROVE  Spec => []RequestsArrive
<1>1. IInv => RequestsArrive
  BY DEF IInv, ListsInv, AskedInv, RequestsArrive, Askers
<1>2. QED BY <1>1, Invariant, PTL

LEMMA OnePlace ==
  ASSUME IInv PROVE TablesExact
<1> DEFINE cands(t) == {c \in CPUs : tab.cand[c] = t}
           places(t) == {x \in Queues \X Priorities : t \in Range(tab.ring[x[1]][x[2]])}
<1>1. /\ Sound(tab, ReadyThreads) /\ TableType(tab) /\ tab.isCand \subseteq ReadyThreads
      /\ RingsExact(tab, ReadyThreads \ tab.isCand) /\ CandsExact(tab, {}) /\ Live(tab)
      /\ NULL \notin Threads
  BY StateTypes, CandTableAssumption DEF Sound, TableExact
<1>2. /\ tab.cpuId \in [Threads -> CPUs] /\ tab.cpuLock \in [Threads -> CPUs \cup {NULL}]
      /\ tab.prio \in [Threads -> Priorities]
      /\ tab.ring \in [Queues -> [Priorities -> Seq(Threads)]] /\ tab.isCand \subseteq Threads
  BY <1>1, TableFields
<1>3. \A q \in Queues, p \in Priorities : RingHolds(tab, ReadyThreads \ tab.isCand, q, p)
  BY <1>1 DEF RingsExact
<1>4. ASSUME NEW q \in Queues, NEW p \in Priorities, NEW t \in Threads
      PROVE  t \in Range(tab.ring[q][p]) <=>
               Ready(t) /\ t \notin tab.isCand /\ QueueOf(tab, t) = q /\ tab.prio[t] = p
  <2>1. Contains(tab.ring[q][p], t) <=>
          t \in ReadyThreads \ tab.isCand /\ t \in Threads /\ QueueOf(tab, t) = q /\ tab.prio[t] = p
    BY <1>3 DEF RingHolds
  <2>2. t \in Range(tab.ring[q][p]) <=> Contains(tab.ring[q][p], t)
    <3>1. tab.ring[q][p] \in Seq(Threads)
      BY <1>2
    <3>2. QED BY <3>1 DEF Range, Contains
  <2>3. QED BY <2>1, <2>2 DEF ReadyThreads
<1>5. ASSUME NEW t \in Threads
      PROVE  /\ Cardinality(cands(t)) + Cardinality(places(t)) = IF Ready(t) THEN 1 ELSE 0
             /\ t \in tab.isCand <=> cands(t) # {}
             /\ cands(t) \subseteq {tab.cpuId[t]}
             /\ places(t) \subseteq {<< QueueOf(tab, t), tab.prio[t] >>}
  <2>1. QueueOf(tab, t) \in Queues /\ tab.prio[t] \in Priorities /\ tab.cpuId[t] \in CPUs
    BY <1>2 DEF QueueOf, Queues
  <2>2. t \in tab.isCand => Ready(t)
    BY <1>1 DEF ReadyThreads
  <2>3. cands(t) = IF t \in tab.isCand THEN {tab.cpuId[t]} ELSE {}
    <3>1. t # NULL
      BY <1>1
    <3>2. \A c \in CPUs : tab.cand[c] = t => t \in tab.isCand /\ tab.cpuId[t] = c
      BY <1>1, <3>1 DEF CandsExact
    <3>3. t \in tab.isCand => tab.cand[tab.cpuId[t]] = t
      BY <1>1 DEF CandsExact
    <3>4. QED BY <2>1, <3>2, <3>3
  <2>4. places(t) = IF Ready(t) /\ t \notin tab.isCand THEN {<< QueueOf(tab, t), tab.prio[t] >>} ELSE {}
    <3>1. \A x \in Queues \X Priorities :
            t \in Range(tab.ring[x[1]][x[2]]) <=>
              Ready(t) /\ t \notin tab.isCand /\ x = << QueueOf(tab, t), tab.prio[t] >>
      BY <1>4
    <3>2. << QueueOf(tab, t), tab.prio[t] >> \in Queues \X Priorities
      BY <2>1
    <3> HIDE DEF Queues
    <3>3. CASE Ready(t) /\ t \notin tab.isCand
      BY <3>1, <3>2, <3>3
    <3>4. CASE ~(Ready(t) /\ t \notin tab.isCand)
      BY <3>1, <3>4
    <3>5. QED BY <3>3, <3>4
  <2> HIDE DEF cands, places
  <2>5. Cardinality({}) = 0 /\ Cardinality({tab.cpuId[t]}) = 1
        /\ Cardinality({<< QueueOf(tab, t), tab.prio[t] >>}) = 1
    BY FS_EmptySet, FS_Singleton
  <2>6. QED BY <2>2, <2>3, <2>4, <2>5
<1>6. \A q \in Queues, p \in Priorities :
        /\ IsInjective(tab.ring[q][p])
        /\ p \in tab.rdy[q] <=> tab.ring[q][p] # << >>
  BY <1>3 DEF RingHolds
<1>7. tab.active = {c \in CPUs : tab.cand[c] # NULL}
  BY <1>1 DEF Live
<1>8. QED BY <1>5, <1>6, <1>7 DEF TablesExact

\* Every ready thread is in one place of the tables, and no other thread is in any.
THEOREM TablesExactCorrect ==
  ASSUME CarefulCalls
  PROVE  Spec => []TablesExact
<1>1. IInv => TablesExact
  BY OnePlace
<1>2. QED BY <1>1, Invariant, PTL

-----------------------------------------------------------------------------
(* What a thread that has waited for the state of another has got.         *)

Released(d) == {t \in Threads : waitFor[t] = d /\ waitFor'[t] # d}

ChangesMade(d) ==
  Released(d) # {} =>
    /\ \A v \in Released(d) : request[v] \in Requests
    /\ \A r \in Requests :
         nest'[r][d] = nest[r][d] + Cardinality({v \in Released(d) : request[v] = r})

\* Only _ThreadStatusChangeCur lets a thread go on, and it makes the changes of all
\* the threads that ask for the state of t.
LEMMA ServeMakes ==
  ASSUME IInv, NEW c \in CPUs, NEW t \in Threads, t = running[c], StatusChangeCur(c),
         NEW d \in Threads
  PROVE  ChangesMade(d)
<1>1. /\ \A r \in Requests : nest'[r][t] = nest[r][t] + Cardinality(AskersOf(t, r))
      /\ \A v \in Threads :
           /\ waitFor[v] = t => waitFor'[v] = NULL /\ request'[v] = NULL
           /\ waitFor[v] # t => waitFor'[v] = waitFor[v] /\ request'[v] = request[v]
  BY ServeCounts
<1>2. CASE d # t
  <2>1. Released(d) = {}
    BY <1>1, <1>2 DEF Released
  <2>2. QED BY <2>1 DEF ChangesMade
<1>3. CASE d = t
  <2>1. \A v \in Threads : v \in Released(t) <=> waitFor[v] = t
    BY <1>1, CandTableAssumption DEF Released
  <2>2. \A r \in Requests : {v \in Released(t) : request[v] = r} = AskersOf(t, r)
    BY <2>1 DEF Released, AskersOf
  <2>3. \A v \in Released(t) : request[v] \in Requests
    BY <2>1, CandTableAssumption DEF IInv, ListsInv, Released
  <2>4. QED BY <1>1, <1>3, <2>2, <2>3 DEF ChangesMade
<1>4. QED BY <1>2, <1>3

LEMMA SameWaits ==
  ASSUME waitFor' = waitFor, NEW d \in Threads PROVE ChangesMade(d)
<1>1. Released(d) = {}
  BY DEF Released
<1>2. QED BY <1>1 DEF ChangesMade

LEMMA ServeOrSame ==
  ASSUME IInv, NEW c \in CPUs, Leaves(c), Serve(c), NEW d \in Threads
  PROVE  ChangesMade(d)
<1>1. PICK t \in Threads : t = running[c]
  BY LeaverIs
<1>2. CASE MustServe(c)
  BY <1>1, <1>2, ServeMakes DEF Serve
<1>3. CASE ~MustServe(c)
  BY <1>3, SameWaits DEF Serve, svars
<1>4. QED BY <1>2, <1>3

LEMMA StatusChangeWaits ==
  ASSUME IInv, NEW c \in CPUs, Enters(c), NEW u \in Users, NEW r \in Requests, StatusChange(c, u, r),
         NEW d \in Threads
  PROVE  ChangesMade(d)
<1>1. CASE RunsElsewhere(c, u)
  <2>1. waitFor' = [waitFor EXCEPT ![running[c]] = u]
    BY <1>1 DEF StatusChange, AskForChange
  <2>2. waitFor[running[c]] = NULL /\ d # NULL
    BY CallerIs, CandTableAssumption
  <2>3. Released(d) = {}
    BY <2>1, <2>2 DEF Released
  <2>4. QED BY <2>3 DEF ChangesMade
<1>2. CASE ~RunsElsewhere(c, u)
  BY <1>2, SameWaits DEF StatusChange, ChangeAtOnce
<1>3. QED BY <1>1, <1>2

LEMMA ChangesCounted ==
  ASSUME IInv, [Next]_vars, NEW d \in Threads
  PROVE  ChangesMade(d)
<1>1. CASE UNCHANGED vars
  BY <1>1, SameWaits DEF vars, svars
<1>2. ASSUME NEW c \in CPUs, ThreadCall(c) PROVE ChangesMade(d)
  <2>1. CASE \/ Pend(c) \/ ThreadLock(c) \/ ThreadUnlock(c) \/ ThreadSched(c)
             \/ \E u \in Users : \/ Post(c, u) \/ ThreadResume(c, u) \/ ThreadYield(c, u)
                                 \/ \E p \in Priorities : ThreadSetPriority(c, u, p)
                                 \/ \E e \in CPUs \cup {NULL} : SetOtherAffinity(c, u, e)
             \/ \E e \in CPUs \cup {NULL} : SetOwnAffinity(c, e)
             \/ \E e \in CPUs : CpuUp(c, e) \/ CpuDown(c, e) \/ SendDown(c, e)
    BY <2>1, SameWaits
    DEF Pend, ThreadLock, ThreadUnlock, ThreadSched, Post, Wakes, ThreadResume, Releases, ThreadYield,
        ThreadSetPriority, SetOtherAffinity, SetOwnAffinity, CpuUp, CpuDown, SendDown, svars
  <2>2. ASSUME NEW u \in Users, ThreadSuspend(c, u) PROVE ChangesMade(d)
    <3>1. PICK r \in Requests : r = "SUSPEND"
      BY DEF Requests
    <3>2. Enters(c) /\ StatusChange(c, u, r)
      BY <2>2, <3>1 DEF ThreadSuspend, CallingToBlock, Calling
    <3>3. QED BY <3>2, StatusChangeWaits
  <2>3. ASSUME NEW u \in Users, NEW e \in CPUs \cup {NULL}, StopForAffinity(c, u, e)
        PROVE  ChangesMade(d)
    <3>1. PICK r \in Requests : r = "STOP"
      BY DEF Requests
    <3>2. Enters(c) /\ StatusChange(c, u, r)
      BY <2>3, <3>1 DEF StopForAffinity, Calling
    <3>3. QED BY <3>2, StatusChangeWaits
  <2>4. QED BY <1>2, <2>1, <2>2, <2>3 DEF ThreadCall
<1>3. ASSUME NEW c \in CPUs, Interrupt(c) PROVE ChangesMade(d)
  BY <1>3, SameWaits
  DEF Interrupt, IpiInterrupt, IsrTick, IsrPost, Wakes, IsrSuspend, ChangeAtOnce, IsrResume, Releases, svars
<1>4. ASSUME NEW c \in CPUs, KernelExit(c) PROVE ChangesMade(d)
  <2>1. Serve(c) /\ Leaves(c)
    <3>1. /\ kernel = c /\ c \notin isr /\ kernel' = NULL /\ isr' = isr /\ Serve(c)
          /\ UNCHANGED << booting, lock, after >>
      BY <1>4 DEF KernelExit
    <3>2. isr' = isr \ {c}
      BY <3>1
    <3>3. QED BY <3>1, <3>2 DEF Leaves
  <2>2. QED BY <2>1, ServeOrSame
<1>5. ASSUME NEW c \in CPUs, InterExit(c) PROVE ChangesMade(d)
  <2>1. CASE InterExitNested(c)
    BY <2>1, SameWaits DEF InterExitNested, svars
  <2>2. CASE ScheduleInt(c)
    BY <1>5, <2>2, ServeOrSame DEF ScheduleInt, InterExit, Leaves
  <2>3. QED BY <1>5, <2>1, <2>2 DEF InterExit
<1>6. ASSUME NEW c \in CPUs, SecondaryStart(c) PROVE ChangesMade(d)
  BY <1>6, SameWaits DEF SecondaryStart, svars
<1>7. QED BY <1>1, <1>2, <1>3, <1>4, <1>5, <1>6 DEF Next

\* A thread that goes on after it asked for the state of another has had exactly that
\* change made: it has not lost its request, and in the step in which the threads that
\* asked go on, suspensions and stops are made as often as each has been asked for.
THEOREM RequestsCountedCorrect ==
  ASSUME CarefulCalls
  PROVE  Spec => RequestsCounted
<1> DEFINE Step ==
             \A d \in Threads :
               LET gone == {t \in Threads : waitFor[t] = d /\ waitFor'[t] # d}
               IN  gone # {} =>
                     /\ \A t \in gone : request[t] \in Requests
                     /\ \A r \in Requests :
                          nest'[r][d] = nest[r][d] + Cardinality({t \in gone : request[t] = r})
<1>1. IInv /\ [Next]_vars => Step
  BY ChangesCounted DEF ChangesMade, Released
<1>2. RequestsCounted <=> [][Step]_vars
  BY DEF RequestsCounted
<1> HIDE DEF Step
<1>3. QED BY <1>1, <1>2, Invariant, PTL DEF Spec

-----------------------------------------------------------------------------
(* A processor does not overlook a thread that is more urgent.             *)

\* With several processors no thread is given to one of them: a thread that is held
\* waits in the ring of its processor, and only this one may take it.
NobodyHeld == SMP_EN => "SetAffinity" \notin Calls

Free == SMP_EN => \A t \in Threads, u \in Users, d \in CPUs \cup {NULL} :
                    after[t] # AffinityCall(u, d)

\* The interrupt whose flag is set is on its way, or has come.
Flagged == \A c \in CPUs : "SCHED" \in ipi[c] => c \in irq \cup isr

\* The candidate of c is the right one, or c is going to look again.
Settled(c) == \/ Unbeaten(tab, ReadyThreads, c) \/ AboutToSchedule(c)
              \/ lock[running[c]] > 0 \/ c \in irq

LostInv == /\ NoneHeld(tab) /\ Told(tab, ReadyThreads) /\ Free /\ Flagged
           /\ kernel = NULL => \A c \in tab.active : Settled(c)

\* A call changes the table; the processors are told when it leaves the kernel.
LEMMA CallTells ==
  ASSUME LostInv, NEW c \in CPUs, Enters(c), TellsToo(tab, ReadyThreads, tab', ReadyThreads'),
         irq \subseteq irq', \A d \in CPUs : "SCHED" \in ipi'[d] => "SCHED" \in ipi[d], Free'
  PROVE  LostInv'
<1>1. kernel' = c /\ c # NULL /\ isr' = isr
  BY CandTableAssumption DEF Enters
<1>2. NoneHeld(tab)' /\ Told(tab, ReadyThreads)'
  BY DEF LostInv, TellsToo
<1>3. Flagged'
  BY <1>1 DEF LostInv, Flagged
<1>4. QED BY <1>1, <1>2, <1>3 DEF LostInv

LEMMA QuietTells ==
  ASSUME LostInv, NEW c \in CPUs, Enters(c), TellsToo(tab, ReadyThreads, tab', ReadyThreads'),
         UNCHANGED << ipi, irq >>, after' = after
  PROVE  LostInv'
<1>1. Free'
  BY DEF LostInv, Free
<1>2. QED BY <1>1, CallTells

LEMMA PendTells ==
  ASSUME IInv, LostInv, NEW c \in CPUs, Pend(c)
  PROVE  LostInv'
<1>1. PICK t \in Users : t = running[c]
  BY DEF Pend, CallingToBlock, Calling, Enters
<1>2. /\ Enters(c) /\ pend' = pend \cup {t} /\ tab' = DelFromReadyRing(tab, t)
      /\ UNCHANGED << ipi, irq, nest, waitFor, after >>
  BY <1>1 DEF Pend, CallingToBlock, Calling
<1>3. TellsToo(tab, ReadyThreads, tab', ReadyThreads')
  BY <1>2, PendTable
<1>4. QED BY <1>2, <1>3, QuietTells

LEMMA PostTells ==
  ASSUME IInv, LostInv, NEW c \in CPUs, NEW u \in Users, Post(c, u)
  PROVE  LostInv'
<1>1. PICK front \in BOOLEAN : front = TRUE
  OBVIOUS
<1>2. PICK locked : locked = Locked(c)
  OBVIOUS
<1>3. Enters(c) /\ Wakes(u, front, locked) /\ UNCHANGED << ipi, irq, after >>
  BY <1>1, <1>2 DEF Post, Calling
<1>4. QED BY <1>3, WakesTable, QuietTells

LEMMA StatusChangeTells ==
  ASSUME IInv, NEW c \in CPUs, running[c] \in Users, NEW u \in Users, NEW r \in Requests,
         StatusChange(c, u, r)
  PROVE  /\ TellsToo(tab, ReadyThreads, tab', ReadyThreads') /\ irq \subseteq irq'
         /\ \A d \in CPUs : "SCHED" \in ipi'[d] => "SCHED" \in ipi[d]
<1>1. CASE RunsElsewhere(c, u)
  <2>1. AskForChange(c, u, r)
    BY <1>1 DEF StatusChange
  <2>2. PICK d : d = tab.cpuId[u]
    OBVIOUS
  <2>3. ipi' = [ipi EXCEPT ![d] = @ \cup {"STATUS_REQ"}] /\ irq' = irq \cup {d}
    BY <2>1, <2>2 DEF AskForChange
  <2>4. ipi \in [CPUs -> SUBSET {"SCHED", "STATUS_REQ", "DOWN"}]
    BY StateTypes
  <2>5. \A e \in CPUs : "SCHED" \in ipi'[e] => "SCHED" \in ipi[e]
    BY <2>3, <2>4
  <2>6. TellsToo(tab, ReadyThreads, tab', ReadyThreads')
    BY <2>1, AskTable
  <2>7. QED BY <2>3, <2>5, <2>6
<1>2. CASE ~RunsElsewhere(c, u)
  <2>1. ChangeAtOnce(c, u, r) /\ UNCHANGED << ipi, irq >>
    BY <1>2 DEF StatusChange
  <2>2. QED BY <2>1, ChangeTable
<1>3. QED BY <1>1, <1>2

LEMMA SuspendTells ==
  ASSUME IInv, LostInv, NEW c \in CPUs, NEW u \in Users, ThreadSuspend(c, u)
  PROVE  LostInv'
<1>1. PICK r \in Requests : r = "SUSPEND"
  BY DEF Requests
<1>2. Enters(c) /\ StatusChange(c, u, r) /\ after' = after
  BY <1>1 DEF ThreadSuspend, CallingToBlock, Calling
<1>3. running[c] \in Users
  BY <1>2 DEF Enters
<1>4. Free'
  BY <1>2 DEF LostInv, Free
<1>5. QED BY <1>2, <1>3, <1>4, StatusChangeTells, CallTells

LEMMA ResumeTells ==
  ASSUME IInv, LostInv, NEW c \in CPUs, NEW u \in Users, ThreadResume(c, u)
  PROVE  LostInv'
<1>1. PICK r \in Requests : r = "SUSPEND"
  BY DEF Requests
<1>2. PICK s : s = tab
  OBVIOUS
<1>3. PICK locked : locked = Locked(c)
  OBVIOUS
<1>4. Enters(c) /\ Releases(s, u, r, locked) /\ UNCHANGED << ipi, irq, after >>
  BY <1>1, <1>2, <1>3 DEF ThreadResume, Calling
<1>5. Sound(s, ReadyThreads)
  BY <1>2, StateTypes
<1>6. TellsToo(s, ReadyThreads, tab', ReadyThreads')
  BY <1>4, <1>5, ReleasesTable
<1>7. TellsToo(tab, ReadyThreads, tab', ReadyThreads')
  BY <1>2, <1>6
<1>8. QED BY <1>4, <1>7, QuietTells

LEMMA SetPriorityTells ==
  ASSUME IInv, LostInv, NEW c \in CPUs, NEW u \in Users, NEW p \in Priorities,
         ThreadSetPriority(c, u, p)
  PROVE  LostInv'
<1>1. /\ Enters(c) /\ tab' = SchedSetPrio(tab, u, p, Ready(u), Locked(c))
      /\ UNCHANGED << ipi, irq, pend, nest, waitFor, after >>
  BY DEF ThreadSetPriority, Calling, svars
<1>2. Sound(tab, ReadyThreads) /\ u \in Threads \ Idle
  BY StateTypes DEF Users
<1>3. SchedSetPrio(tab, u, p, Ready(u), Locked(c))
        = SchedSetPrio(tab, u, p, u \in ReadyThreads, Locked(c))
  <2>1. Ready(u) <=> u \in ReadyThreads
    BY <1>2 DEF ReadyThreads
  <2>2. QED BY <2>1 DEF SchedSetPrio
<1>4. TellsToo(tab, ReadyThreads, tab', ReadyThreads)
  BY <1>1, <1>2, <1>3, SetPrioIs
<1>5. ReadyThreads' = ReadyThreads
  BY <1>1, SameReady
<1>6. QED BY <1>1, <1>4, <1>5, QuietTells

LEMMA YieldTells ==
  ASSUME IInv, LostInv, NEW c \in CPUs, NEW u \in Users, ThreadYield(c, u)
  PROVE  LostInv'
<1>1. /\ Enters(c) /\ tab' = SchedYield(tab, c, u)
      /\ UNCHANGED << ipi, irq, pend, nest, waitFor, after >>
  BY DEF ThreadYield, Calling, svars
<1>2. TableType(tab) /\ u \in Threads /\ tab.active \subseteq CPUs
  BY StateTypes, CandIs DEF Users
<1>3. Dressed(tab, tab') /\ \A d \in CPUs : tab.rot[d] => tab'.rot[d]
  BY <1>1, <1>2, YieldIs
<1>4. TellsToo(tab, ReadyThreads, tab', ReadyThreads)
  BY <1>2, <1>3, DressedTells
<1>5. ReadyThreads' = ReadyThreads
  BY <1>1, SameReady
<1>6. QED BY <1>1, <1>4, <1>5, QuietTells

LEMMA SchedTells ==
  ASSUME IInv, LostInv, NEW c \in CPUs, ThreadSched(c)
  PROVE  LostInv'
<1>1. /\ Enters(c) /\ after' = [after EXCEPT ![running[c]] = NoCall]
      /\ UNCHANGED << tab, ipi, irq, pend, nest, waitFor >>
  BY DEF ThreadSched, svars
<1>2. running[c] \in Threads
  BY <1>1 DEF Enters, Users
<1>3. Free'
  BY <1>1, <1>2, AfterIs, AfterValuesAre, CallsDiffer DEF LostInv, Free
<1>4. TellsToo(tab, ReadyThreads, tab', ReadyThreads')
  BY <1>1, SameReady DEF TellsToo
<1>5. QED BY <1>1, <1>3, <1>4, CallTells

LEMMA StopForAffinityTells ==
  ASSUME NobodyHeld, IInv, LostInv, NEW c \in CPUs, NEW u \in Users,
         NEW d \in CPUs \cup {NULL}, StopForAffinity(c, u, d)
  PROVE  LostInv'
<1>1. PICK r \in Requests : r = "STOP"
  BY DEF Requests
<1>2. Enters(c) /\ StatusChange(c, u, r) /\ ~SMP_EN
  BY <1>1 DEF StopForAffinity, Calling, NobodyHeld
<1>3. running[c] \in Users
  BY <1>2 DEF Enters
<1>4. Free'
  BY <1>2 DEF Free
<1>5. QED BY <1>2, <1>3, <1>4, StatusChangeTells, CallTells

LEMMA SetOtherAffinityTells ==
  ASSUME IInv, LostInv, NEW c \in CPUs, NEW u \in Users, NEW d \in CPUs \cup {NULL},
         SetOtherAffinity(c, u, d)
  PROVE  LostInv'
<1>1. PICK r \in Requests : r = "STOP"
  BY DEF Requests
<1>2. PICK s : s = SetAffinity(tab, u, d)
  OBVIOUS
<1>3. PICK locked : locked = Locked(c)
  OBVIOUS
<1>4. /\ Enters(c) /\ after[running[c]] = AffinityCall(u, d) /\ Releases(s, u, r, locked)
      /\ UNCHANGED << ipi, irq >>
  BY <1>1, <1>2, <1>3 DEF SetOtherAffinity
<1>5. ~SMP_EN
  <2>1. running[c] \in Threads
    BY <1>4 DEF Enters, Users
  <2>2. QED BY <1>4, <2>1 DEF LostInv, Free
<1>6. Free'
  BY <1>5 DEF Free
<1>7. Sound(s, ReadyThreads) /\ TellsToo(tab, ReadyThreads, s, ReadyThreads)
  BY <1>2, <1>5, SetAffinityIs
<1>8. TellsToo(s, ReadyThreads, tab', ReadyThreads')
  BY <1>4, <1>7, ReleasesTable
<1>9. TellsToo(tab, ReadyThreads, tab', ReadyThreads')
  BY <1>7, <1>8 DEF TellsToo
<1>10. QED BY <1>4, <1>6, <1>9, CallTells

LEMMA SetOwnAffinityTells ==
  ASSUME NobodyHeld, IInv, LostInv, NEW c \in CPUs, NEW d \in CPUs \cup {NULL}, SetOwnAffinity(c, d)
  PROVE  LostInv'
<1>1. PICK t \in Users : t = running[c]
  BY DEF SetOwnAffinity, Calling, Enters
<1>2. PICK s : s = SetAffinity(tab, t, d)
  OBVIOUS
<1>3. /\ Enters(c) /\ tab' = s /\ ~SMP_EN
      /\ UNCHANGED << ipi, irq, pend, nest, waitFor, after >>
  BY <1>1, <1>2 DEF SetOwnAffinity, Calling, NobodyHeld, svars
<1>4. TellsToo(tab, ReadyThreads, s, ReadyThreads)
  BY <1>2, <1>3, SetAffinityIs
<1>5. TellsToo(tab, ReadyThreads, tab', ReadyThreads')
  BY <1>3, <1>4, SameReady
<1>6. QED BY <1>3, <1>5, QuietTells

LEMMA CpuDownTells ==
  ASSUME IInv, LostInv, NEW c \in CPUs, NEW d \in CPUs, CpuDown(c, d)
  PROVE  LostInv'
<1>1. /\ Enters(c) /\ d # 0 /\ ipi' = [ipi EXCEPT ![d] = @ \cup {"DOWN"}] /\ tab' = HeldOff(d)
      /\ after' = [after EXCEPT ![running[c]] = DownCall(d)] /\ irq' = irq
      /\ UNCHANGED << pend, nest, waitFor >>
  BY DEF CpuDown, Calling, svars
<1>2. SMP_EN
  BY <1>1, CandTableAssumption
<1>3. tab' = tab
  BY <1>1, <1>2, HeldOffNone DEF LostInv, NoneHeld
<1>4. \A e \in CPUs : "SCHED" \in ipi'[e] => "SCHED" \in ipi[e]
  BY <1>1, StateTypes
<1>5. running[c] \in Threads
  BY <1>1 DEF Enters, Users
<1>6. Free'
  BY <1>1, <1>5, AfterIs, AfterValuesAre, CallsDiffer DEF LostInv, Free
<1>7. TellsToo(tab, ReadyThreads, tab', ReadyThreads')
  BY <1>1, <1>3, SameReady DEF TellsToo
<1>8. QED BY <1>1, <1>4, <1>6, <1>7, CallTells

\* What the thread or the interrupt does not end with the kernel.
LEMMA StillTells ==
  ASSUME LostInv, TellsToo(tab, ReadyThreads, tab', ReadyThreads'), kernel' = kernel,
         irq \cup isr \subseteq irq' \cup isr', Free',
         \A d \in CPUs : "SCHED" \in ipi'[d] => "SCHED" \in ipi[d],
         kernel = NULL => \A d \in tab'.active : Settled(d)'
  PROVE  LostInv'
<1>1. NoneHeld(tab)' /\ Told(tab, ReadyThreads)'
  BY DEF LostInv, TellsToo
<1>2. Flagged'
  BY DEF LostInv, Flagged
<1>3. QED BY <1>1, <1>2 DEF LostInv

LEMMA RunningIs ==
  ASSUME IInv
  PROVE  /\ \A d \in tab.active : d \in CPUs /\ d # NULL /\ running[d] # NULL /\ running[d] \in Threads
         /\ tab.active \subseteq CPUs /\ NULL \notin CPUs
<1>1. tab.active \subseteq CPUs /\ NULL \notin CPUs
  BY StateTypes, CandIs, CandTableAssumption
<1>2. QED BY <1>1, StateTypes DEF IInv, PlacesInv

LEMMA LockTells ==
  ASSUME IInv, LostInv, NEW c \in CPUs, ThreadLock(c)
  PROVE  LostInv'
<1>1. PICK t \in Threads : t = running[c]
  BY DEF ThreadLock, Users
<1>2. /\ lock' = [lock EXCEPT ![t] = @ + 1]
      /\ UNCHANGED << tab, running, ipi, irq, kernel, isr, pend, nest, waitFor, after >>
  BY <1>1 DEF ThreadLock, kvars, svars
<1>3. lock \in [Threads -> 0..MaxNest] /\ MaxNest \in Nat
  BY StateTypes, SchedulerAssumption
<1>4. \A u \in Threads : lock[u] > 0 => lock'[u] > 0
  BY <1>2, <1>3
<1>5. ReadyThreads' = ReadyThreads
  BY <1>2, SameReady
<1>6. ASSUME kernel = NULL, NEW d \in tab.active PROVE Settled(d)'
  <2>1. Settled(d) /\ running[d] \in Threads
    BY <1>6, RunningIs DEF LostInv
  <2>2. QED BY <1>2, <1>4, <1>5, <2>1 DEF Settled, AboutToSchedule
<1>7. Free'
  BY <1>2 DEF LostInv, Free
<1>8. QED BY <1>2, <1>5, <1>6, <1>7, StillTells DEF TellsToo

LEMMA UnlockTells ==
  ASSUME IInv, LostInv, NEW c \in CPUs, ThreadUnlock(c)
  PROVE  LostInv'
<1>1. PICK t \in Threads : t = running[c]
  BY DEF ThreadUnlock, Users
<1>2. PICK x : x = IF lock'[t] = 0 THEN SchedCall ELSE NoCall
  OBVIOUS
<1>3. /\ lock' = [lock EXCEPT ![t] = @ - 1] /\ after' = [after EXCEPT ![t] = x] /\ lock[t] > 0
      /\ UNCHANGED << tab, running, ipi, irq, kernel, isr, pend, nest, waitFor >>
  BY <1>1, <1>2 DEF ThreadUnlock, kvars, svars
<1>4. lock \in [Threads -> 0..MaxNest] /\ MaxNest \in Nat
  BY StateTypes, SchedulerAssumption
<1>5. x \in AfterValues /\ \A u, d : AffinityCall(u, d) # x
  BY <1>2, AfterValuesAre, CallsDiffer
<1>6. after'[t] = x /\ \A u \in Threads : u # t => after'[u] = after[u]
  BY <1>3, <1>5, AfterIs
<1>7. \A u \in Threads : u # t => lock'[u] = lock[u]
  BY <1>3, <1>4
<1>8. lock'[t] > 0 \/ x = SchedCall
  <2>1. lock'[t] \in Nat
    BY <1>3, <1>4
  <2>2. QED BY <1>2, <2>1
<1>9. ReadyThreads' = ReadyThreads
  BY <1>3, SameReady
<1>10. ASSUME kernel = NULL, NEW d \in tab.active PROVE Settled(d)'
  <2>1. Settled(d) /\ running[d] \in Threads /\ running[d] # NULL
    BY <1>10, RunningIs DEF LostInv
  <2>2. CASE running[d] = t
    BY <1>3, <1>6, <1>8, <2>1, <2>2 DEF Settled, AboutToSchedule
  <2>3. CASE running[d] # t
    BY <1>3, <1>6, <1>7, <1>9, <2>1, <2>3 DEF Settled, AboutToSchedule
  <2>4. QED BY <2>2, <2>3
<1>11. Free'
  BY <1>5, <1>6 DEF LostInv, Free
<1>12. QED BY <1>3, <1>9, <1>10, <1>11, StillTells DEF TellsToo

LEMMA CpuUpTells ==
  ASSUME IInv, LostInv, NEW c \in CPUs, NEW d \in CPUs, CpuUp(c, d)
  PROVE  LostInv'
<1>1. UNCHANGED << tab, running, ipi, irq, kernel, isr, pend, nest, waitFor, lock, after >>
  BY DEF CpuUp, svars
<1>2. ReadyThreads' = ReadyThreads
  BY <1>1, SameReady
<1>3. ASSUME kernel = NULL, NEW e \in tab.active PROVE Settled(e)'
  BY <1>1, <1>2, <1>3 DEF LostInv, Settled, AboutToSchedule
<1>4. Free'
  BY <1>1 DEF LostInv, Free
<1>5. QED BY <1>1, <1>2, <1>3, <1>4, StillTells DEF TellsToo

LEMMA SendDownTells ==
  ASSUME IInv, LostInv, NEW c \in CPUs, NEW d \in CPUs, SendDown(c, d)
  PROVE  LostInv'
<1>1. PICK t : t = running[c]
  OBVIOUS
<1>2. /\ c \in tab.active /\ after[t] = DownCall(d) /\ after' = [after EXCEPT ![t] = NoCall]
      /\ UNCHANGED << tab, running, kernel, isr, pend, nest, waitFor, lock >>
      /\ irq \subseteq irq' /\ \A e \in CPUs : "SCHED" \in ipi'[e] => "SCHED" \in ipi[e]
  <2>1. ipi \in [CPUs -> SUBSET {"SCHED", "STATUS_REQ", "DOWN"}]
    BY StateTypes
  <2>2. CASE d \in tab.active
    <3>1. ipi' = [ipi EXCEPT ![d] = @ \cup {"DOWN"}] /\ irq' = irq \cup {d}
      BY <2>2 DEF SendDown
    <3>2. \A e \in CPUs : "SCHED" \in ipi'[e] => "SCHED" \in ipi[e]
      BY <2>1, <3>1
    <3>3. QED BY <1>1, <3>1, <3>2 DEF SendDown, kvars, svars
  <2>3. CASE d \notin tab.active
    BY <1>1, <2>3 DEF SendDown, kvars, svars
  <2>4. QED BY <2>2, <2>3
<1>3. t \in Threads
  BY <1>1, <1>2, RunningIs
<1>4. after'[t] = NoCall /\ \A u \in Threads : u # t => after'[u] = after[u]
  BY <1>2, <1>3, AfterIs, AfterValuesAre
<1>5. ReadyThreads' = ReadyThreads
  BY <1>2, SameReady
<1>6. ASSUME kernel = NULL, NEW e \in tab.active PROVE Settled(e)'
  <2>1. Settled(e) /\ running[e] \in Threads /\ running[e] # NULL
    BY <1>6, RunningIs DEF LostInv
  <2>2. after[running[e]] = SchedCall => after'[running[e]] = SchedCall
    BY <1>2, <1>4, <2>1, CallsDiffer
  <2>3. QED BY <1>2, <1>5, <2>1, <2>2 DEF Settled, AboutToSchedule
<1>7. Free'
  BY <1>4, CallsDiffer DEF LostInv, Free
<1>8. QED BY <1>2, <1>5, <1>6, <1>7, StillTells DEF TellsToo

\* _SchedSmpNotify leaves out the processors whose interrupt is on its way.
LEMMA NotifyIs ==
  ASSUME Flagged, NEW x, NEW Q, Told(x, Q), x.active \subseteq CPUs, NEW c \in CPUs,
         NEW to, to = SmpNotify(x, c)
  PROVE  /\ \A d \in x.active \ {c} : Unbeaten(x, Q, d) \/ d \in to \/ d \in irq \/ d \in isr
         /\ to \subseteq CPUs \ {c}
<1>1. ASSUME NEW d \in x.active \ {c}, ~Unbeaten(x, Q, d) PROVE d \in to \/ d \in irq \/ d \in isr
  <2>1. x.rot[d] /\ SMP_EN
    BY <1>1, CandTableAssumption DEF Told
  <2>2. QED BY <1>1, <2>1 DEF SmpNotify, Flagged
<1>2. QED BY <1>1 DEF SmpNotify

\* What an interrupt calls leaves the kernel.
LEMMA IsrTells ==
  ASSUME IInv, LostInv, NEW c \in CPUs, InterEnter(c), tab'.active \subseteq CPUs,
         TellsToo(tab, ReadyThreads, tab', ReadyThreads'), IsrExit(c)
  PROVE  LostInv'
<1>1. /\ isr' = isr \cup {c} /\ UNCHANGED << running, kernel, lock, after >>
  BY DEF InterEnter
<1>2. NoneHeld(tab') /\ Told(tab', ReadyThreads')
  BY DEF LostInv, TellsToo
<1>3. PICK to : to = IF kernel = NULL THEN SmpNotify(tab', c) ELSE {}
  OBVIOUS
<1>4. ipi' = SendSched(ipi, to) /\ irq' = irq \cup to
  BY <1>3 DEF IsrExit
<1>5. \A d \in CPUs : "SCHED" \in ipi'[d] => d \in to \/ "SCHED" \in ipi[d]
  BY <1>4, StateTypes DEF SendSched
<1>6. Flagged'
  BY <1>1, <1>4, <1>5 DEF LostInv, Flagged
<1>7. ASSUME kernel = NULL, NEW d \in tab'.active PROVE Settled(d)'
  <2>1. CASE d = c
    BY <1>1, <2>1 DEF Settled, AboutToSchedule
  <2>2. CASE d # c
    <3>1. PICK x : x = tab'
      OBVIOUS
    <3>2. PICK Q : Q = ReadyThreads'
      OBVIOUS
    <3>3. to = SmpNotify(x, c) /\ Flagged /\ Told(x, Q) /\ x.active \subseteq CPUs /\ d \in x.active
      BY <1>2, <1>3, <1>7, <3>1, <3>2 DEF LostInv
    <3>4. Unbeaten(x, Q, d) \/ d \in to \/ d \in irq \/ d \in isr
      BY <2>2, <3>3, NotifyIs
    <3>5. QED BY <1>1, <1>4, <3>1, <3>2, <3>4 DEF Settled, AboutToSchedule
  <2>3. QED BY <2>1, <2>2
<1>8. Free'
  BY <1>1 DEF LostInv, Free
<1>9. QED BY <1>1, <1>2, <1>6, <1>7, <1>8 DEF LostInv

LEMMA IpiTells ==
  ASSUME IInv, LostInv, NEW c \in CPUs, IpiInterrupt(c)
  PROVE  LostInv'
<1>1. /\ isr' = isr \cup {c} /\ irq' = irq \ {c}
      /\ UNCHANGED << tab, ipi, running, kernel, lock, after, pend, nest, waitFor >>
  BY DEF IpiInterrupt, InterEnter, svars
<1>2. ReadyThreads' = ReadyThreads
  BY <1>1, SameReady
<1>3. ASSUME kernel = NULL, NEW d \in tab.active PROVE Settled(d)'
  BY <1>1, <1>2, <1>3 DEF LostInv, Settled, AboutToSchedule
<1>4. Free'
  BY <1>1 DEF LostInv, Free
<1>5. QED BY <1>1, <1>2, <1>3, <1>4, StillTells DEF TellsToo

LEMMA TickTells ==
  ASSUME IInv, LostInv, NEW c \in CPUs, IsrTick(c)
  PROVE  LostInv'
<1>1. /\ isr' = isr \cup {c} /\ tab' = SchedTick(tab, running)
      /\ UNCHANGED << ipi, irq, running, kernel, lock, after, pend, nest, waitFor >>
  BY DEF IsrTick, InterEnter, svars
<1>2. Dressed(tab, tab') /\ \A d \in CPUs : tab.rot[d] => tab'.rot[d]
  BY <1>1, StateTypes, TickIs
<1>3. TellsToo(tab, ReadyThreads, tab', ReadyThreads)
  BY <1>2, RunningIs, DressedTells
<1>4. ReadyThreads' = ReadyThreads
  BY <1>1, SameReady
<1>5. ASSUME kernel = NULL, NEW d \in tab'.active PROVE Settled(d)'
  <2>1. d \in tab.active /\ (Unbeaten(tab, ReadyThreads, d) => Unbeaten(tab', ReadyThreads, d))
    BY <1>2, <1>5 DEF Dressed, Unbeaten
  <2>2. Settled(d)
    BY <1>5, <2>1 DEF LostInv
  <2>3. QED BY <1>1, <1>4, <2>1, <2>2 DEF Settled, AboutToSchedule
<1>6. Free'
  BY <1>1 DEF LostInv, Free
<1>7. QED BY <1>1, <1>3, <1>4, <1>5, <1>6, StillTells

LEMMA IsrPostTells ==
  ASSUME IInv, LostInv, NEW c \in CPUs, NEW u \in Users, IsrPost(c, u)
  PROVE  LostInv'
<1>1. PICK front \in BOOLEAN : InterEnter(c) /\ Wakes(u, front, Locked(kernel)) /\ IsrExit(c)
  BY DEF IsrPost
<1>2. PICK locked : locked = Locked(kernel)
  OBVIOUS
<1>3. Wakes(u, front, locked)
  BY <1>1, <1>2
<1>4. Kept(tab, tab', AddCands) /\ TellsToo(tab, ReadyThreads, tab', ReadyThreads')
  BY <1>3, WakesTable
<1>5. tab'.active \subseteq CPUs
  BY <1>4, RunningIs DEF Kept
<1>6. QED BY <1>1, <1>4, <1>5, IsrTells

LEMMA IsrSuspendTells ==
  ASSUME IInv, LostInv, NEW c \in CPUs, NEW u \in Users, IsrSuspend(c, u)
  PROVE  LostInv'
<1>1. PICK r \in Requests : r = "SUSPEND"
  BY DEF Requests
<1>2. InterEnter(c) /\ ChangeAtOnce(c, u, r) /\ IsrExit(c)
  BY <1>1 DEF IsrSuspend
<1>3. /\ Kept(tab, tab', IF u \in tab.isCand THEN {tab.cpuId[u]} ELSE {})
      /\ TellsToo(tab, ReadyThreads, tab', ReadyThreads')
  BY <1>2, ChangeTable
<1>4. tab'.active \subseteq CPUs
  BY <1>3, RunningIs DEF Kept
<1>5. QED BY <1>2, <1>3, <1>4, IsrTells

LEMMA IsrResumeTells ==
  ASSUME IInv, LostInv, NEW c \in CPUs, NEW u \in Users, IsrResume(c, u)
  PROVE  LostInv'
<1>1. PICK r \in Requests : r = "SUSPEND"
  BY DEF Requests
<1>2. PICK s : s = tab
  OBVIOUS
<1>3. PICK locked : locked = Locked(kernel)
  OBVIOUS
<1>4. InterEnter(c) /\ Releases(s, u, r, locked) /\ IsrExit(c)
  BY <1>1, <1>2, <1>3 DEF IsrResume
<1>5. Sound(s, ReadyThreads)
  BY <1>2, StateTypes
<1>6. Kept(s, tab', AddCands) /\ TellsToo(s, ReadyThreads, tab', ReadyThreads')
  BY <1>4, <1>5, ReleasesTable
<1>7. tab'.active \subseteq CPUs
  BY <1>2, <1>6, RunningIs DEF Kept
<1>8. TellsToo(tab, ReadyThreads, tab', ReadyThreads')
  BY <1>2, <1>6
<1>9. QED BY <1>4, <1>7, <1>8, IsrTells

\* What c has told the others when it leaves with the requests i on the interrupt word.
Notified(c, i) ==
  /\ NoneHeld(tab') /\ Told(tab', ReadyThreads')
  /\ c \in tab'.active => Unbeaten(tab', ReadyThreads', c) \/ lock[running'[c]] > 0
  /\ \A d \in tab'.active \ {c} : Unbeaten(tab', ReadyThreads', d) \/ d \in irq' \/ d \in isr
  /\ \A d \in CPUs \ {c} : "SCHED" \in ipi'[d] => "SCHED" \in i[d] \/ d \in irq'
  /\ "SCHED" \in ipi'[c] => "SCHED" \in i[c] /\ irq \subseteq irq'
  /\ irq \ {c} \subseteq irq'

LEMMA GoDownTells ==
  ASSUME IInv, Flagged, NEW c \in CPUs, c \in tab.active,
         NEW s, Sound(s, ReadyThreads'), Kept(tab, s, {c}), NoneHeld(s), Told(s, ReadyThreads'),
         NEW i \in [CPUs -> SUBSET {"SCHED", "STATUS_REQ", "DOWN"}],
         \A d \in CPUs : "DOWN" \in i[d] <=> "DOWN" \in ipi[d], "DOWN" \in i[c], GoDown(c, s, i)
  PROVE  Notified(c, i)
<1>1. PICK x : x = CpuInactive(s, c)
  OBVIOUS
<1>2. PICK to : to = SmpNotify(x, c)
  OBVIOUS
<1>3. /\ tab' = x /\ ipi' = [SendSched(i, to) EXCEPT ![c] = {}] /\ irq' = (irq \cup to) \ {c}
  BY <1>1, <1>2 DEF GoDown
<1>4. c # 0 /\ \A t \in Threads : s.cpuLock[t] # c
  BY DEF IInv, DownInv, Kept
<1>5. PICK Q : Q = ReadyThreads'
  OBVIOUS
<1>6. c \in s.active /\ Sound(s, Q) /\ Told(s, Q)
  BY <1>5 DEF Kept
<1>7. Sound(x, Q) /\ x.active = s.active \ {c} /\ TellsToo(s, Q, x, Q)
  <2>1. Sound(s, Q) /\ c \in s.active /\ c # 0
    BY <1>4, <1>6
  <2>2. Sound(x, Q) /\ TellsToo(s, Q, x, Q)
    BY <1>1, <1>4, <2>1, CpuInactiveIs
  <2>3. /\ Sound(x, Q) /\ x.active = s.active \ {c} /\ x.cpuLock = s.cpuLock
        /\ x.cand = [s.cand EXCEPT ![c] = NULL]
    BY <1>1, <1>4, <2>1, CpuInactiveIs
  <2>4. QED BY <2>2, <2>3
<1>8. NoneHeld(x) /\ Told(x, Q)
  BY <1>6, <1>7 DEF TellsToo
<1>9. x.active \subseteq CPUs /\ c \notin x.active
  BY <1>7, CandIs
<1>10. /\ \A d \in x.active \ {c} : Unbeaten(x, Q, d) \/ d \in to \/ d \in irq \/ d \in isr
       /\ to \subseteq CPUs \ {c}
  BY <1>2, <1>8, <1>9, NotifyIs
<1>11. /\ ipi'[c] = {} /\ irq \ {c} \subseteq irq' /\ to \subseteq irq'
       /\ \A d \in CPUs \ {c} : "SCHED" \in ipi'[d] => "SCHED" \in i[d] \/ d \in to
  BY <1>3, <1>10 DEF SendSched
<1>12. \A d \in x.active \ {c} : Unbeaten(x, Q, d) \/ d \in irq' \/ d \in isr
  BY <1>10, <1>11
<1>13. QED BY <1>3, <1>5, <1>8, <1>9, <1>11, <1>12 DEF Notified

LEMMA SwitchTells ==
  ASSUME IInv, Flagged, NEW c \in CPUs, c \in tab.active, NEW t \in Threads, t = running[c],
         NEW s, Sound(s, ReadyThreads'), Kept(tab, s, {c}), NoneHeld(s), Told(s, ReadyThreads'),
         NEW i \in [CPUs -> SUBSET {"SCHED", "STATUS_REQ", "DOWN"}],
         \A d \in CPUs : "DOWN" \in i[d] <=> "DOWN" \in ipi[d], Switch(c, s, i)
  PROVE  Notified(c, i)
<1>1. PICK stays : stays \in BOOLEAN /\ (stays <=> lock[t] > 0 /\ ReadyWith(t, pend', nest', waitFor'))
  <2>1. (lock[t] > 0 /\ ReadyWith(t, pend', nest', waitFor')) \in BOOLEAN
    BY DEF ReadyWith
  <2>2. QED BY <2>1
<1>2. PICK x : x = IF ~stays /\ s.rot[c] THEN CandTableUpdate(s, c) ELSE s
  OBVIOUS
<1>3. PICK next : next = IF stays THEN t ELSE x.cand[c]
  OBVIOUS
<1>4. PICK to : to = SmpNotify(x, c)
  OBVIOUS
<1>5. IF next # t /\ "DOWN" \in i[c] THEN GoDown(c, x, i)
      ELSE /\ tab' = x
           /\ running' = [running EXCEPT ![c] = next]
           /\ ipi' = SendSched(i, to)
           /\ irq' = irq \cup to
  BY <1>1, <1>2, <1>3, <1>4 DEF Switch
<1>6. PICK Q : Q = ReadyThreads'
  OBVIOUS
<1>7. s.active = tab.active /\ Sound(s, Q) /\ Told(s, Q)
  BY <1>6 DEF Kept
<1>8. /\ Sound(x, Q) /\ Kept(tab, x, {c}) /\ NoneHeld(x) /\ Told(x, Q)
      /\ stays \/ Unbeaten(x, Q, c)
  <2>1. CASE ~stays /\ s.rot[c]
    <3>1. x = CandTableUpdate(s, c) /\ c \in s.active
      BY <1>2, <1>7, <2>1
    <3>2. Sound(x, Q) /\ Kept(s, x, {c}) /\ TellsToo(s, Q, x, Q) /\ Unbeaten(x, Q, c)
      BY <1>7, <3>1, UpdateIs
    <3>3. Kept(tab, x, {c})
      BY <3>2 DEF Kept
    <3>4. NoneHeld(x) /\ Told(x, Q)
      BY <1>7, <3>2 DEF TellsToo
    <3>5. QED BY <3>2, <3>3, <3>4
  <2>2. CASE ~(~stays /\ s.rot[c])
    <3>1. x = s
      BY <1>2, <2>2
    <3>2. stays \/ Unbeaten(s, Q, c)
      BY <1>7, <2>2 DEF Told
    <3>3. QED BY <1>7, <3>1, <3>2
  <2>3. QED BY <2>1, <2>2
<1>9. CASE next # t /\ "DOWN" \in i[c]
  <2>1. GoDown(c, x, i)
    BY <1>5, <1>9
  <2>2. Sound(x, ReadyThreads') /\ Told(x, ReadyThreads')
    BY <1>6, <1>8
  <2>3. QED BY <1>8, <1>9, <2>1, <2>2, GoDownTells
<1>10. CASE ~(next # t /\ "DOWN" \in i[c])
  <2>1. /\ tab' = x /\ running' = [running EXCEPT ![c] = next]
        /\ ipi' = SendSched(i, to) /\ irq' = irq \cup to
    BY <1>5, <1>10
  <2>2. x.active \subseteq CPUs
    BY <1>8, CandIs
  <2>3. /\ \A d \in x.active \ {c} : Unbeaten(x, Q, d) \/ d \in to \/ d \in irq \/ d \in isr
        /\ to \subseteq CPUs \ {c}
    BY <1>4, <1>8, <2>2, NotifyIs
  <2>4. \A d \in CPUs : "SCHED" \in ipi'[d] => "SCHED" \in i[d] \/ d \in to
    BY <2>1 DEF SendSched
  <2>5. running'[c] = next
    BY <2>1, StateTypes
  <2>6. stays => lock[running'[c]] > 0
    BY <1>1, <1>3, <2>5
  <2>7. Unbeaten(x, Q, c) \/ lock[running'[c]] > 0
    BY <1>8, <2>6
  <2>8. QED BY <1>6, <1>8, <2>1, <2>3, <2>4, <2>7 DEF Notified
<1>11. QED BY <1>9, <1>10

LEMMA LeaverTells ==
  ASSUME IInv, LostInv, NEW c \in CPUs, Leaves(c), Serve(c),
         NEW i \in [CPUs -> SUBSET {"SCHED", "STATUS_REQ", "DOWN"}],
         \A d \in CPUs : "DOWN" \in i[d] <=> "DOWN" \in ipi[d],
         \A d \in CPUs : "SCHED" \in i[d] => "SCHED" \in ipi[d],
         c \in isr => "SCHED" \notin i[c],
         Switch(c, Served(c), i) \/ ("DOWN" \in i[c] /\ GoDown(c, Served(c), i))
  PROVE  LostInv'
<1>1. PICK t \in Threads : t = running[c]
  BY LeaverIs
<1>2. c \in tab.active /\ kernel' = NULL /\ isr' = isr \ {c} /\ UNCHANGED << lock, after >>
  BY LeaverIs DEF Leaves
<1>3. PICK s : s = Served(c)
  OBVIOUS
<1>4. /\ Sound(s, ReadyThreads') /\ Kept(tab, s, {c})
      /\ TellsToo(tab, ReadyThreads, s, ReadyThreads')
  BY <1>1, <1>2, <1>3, ServedIs
<1>5. NoneHeld(s) /\ Told(s, ReadyThreads') /\ Flagged
  BY <1>4 DEF LostInv, TellsToo
<1>6. Switch(c, s, i) \/ ("DOWN" \in i[c] /\ GoDown(c, s, i))
  BY <1>3
<1>7. Notified(c, i)
  <2>1. CASE Switch(c, s, i)
    BY <1>1, <1>2, <1>4, <1>5, <2>1, SwitchTells
  <2>2. CASE "DOWN" \in i[c] /\ GoDown(c, s, i)
    BY <1>2, <1>4, <1>5, <2>2, GoDownTells
  <2>3. QED BY <1>6, <2>1, <2>2
<1>8. NoneHeld(tab)' /\ Told(tab, ReadyThreads)'
  BY <1>7 DEF Notified
<1>9. Free'
  BY <1>2 DEF LostInv, Free
<1>10. Flagged'
  <2>1. ASSUME NEW d \in CPUs, "SCHED" \in ipi'[d] PROVE d \in irq' \cup isr'
    <3>1. CASE d = c
      <4>1. "SCHED" \in i[c] /\ irq \subseteq irq'
        BY <1>7, <2>1, <3>1 DEF Notified
      <4>2. c \in irq
        BY <1>5, <4>1 DEF Flagged
      <4>3. QED BY <3>1, <4>1, <4>2
    <3>2. CASE d # c
      <4>1. ("SCHED" \in i[d] \/ d \in irq') /\ irq \ {c} \subseteq irq'
        BY <1>7, <2>1, <3>2 DEF Notified
      <4>2. QED BY <1>2, <1>5, <3>2, <4>1 DEF Flagged
    <3>3. QED BY <3>1, <3>2
  <2>2. QED BY <2>1 DEF Flagged
<1>11. ASSUME NEW d \in tab'.active PROVE Settled(d)'
  <2>1. CASE d = c
    <3>1. Unbeaten(tab', ReadyThreads', c) \/ lock[running'[c]] > 0
      BY <1>7, <1>11, <2>1 DEF Notified
    <3>2. QED BY <1>2, <2>1, <3>1 DEF Settled
  <2>2. CASE d # c
    <3>1. Unbeaten(tab', ReadyThreads', d) \/ d \in irq' \/ d \in isr
      BY <1>7, <1>11, <2>2 DEF Notified
    <3>2. QED BY <1>2, <2>2, <3>1 DEF Settled, AboutToSchedule
  <2>3. QED BY <2>1, <2>2
<1>12. QED BY <1>8, <1>9, <1>10, <1>11 DEF LostInv

LEMMA IpiServedKeeps ==
  ASSUME NEW c \in CPUs, NEW i \in [CPUs -> SUBSET {"SCHED", "STATUS_REQ", "DOWN"}]
  PROVE  \A d \in CPUs : "SCHED" \in IpiServed(i, c)[d] <=> "SCHED" \in i[d]
<1>1. CASE MustServe(c)
  <2>1. IpiServed(i, c) = [i EXCEPT ![c] = @ \ {"STATUS_REQ"}]
    BY <1>1 DEF IpiServed
  <2>2. QED BY <2>1
<1>2. CASE ~MustServe(c)
  BY <1>2 DEF IpiServed
<1>3. QED BY <1>1, <1>2

LEMMA KernelExitTells ==
  ASSUME IInv, LostInv, NEW c \in CPUs, KernelExit(c)
  PROVE  LostInv'
<1>1. /\ kernel = c /\ c \notin isr /\ kernel' = NULL /\ Serve(c)
      /\ Switch(c, Served(c), IpiServed(ipi, c))
      /\ UNCHANGED << isr, booting, lock, after >>
  BY DEF KernelExit
<1>2. Leaves(c)
  <2>1. isr \ {c} = isr
    BY <1>1
  <2>2. kernel' = NULL /\ isr' = isr \ {c} /\ UNCHANGED << booting, lock, after >>
    BY <1>1, <2>1
  <2>3. QED BY <1>1, <2>2 DEF Leaves
<1>3. PICK i : i = IpiServed(ipi, c)
  OBVIOUS
<1>4. /\ i \in [CPUs -> SUBSET {"SCHED", "STATUS_REQ", "DOWN"}]
      /\ \A d \in CPUs : "DOWN" \in i[d] <=> "DOWN" \in ipi[d]
  BY <1>3, StateTypes, IpiServedIs
<1>5. \A d \in CPUs : "SCHED" \in i[d] => "SCHED" \in ipi[d]
  BY <1>3, StateTypes, IpiServedKeeps
<1>6. Switch(c, Served(c), i)
  BY <1>1, <1>3
<1>7. QED BY <1>1, <1>2, <1>4, <1>5, <1>6, LeaverTells

LEMMA NestedTells ==
  ASSUME IInv, LostInv, NEW c \in CPUs, c \in isr, isr' = isr \ {c}, InterExitNested(c),
         UNCHANGED << kernel, lock, after >>
  PROVE  LostInv'
<1>1. PICK to : to = SmpNotify(tab, c)
  OBVIOUS
<1>2. /\ kernel' = c /\ c # NULL
      /\ ipi' = [SendSched(ipi, to) EXCEPT ![c] = @ \ {"SCHED"}]
      /\ irq' = irq \cup to /\ UNCHANGED << tab, pend, nest, waitFor >>
  BY <1>1, CandTableAssumption DEF InterExitNested, svars
<1>3. NoneHeld(tab)' /\ Told(tab, ReadyThreads)'
  BY <1>2, SameReady DEF LostInv
<1>4. /\ "SCHED" \notin ipi'[c]
      /\ \A d \in CPUs \ {c} : "SCHED" \in ipi'[d] => "SCHED" \in ipi[d] \/ d \in to
  BY <1>2, StateTypes DEF SendSched
<1>5. Flagged'
  BY <1>2, <1>4 DEF LostInv, Flagged
<1>6. Free'
  BY DEF LostInv, Free
<1>7. QED BY <1>2, <1>3, <1>5, <1>6 DEF LostInv

LEMMA InterExitTells ==
  ASSUME IInv, LostInv, NEW c \in CPUs, InterExit(c)
  PROVE  LostInv'
<1>1. /\ c \in isr /\ isr' = isr \ {c} /\ UNCHANGED << kernel, booting, lock, after >>
      /\ InterExitNested(c) \/ ScheduleInt(c)
  BY DEF InterExit
<1>2. CASE InterExitNested(c)
  BY <1>1, <1>2, NestedTells
<1>3. CASE ScheduleInt(c)
  <2>1. PICK j : j = [ipi EXCEPT ![c] = @ \ {"SCHED"}]
    OBVIOUS
  <2>2. PICK i : i = IpiServed(j, c)
    OBVIOUS
  <2>3. /\ kernel = NULL /\ Serve(c)
        /\ IF "DOWN" \in ipi[c] /\ lock[running[c]] = 0
           THEN GoDown(c, Served(c), i) ELSE Switch(c, Served(c), i)
    BY <1>3, <2>1, <2>2 DEF ScheduleInt
  <2>4. /\ j \in [CPUs -> SUBSET {"SCHED", "STATUS_REQ", "DOWN"}]
        /\ \A d \in CPUs : "DOWN" \in j[d] <=> "DOWN" \in ipi[d]
        /\ \A d \in CPUs : "SCHED" \in j[d] => "SCHED" \in ipi[d]
        /\ "SCHED" \notin j[c]
    BY <2>1, StateTypes
  <2>5. /\ i \in [CPUs -> SUBSET {"SCHED", "STATUS_REQ", "DOWN"}]
        /\ \A d \in CPUs : "DOWN" \in i[d] <=> "DOWN" \in j[d]
    BY <2>2, <2>4, IpiServedIs
  <2>6. \A d \in CPUs : "SCHED" \in i[d] <=> "SCHED" \in j[d]
    BY <2>2, <2>4, IpiServedKeeps
  <2>7. Leaves(c)
    BY <1>1, <2>3 DEF Leaves
  <2>8. Switch(c, Served(c), i) \/ ("DOWN" \in i[c] /\ GoDown(c, Served(c), i))
    BY <2>3, <2>4, <2>5
  <2>9. /\ \A d \in CPUs : "DOWN" \in i[d] <=> "DOWN" \in ipi[d]
        /\ \A d \in CPUs : "SCHED" \in i[d] => "SCHED" \in ipi[d]
        /\ "SCHED" \notin i[c]
    BY <2>4, <2>5, <2>6
  <2>10. QED BY <2>3, <2>5, <2>7, <2>8, <2>9, LeaverTells
<1>4. QED BY <1>1, <1>2, <1>3

LEMMA SecondaryStartTells ==
  ASSUME IInv, LostInv, NEW d \in CPUs, SecondaryStart(d)
  PROVE  LostInv'
<1>1. /\ d \in booting /\ tab' = CpuActive(tab, d) /\ running' = [running EXCEPT ![d] = tab'.cand[d]]
      /\ UNCHANGED << ipi, irq, kernel, isr, pend, nest, waitFor, lock, after >>
  BY DEF SecondaryStart, svars
<1>2. d \in CPUs \ tab.active /\ Sound(tab, ReadyThreads)
  BY <1>1, StateTypes DEF IInv, PlacesInv
<1>3. /\ tab'.active = tab.active \cup {d} /\ TellsToo(tab, ReadyThreads, tab', ReadyThreads)
      /\ NoneHeld(tab) => Unbeaten(tab', ReadyThreads, d)
      /\ \A e \in tab.active : Unbeaten(tab, ReadyThreads, e) => Unbeaten(tab', ReadyThreads, e)
  BY <1>1, <1>2, CpuActiveIs
<1>4. ReadyThreads' = ReadyThreads
  BY <1>1, SameReady
<1>5. \A e \in tab.active : running'[e] = running[e]
  BY <1>1, <1>2, RunningIs, StateTypes
<1>6. ASSUME kernel = NULL, NEW e \in tab'.active PROVE Settled(e)'
  <2>1. CASE e = d
    BY <1>3, <1>4, <2>1 DEF LostInv, Settled
  <2>2. CASE e # d
    <3>1. e \in tab.active /\ Settled(e)
      BY <1>3, <1>6, <2>2 DEF LostInv
    <3>2. QED BY <1>1, <1>3, <1>4, <1>5, <3>1 DEF Settled, AboutToSchedule
  <2>3. QED BY <2>1, <2>2
<1>7. Free'
  BY <1>1 DEF LostInv, Free
<1>8. QED BY <1>1, <1>3, <1>4, <1>6, <1>7, StillTells

LEMMA InitTells ==
  ASSUME Init PROVE LostInv
<1>1. PICK prio \in [Users -> Priorities \ {IdlePrio}] : InitWith(prio)
  BY DEF Init
<1>2. PICK s : s = InitialTable(prio)
  OBVIOUS
<1>3. Sound(s, Idle) /\ s.active = {0} /\ s.cand[0] \in Idle
  BY <1>2, InitialIs
<1>4. s.cpuLock = [t \in Threads |-> NULL]
      /\ s.prio = [t \in Threads |-> IF t \in Users THEN prio[t] ELSE IdlePrio]
  BY <1>2 DEF InitialTable
<1>5. /\ tab = s /\ ipi = [c \in CPUs |-> {}] /\ pend = Users
      /\ nest = [r \in Requests |-> [t \in Threads |-> 0]]
      /\ waitFor = [t \in Threads |-> NULL] /\ after = [t \in Threads |-> NoCall]
  BY <1>1, <1>2 DEF InitWith
<1>6. /\ Idle \subseteq Threads /\ IdlePrio \in Nat
  BY CandTableAssumption, SchedulerAssumption
<1>7. ReadyThreads = Idle
  BY <1>5, <1>6 DEF ReadyThreads, Ready, ReadyWith, Requests, Users
<1>8. \A t \in Idle : s.prio[t] = IdlePrio
  BY <1>4, <1>6 DEF Users
<1>9. Unbeaten(s, Idle, 0)
  BY <1>3, <1>6, <1>8 DEF Unbeaten
<1>10. NoneHeld(tab) /\ Told(tab, ReadyThreads)
  BY <1>3, <1>4, <1>5, <1>7, <1>9 DEF NoneHeld, Told
<1>11. \A c \in tab.active : Settled(c)
  BY <1>3, <1>5, <1>7, <1>9 DEF Settled
<1>12. Free
  BY <1>5, CallsDiffer DEF Free, Users
<1>13. Flagged
  BY <1>5 DEF Flagged
<1>14. QED BY <1>10, <1>11, <1>12, <1>13 DEF LostInv

LEMMA LostKeeps ==
  ASSUME CarefulCalls, NobodyHeld, IInv, LostInv, [Next]_vars
  PROVE  LostInv'
<1>1. CASE UNCHANGED vars
  <2>1. UNCHANGED << tab, running, ipi, irq, kernel, isr, pend, nest, waitFor, lock, after >>
    BY <1>1 DEF vars, kvars, svars
  <2>2. ReadyThreads' = ReadyThreads
    BY <2>1, SameReady
  <2>3. NoneHeld(tab)' /\ Told(tab, ReadyThreads)' /\ Free' /\ Flagged'
    BY <2>1, <2>2 DEF LostInv, Free, Flagged
  <2>4. ASSUME kernel = NULL, NEW c \in tab.active PROVE Settled(c)'
    BY <2>1, <2>2, <2>4 DEF LostInv, Settled, AboutToSchedule
  <2>5. QED BY <2>1, <2>3, <2>4 DEF LostInv
<1>2. ASSUME NEW c \in CPUs, ThreadCall(c) PROVE LostInv'
  <2>1. CASE Pend(c)
    BY <2>1, PendTells
  <2>2. CASE ThreadLock(c)
    BY <2>2, LockTells
  <2>3. CASE ThreadUnlock(c)
    BY <2>3, UnlockTells
  <2>4. CASE ThreadSched(c)
    BY <2>4, SchedTells
  <2>5. ASSUME NEW u \in Users, Post(c, u) PROVE LostInv'
    BY <2>5, PostTells
  <2>6. ASSUME NEW u \in Users, ThreadSuspend(c, u) PROVE LostInv'
    BY <2>6, SuspendTells
  <2>7. ASSUME NEW u \in Users, ThreadResume(c, u) PROVE LostInv'
    BY <2>7, ResumeTells
  <2>8. ASSUME NEW u \in Users, ThreadYield(c, u) PROVE LostInv'
    BY <2>8, YieldTells
  <2>9. ASSUME NEW u \in Users, NEW p \in Priorities, ThreadSetPriority(c, u, p) PROVE LostInv'
    BY <2>9, SetPriorityTells
  <2>10. ASSUME NEW u \in Users, NEW d \in CPUs \cup {NULL}, StopForAffinity(c, u, d) PROVE LostInv'
    BY <2>10, StopForAffinityTells
  <2>11. ASSUME NEW u \in Users, NEW d \in CPUs \cup {NULL}, SetOtherAffinity(c, u, d) PROVE LostInv'
    BY <2>11, SetOtherAffinityTells
  <2>12. ASSUME NEW d \in CPUs \cup {NULL}, SetOwnAffinity(c, d) PROVE LostInv'
    BY <2>12, SetOwnAffinityTells
  <2>13. ASSUME NEW d \in CPUs, CpuUp(c, d) PROVE LostInv'
    BY <2>13, CpuUpTells
  <2>14. ASSUME NEW d \in CPUs, CpuDown(c, d) PROVE LostInv'
    BY <2>14, CpuDownTells
  <2>15. ASSUME NEW d \in CPUs, SendDown(c, d) PROVE LostInv'
    BY <2>15, SendDownTells
  <2>16. QED
    BY <1>2, <2>1, <2>2, <2>3, <2>4, <2>5, <2>6, <2>7, <2>8, <2>9, <2>10, <2>11, <2>12, <2>13,
       <2>14, <2>15
    DEF ThreadCall
<1>3. ASSUME NEW c \in CPUs, Interrupt(c) PROVE LostInv'
  <2>1. CASE IpiInterrupt(c)
    BY <2>1, IpiTells
  <2>2. CASE IsrTick(c)
    BY <2>2, TickTells
  <2>3. ASSUME NEW u \in Users, IsrPost(c, u) PROVE LostInv'
    BY <2>3, IsrPostTells
  <2>4. ASSUME NEW u \in Users, IsrSuspend(c, u) PROVE LostInv'
    BY <2>4, IsrSuspendTells
  <2>5. ASSUME NEW u \in Users, IsrResume(c, u) PROVE LostInv'
    BY <2>5, IsrResumeTells
  <2>6. QED BY <1>3, <2>1, <2>2, <2>3, <2>4, <2>5 DEF Interrupt
<1>4. QED
  BY <1>1, <1>2, <1>3, KernelExitTells, InterExitTells, SecondaryStartTells DEF Next

LEMMA LostTells ==
  ASSUME IInv, LostInv PROVE NoLostReschedule
<1> SUFFICES ASSUME NEW c \in tab.active, NEW best, best = SeekPriority(tab, c), best # NULL,
                    best.prio < tab.prio[tab.cand[c]], ~AboutToSchedule(c)
             PROVE  /\ tab.rot[c]
                    /\ lock[running[c]] = 0 =>
                         c \in irq \/ (kernel # NULL /\ "SCHED" \notin ipi[c])
  BY DEF NoLostReschedule
<1>1. PICK W : W = ReadyThreads \ tab.isCand
  OBVIOUS
<1>2. TableType(tab) /\ RingsExact(tab, W) /\ c \in CPUs
  BY <1>1, StateTypes, RunningIs DEF Sound, TableExact
<1>3. Found(tab, best)
  BY <1>2, SeekFound
<1>4. PICK u \in W : tab.prio[u] = best.prio
  BY <1>2, <1>3, HeadIs DEF Found
<1>5. ~Unbeaten(tab, ReadyThreads, c)
  BY <1>1, <1>4 DEF Unbeaten
<1>6. tab.rot[c]
  BY <1>5 DEF LostInv, Told
<1>7. ASSUME lock[running[c]] = 0 PROVE c \in irq \/ (kernel # NULL /\ "SCHED" \notin ipi[c])
  <2>1. CASE kernel = NULL
    BY <1>5, <1>7, <2>1 DEF LostInv, Settled
  <2>2. CASE kernel # NULL
    BY <1>2, <2>2 DEF LostInv, Flagged, AboutToSchedule
  <2>3. QED BY <2>1, <2>2
<1>8. QED BY <1>6, <1>7

\* A processor does not overlook a thread that is more urgent than its candidate: it is
\* marked to choose again, and is about to, or the interrupt that makes it choose is on
\* its way or will be sent when the kernel is left (_CandTableTryAdd, _SchedSmpNotify,
\* _ScheduleInt).
THEOREM NoLostRescheduleCorrect ==
  ASSUME CarefulCalls, NobodyHeld
  PROVE  Spec => []NoLostReschedule
<1>1. Init => IInv /\ LostInv
  BY InitIs, InitTells
<1>2. (IInv /\ LostInv) /\ [Next]_vars => (IInv /\ LostInv)'
  BY NextKeeps, LostKeeps
<1>3. IInv /\ LostInv => NoLostReschedule
  BY LostTells
<1>4. QED BY <1>1, <1>2, <1>3, PTL DEF Spec
=============================================================================
