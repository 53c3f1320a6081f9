------------------------------- MODULE CandTable -------------------------------
(***************************************************************************)
(* The ready table and the candidates of the processors                    *)
(* (kernel/core/_CandTable.c, _ReadyRing.c, _ReadyTableLib.c, _SchedCand.c,*)
(* kernel/inline/inlSchedSeek.h, inlGetPcb.h, kernel/list/listLink.c).     *)
(*                                                                         *)
(* A table s is the record of                                              *)
(*   active    the processors that are LW_CPU_STATUS_ACTIVE                *)
(*   cand, rot LW_CAND_TCB and LW_CAND_ROT of every processor              *)
(*   ring      per queue and priority, the ready threads that are not      *)
(*             candidates, from PCB_pringReadyHeader on                    *)
(*   rdy       per queue, the priorities whose bit is set in PCBM_bmap     *)
(*   isCand    the threads with TCB_bIsCand                                *)
(*   cpuId, cpuLock, prio, counter, front   TCB_ulCPUId; TCB_ulCPULock when*)
(*             TCB_bCPULock, else NULL; TCB_ucPriority; TCB_usSchedCounter;*)
(*             TCB_ucSchedActivate = LW_SCHED_ACT_INTERRUPT, of every      *)
(*             thread                                                      *)
(***************************************************************************)
EXTENDS Naturals, Sequences, FiniteSets, FiniteSetsExt, SequencesExt

CONSTANTS
  Threads,     \* every thread, the idle threads among them
  CPUs,        \* LW_NCPUS processors, 0 is the one that starts
  Priorities,  \* the smaller is the more urgent
  RoundRobin,  \* the threads of policy LW_OPTION_SCHED_RR, the others are FIFO
  Slice,       \* TCB_usSchedSlice
  SMP_EN,      \* LW_CFG_SMP_EN > 0
  GLOBAL,      \* the queue of the threads that no processor holds
  NULL

ASSUME CandTableAssumption ==
  /\ CPUs \subseteq Nat /\ 0 \in CPUs /\ IsFiniteSet(CPUs)
  /\ IsFiniteSet(Threads)   \* _K_tcbBuffer, an array of LW_CFG_MAX_THREADS
  /\ Priorities \subseteq Nat
  /\ RoundRobin \subseteq Threads
  /\ Slice \in Nat \ {0}
  /\ SMP_EN \in BOOLEAN
  /\ SMP_EN \/ CPUs = {0}
  /\ GLOBAL \notin CPUs
  /\ NULL \notin Threads \cup CPUs \cup [queue : CPUs \cup {GLOBAL}, prio : Priorities]

Queues == CPUs \cup {GLOBAL}

TableType(s) ==
  s \in [active  : SUBSET CPUs,
         cand    : [CPUs -> Threads \cup {NULL}],
         rot     : [CPUs -> BOOLEAN],
         ring    : [Queues -> [Priorities -> Seq(Threads)]],
         rdy     : [Queues -> SUBSET Priorities],
         isCand  : SUBSET Threads,
         cpuId   : [Threads -> CPUs],
         cpuLock : [Threads -> CPUs \cup {NULL}],
         prio    : [Threads -> Priorities],
         counter : [Threads -> 0..Slice],
         front   : [Threads -> BOOLEAN]]

\* _GetPcb: the queue of a thread.
QueueOf(s, t) == IF SMP_EN /\ s.cpuLock[t] # NULL THEN s.cpuLock[t] ELSE GLOBAL

RingOf(s, t) == s.ring[QueueOf(s, t)][s.prio[t]]

SetRing(s, t, ring) == [s EXCEPT !.ring[QueueOf(s, t)][s.prio[t]] = ring]

\* _ReadyTableAdd
ReadyTableAdd(s, t) == [s EXCEPT !.rdy[QueueOf(s, t)] = @ \cup {s.prio[t]}]

\* _ReadyTableDel, where the ring of t has been left empty.
ReadyTableDelIfEmpty(s, t) ==
  IF RingOf(s, t) = << >>
  THEN [s EXCEPT !.rdy[QueueOf(s, t)] = @ \ {s.prio[t]}]
  ELSE s

\* _AddTCBToReadyRing: _List_Ring_Add_Front puts a thread behind the header.  The
\* activate mode is the default one of threads, LW_OPTION_RESPOND_AUTO; with the other
\* two (_ReadyRing.c:48) a thread of policy RR always or never goes there.
AddTCBToReadyRing(s, t) ==
  LET ring == RingOf(s, t)
  IN  SetRing(s, t,
        IF t \in RoundRobin /\ s.front[t] /\ ring # << >>
        THEN InsertAt(ring, 2, t)
        ELSE Append(ring, t))

Without(ring, t) == IF Contains(ring, t)
                    THEN RemoveAt(ring, CHOOSE i \in 1..Len(ring) : ring[i] = t)
                    ELSE ring

\* _List_Ring_Del; q is the ring as a value, which TLC computes once.
Unlinked(ring, t) == CHOOSE r \in {Without(q, t) : q \in {ring}} : TRUE

\* _DelTCBFromReadyRing
DelTCBFromReadyRing(s, t) == SetRing(s, t, Unlinked(RingOf(s, t), t))

-----------------------------------------------------------------------------
\* _SchedSeekPriority: the queue and the priority of the most urgent threads
\* that c may run and that are not candidates; its own queue first.
SeekPriority(s, c) ==
  LET mine   == IF SMP_EN THEN s.rdy[c] ELSE {}
      global == s.rdy[GLOBAL]
  IN  IF mine \cup global = {} THEN NULL
      ELSE LET p == Min(mine \cup global)
           IN  [queue |-> IF p \in mine THEN c ELSE GLOBAL, prio |-> p]

\* Faulty variant: the thread gets a new slice and runs again.
CandSeekThread_NoRotate(s, best) ==
  LET t == Head(s.ring[best.queue][best.prio])
  IN  IF s.counter[t] = 0 THEN [s EXCEPT !.counter[t] = Slice] ELSE s

\* _CandSeekThread: a thread whose slice has run out goes to the end of its ring.
CandSeekThread(s, best) ==
  LET ring == s.ring[best.queue][best.prio]
      t    == Head(ring)
  IN  IF t \in RoundRobin /\ s.counter[t] = 0
      THEN [s EXCEPT !.counter[t] = Slice,
                     !.ring[best.queue][best.prio] = Append(Tail(ring), t)]
      ELSE s

\* _CandTableResel
CandTableResel(s, c, best) ==
  LET s1 == CandSeekThread(s, best)
      t  == Head(s1.ring[best.queue][best.prio])
      s2 == [s1 EXCEPT !.cand[c] = t, !.cpuId[t] = c, !.isCand = @ \cup {t}]
  IN  ReadyTableDelIfEmpty(DelTCBFromReadyRing(s2, t), t)

\* _CandTableFill: the ready table is never empty here.
CandTableFill(s, c) == CandTableResel(s, c, SeekPriority(s, c))

\* Faulty variant: the bit of the priority is not set.
CandTableEmpty_NoBit(s, c) ==
  LET t == s.cand[c]
  IN  [SetRing(s, t, << t >> \o RingOf(s, t)) EXCEPT
         !.isCand = @ \ {t}, !.cand[c] = NULL]

\* _CandTableEmpty: the candidate goes back to the head of its ring.
CandTableEmpty(s, c) ==
  LET t  == s.cand[c]
      s1 == SetRing(s, t, << t >> \o RingOf(s, t))
      s2 == [s1 EXCEPT !.isCand = @ \ {t}, !.cand[c] = NULL]
  IN  IF Len(RingOf(s2, t)) = 1 THEN ReadyTableAdd(s2, t) ELSE s2

\* Is the candidate of c less urgent than t?
LessUrgent(s, c, t) == s.cand[c] # NULL /\ s.prio[t] < s.prio[s.cand[c]]

BecomeCand(s, c, t) ==
  [s EXCEPT !.cand[c] = t, !.cpuId[t] = c, !.isCand = @ \cup {t}]

\* What _CandTableTryAdd leaves to the ring.
IntoRing(s, t) ==
  AddTCBToReadyRing(IF RingOf(s, t) = << >> THEN ReadyTableAdd(s, t) ELSE s, t)

\* __ADD_TO_READY_RING with LW_CFG_SMP_EN: every processor whose candidate is
\* less urgent is told to look again, up to the first one that has none.
AddToReadyRingSmp(s, t) ==
  LET places == IF s.cpuLock[t] # NULL THEN {s.cpuLock[t]} ELSE s.active
      vacant == {c \in places : s.cand[c] = NULL}
      seen   == IF vacant = {} THEN places ELSE {c \in places : c < Min(vacant)}
      s1     == [s EXCEPT !.rot = [c \in CPUs |->
                    @[c] \/ (c \in seen /\ LessUrgent(s, c, t))]]
  IN  IF vacant # {} THEN BecomeCand(s1, Min(vacant), t) ELSE IntoRing(s1, t)

\* Faulty variant: the candidate that has locked the scheduler is not marked.
AddToReadyRingUp_NoRot(s, t, locked) ==
  IF LessUrgent(s, 0, t) /\ s.cand[0] \notin locked
  THEN BecomeCand(CandTableEmpty(s, 0), 0, t)
  ELSE IntoRing(s, t)

\* The same with one processor: its candidate is replaced at once, unless it is
\* one of the threads that hold the scheduler.
AddToReadyRingUp(s, t, locked) ==
  IF s.cand[0] = NULL THEN BecomeCand(s, 0, t)
  ELSE IF LessUrgent(s, 0, t)
       THEN IF s.cand[0] \in locked
            THEN IntoRing([s EXCEPT !.rot[0] = TRUE], t)
            ELSE BecomeCand(CandTableEmpty(s, 0), 0, t)
       ELSE IntoRing(s, t)

\* __ADD_TO_READY_RING
AddToReadyRing(s, t, locked) ==
  IF SMP_EN THEN AddToReadyRingSmp(s, t) ELSE AddToReadyRingUp(s, t, locked)

\* __DEL_FROM_READY_RING, _CandTableTryDel
DelFromReadyRing(s, t) ==
  LET c  == s.cpuId[t]
      s1 == IF t \in s.isCand THEN s ELSE DelTCBFromReadyRing(s, t)
  IN  IF s1.cand[c] = t
      THEN [CandTableFill([s1 EXCEPT !.isCand = @ \ {t}], c) EXCEPT !.rot[c] = FALSE]
      ELSE ReadyTableDelIfEmpty(s1, t)

\* Faulty variant: only a slice that has run out makes the candidate give way.
CandTableUpdate_SliceOnly(s, c) ==
  LET best == SeekPriority(s, c)
      t    == s.cand[c]
  IN  IF best # NULL /\ s.counter[t] = 0 /\ best.prio = s.prio[t]
      THEN [CandTableResel(CandTableEmpty(s, c), c, best) EXCEPT !.rot[c] = FALSE]
      ELSE [s EXCEPT !.rot[c] = FALSE]

\* _CandTableUpdate: the candidate gives way to a more urgent thread, and to one
\* that is as urgent when its slice has run out.
CandTableUpdate(s, c) ==
  LET best == SeekPriority(s, c)
      t    == s.cand[c]
  IN  IF c \notin s.active THEN s
      ELSE IF t = NULL THEN [CandTableFill(s, c) EXCEPT !.rot[c] = FALSE]
      ELSE IF /\ best # NULL
              /\ \/ best.prio < s.prio[t]
                 \/ s.counter[t] = 0 /\ best.prio = s.prio[t]
      THEN [CandTableResel(CandTableEmpty(s, c), c, best) EXCEPT !.rot[c] = FALSE]
      ELSE [s EXCEPT !.rot[c] = FALSE]

-----------------------------------------------------------------------------
\* _SchedSetPrio, of a thread that is ready or not.
SchedSetPrio(s, t, p, ready, locked) ==
  IF ~ready THEN [s EXCEPT !.prio[t] = p]
  ELSE IF t \in s.isCand
  THEN [s EXCEPT !.rot[s.cpuId[t]] = TRUE, !.prio[t] = p]
  ELSE AddToReadyRing([DelFromReadyRing(s, t) EXCEPT !.prio[t] = p], t, locked)

\* Is a thread that c could run at least as urgent as t?
PeerWaits(s, c, t) ==
  LET best == SeekPriority(s, c) IN best # NULL /\ best.prio <= s.prio[t]

\* Faulty variant: the counter is counted down past zero.
SchedTick_NoTest(s, running) ==
  [s EXCEPT !.counter = [t \in Threads |->
     IF t \in RoundRobin /\ \E c \in s.active : running[c] = t THEN @[t] - 1 ELSE @[t]]]

\* _SchedTick: the slices of the threads that run.
SchedTick(s, running) ==
  LET sliced == {c \in s.active : running[c] \in RoundRobin}
      spent  == {c \in sliced : s.counter[running[c]] = 0}
  IN  [s EXCEPT
         !.rot = [c \in CPUs |->
            @[c] \/ (c \in spent /\ PeerWaits(s, c, running[c]))],
         !.counter = [t \in Threads |->
            IF \E c \in sliced \ spent : running[c] = t THEN @[t] - 1 ELSE @[t]]]

\* _SchedYield, of a thread that runs, called on processor c.
SchedYield(s, c, t) ==
  IF PeerWaits(s, c, t)
  THEN [s EXCEPT !.counter[t] = 0, !.rot[s.cpuId[t]] = TRUE]
  ELSE s

\* _CpuInactive: the candidate goes back to its ring, and the processors that run
\* something less urgent are told.
CpuInactive(s, c) ==
  LET t  == s.cand[c]
      s1 == CandTableEmpty([s EXCEPT !.active = @ \ {c}], c)
  IN  [s1 EXCEPT !.rot = [d \in CPUs |->
         IF d = c THEN FALSE ELSE @[d] \/ (d \in s1.active /\ LessUrgent(s1, d, t))]]

\* _CpuActive
CpuActive(s, c) == CandTableUpdate([s EXCEPT !.active = @ \cup {c}], c)

\* Faulty variant: the lock is cleared before the thread leaves its ring.
ThreadOffAffinity_ClearFirst(s, t, ready) ==
  LET s1 == [s EXCEPT !.cpuLock[t] = NULL]
      s2 == AddTCBToReadyRing(ReadyTableDelIfEmpty(DelTCBFromReadyRing(s1, t), t), t)
  IN  IF ready /\ t \notin s.isCand THEN ReadyTableAdd(s2, t) ELSE s1

\* One thread of _ThreadOffAffinity, ready or not: it goes from the queue of its
\* processor to the queue of all.
ThreadOffAffinity(s, t, ready) ==
  LET s1 == IF ready /\ t \notin s.isCand
            THEN ReadyTableDelIfEmpty(DelTCBFromReadyRing(s, t), t) ELSE s
      s2 == [s1 EXCEPT !.cpuLock[t] = NULL]
      s3 == AddTCBToReadyRing(s2, t)
  IN  IF ready /\ t \notin s.isCand
      THEN IF Len(RingOf(s3, t)) = 1 THEN ReadyTableAdd(s3, t) ELSE s3
      ELSE s2
================================================================================
