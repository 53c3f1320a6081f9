------------------------------- MODULE Scheduler -------------------------------
(***************************************************************************)
(* The scheduler (kernel/core/_Sched.c, _SchedCand.c, _ThreadStatus.c,     *)
(* _CpuLib.c, _KernelStatus.c, kernel/interface/InterEnterExit.c,          *)
(* ThreadSuspend.c, ThreadResume.c, ThreadYield.c, ThreadLock.c,           *)
(* ThreadUnlock.c, ThreadSetPriority.c, ThreadAffinity.c, CpuActive.c).    *)
(*                                                                         *)
(* A call enters the kernel, which one processor holds at a time (_K_slKernel*)
(* ), changes the tables in one step, and leaves by KernelExit, which      *)
(* schedules.  An interrupt comes between any two steps, also on the       *)
(* processor that holds the kernel; what it calls is one step, and InterExit*)
(* schedules when it ends.                                                 *)
(***************************************************************************)
EXTENDS CandTable

CONSTANTS
  Idle,     \* _K_ptcbIdle: as many idle threads as processors, of policy FIFO
  Calls,    \* the calls that threads and interrupts make, apart from Pend and Post
  MaxNest   \* bound: nested suspensions and stops, nested thread locks

Users == Threads \ Idle
IdlePrio == Max(Priorities)

ASSUME SchedulerAssumption ==
  /\ Idle \subseteq Threads \ RoundRobin
  /\ Cardinality(Idle) = Cardinality(CPUs)
  /\ MaxNest \in Nat \ {0}
  /\ IdlePrio \in Priorities   \* LW_PRIO_IDLE, the last of 256

Requests == {"SUSPEND", "STOP"}   \* LW_TCB_REQ_SUSPEND, LW_TCB_REQ_STOP

NoCall == [op |-> "none"]
AffinityCall(u, d) == [op |-> "SetAffinity", thread |-> u, cpu |-> d]
DownCall(d) == [op |-> "CpuDown", cpu |-> d]
SchedCall == [op |-> "Sched"]

VARIABLES
  tab,      \* the ready table and the candidates
  running,  \* CPU_ptcbTCBCur of every processor
  ipi,      \* the requests on the inter-processor interrupt word
  irq,      \* the processors to which archMpInt is on its way
  kernel,   \* the processor that holds _K_slKernel, or NULL
  isr,      \* the processors with CPU_ulInterNesting > 0
  booting,  \* the processors that bspCpuUp has started
  pend,     \* the threads that wait for an event
  nest,     \* TCB_ulSuspendNesting and TCB_ulStopNesting
  waitFor,  \* TCB_ptcbWaitStatus: the thread whose state is to change
  request,  \* TCB_uiStatusChangeReq, or NULL
  pending,  \* TCB_plineStatusReqHeader: the threads that ask, the last one first
  lock,     \* TCB_ulThreadLockCounter, without what the kernel lock adds
  after     \* the rest of the call a thread is in, when it has left the kernel

kvars == << kernel, isr, booting >>
svars == << pend, nest, waitFor, request, pending >>
vars == << tab, running, ipi, irq, kvars, svars, lock, after >>

-----------------------------------------------------------------------------
\* __LW_THREAD_IS_READY: TCB_usStatus is empty.  The bits SUSPEND and STOP are
\* set while their nesting is not 0, WSTAT while the thread is on a list.
ReadyWith(t, pend_, nest_, waitFor_) ==
  /\ t \notin pend_
  /\ nest_["SUSPEND"][t] = 0 /\ nest_["STOP"][t] = 0
  /\ waitFor_[t] = NULL

Ready(t) == ReadyWith(t, pend, nest, waitFor)

\* The threads whose lock counter is not 0; the kernel lock counts for the thread
\* that holds it.
Locked(holder) == {t \in Threads : lock[t] > 0 \/ (holder # NULL /\ running[holder] = t)}

\* __LW_THREAD_IS_RUNNING
Running(t) == running[tab.cpuId[t]] = t

\* The thread becomes ready, woken by an interrupt (front) or by something else.
Activate(s, t, front, locked) ==
  AddToReadyRing([s EXCEPT !.front[t] = front], t, locked)

\* _SchedSmpNotify: the processors that c tells to schedule.
SmpNotify(s, c) ==
  IF SMP_EN THEN {d \in s.active \ {c} : s.rot[d] /\ "SCHED" \notin ipi[d]} ELSE {}

SendSched(ipi_, to) == [d \in CPUs |-> IF d \in to THEN ipi_[d] \cup {"SCHED"} ELSE ipi_[d]]

-----------------------------------------------------------------------------
\* The primary processor has taken an idle thread; the others have not started.
InitialTable(prio) ==
  LET idle == SetToSeq(Idle)
  IN  [active  |-> {0},
       cand    |-> [c \in CPUs |-> IF c = 0 THEN idle[1] ELSE NULL],
       rot     |-> [c \in CPUs |-> FALSE],
       ring    |-> [q \in Queues |-> [p \in Priorities |->
                      IF q = GLOBAL /\ p = IdlePrio THEN Tail(idle) ELSE << >>]],
       rdy     |-> [q \in Queues |->
                      IF q = GLOBAL /\ Len(idle) > 1 THEN {IdlePrio} ELSE {}],
       isCand  |-> {idle[1]},
       cpuId   |-> [t \in Threads |-> 0],
       cpuLock |-> [t \in Threads |-> NULL],
       prio    |-> [t \in Threads |-> IF t \in Users THEN prio[t] ELSE IdlePrio],
       counter |-> [t \in Threads |-> Slice],
       front   |-> [t \in Threads |-> FALSE]]

\* The threads wait for an event, with the priorities given to them.
InitWith(prio) ==
  /\ tab = InitialTable(prio)
  /\ running = tab.cand
  /\ ipi = [c \in CPUs |-> {}]
  /\ irq = {}
  /\ kernel = NULL /\ isr = {} /\ booting = CPUs \ {0}
  /\ pend = Users
  /\ nest = [r \in Requests |-> [t \in Threads |-> 0]]
  /\ waitFor = [t \in Threads |-> NULL]
  /\ request = [t \in Threads |-> NULL]
  /\ pending = [t \in Threads |-> << >>]
  /\ lock = [t \in Threads |-> 0]
  /\ after = [t \in Threads |-> NoCall]

\* Any priorities but the one of the idle threads.
Init == \E prio \in [Users -> Priorities \ {IdlePrio}] : InitWith(prio)

TypeOK ==
  /\ TableType(tab)
  /\ running \in [CPUs -> Threads \cup {NULL}]
  /\ ipi \in [CPUs -> SUBSET {"SCHED", "STATUS_REQ", "DOWN"}]
  /\ irq \subseteq CPUs /\ isr \subseteq CPUs /\ booting \subseteq CPUs
  /\ kernel \in CPUs \cup {NULL}
  /\ pend \subseteq Threads
  /\ nest \in [Requests -> [Threads -> 0..MaxNest]]
  /\ waitFor \in [Threads -> Threads \cup {NULL}]
  /\ request \in [Threads -> Requests \cup {NULL}]
  /\ pending \in [Threads -> Seq(Threads)]
  /\ lock \in [Threads -> 0..MaxNest]

-----------------------------------------------------------------------------
(* The calls of threads.                                                   *)

\* The thread on c enters the kernel: __KERNEL_ENTER.
Enters(c) ==
  /\ kernel = NULL /\ c \in tab.active \ isr
  /\ running[c] \in Users
  /\ kernel' = c
  /\ UNCHANGED << running, isr, booting >>

\* ... at the start of a call.
Calling(c) == Enters(c) /\ after[running[c]] = NoCall

\* ... of a call that blocks it, which a thread that has locked the scheduler must not
\* make (ThreadLock.c:35); no code refuses it.
CallingToBlock(c) == Calling(c) /\ lock[running[c]] = 0

\* The thread waits for an event.
Pend(c) ==
  LET t == running[c]
  IN  /\ CallingToBlock(c)
      /\ pend' = pend \cup {t}
      /\ tab' = DelFromReadyRing(tab, t)
      /\ UNCHANGED << ipi, irq, nest, waitFor, request, pending, lock, after >>

\* The event of u comes, or its time is over.
Wakes(u, front, locked) ==
  /\ u \in pend
  /\ pend' = pend \ {u}
  /\ tab' = IF ReadyWith(u, pend', nest, waitFor) THEN Activate(tab, u, front, locked)
            ELSE tab
  /\ UNCHANGED << nest, waitFor, request, pending >>

Post(c, u) ==
  /\ Calling(c) /\ Wakes(u, TRUE, Locked(c))
  /\ UNCHANGED << ipi, irq, lock, after >>

\* _ThreadStatusChange: the state of u is changed at once, unless it runs on
\* another processor.
ChangeAtOnce(c, u, r) ==
  /\ tab' = IF Ready(u) THEN DelFromReadyRing(tab, u) ELSE tab
  /\ nest' = [nest EXCEPT ![r][u] = @ + 1]
  /\ request' = [request EXCEPT ![running[c]] = NULL]
  /\ UNCHANGED << pend, waitFor, pending >>

\* Faulty variant: the processor of u is not told.
AskForChange_NoIpi(c, u, r) ==
  LET t == running[c]
  IN  /\ waitFor' = [waitFor EXCEPT ![t] = u]
      /\ request' = [request EXCEPT ![t] = r]
      /\ pending' = [pending EXCEPT ![u] = << t >> \o @]
      /\ tab' = IF Ready(t) THEN DelFromReadyRing(tab, t) ELSE tab
      /\ UNCHANGED << ipi, irq, pend, nest >>

\* _SmpSendIpi, _ThreadWaitStatus
AskForChange(c, u, r) ==
  LET t == running[c]
      d == tab.cpuId[u]
  IN  /\ ipi' = [ipi EXCEPT ![d] = @ \cup {"STATUS_REQ"}]
      /\ irq' = irq \cup {d}
      /\ waitFor' = [waitFor EXCEPT ![t] = u]
      /\ request' = [request EXCEPT ![t] = r]
      /\ pending' = [pending EXCEPT ![u] = << t >> \o @]
      /\ tab' = IF Ready(t) THEN DelFromReadyRing(tab, t) ELSE tab
      /\ UNCHANGED << pend, nest >>

RunsElsewhere(c, u) == SMP_EN /\ u # running[c] /\ Ready(u) /\ Running(u)

\* Faulty variant: a thread that runs on another processor is changed at once.
StatusChange_NoWait(c, u, r) == ChangeAtOnce(c, u, r) /\ UNCHANGED << ipi, irq >>

StatusChange(c, u, r) ==
  IF RunsElsewhere(c, u) THEN AskForChange(c, u, r)
  ELSE ChangeAtOnce(c, u, r) /\ UNCHANGED << ipi, irq >>

\* MaxNest bounds the requests.
Room(u, r) == nest[r][u] + Len(pending[u]) < MaxNest

\* API_ThreadSuspend; the thread that calls it blocks if it suspends itself.
ThreadSuspend(c, u) ==
  /\ "Suspend" \in Calls /\ Room(u, "SUSPEND")
  /\ IF u = running[c] THEN CallingToBlock(c) ELSE Calling(c)
  /\ StatusChange(c, u, "SUSPEND")
  /\ UNCHANGED << lock, after >>

\* API_ThreadResume, _ThreadContinue: the last of the nested requests ends.
Releases(s, u, r, locked) ==
  /\ nest' = [nest EXCEPT ![r][u] = IF @ > 0 THEN @ - 1 ELSE @]
  /\ tab' = IF nest[r][u] = 1 /\ ReadyWith(u, pend, nest', waitFor)
            THEN Activate(s, u, TRUE, locked) ELSE s
  /\ UNCHANGED << pend, waitFor, request, pending >>

ThreadResume(c, u) ==
  /\ "Suspend" \in Calls /\ nest["SUSPEND"][u] > 0
  /\ Calling(c) /\ Releases(tab, u, "SUSPEND", Locked(c))
  /\ UNCHANGED << ipi, irq, lock, after >>

ThreadSetPriority(c, u, p) ==
  /\ "SetPriority" \in Calls /\ p # tab.prio[u]
  /\ Calling(c)
  /\ tab' = SchedSetPrio(tab, u, p, Ready(u), Locked(c))
  /\ UNCHANGED << ipi, irq, svars, lock, after >>

ThreadYield(c, u) ==
  /\ "Yield" \in Calls /\ Ready(u) /\ Running(u)
  /\ Calling(c)
  /\ tab' = SchedYield(tab, c, u)
  /\ UNCHANGED << ipi, irq, svars, lock, after >>

\* API_ThreadLock changes only the counter of the thread.
ThreadLock(c) ==
  LET t == running[c]
  IN  /\ "Lock" \in Calls
      /\ c \in tab.active \ isr /\ kernel # c /\ t \in Users /\ after[t] = NoCall
      /\ lock[t] < MaxNest
      /\ lock' = [lock EXCEPT ![t] = @ + 1]
      /\ UNCHANGED << tab, running, ipi, irq, kvars, svars, after >>

\* API_ThreadUnlock: after the last lock the thread schedules.
ThreadUnlock(c) ==
  LET t == running[c]
  IN  /\ c \in tab.active \ isr /\ kernel # c /\ t \in Users /\ after[t] = NoCall
      /\ lock[t] > 0
      /\ lock' = [lock EXCEPT ![t] = @ - 1]
      /\ after' = [after EXCEPT ![t] = IF lock'[t] = 0 THEN SchedCall ELSE NoCall]
      /\ UNCHANGED << tab, running, ipi, irq, kvars, svars >>

\* _ThreadSched: __kernelSched
ThreadSched(c) ==
  LET t == running[c]
  IN  /\ Enters(c) /\ after[t] = SchedCall
      /\ after' = [after EXCEPT ![t] = NoCall]
      /\ UNCHANGED << tab, ipi, irq, svars, lock >>

-----------------------------------------------------------------------------
(* Affinity and processors that come and go.                               *)

\* Faulty variant: a processor that is about to go down is taken.
SetAffinity_NoDownTest(s, u, d) ==
  [s EXCEPT !.cpuLock[u] = IF d \in s.active THEN d ELSE NULL]

\* _ThreadSetAffinity: to one processor that is up and stays up, or to none.
SetAffinity(s, u, d) ==
  [s EXCEPT !.cpuLock[u] =
     IF d \in s.active /\ "DOWN" \notin ipi[d] THEN d ELSE NULL]

\* A thread sets its own affinity, when it has not locked the scheduler.
SetOwnAffinity(c, d) ==
  /\ "SetAffinity" \in Calls /\ Calling(c) /\ lock[running[c]] = 0
  /\ tab' = SetAffinity(tab, running[c], d)
  /\ UNCHANGED << ipi, irq, svars, lock, after >>

\* It stops another thread first, ...
StopForAffinity(c, u, d) ==
  /\ "SetAffinity" \in Calls /\ u # running[c] /\ Room(u, "STOP")
  /\ Calling(c) /\ StatusChange(c, u, "STOP")
  /\ after' = [after EXCEPT ![running[c]] = AffinityCall(u, d)]
  /\ UNCHANGED lock

\* ... and lets it continue in the end.
SetOtherAffinity(c, u, d) ==
  LET t == running[c]
  IN  /\ Enters(c) /\ after[t] = AffinityCall(u, d)
      /\ Releases(SetAffinity(tab, u, d), u, "STOP", Locked(c))
      /\ after' = [after EXCEPT ![t] = NoCall]
      /\ UNCHANGED << ipi, irq, lock >>

\* API_CpuUp: bspCpuUp starts the processor.  A careful caller waits until
\* API_CpuDown has returned and the processor is down (CpuActive.c:64).
CpuUp(c, d) ==
  LET t == running[c]
  IN  /\ "CpuDown" \in Calls
      /\ "CpuUpEarly" \in Calls \/ \A u \in Threads : after[u] # DownCall(d)
      /\ d \notin tab.active \cup booting /\ "DOWN" \notin ipi[d]
      /\ c \in tab.active \ isr /\ kernel # c /\ t \in Users /\ after[t] = NoCall
      /\ booting' = booting \cup {d}
      /\ UNCHANGED << tab, running, ipi, irq, kernel, isr, svars, lock, after >>

\* _KernelSecondaryCoreStartup
SecondaryStart(d) ==
  /\ d \in booting /\ kernel = NULL
  /\ booting' = booting \ {d}
  /\ tab' = CpuActive(tab, d)
  /\ running' = [running EXCEPT ![d] = tab'.cand[d]]
  /\ UNCHANGED << ipi, irq, kernel, isr, svars, lock, after >>

\* The threads that d holds are set free, one after the other.
HeldOff(d) ==
  LET held == SetToSeq({t \in Threads : tab.cpuLock[t] = d})
      s[i \in 0..Len(held)] ==
        IF i = 0 THEN tab ELSE ThreadOffAffinity(s[i - 1], held[i], Ready(held[i]))
  IN  s[Len(held)]

\* API_CpuDown: they are, under the kernel lock, ...
CpuDown(c, d) ==
  /\ "CpuDown" \in Calls /\ d # 0 /\ d \in tab.active /\ "DOWN" \notin ipi[d]
  /\ Calling(c)
  /\ ipi' = [ipi EXCEPT ![d] = @ \cup {"DOWN"}]
  /\ tab' = HeldOff(d)
  /\ after' = [after EXCEPT ![running[c]] = DownCall(d)]
  /\ UNCHANGED << irq, svars, lock >>

\* ... and d is told out of the kernel.
SendDown(c, d) ==
  LET t == running[c]
  IN  /\ c \in tab.active \ isr /\ kernel # c /\ after[t] = DownCall(d)
      /\ after' = [after EXCEPT ![t] = NoCall]
      /\ IF d \in tab.active
         THEN /\ ipi' = [ipi EXCEPT ![d] = @ \cup {"DOWN"}]
              /\ irq' = irq \cup {d}
         ELSE UNCHANGED << ipi, irq >>
      /\ UNCHANGED << tab, running, kvars, svars, lock >>

-----------------------------------------------------------------------------
(* Scheduling.                                                             *)

\* Is the thread on c asked to change its state, and may it?
MustServe(c) == SMP_EN /\ pending[running[c]] # << >> /\ lock[running[c]] = 0

\* Faulty variant: every request is applied as the kind of the last one.
StatusChangeCur_LastKind(c) ==
  LET t == running[c]
  IN  /\ nest' = [nest EXCEPT ![request[Head(pending[t])]][t] = @ + Len(pending[t])]
      /\ waitFor' = [v \in Threads |-> IF waitFor[v] = t THEN NULL ELSE waitFor[v]]
      /\ request' = [v \in Threads |-> IF waitFor[v] = t THEN NULL ELSE request[v]]
      /\ pending' = [pending EXCEPT ![t] = << >>]
      /\ UNCHANGED pend

\* _ThreadStatusChangeCur: every request is applied and its thread goes on.
StatusChangeCur(c) ==
  LET t == running[c]
  IN  /\ nest' = [r \in Requests |-> [nest[r] EXCEPT
                    ![t] = @ + Cardinality({u \in Range(pending[t]) : request[u] = r})]]
      /\ waitFor' = [u \in Threads |-> IF waitFor[u] = t THEN NULL ELSE waitFor[u]]
      /\ request' = [u \in Threads |-> IF waitFor[u] = t THEN NULL ELSE request[u]]
      /\ pending' = [pending EXCEPT ![t] = << >>]
      /\ UNCHANGED pend

\* The tables after that: the thread leaves, those that asked come back, one after
\* the other.
TableServed(c) ==
  LET t == running[c]
      s[i \in 0..Len(pending[t])] ==
        IF i = 0 THEN IF Ready(t) THEN DelFromReadyRing(tab, t) ELSE tab
        ELSE LET u == pending[t][i]
             IN  IF ReadyWith(u, pend, nest, [waitFor EXCEPT ![u] = NULL])
                 THEN Activate(s[i - 1], u, TRUE, {})
                 ELSE s[i - 1]
  IN  s[Len(pending[t])]

\* _SchedCpuDown
GoDown(c, s, ipi_) ==
  LET s1 == CpuInactive(s, c)
      to == SmpNotify(s1, c)
  IN  /\ tab' = s1
      /\ running' = [running EXCEPT ![c] = NULL]
      /\ ipi' = [SendSched(ipi_, to) EXCEPT ![c] = {}]
      /\ irq' = (irq \cup to) \ {c}

\* _SchedGetCand, _SchedSwp: the thread that locked the scheduler goes on while it
\* is ready, else the candidate runs.
Switch(c, s, ipi_) ==
  LET t     == running[c]
      stays == lock[t] > 0 /\ ReadyWith(t, pend', nest', waitFor')
      s1    == IF ~stays /\ s.rot[c] THEN CandTableUpdate(s, c) ELSE s
      next  == IF stays THEN t ELSE s1.cand[c]
      to    == SmpNotify(s1, c)
  IN  IF next # t /\ "DOWN" \in ipi_[c] THEN GoDown(c, s1, ipi_)
      ELSE /\ tab' = s1
           /\ running' = [running EXCEPT ![c] = next]
           /\ ipi' = SendSched(ipi_, to)
           /\ irq' = irq \cup to

\* The requests to the thread on c, and what is left of them on the interrupt word.
Serve(c) == IF MustServe(c) THEN StatusChangeCur(c) ELSE UNCHANGED svars
Served(c) == IF MustServe(c) THEN TableServed(c) ELSE tab
IpiServed(ipi_, c) ==
  IF MustServe(c) THEN [ipi_ EXCEPT ![c] = @ \ {"STATUS_REQ"}] ELSE ipi_

\* __kernelExit, _Schedule
KernelExit(c) ==
  /\ kernel = c /\ c \notin isr
  /\ kernel' = NULL
  /\ Serve(c)
  /\ Switch(c, Served(c), IpiServed(ipi, c))
  /\ UNCHANGED << isr, booting, lock, after >>

\* Faulty variant: an interrupt that comes while its processor holds the kernel
\* leaves the flag of the inter-processor interrupt.
InterExitNested_KeepFlag(c) ==
  /\ kernel = c
  /\ LET to == SmpNotify(tab, c)
     IN  ipi' = SendSched(ipi, to) /\ irq' = irq \cup to
  /\ UNCHANGED << tab, running, svars >>

\* _ScheduleInt on a processor that was in the kernel: nothing is switched.
InterExitNested(c) ==
  /\ kernel = c
  /\ LET to == SmpNotify(tab, c)
     IN  /\ ipi' = [SendSched(ipi, to) EXCEPT ![c] = @ \ {"SCHED"}]
         /\ irq' = irq \cup to
  /\ UNCHANGED << tab, running, svars >>

\* _ScheduleInt: a processor that has to stop does so.
ScheduleInt(c) ==
  LET ipi1 == IpiServed([ipi EXCEPT ![c] = @ \ {"SCHED"}], c)
  IN  /\ kernel = NULL
      /\ Serve(c)
      /\ IF "DOWN" \in ipi[c] /\ lock[running[c]] = 0
         THEN GoDown(c, Served(c), ipi1)
         ELSE Switch(c, Served(c), ipi1)

\* API_InterExit
InterExit(c) ==
  /\ c \in isr
  /\ isr' = isr \ {c}
  /\ InterExitNested(c) \/ ScheduleInt(c)
  /\ UNCHANGED << kernel, booting, lock, after >>

-----------------------------------------------------------------------------
(* Interrupts.                                                             *)

InterEnter(c) ==
  /\ c \in tab.active \ isr
  /\ isr' = isr \cup {c}
  /\ UNCHANGED << running, kernel, booting, lock, after >>

\* The call of an interrupt leaves the kernel: other processors are told.
IsrExit(c) ==
  LET to == IF kernel = NULL THEN SmpNotify(tab', c) ELSE {}
  IN  ipi' = SendSched(ipi, to) /\ irq' = irq \cup to

\* The interrupt that another processor sent.
IpiInterrupt(c) ==
  /\ InterEnter(c) /\ c \in irq
  /\ irq' = irq \ {c}
  /\ UNCHANGED << tab, ipi, svars >>

\* A time that is over does not put u in front, which only matters to policy RR.
IsrPost(c, u) ==
  \E front \in {TRUE} \cup {u \notin RoundRobin} :
    InterEnter(c) /\ kernel \in {NULL, c} /\ Wakes(u, front, Locked(kernel)) /\ IsrExit(c)

\* API_KernelTicksContext: the processors are told when the interrupt ends.
IsrTick(c) ==
  /\ "Tick" \in Calls /\ InterEnter(c) /\ kernel \in {NULL, c}
  /\ tab' = SchedTick(tab, running)
  /\ UNCHANGED << ipi, irq, svars >>

\* An interrupt cannot suspend a ready thread but the one it has interrupted.
IsrSuspend(c, u) ==
  /\ "IsrSuspend" \in Calls /\ Room(u, "SUSPEND")
  /\ InterEnter(c) /\ kernel \in {NULL, c}
  /\ SMP_EN => u = running[c] \/ ~Ready(u)
  /\ ChangeAtOnce(c, u, "SUSPEND") /\ IsrExit(c)

IsrResume(c, u) ==
  /\ "IsrSuspend" \in Calls /\ nest["SUSPEND"][u] > 0
  /\ InterEnter(c) /\ kernel \in {NULL, c}
  /\ Releases(tab, u, "SUSPEND", Locked(kernel)) /\ IsrExit(c)

-----------------------------------------------------------------------------
ThreadCall(c) ==
  \/ Pend(c) \/ ThreadLock(c) \/ ThreadUnlock(c) \/ ThreadSched(c)
  \/ \E u \in Users :
       \/ Post(c, u) \/ ThreadSuspend(c, u) \/ ThreadResume(c, u) \/ ThreadYield(c, u)
       \/ \E p \in Priorities \ {IdlePrio} : ThreadSetPriority(c, u, p)
       \/ \E d \in CPUs \cup {NULL} : StopForAffinity(c, u, d) \/ SetOtherAffinity(c, u, d)
  \/ \E d \in CPUs \cup {NULL} : SetOwnAffinity(c, d)
  \/ \E d \in CPUs : CpuUp(c, d) \/ CpuDown(c, d) \/ SendDown(c, d)

Interrupt(c) ==
  \/ IpiInterrupt(c) \/ IsrTick(c)
  \/ \E u \in Users : IsrPost(c, u) \/ IsrSuspend(c, u) \/ IsrResume(c, u)

Next ==
  \E c \in CPUs :
    ThreadCall(c) \/ KernelExit(c) \/ Interrupt(c) \/ InterExit(c) \/ SecondaryStart(c)

Spec == Init /\ [][Next]_vars

\* A processor schedules when it leaves the kernel or an interrupt, takes the
\* interrupts sent to it, gets the kernel lock it spins for, and a thread that
\* has locked the scheduler goes on to unlock it.
Fairness ==
  \A c \in CPUs :
    /\ SF_vars(KernelExit(c)) /\ SF_vars(InterExit(c)) /\ SF_vars(IpiInterrupt(c))
    /\ SF_vars(ThreadUnlock(c)) /\ SF_vars(ThreadSched(c))
    /\ SF_vars(\E d \in CPUs : SendDown(c, d)) /\ WF_vars(SecondaryStart(c))
    /\ SF_vars(IsrTick(c))

FairSpec == Spec /\ Fairness

-----------------------------------------------------------------------------
(* Properties.                                                             *)

\* Every ready thread is in one place: the candidate of the one processor that it
\* names, or in the ring of its queue and priority, once; no other thread is in
\* any; a bit is set exactly for a ring that is not empty; every processor that is
\* up has a candidate (_CandTable.c, _ReadyTableLib.c, _ThreadAffinity.c).
TablesExact ==
  /\ \A t \in Threads :
       LET cands  == {c \in CPUs : tab.cand[c] = t}
           places == {x \in Queues \X Priorities : t \in Range(tab.ring[x[1]][x[2]])}
       IN  /\ Cardinality(cands) + Cardinality(places) = IF Ready(t) THEN 1 ELSE 0
           /\ t \in tab.isCand <=> cands # {}
           /\ cands \subseteq {tab.cpuId[t]}
           /\ places \subseteq {<< QueueOf(tab, t), tab.prio[t] >>}
  /\ \A q \in Queues, p \in Priorities :
       /\ IsInjective(tab.ring[q][p])
       /\ p \in tab.rdy[q] <=> tab.ring[q][p] # << >>
  /\ tab.active = {c \in CPUs : tab.cand[c] # NULL}

\* Is c about to schedule, for it is in the kernel, in an interrupt, or in the
\* call that ends with it?
AboutToSchedule(c) ==
  kernel = c \/ c \in isr \/ (running[c] # NULL /\ after[running[c]] = SchedCall)

\* No thread runs on two processors, and a processor runs a ready thread, its
\* candidate unless the thread has locked the scheduler, when it is not about to
\* schedule (_Schedule, _ThreadStatusChange, __can_preemptive).
RunsItsCandidate ==
  /\ \A c, d \in tab.active : c # d => running[c] # running[d]
  /\ \A c \in tab.active :
       ~AboutToSchedule(c) =>
         /\ Ready(running[c])
         /\ running[c] = tab.cand[c] \/ lock[running[c]] > 0

\* When a thread waits that is more urgent than the candidate of a processor, the
\* processor is about to schedule, or is going to choose again: an interrupt to it is
\* on its way, or will be when the kernel is left, or its thread has locked the
\* scheduler; and the flag of the interrupt is never left over to keep the next one
\* from being sent (_CandTableTryAdd, _SchedSmpNotify, _ScheduleInt).
NoLostReschedule ==
  \A c \in tab.active :
    LET best == SeekPriority(tab, c)
    IN  best # NULL /\ best.prio < tab.prio[tab.cand[c]] /\ ~AboutToSchedule(c) =>
          /\ tab.rot[c]
          /\ lock[running[c]] = 0 =>
               c \in irq \/ (kernel # NULL /\ "SCHED" \notin ipi[c])

\* A thread that waits for the state of another to change is on the list of that
\* one, with what it asks for; and a processor that runs a thread with such a list
\* is going to see it (_ThreadWaitStatus, _SmpSendIpi).
RequestsArrive ==
  /\ \A d \in Threads :
       /\ Range(pending[d]) = {t \in Threads : waitFor[t] = d}
       /\ IsInjective(pending[d])
  /\ \A c \in tab.active :
       running[c] \in Threads /\ pending[running[c]] # << >> =>
         AboutToSchedule(c) \/ c \in irq \/ lock[running[c]] > 0

\* A thread that goes on after it asked for the state of another to change has had
\* exactly that change made: none that goes on has lost its request, and in the step
\* in which they do every kind of change is made as often as they have asked for it
\* (_ThreadStatus.c:28 "wait until the state of the target is set", and :146).
RequestsCounted ==
  [][\A d \in Threads :
       LET gone == {t \in Threads : waitFor[t] = d /\ waitFor'[t] # d}
       IN  gone # {} =>
             /\ \A t \in gone : request[t] \in Requests
             /\ \A r \in Requests :
                  nest'[r][d] = nest[r][d] + Cardinality({t \in gone : request[t] = r})]_vars

\* Threads that are held by a processor are held by one that is up, as
\* _CandTable.c:162 asserts, although API_CpuDown and API_ThreadSetAffinity are
\* called on different processors.
HeldByLiveCpu == \A t \in Threads : tab.cpuLock[t] # NULL => tab.cpuLock[t] \in tab.active

\* A processor does not go on for ever with a thread while a more urgent one waits
\* for it.
UrgentRuns ==
  \A t \in Users, c \in CPUs :
    LET waits == /\ Ready(t) /\ t \notin tab.isCand /\ tab.cpuLock[t] = NULL
                 /\ running[c] # NULL /\ tab.prio[t] < tab.prio[running[c]]
    IN  waits ~> ~waits

\* A thread of policy RR does not wait for ever behind one of its priority that
\* keeps running (_SchedTick, _CandSeekThread).
PeersRotate ==
  \A t, u \in RoundRobin :
    t # u => ~<>[](/\ Ready(t) /\ t \notin tab.isCand /\ tab.cpuLock[t] = NULL
                   /\ \E c \in CPUs : running[c] = u
                   /\ tab.prio[t] = tab.prio[u])

-----------------------------------------------------------------------------
(* What comments and headers of the source say, and the code does not do.  *)

\* Every processor runs a thread at least as urgent as every one that waits and
\* that it may run, once it has nothing left to do (k_sched.h:33).
MostUrgentRun ==
  kernel = NULL /\ irq = {} =>
    \A c \in tab.active :
      LET best == SeekPriority(tab, c)
      IN  ~AboutToSchedule(c) /\ lock[running[c]] = 0 /\ best # NULL =>
            tab.prio[running[c]] <= best.prio
================================================================================
