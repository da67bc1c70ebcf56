-------------------------- MODULE SchedulerProofs ---------------------------
(***************************************************************************)
(* Proofs about Scheduler, for every finite set of workers, every set of   *)
(* tasks and every bound on the yields: the invariant of SchedulerInvariant*)
(* is kept by every step, and what follows from it.  Then two further      *)
(* arguments on top of it: stacks are exclusive when fibers stay on their  *)
(* thread, and Scheduler implements TaskPool.                              *)
(***************************************************************************)
EXTENDS SchedulerInvariant

LEMMA StopStep == IInv /\ [Next]_vars => StopInv'
  <1> SUFFICES ASSUME TypeOK, PcInv, CountInv, StopInv, [Next]_vars
               PROVE  StopInv'
    BY DEF IInv
  <1> USE SchedulerAssumption DEF StopInv, TypeOK, Goto, GotoTickling, Procs
  <1>1. CASE MainSchedule
    <2>1. ~m_stopping
      BY <1>1 DEF MainSchedule, PcInv, BeforeStop
    <2> QED
      BY <1>1, <2>1 DEF MainSchedule, ScheduleNew, schedule
  <1>2. CASE Start
    <2>1. ~m_stopping
      BY <1>2 DEF Start
    <2> QED
      BY <1>2, <2>1 DEF Start
  <1>3. CASE Stop
    <2>1. ~m_stopping
      BY <1>3 DEF Stop, PcInv, BeforeStop
    <2> QED
      BY <1>3, <2>1 DEF Stop
  <1>4. CASE Join
    BY <1>4 DEF Join
  <1>5. ASSUME NEW t \in Procs, Run(t)
        PROVE  StopInv'
    <2>1. CASE FetchTask(t)
      <3>1. PICK i \in DOMAIN m_tasks : Fetched(t, i, m_tasks')
        BY <2>1, FetchFacts
      <3>2. \A u \in Procs : ~idleTerm[u]
        BY <3>1
      <3>3. \E needed \in BOOLEAN : GotoTickling(t, needed, "dispatch")
        BY Zenon, <2>1 DEF FetchTask
      <3>4. pc[t] = "fetch" /\ UNCHANGED idleTerm
        BY <2>1 DEF FetchTask
      <3> QED
        BY <3>2, <3>3, <3>4
    <2>2. CASE FetchNone(t)
      <3>1. \E needed \in BOOLEAN : GotoTickling(t, needed, "dispatch")
        BY ZenonT(60), <2>2 DEF FetchNone
      <3> QED
        BY <2>2, <3>1 DEF FetchNone
    <2>3. CASE Tickle(t)
      BY <2>3 DEF Tickle, PcInv
    <2>4. CASE PostRun(t)
      BY <2>4, BusyPositive DEF PostRun, PcInv
    <2>5. CASE Exit(t)
      BY <2>5 DEF Exit
    <2>6. CASE Idle(t)
      BY <2>6 DEF Idle, stopping
    <2>7. CASE Resume(t) \/ EnterIdle(t) \/ LeaveIdle(t)
      BY <2>7 DEF Resume, EnterIdle, LeaveIdle
    <2> QED
      BY Zenon, <1>5, <2>1, <2>2, <2>3, <2>4, <2>5, <2>6, <2>7 DEF Run
  <1>6. ASSUME NEW t \in Procs, Body(t)
        PROVE  StopInv'
    <2>1. pc[t] \in {"body", "swap"}
      BY <1>6 DEF Body, BodySchedule, BodyReschedule, Yield, MainFunc, SwapOut
    <2>2. m_activeThreadCount # 0
      BY <2>1, BusyPositive DEF PcInv, InBody
    <2>3. \A u \in Procs : ~idleTerm[u]
      BY <2>2
    <2>4. \E needed \in BOOLEAN, label \in {"body", "swap", "post"} :
             pc' = [pc EXCEPT ![t] = IF needed THEN "tickle" ELSE label]
      BY Zenon, <1>6 DEF Body, BodySchedule, ScheduleNew, BodyReschedule, schedule, Yield,
                  MainFunc, SwapOut
    <2>5. UNCHANGED idleTerm
      BY <1>6 DEF Body, BodySchedule, BodyReschedule, Yield, MainFunc, SwapOut
    <2> QED
      BY <2>1, <2>3, <2>4, <2>5
  <1>7. CASE UNCHANGED vars
    BY <1>7 DEF vars
  <1> QED
    BY <1>1, <1>2, <1>3, <1>4, <1>5, <1>6, <1>7 DEF Next, Main, Terminated

-----------------------------------------------------------------------------
LEMMA InitIInv == Init => IInv
  <1> SUFFICES ASSUME Init
               PROVE  IInv
    OBVIOUS
  <1> USE SchedulerAssumption DEF Init, Procs
  <1>1. TypeOK
    <2>1. m_tasks \in Seq(ScheduleTask)
      BY EmptySeq
    <2>5. idleTerm \in [Procs -> BOOLEAN] /\ m_stopping \in BOOLEAN
      BY Zenon
    <2>6. task \in [Procs -> Tasks \cup {NoTask}]
      OBVIOUS
    <2>2. /\ m_activeThreadCount \in Nat /\ m_idleThreadCount \in Nat
          /\ yields \in 0..MaxYields
      OBVIOUS
    <2>3. /\ m_state \in [Tasks -> FiberState]
          /\ ret \in [Procs -> {"dispatch", "body", "created", "started"}]
      BY DEF FiberState
    <2>4. pc \in [Procs -> RunPc \cup MainPc \cup {"off", "exit"}]
      BY DEF MainPc
    <2> QED
      BY <2>1, <2>2, <2>3, <2>4, <2>5, <2>6 DEF TypeOK
  <1>2. PcInv
    BY DEF PcInv, BeforeStop, Early, InBody, RunPc, MainPc
  <1>3. CountInv
    <2>1. Busy = {} /\ Idling = {}
      BY DEF Busy, Idling, Threads
    <2> QED
      BY <2>1, FS_EmptySet DEF CountInv
  <1>4. FiberInv
    <2>1. InQueue = {} /\ UniqueQueue
      BY DEF InQueue, UniqueQueue
    <2>2. \A p \in Procs : task[p] = NoTask /\ ~Early(p) /\ ~InBody(p)
      BY DEF Early, InBody
    <2>3. \A f \in Tasks : m_state[f] = "FREE"
      OBVIOUS
    <2>4. QueueStates /\ EarlyReady /\ EarlyOnce
      BY <2>1, <2>2 DEF QueueStates, EarlyReady, EarlyOnce
    <2>5. BodyRunning /\ BodyOnce /\ HeldExists
      BY <2>2 DEF BodyRunning, BodyOnce, HeldExists
    <2>6. ReadyFound /\ RunningFound
      BY <2>3 DEF ReadyFound, RunningFound
    <2> QED
      BY <2>1, <2>4, <2>5, <2>6 DEF FiberInv, Owned
  <1>5. StopInv
    BY DEF StopInv
  <1> QED
    BY <1>1, <1>2, <1>3, <1>4, <1>5 DEF IInv

\* The conjunction of the five parts is an invariant of the scheduler.
THEOREM Invariance == Spec => []IInv
  <1>1. IInv /\ [Next]_vars => IInv'
    BY TypeStep, PcStep, CountStep, FiberStep, StopStep DEF IInv
  <1> QED
    BY InitIInv, <1>1, PTL DEF Spec

\* Every field keeps its type; in particular the two unsigned counters never
\* wrap below zero.
THEOREM TypeCorrect == Spec => []TypeOK
  <1>1. IInv => TypeOK
    BY DEF IInv
  <1> QED
    BY Invariance, <1>1, PTL

\* m_activeThreadCount and m_idleThreadCount are exact at every step of every
\* interleaving, for any number of threads and tasks.
THEOREM CountersCorrect == Spec => []CountersExact
  <1>1. IInv => CountersExact
    <2> SUFFICES ASSUME TypeOK, PcInv, CountInv
                 PROVE  CountersExact
      BY DEF IInv
    <2>1. Threads \subseteq Procs
      BY SchedulerAssumption DEF Threads, Procs
    <2>2. \A t \in Threads : Working(t) <=> task[t] # NoTask
      BY <2>1 DEF Working, PcInv, Early, InBody
    <2>3. {t \in Threads : Working(t)} = Busy
      BY <2>2 DEF Busy
    <2> QED
      BY <2>3 DEF CountersExact, CountInv, Idling
  <1> QED
    BY Invariance, <1>1, PTL

\* No thread leaves its loop, and stop() does not return, before every task
\* that was ever scheduled has ended.
THEOREM StopCorrect == Spec => []StopWaitsForTasks
  <1>1. IInv => StopWaitsForTasks
    <2> SUFFICES ASSUME IInv,
                        (\E t \in Threads : idleTerm[t]) \/ pc[Caller] = "stopped",
                        NEW f \in Tasks
                 PROVE  m_state[f] \in {"FREE", "TERM"}
      BY DEF StopWaitsForTasks
    <2> USE DEF IInv
    <2>1. Threads \subseteq Procs /\ Workers \subseteq Procs
      BY SchedulerAssumption DEF Threads, Procs
    <2>2. \E t \in Procs : idleTerm[t]
      BY <2>1, SchedulerAssumption DEF StopInv, Threads, Procs
    <2>3. m_tasks = <<>> /\ m_activeThreadCount = 0
      BY <2>2 DEF StopInv
    <2>4. InQueue = {}
      BY <2>3 DEF InQueue
    <2>5. \A t \in Procs : task[t] = NoTask
      BY <2>3, BusyPositive
    <2>6. m_state[f] \notin {"NONE", "READY", "RUNNING"}
      BY <2>3, <2>4, <2>5, SchedulerAssumption
         DEF FiberInv, Owned, QueueStates, ReadyFound, RunningFound
    <2> QED
      BY <2>6 DEF TypeOK, FiberState
  <1> QED
    BY Invariance, <1>1, PTL

\* The assertion in Fiber::resume never fails.
THEOREM ResumeCorrect == Spec => []ResumeReady
  <1>1. IInv => ResumeReady
    BY SchedulerAssumption DEF IInv, FiberInv, Owned, EarlyReady, ResumeReady, Early, Threads, Procs
  <1> QED
    BY Invariance, <1>1, PTL

\* The assertion in ~Fiber never fails.
THEOREM DestroyCorrect == Spec => []DestroyedOnlyTerm
  <1>1. IInv => DestroyedOnlyTerm
    <2> SUFFICES ASSUME IInv, NEW f \in Tasks, m_state[f] \in {"READY", "RUNNING"},
                        ~Queued(f)
                 PROVE  \E t \in Threads : task[t] = f
      BY DEF DestroyedOnlyTerm
    <2> USE DEF IInv
    <2>1. PICK t \in Procs : task[t] = f
      BY QueuedIsInQueue DEF FiberInv, Owned, ReadyFound, RunningFound
    <2>2. t \in Threads
      BY <2>1, WhoRuns, SchedulerAssumption
    <2> QED
      BY <2>1, <2>2
  <1> QED
    BY Invariance, <1>1, PTL

-----------------------------------------------------------------------------
(* Fibers that reschedule themselves only on the thread they run on: no two *)
(* threads are ever on one stack.                                           *)

Entries == {m_tasks[i] : i \in DOMAIN m_tasks}

QueuedOwn(t) == [fiber |-> task[t], thread |-> t] \in Entries

BodyPinned ==
    \A t \in Procs : InBody(t) => \A e \in Entries : e.fiber = task[t] => e.thread = t

SwapLeft ==
    \A t \in Procs : pc[t] = "swap" =>
        \/ m_state[task[t]] = "TERM"
        \/ m_state[task[t]] = "READY" /\ QueuedOwn(t)

SwapOnce ==
    \A t, u \in Procs : pc[t] = "swap" /\ pc[u] = "swap" /\ task[t] = task[u] => t = u

\* When fibers reschedule themselves on their own thread only: the queue entry
\* of a fiber that is running, or that is leaving its stack, names that thread,
\* so no other thread can take it.
OwnInv == BodyPinned /\ SwapLeft /\ SwapOnce

-----------------------------------------------------------------------------
LEMMA EntriesAppend ==
    ASSUME TypeOK, NEW f \in Tasks, NEW thread \in Threads \cup {AnyThread},
           m_tasks' = Append(m_tasks, [fiber |-> f, thread |-> thread])
    PROVE  Entries' = Entries \cup {[fiber |-> f, thread |-> thread]}
  <1> DEFINE e == [fiber |-> f, thread |-> thread]
             n == Len(m_tasks) + 1
  <1>1. e \in ScheduleTask /\ m_tasks \in Seq(ScheduleTask)
    BY ScheduleType DEF TypeOK
  <1> HIDE DEF e
  <1>2. /\ DOMAIN m_tasks = 1..(n - 1) /\ n \in Nat \ {0}
        /\ DOMAIN m_tasks' = 1..n
        /\ \A j \in DOMAIN m_tasks : m_tasks'[j] = m_tasks[j]
        /\ m_tasks'[n] = e
    BY <1>1, AppendProperties, LenProperties DEF e
  <1> HIDE DEF n
  <1>3. DOMAIN m_tasks' = DOMAIN m_tasks \cup {n}
    BY <1>2
  <1>4. Entries' = Entries \cup {e}
    BY <1>2, <1>3 DEF Entries
  <1> QED
    BY <1>4 DEF e

LEMMA EntriesFetch ==
    ASSUME UniqueQueue, NEW i \in DOMAIN m_tasks, Removed(m_tasks, i, m_tasks')
    PROVE  Entries' = Entries \ {m_tasks[i]}
  BY DEF Removed, UniqueQueue, Entries

LEMMA EntriesInQueue ==
    ASSUME NEW e \in Entries
    PROVE  e.fiber \in InQueue
  BY DEF Entries, InQueue

\* p has neither entered nor left a task, nor its stack.
StackKept(p) == Kept(p) /\ (pc'[p] = "swap" <=> pc[p] = "swap")

OthersOnStack(t) == \A p \in Procs \ {t} : StackKept(p)

LEMMA OthersStackStay ==
    ASSUME Domains, NEW t \in Procs, NEW label, NEW back, NEW f,
           pc' = [pc EXCEPT ![t] = label],
           ret' = ret \/ ret' = [ret EXCEPT ![t] = back],
           task' = task \/ task' = [task EXCEPT ![t] = f]
    PROVE  OthersOnStack(t)
  <1>1. OthersKept(t)
    BY Zenon, OthersStay
  <1>2. \A p \in Procs \ {t} : pc'[p] = pc[p]
    BY DEF Domains
  <1> QED
    BY <1>1, <1>2 DEF OthersKept, OthersOnStack, StackKept

LEMMA TicklingOnStack ==
    ASSUME Domains, NEW t \in Procs, pc[t] \in {"created", "started", "body"},
           \E needed \in BOOLEAN : GotoTickling(t, needed, pc[t]), UNCHANGED task
    PROVE  \A p \in Procs : StackKept(p)
  <1>1. \A p \in Procs : Kept(p)
    BY TicklingKeeps
  <1>2. PICK at \in {pc[t], "tickle"} : pc' = [pc EXCEPT ![t] = at]
    BY TicklingAt
  <1>3. \A p \in Procs : pc'[p] = "swap" <=> pc[p] = "swap"
    BY <1>2 DEF Domains
  <1> QED
    BY <1>1, <1>3 DEF StackKept

\* No thread enters or leaves a task or a stack.
LEMMA OwnKept ==
    ASSUME OwnInv, \A p \in Procs : StackKept(p), Entries' = Entries, m_state' = m_state
    PROVE  OwnInv'
  <1> USE DEF StackKept, Kept, QueuedOwn
  <1>1. BodyPinned'
    BY DEF OwnInv, BodyPinned
  <1>2. SwapLeft'
    BY DEF OwnInv, SwapLeft
  <1>3. SwapOnce'
    BY DEF OwnInv, SwapOnce
  <1> QED
    BY <1>1, <1>2, <1>3 DEF OwnInv

\* A task that did not exist is queued.
LEMMA OwnNew ==
    ASSUME OwnInv, \A p \in Procs : StackKept(p), NEW f \in Tasks, NEW s, NEW thread,
           \A p \in Procs : InBody(p) \/ pc[p] = "swap" =>
               task[p] \in Tasks /\ task[p] # f,
           OnlyState(f, s), Entries' = Entries \cup {[fiber |-> f, thread |-> thread]}
    PROVE  OwnInv'
  <1> USE DEF StackKept, Kept, QueuedOwn, OnlyState
  <1>1. BodyPinned'
    BY DEF OwnInv, BodyPinned
  <1>2. SwapLeft'
    BY DEF OwnInv, SwapLeft
  <1>3. SwapOnce'
    BY DEF OwnInv, SwapOnce
  <1> QED
    BY <1>1, <1>2, <1>3 DEF OwnInv

\* The fiber that t runs is queued for t.
LEMMA OwnRequeued ==
    ASSUME OwnInv, BodyOnce, \A p \in Procs : StackKept(p), NEW t \in Procs, InBody(t),
           m_state' = m_state, Entries' = Entries \cup {[fiber |-> task[t], thread |-> t]}
    PROVE  OwnInv'
  <1> USE DEF StackKept, Kept, QueuedOwn
  <1>1. BodyPinned'
    BY DEF OwnInv, BodyPinned, BodyOnce
  <1>2. SwapLeft'
    BY DEF OwnInv, SwapLeft
  <1>3. SwapOnce'
    BY DEF OwnInv, SwapOnce
  <1> QED
    BY <1>1, <1>2, <1>3 DEF OwnInv

\* t takes an entry that is not pinned to another thread.
LEMMA OwnFetched ==
    ASSUME OwnInv, NEW t \in Procs, OthersOnStack(t), ~InBody(t)', pc'[t] # "swap",
           NEW e, e.thread \in {AnyThread, t}, Entries' = Entries \ {e},
           \A u \in Procs : pc[u] = "swap" => u # AnyThread, m_state' = m_state
    PROVE  OwnInv'
  <1> USE DEF StackKept, Kept, QueuedOwn, OthersOnStack
  <1>1. BodyPinned'
    BY DEF OwnInv, BodyPinned
  <1>2. SwapLeft'
    BY DEF OwnInv, SwapLeft
  <1>3. SwapOnce'
    BY DEF OwnInv, SwapOnce
  <1> QED
    BY <1>1, <1>2, <1>3 DEF OwnInv

\* t resumes a fiber that is not queued.
LEMMA OwnResumed ==
    ASSUME OwnInv, NEW t \in Procs, OthersOnStack(t), pc'[t] # "swap", task'[t] = task[t],
           \A u \in Procs : pc[u] = "swap" => task[u] \in Tasks /\ task[u] # task[t],
           \A e \in Entries : e.fiber # task[t],
           OnlyState(task[t], "RUNNING"), Entries' = Entries
    PROVE  OwnInv'
  <1> USE DEF StackKept, Kept, QueuedOwn, OthersOnStack, OnlyState
  <1>1. BodyPinned'
    BY DEF OwnInv, BodyPinned
  <1>2. SwapLeft'
    BY DEF OwnInv, SwapLeft
  <1>3. SwapOnce'
    BY DEF OwnInv, SwapOnce
  <1> QED
    BY <1>1, <1>2, <1>3 DEF OwnInv

\* The fiber that t runs yields, queued for t, or ends.
LEMMA OwnLeft ==
    ASSUME OwnInv, NEW t \in Procs, OthersOnStack(t), ~InBody(t)', task'[t] = task[t],
           NEW s, s = "TERM" \/ (s = "READY" /\ QueuedOwn(t)),
           \A u \in Procs : pc[u] = "swap" => task[u] \in Tasks /\ task[u] # task[t],
           OnlyState(task[t], s), Entries' = Entries
    PROVE  OwnInv'
  <1> USE DEF StackKept, Kept, QueuedOwn, OthersOnStack, OnlyState
  <1>1. BodyPinned'
    BY SMTT(30) DEF OwnInv, BodyPinned
  <1>2. SwapLeft'
    BY DEF OwnInv, SwapLeft
  <1>3. SwapOnce'
    BY DEF OwnInv, SwapOnce
  <1> QED
    BY <1>1, <1>2, <1>3 DEF OwnInv

\* t is off the stack of its fiber.
LEMMA OwnReleased ==
    ASSUME OwnInv, NEW t \in Procs, OthersOnStack(t), ~InBody(t)', pc'[t] # "swap",
           m_state' = m_state, Entries' = Entries
    PROVE  OwnInv'
  <1> USE DEF StackKept, Kept, QueuedOwn, OthersOnStack
  <1>1. BodyPinned'
    BY DEF OwnInv, BodyPinned
  <1>2. SwapLeft'
    BY DEF OwnInv, SwapLeft
  <1>3. SwapOnce'
    BY DEF OwnInv, SwapOnce
  <1> QED
    BY <1>1, <1>2, <1>3 DEF OwnInv

LEMMA OwnStep ==
    ASSUME YieldPins \subseteq {Own}, IInv, OwnInv, [Next]_vars
    PROVE  OwnInv'
  <1>1. /\ TypeOK /\ PcInv /\ UniqueQueue /\ EarlyReady /\ BodyRunning /\ BodyOnce
        /\ HeldExists
    BY DEF IInv, FiberInv, Owned
  <1>2. Domains /\ Held
    BY <1>1, DomainsType, HeldType
  <1>3. \A p \in Procs : pc[p] = "swap" => task[p] \in Tasks /\ task[p] # NoTask
    BY <1>1, <1>2 DEF PcInv, Held
  <1>4. ASSUME UNCHANGED m_tasks
        PROVE  Entries' = Entries
    BY <1>4 DEF Entries
  <1>5. ASSUME NEW p \in Procs, pc[p] \in {"created", "started", "body"},
               \E f \in Tasks, thread \in Pins, kind \in {"NONE", "READY"} :
                   ScheduleNew(p, f, thread, kind),
               UNCHANGED task
        PROVE  OwnInv'
    <2>1. PICK f \in Tasks, thread \in Pins, kind \in {"NONE", "READY"} :
              ScheduleNew(p, f, thread, kind)
      BY <1>5
    <2>2. thread \in Threads \cup {AnyThread}
      BY SchedulerAssumption
    <2>3. Entries' = Entries \cup {[fiber |-> f, thread |-> thread]}
      BY <1>1, <2>1, <2>2, EntriesAppend DEF ScheduleNew, schedule
    <2>4. m_state[f] = "FREE" /\ m_state' = [m_state EXCEPT ![f] = kind]
      BY <2>1 DEF ScheduleNew
    <2>5. \E needed \in BOOLEAN : GotoTickling(p, needed, pc[p])
      BY Zenon, <2>1 DEF ScheduleNew, schedule
    <2>6. \A q \in Procs : StackKept(q)
      BY <1>2, <1>5, <2>5, TicklingOnStack
    <2>7. OnlyState(f, kind)
      BY <1>2, <2>4 DEF OnlyState, Domains
    <2>8. \A q \in Procs : InBody(q) \/ pc[q] = "swap" => task[q] \in Tasks /\ task[q] # f
      <3>1. \A q \in Procs : InBody(q) => task[q] \in Tasks /\ task[q] # f
        BY <1>1, <1>2, <2>4 DEF Held, BodyRunning
      <3>2. \A q \in Procs : pc[q] = "swap" => task[q] # f
        BY <1>1, <1>3, <2>4 DEF HeldExists
      <3> QED
        BY <1>3, <3>1, <3>2
    <2> QED
      BY <2>3, <2>6, <2>7, <2>8, OwnNew
  <1>6. ASSUME UNCHANGED <<m_tasks, m_state>>, \A p \in Procs : StackKept(p)
        PROVE  OwnInv'
    BY <1>4, <1>6, OwnKept
  <1>7. CASE MainSchedule
    <2>1. Caller \in Procs
      BY DEF Procs
    <2> QED
      BY <1>5, <1>7, <2>1 DEF MainSchedule
  <1>8. CASE Start
    <2>1. \A p \in Procs : ~Early(p) /\ ~InBody(p) /\ pc[p] # "swap"
      BY <1>1, <1>8, SchedulerAssumption DEF Start, PcInv, Early, InBody, Procs
    <2>2. \A p \in Procs : pc'[p] \in {"started", "fetch"}
      BY <1>8 DEF Start
    <2>3. \A p \in Procs : StackKept(p)
      BY <1>8, <2>1, <2>2 DEF Start, StackKept, Kept, Early, InBody
    <2> QED
      BY <1>6, <1>8, <2>3 DEF Start
  <1>9. CASE Stop \/ Join
    <2>1. /\ pc[Caller] \in {"started", "join"} /\ Caller \in Procs
          /\ \E label \in {"fetch", "join", "stopped"} : pc' = [pc EXCEPT ![Caller] = label]
          /\ UNCHANGED <<m_tasks, m_state, ret, task>>
      BY <1>9 DEF Stop, Join, Goto, Procs
    <2>2. OthersOnStack(Caller)
      BY ZenonT(60), <1>2, <2>1, OthersStackStay
    <2>3. StackKept(Caller)
      BY <1>2, <2>1 DEF Domains, StackKept, Kept, Early, InBody
    <2> QED
      BY <1>6, <2>1, <2>2, <2>3 DEF OthersOnStack
  <1>10. ASSUME NEW t \in Procs, Run(t)
         PROVE  OwnInv'
    <2>1. CASE FetchTask(t)
      <3>1. PICK i \in DOMAIN m_tasks : Fetched(t, i, m_tasks')
        BY <1>1, <2>1, FetchFacts
      <3>2. Entries' = Entries \ {m_tasks[i]}
        BY <1>1, <3>1, EntriesFetch DEF Fetched
      <3>3. m_tasks[i].thread \in {AnyThread, t}
        BY <3>1 DEF Fetched, PinnedElsewhere
      <3>4. \E f : task' = [task EXCEPT ![t] = f]
        BY Zenon, <3>1 DEF Fetched
      <3>5. \E needed \in BOOLEAN : GotoTickling(t, needed, "dispatch")
        BY Zenon, <2>1 DEF FetchTask
      <3>6. m_state' = m_state
        BY <2>1 DEF FetchTask
      <3>7. OthersOnStack(t)
        <4>1. PICK at \in {"dispatch", "tickle"} : pc' = [pc EXCEPT ![t] = at]
          BY Zenon, <1>2, <3>5, TicklingAt
        <4>2. ret' = ret \/ ret' = [ret EXCEPT ![t] = "dispatch"]
          BY Zenon, <1>2, <3>5, TicklingAt
        <4> QED
          BY Zenon, <1>2, <3>4, <4>1, <4>2, OthersStackStay
      <3>8. pc'[t] = "dispatch" \/ (pc'[t] = "tickle" /\ ret'[t] = "dispatch")
        BY <1>2, <3>5, TicklingAt
      <3>9. ~InBody(t)' /\ pc'[t] # "swap"
        BY <3>8 DEF InBody
      <3>10. \A u \in Procs : pc[u] = "swap" => u # AnyThread
        BY <1>1, <1>3, WhoRuns, SchedulerAssumption
      <3> QED
        BY <3>2, <3>3, <3>6, <3>7, <3>9, <3>10, OwnFetched
    <2>2. CASE FetchNone(t)
      <3>1. \E needed \in BOOLEAN : GotoTickling(t, needed, "dispatch")
        BY Zenon, <2>2 DEF FetchNone
      <3>2. UNCHANGED <<m_tasks, m_state, task>>
        BY <2>2 DEF FetchNone
      <3>3. OthersOnStack(t)
        <4>1. PICK at \in {"dispatch", "tickle"} : pc' = [pc EXCEPT ![t] = at]
          BY Zenon, <1>2, <3>1, TicklingAt
        <4>2. ret' = ret \/ ret' = [ret EXCEPT ![t] = "dispatch"]
          BY Zenon, <1>2, <3>1, TicklingAt
        <4> QED
          BY Zenon, <1>2, <3>2, <4>1, <4>2, OthersStackStay
      <3>4. pc'[t] = "dispatch" \/ (pc'[t] = "tickle" /\ ret'[t] = "dispatch")
        BY ZenonT(60), <1>2, <3>1, TicklingAt
      <3>5. ~InBody(t)' /\ pc'[t] # "swap"
        BY <3>4 DEF InBody
      <3> QED
        BY <1>4, <3>2, <3>3, <3>5, OwnReleased
    <2>3. CASE Tickle(t)
      <3>1. /\ pc[t] = "tickle" /\ pc' = [pc EXCEPT ![t] = ret[t]]
            /\ UNCHANGED <<m_tasks, m_state, ret, task>>
        BY <2>3 DEF Tickle, Goto
      <3>2. OthersOnStack(t)
        BY ZenonT(60), <1>2, <3>1, OthersStackStay
      <3>3. pc'[t] = ret[t] /\ ret[t] \in {"dispatch", "body", "created", "started"}
        BY <1>1, <1>2, <3>1 DEF Domains, TypeOK
      <3>4. StackKept(t)
        BY <3>1, <3>3 DEF StackKept, Kept, Early, InBody
      <3> QED
        BY <1>6, <3>1, <3>2, <3>4 DEF OthersOnStack
    <2>4. CASE Resume(t)
      <3>1. /\ pc[t] = "dispatch" /\ task[t] # NoTask /\ pc' = [pc EXCEPT ![t] = "body"]
            /\ m_state' = [m_state EXCEPT ![task[t]] = "RUNNING"]
            /\ UNCHANGED <<m_tasks, ret, task>>
        BY <2>4 DEF Resume, Goto
      <3>2. OthersOnStack(t) /\ pc'[t] # "swap"
        BY ZenonT(60), <1>2, <3>1, OthersStackStay DEF Domains
      <3>3. Early(t)
        BY <3>1 DEF Early
      <3>4. task[t] \notin InQueue /\ m_state[task[t]] # "TERM"
        BY <1>1, <3>3 DEF EarlyReady
      <3>5. \A e \in Entries : e.fiber # task[t]
        BY <3>4, EntriesInQueue
      <3>6. \A u \in Procs : pc[u] = "swap" => task[u] # task[t]
        BY ZenonT(60), <3>4, <3>5 DEF OwnInv, SwapLeft, QueuedOwn
      <3>7. OnlyState(task[t], "RUNNING")
        BY <1>2, <3>1 DEF Domains, Held, OnlyState
      <3> QED
        BY <1>3, <1>4, <3>1, <3>2, <3>5, <3>6, <3>7, OwnResumed
    <2>5. CASE PostRun(t)
      <3>1. /\ pc' = [pc EXCEPT ![t] = "fetch"] /\ task' = [task EXCEPT ![t] = NoTask]
            /\ UNCHANGED <<m_tasks, m_state, ret>>
        BY <2>5 DEF PostRun, Goto
      <3>2. OthersOnStack(t)
        BY ZenonT(60), <1>2, <3>1, OthersStackStay
      <3>3. ~InBody(t)' /\ pc'[t] # "swap"
        BY <1>2, <3>1 DEF Domains, InBody
      <3> QED
        BY <1>4, <3>1, <3>2, <3>3, OwnReleased
    <2>6. CASE EnterIdle(t) \/ Exit(t) \/ Idle(t) \/ LeaveIdle(t)
      <3>1. /\ \E label \in {"idle", "idleOut", "fetch", "join", "exit"} :
                  pc' = [pc EXCEPT ![t] = label]
            /\ UNCHANGED <<m_tasks, m_state, ret, task>>
        BY <2>6 DEF EnterIdle, Exit, Idle, LeaveIdle, Goto
      <3>2. OthersOnStack(t)
        BY ZenonT(60), <1>2, <3>1, OthersStackStay
      <3>3. ~InBody(t)' /\ pc'[t] # "swap"
        BY <1>2, <3>1 DEF Domains, InBody
      <3> QED
        BY <1>4, <3>1, <3>2, <3>3, OwnReleased
    <2> QED
      BY <1>10, <2>1, <2>2, <2>3, <2>4, <2>5, <2>6 DEF Run
  <1>11. ASSUME NEW t \in Procs, Body(t)
         PROVE  OwnInv'
    <2>1. CASE BodySchedule(t)
      BY <1>5, <2>1 DEF BodySchedule
    <2>2. CASE BodyReschedule(t)
      <3>1. pc[t] = "body" /\ UNCHANGED <<task, m_state>>
        BY <2>2 DEF BodyReschedule
      <3>2. InBody(t)
        BY <3>1 DEF InBody
      <3>3. task[t] \in Tasks /\ t \in Threads
        BY <1>1, <1>2, <3>1, <3>2, WhoRuns DEF Held, RunPc
      <3>4. schedule(t, task[t], t)
        BY <2>2 DEF BodyReschedule
      <3>5. Entries' = Entries \cup {[fiber |-> task[t], thread |-> t]}
        BY <1>1, <3>3, <3>4, EntriesAppend DEF schedule
      <3>6. \E needed \in BOOLEAN : GotoTickling(t, needed, pc[t])
        BY ZenonT(60), <3>4 DEF schedule
      <3>7. \A p \in Procs : StackKept(p)
        BY <1>2, <3>1, <3>6, TicklingOnStack
      <3> QED
        BY <1>1, <3>1, <3>2, <3>5, <3>7, OwnRequeued
    <2>3. ASSUME pc[t] = "body", pc' = [pc EXCEPT ![t] = "swap"], NEW s,
                 s = "TERM" \/ (s = "READY" /\ QueuedOwn(t)),
                 m_state' = [m_state EXCEPT ![task[t]] = s],
                 UNCHANGED <<m_tasks, ret, task>>
          PROVE  OwnInv'
      <3>1. OthersOnStack(t)
        BY Zenon, <1>2, <2>3, OthersStackStay
      <3>2. InBody(t) /\ ~InBody(t)'
        BY <1>2, <2>3 DEF Domains, InBody
      <3>3. OnlyState(task[t], s)
        BY <1>2, <2>3, <3>2 DEF Domains, Held, OnlyState
      <3>4. m_state[task[t]] = "RUNNING"
        BY <1>1, <3>2 DEF BodyRunning
      <3>5. \A u \in Procs : pc[u] = "swap" => task[u] # task[t]
        BY <3>4 DEF OwnInv, SwapLeft
      <3> QED
        BY <1>3, <1>4, <2>3, <3>1, <3>2, <3>3, <3>5, OwnLeft
    <2>4. CASE Yield(t)
      <3>1. pc[t] = "body" /\ Queued(task[t])
        BY <2>4 DEF Yield
      <3>2. InBody(t)
        BY <3>1 DEF InBody
      <3>3. m_state' = [m_state EXCEPT ![task[t]] = "READY"]
        <4>1. m_state[task[t]] = "RUNNING"
          BY <1>1, <3>2 DEF BodyRunning
        <4> QED
          BY <2>4, <4>1 DEF Yield
      <3>4. PICK e \in Entries : e.fiber = task[t]
        BY <3>1 DEF Queued, Entries
      <3>5. e.thread = t
        BY <3>2, <3>4 DEF OwnInv, BodyPinned
      <3>6. e \in ScheduleTask
        BY <1>1, LenProperties, ElementOfSeq DEF Entries, TypeOK
      <3>7. e = [fiber |-> task[t], thread |-> t]
        BY <3>4, <3>5, <3>6 DEF ScheduleTask
      <3>8. QueuedOwn(t)
        BY <3>7 DEF QueuedOwn
      <3> QED
        BY Zenon, <2>3, <2>4, <3>1, <3>3, <3>8 DEF Yield, Goto
    <2>5. CASE MainFunc(t)
      BY Zenon, <2>3, <2>5 DEF MainFunc, Goto
    <2>6. CASE SwapOut(t)
      <3>1. pc' = [pc EXCEPT ![t] = "post"] /\ UNCHANGED <<m_tasks, m_state, ret, task>>
        BY <2>6 DEF SwapOut, Goto
      <3>2. OthersOnStack(t)
        BY Zenon, <1>2, <3>1, OthersStackStay
      <3>3. ~InBody(t)' /\ pc'[t] # "swap"
        BY <1>2, <3>1 DEF Domains, InBody
      <3> QED
        BY <1>4, <3>1, <3>2, <3>3, OwnReleased
    <2> QED
      BY <1>11, <2>1, <2>2, <2>4, <2>5, <2>6 DEF Body
  <1>12. CASE UNCHANGED vars
    <2>1. \A p \in Procs : StackKept(p)
      BY <1>12, KeptSame DEF vars, StackKept
    <2> QED
      BY <1>6, <1>12, <2>1 DEF vars
  <1> QED
    BY <1>7, <1>8, <1>9, <1>10, <1>11, <1>12 DEF Next, Main, Terminated

\* No two threads are ever on the stack of one fiber, provided fibers reschedule
\* themselves on their own thread only; without the proviso it is false.
THEOREM StackCorrect ==
    ASSUME YieldPins \subseteq {Own}
    PROVE  Spec => []StackExclusive
  <1>1. Init => OwnInv
    BY DEF Init, OwnInv, BodyPinned, SwapLeft, SwapOnce, InBody, Procs
  <1>2. IInv /\ OwnInv /\ [Next]_vars => OwnInv'
    BY OwnStep
  <1>3. IInv /\ OwnInv => StackExclusive
    <2> SUFFICES ASSUME IInv, OwnInv, NEW f \in Tasks, NEW t \in Threads,
                        NEW u \in Threads, OnStack(t, f), OnStack(u, f)
                 PROVE  t = u
      BY DEF StackExclusive
    <2>1. t \in Procs /\ u \in Procs
      BY SchedulerAssumption DEF Threads, Procs
    <2>2. InBody(t) \/ pc[t] = "swap"
      BY DEF OnStack, InBody
    <2>3. InBody(u) \/ pc[u] = "swap"
      BY DEF OnStack, InBody
    <2>4. task[t] = f /\ task[u] = f
      BY DEF OnStack
    <2>6. \A p \in Procs : InBody(p) => m_state[task[p]] = "RUNNING"
      BY DEF IInv, FiberInv, Owned, BodyRunning
    <2>7. \A p \in Procs : pc[p] = "swap" => m_state[task[p]] # "RUNNING"
      BY DEF OwnInv, SwapLeft
    <2>8. CASE InBody(t) /\ InBody(u)
      BY <2>1, <2>4, <2>8 DEF IInv, FiberInv, Owned, BodyOnce
    <2>9. CASE pc[t] = "swap" /\ pc[u] = "swap"
      BY <2>1, <2>4, <2>9 DEF OwnInv, SwapOnce
    <2> QED
      BY <2>1, <2>2, <2>3, <2>4, <2>6, <2>7, <2>8, <2>9
  <1> QED
    BY Invariance, <1>1, <1>2, <1>3, PTL DEF Spec

-----------------------------------------------------------------------------
(* Scheduler implements TaskPool.                                          *)

\* Each value of m_state under the mapping.
LEMMA StatusValues ==
    ASSUME NEW f \in Tasks
    PROVE  /\ m_state[f] = "FREE" => status[f] = "absent"
           /\ m_state[f] \in {"NONE", "READY"} => status[f] = "pending"
           /\ m_state[f] = "RUNNING" => status[f] = "running"
           /\ m_state[f] = "TERM" => status[f] = "done"
  BY DEF status

\* A step that changes the state of one task changes the status of that task.
LEMMA StatusStep ==
    ASSUME TypeOK, NEW f \in Tasks, NEW v \in FiberState,
           m_state' = [m_state EXCEPT ![f] = v]
    PROVE  /\ v = "FREE" => status' = [status EXCEPT ![f] = "absent"]
           /\ v \in {"NONE", "READY"} => status' = [status EXCEPT ![f] = "pending"]
           /\ v = "RUNNING" => status' = [status EXCEPT ![f] = "running"]
           /\ v = "TERM" => status' = [status EXCEPT ![f] = "done"]
  BY ZenonT(60) DEF status, TypeOK, FiberState

\* Nothing runs or is submitted once a thread has seen stopping().
LEMMA OpenWhile ==
    ASSUME IInv, ~m_stopping \/ (\E t \in Procs : task[t] # NoTask)
    PROVE  ~closed
  <1>1. Threads \subseteq Procs
    BY SchedulerAssumption DEF Threads, Procs
  <1> QED
    BY <1>1, BusyPositive DEF IInv, StopInv, closed

\* A step changes what the threads run only if one enters or leaves a task.
LEMMA OnSame ==
    ASSUME \A t \in Threads : /\ InBody(t)' <=> InBody(t)
                              /\ InBody(t) => task'[t] = task[t]
    PROVE  UNCHANGED on
  BY DEF on

LEMMA PoolStep ==
    ASSUME IInv, [Next]_vars
    PROVE  Pool!Next \/ UNCHANGED <<status, on, closed>>
  <1> USE DEF IInv
  <1>1. Threads \subseteq Procs
    BY SchedulerAssumption DEF Threads, Procs
  <1>2. ASSUME UNCHANGED m_state
        PROVE  UNCHANGED status
    BY <1>2 DEF status
  <1>3. ASSUME UNCHANGED idleTerm
        PROVE  UNCHANGED closed
    BY <1>3 DEF closed
  <1>4. ASSUME NEW p \in Procs, ~closed, UNCHANGED <<idleTerm, task>>,
               pc[p] \in {"created", "started", "body"},
               \E f \in Tasks, thread \in Pins, kind \in {"NONE", "READY"} :
                   ScheduleNew(p, f, thread, kind)
        PROVE  Pool!Next
    <2>1. PICK f \in Tasks, kind \in {"NONE", "READY"} :
              /\ m_state[f] = "FREE" /\ m_state' = [m_state EXCEPT ![f] = kind]
              /\ \E needed \in BOOLEAN : GotoTickling(p, needed, pc[p])
      BY Zenon, <1>4 DEF ScheduleNew, schedule
    <2>2. status[f] = "absent" /\ status' = [status EXCEPT ![f] = "pending"]
      BY ZenonT(60), <2>1, StatusValues, StatusStep DEF FiberState
    <2>3. \A t \in Threads : InBody(t)' <=> InBody(t)
      BY <1>1, <1>4, <2>1 DEF InBody, GotoTickling, Goto, TypeOK
    <2>4. UNCHANGED <<on, closed>>
      BY <1>3, <1>4, <2>3, OnSame
    <2> QED
      BY Zenon, <1>4, <2>2, <2>4 DEF Pool!Next, Pool!Submit
  <1>5. CASE MainSchedule
    <2>1. ~closed
      BY <1>5, OpenWhile DEF MainSchedule, PcInv, BeforeStop
    <2> QED
      BY <1>4, <1>5, <2>1 DEF MainSchedule, Procs
  <1>6. CASE Start \/ Stop \/ Join \/ UNCHANGED vars
    <2>1. \A t \in Threads : InBody(t)' <=> InBody(t)
      BY SMTT(30), <1>1, <1>6, SchedulerAssumption
         DEF Start, Stop, Join, vars, InBody, Goto, TypeOK, Procs, PcInv
    <2>2. UNCHANGED <<m_state, idleTerm, task>>
      BY <1>6 DEF Start, Stop, Join, vars
    <2> QED
      BY <1>2, <1>3, <2>1, <2>2, OnSame
  <1>7. ASSUME NEW t \in Procs, Run(t)
        PROVE  Pool!Next \/ UNCHANGED <<status, on, closed>>
    <2>1. CASE \/ FetchTask(t) \/ FetchNone(t) \/ Tickle(t) \/ PostRun(t)
               \/ EnterIdle(t) \/ Exit(t) \/ LeaveIdle(t)
      <3>1. UNCHANGED <<m_state, idleTerm>>
        BY Zenon, <2>1 DEF FetchTask, FetchNone, Tickle, PostRun, EnterIdle, Exit, LeaveIdle
      <3>2. \A u \in Procs : InBody(u)' <=> InBody(u)
        <4>1. CASE FetchTask(t)
          <5>1. pc[t] = "fetch" /\ \E needed \in BOOLEAN : GotoTickling(t, needed, "dispatch")
            BY Zenon, <4>1 DEF FetchTask
          <5> QED
            BY <5>1 DEF GotoTickling, Goto, InBody, TypeOK
        <4>2. CASE FetchNone(t)
          <5>1. pc[t] = "fetch" /\ \E needed \in BOOLEAN : GotoTickling(t, needed, "dispatch")
            BY ZenonT(60), <4>2 DEF FetchNone
          <5> QED
            BY <5>1 DEF GotoTickling, Goto, InBody, TypeOK
        <4>3. CASE Tickle(t)
          BY <4>3 DEF Tickle, Goto, InBody, TypeOK, PcInv
        <4>4. CASE PostRun(t) \/ EnterIdle(t) \/ Exit(t) \/ LeaveIdle(t)
          BY <4>4 DEF PostRun, EnterIdle, Exit, LeaveIdle, Goto, InBody, TypeOK
        <4> QED
          BY <2>1, <4>1, <4>2, <4>3, <4>4
      <3>3. \A u \in Procs : InBody(u) => task'[u] = task[u]
        BY ZenonT(60), <2>1 DEF FetchTask, FetchNone, Tickle, PostRun, EnterIdle, Exit, LeaveIdle,
                    InBody, TypeOK
      <3> QED
        BY <1>1, <1>2, <1>3, <3>1, <3>2, <3>3, OnSame
    <2>2. CASE Resume(t)
      <3>1. /\ task[t] \in Tasks /\ ~closed /\ t \in Threads
            /\ m_state[task[t]] \in {"NONE", "READY"}
            /\ m_state' = [m_state EXCEPT ![task[t]] = "RUNNING"]
        BY <2>2, OpenWhile, WhoRuns DEF Resume, TypeOK
      <3>2. /\ status[task[t]] = "pending"
            /\ status' = [status EXCEPT ![task[t]] = "running"]
        BY Zenon, <3>1, StatusValues, StatusStep DEF FiberState
      <3>3. /\ ~InBody(t) /\ InBody(t)'
            /\ \A u \in Threads \ {t} : InBody(u)' <=> InBody(u)
            /\ UNCHANGED task
        BY <1>1, <2>2 DEF Resume, Goto, TypeOK, InBody
      <3>4. on[t] = NoTask /\ on' = [on EXCEPT ![t] = task[t]]
        BY ZenonT(60), <3>1, <3>3 DEF on
      <3>5. UNCHANGED closed
        BY Zenon, <1>3, <2>2 DEF Resume
      <3>6. Pool!Begin(t, task[t])
        BY <3>1, <3>2, <3>4, <3>5 DEF Pool!Begin
      <3> QED
        BY <3>1, <3>6 DEF Pool!Next
    <2>3. CASE Idle(t)
      <3>1. UNCHANGED <<status, on>>
        <4>1. \A u \in Threads : InBody(u)' <=> InBody(u)
          BY <1>1, <2>3 DEF Idle, Goto, InBody, TypeOK
        <4> QED
          BY <1>2, <2>3, <4>1, OnSame DEF Idle
      <3>2. CASE stopping
        <4>1. closed'
          <5>1. t \in Threads
            BY <2>3, WhoRuns DEF Idle, RunPc
          <5> QED
            BY <2>3, <3>2, <5>1 DEF Idle, closed, TypeOK
        <4>2. \A u \in Procs : task[u] = NoTask
          BY <3>2, BusyPositive DEF stopping
        <4>3. InQueue = {}
          BY <3>2 DEF stopping, InQueue
        <4>4. \A f \in Tasks : m_state[f] \in {"FREE", "TERM"}
          BY <4>2, <4>3, SchedulerAssumption
             DEF FiberInv, Owned, ReadyFound, RunningFound, TypeOK, FiberState
        <4>5. \A f \in Tasks : status[f] \in {"absent", "done"}
          BY <4>4, StatusValues
        <4> QED
          BY <3>1, <4>1, <4>5 DEF Pool!Next, Pool!Close, closed
      <3>3. CASE ~stopping
        <4>1. \A u \in Procs : ~idleTerm[u]
          BY <3>3 DEF StopInv, stopping
        <4>2. ~closed
          BY <1>1, <4>1 DEF closed
        <4>3. \A u \in Threads : ~idleTerm'[u]
          BY <1>1, <2>3, <3>3, <4>1 DEF Idle, TypeOK
        <4>4. closed = FALSE /\ closed' = FALSE
          BY <4>2, <4>3 DEF closed
        <4> QED
          BY ZenonT(60), <3>1, <4>4
      <3> QED
        BY <3>2, <3>3
    <2> QED
      BY <1>7, <2>1, <2>2, <2>3 DEF Run
  <1>8. ASSUME NEW t \in Procs, Body(t)
        PROVE  Pool!Next \/ UNCHANGED <<status, on, closed>>
    <2>1. /\ pc[t] \in {"body", "swap"} /\ task[t] # NoTask /\ task[t] \in Tasks
          /\ UNCHANGED <<idleTerm, task>>
      BY ZenonT(60), <1>8 DEF Body, BodySchedule, BodyReschedule, Yield, MainFunc, SwapOut, PcInv,
                  InBody, TypeOK
    <2>2. ~closed /\ UNCHANGED closed /\ t \in Threads
      BY <1>3, <2>1, OpenWhile, WhoRuns
    <2>3. CASE BodySchedule(t)
      BY <1>4, <2>1, <2>2, <2>3 DEF BodySchedule
    <2>4. CASE BodyReschedule(t)
      <3>1. /\ pc[t] = "body" /\ UNCHANGED m_state
            /\ \E needed \in BOOLEAN : GotoTickling(t, needed, pc[t])
        BY ZenonT(60), <2>4 DEF BodyReschedule, schedule
      <3>2. \A u \in Threads : InBody(u)' <=> InBody(u)
        BY <1>1, <3>1 DEF InBody, GotoTickling, Goto, TypeOK
      <3> QED
        BY <1>2, <2>1, <2>2, <3>1, <3>2, OnSame
    <2>5. CASE SwapOut(t)
      <3>1. \A u \in Threads : InBody(u)' <=> InBody(u)
        BY <1>1, <2>5 DEF SwapOut, InBody, Goto, TypeOK
      <3> QED
        BY <1>2, <2>1, <2>2, <2>5, <3>1, OnSame DEF SwapOut
    <2>6. ASSUME pc[t] = "body", NEW v \in {"READY", "TERM"},
                 m_state' = [m_state EXCEPT ![task[t]] = v],
                 pc' = [pc EXCEPT ![t] = "swap"], UNCHANGED ret
          PROVE  Pool!Next
      <3>1. m_state[task[t]] = "RUNNING"
        BY <2>6 DEF FiberInv, Owned, BodyRunning, InBody
      <3>2. status[task[t]] = "running"
        BY <2>1, <3>1, StatusValues
      <3>3. \/ status' = [status EXCEPT ![task[t]] = "pending"]
            \/ status' = [status EXCEPT ![task[t]] = "done"]
        BY ZenonT(60), <2>1, <2>6, StatusStep DEF FiberState
      <3>4. InBody(t) /\ ~InBody(t)' /\ \A u \in Threads \ {t} : InBody(u)' <=> InBody(u)
        BY <1>1, <2>6 DEF InBody, TypeOK
      <3>5. on[t] = task[t] /\ on' = [on EXCEPT ![t] = NoTask]
        BY ZenonT(60), <2>1, <2>2, <3>4 DEF on
      <3>6. Pool!End(t, task[t])
        BY <2>1, <2>2, <3>2, <3>3, <3>5 DEF Pool!End
      <3> QED
        BY <2>1, <2>2, <3>6 DEF Pool!Next
    <2>7. CASE Yield(t)
      <3>1. m_state[task[t]] = "RUNNING"
        BY <2>7 DEF Yield, FiberInv, Owned, BodyRunning, InBody
      <3> QED
        BY <2>6, <2>7, <3>1 DEF Yield, Goto
    <2>8. CASE MainFunc(t)
      BY Zenon, <2>6, <2>8 DEF MainFunc, Goto
    <2> QED
      BY <1>8, <2>3, <2>4, <2>5, <2>7, <2>8 DEF Body
  <1> QED
    BY <1>5, <1>6, <1>7, <1>8 DEF Next, Main, Terminated

\* The scheduler implements the abstract pool of tasks.
THEOREM Refinement == Spec => IsPool
  <1>1. Init => Pool!Init
    <2> SUFFICES ASSUME Init
                 PROVE  Pool!Init
      OBVIOUS
    <2>1. status = [f \in Tasks |-> "absent"]
      BY DEF Init, status
    <2>2. Threads \subseteq Procs
      BY SchedulerAssumption DEF Threads, Procs
    <2>3. ~closed
      BY <2>2 DEF Init, closed
    <2>4. on = [t \in Threads |-> NoTask]
      BY <2>2 DEF Init, on
    <2> QED
      BY <2>1, <2>3, <2>4 DEF Pool!Init, closed
  <1>2. IInv /\ [Next]_vars => [Pool!Next]_<<status, on, closed>>
    BY PoolStep
  <1> QED
    BY Invariance, <1>1, <1>2, PTL DEF Spec, IsPool, Pool!Spec
=============================================================================
