------------------------ MODULE SchedulerInvariant --------------------------
(***************************************************************************)
(* The inductive invariant of Scheduler, the facts about the queue that its*)
(* proof rests on, and the proof that every step keeps the types, the place*)
(* of each thread, the two counters and who owns a fiber.  SchedulerProofs *)
(* has the rest and the theorems.                                          *)
(*                                                                         *)
(* The invariant IInv has four parts besides the types: where a thread can *)
(* be and what it then holds (PcInv); the two counters (CountInv); who owns*)
(* a fiber in each of its states (FiberInv); what is true once some idle   *)
(* fiber has ended (StopInv).  None is inductive alone: the decrement in   *)
(* PostRun needs CountInv to stay a natural number, CountInv needs PcInv,  *)
(* StopInv needs CountInv to know that no task is running that could       *)
(* schedule another one.                                                   *)
(***************************************************************************)
EXTENDS Scheduler, FiniteSetTheorems, SequenceTheorems, TLAPS

\* t has taken its task from the queue but not resumed it yet.
Early(t) ==
    /\ task[t] # NoTask
    /\ pc[t] = "dispatch" \/ (pc[t] = "tickle" /\ ret[t] = "dispatch")

\* The owner is still before stop().
BeforeStop ==
    \/ pc[Caller] \in {"created", "started"}
    \/ pc[Caller] = "tickle" /\ ret[Caller] \in {"created", "started"}

PcInv ==
    /\ \A w \in Workers : pc[w] \in RunPc \cup {"off", "exit"}
    /\ pc[Caller] \in MainPc \cup (IF UseCaller THEN RunPc ELSE {"tickle"})
    /\ m_stopping <=> ~BeforeStop
    /\ \A w \in Workers : pc[w] = "tickle" => ret[w] \in {"dispatch", "body"}
    /\ ~UseCaller /\ pc[Caller] = "tickle" => ret[Caller] \in {"created", "started"}
    /\ \A p \in Procs : InBody(p) \/ pc[p] \in {"swap", "post"} => task[p] # NoTask
    /\ \A p \in Procs : task[p] # NoTask =>
            Early(p) \/ InBody(p) \/ pc[p] \in {"swap", "post"}
    /\ pc[Caller] = "created" \/ (pc[Caller] = "tickle" /\ ret[Caller] = "created")
          => \A w \in Workers : pc[w] = "off"

Busy == {t \in Threads : task[t] # NoTask}
Idling == {t \in Threads : pc[t] \in {"idle", "idleOut"}}

CountInv ==
    /\ m_activeThreadCount = Cardinality(Busy)
    /\ m_idleThreadCount = Cardinality(Idling)

InQueue == {m_tasks[i].fiber : i \in DOMAIN m_tasks}

UniqueQueue ==
    \A i, j \in DOMAIN m_tasks : m_tasks[i].fiber = m_tasks[j].fiber => i = j

QueueStates == \A f \in InQueue : m_state[f] \in {"NONE", "READY", "RUNNING"}

EarlyReady ==
    \A t \in Procs : Early(t) =>
        m_state[task[t]] \in {"NONE", "READY"} /\ task[t] \notin InQueue

EarlyOnce ==
    \A t, u \in Procs : Early(t) /\ Early(u) /\ task[t] = task[u] => t = u

BodyRunning == \A t \in Procs : InBody(t) => m_state[task[t]] = "RUNNING"

BodyOnce ==
    \A t, u \in Procs : InBody(t) /\ InBody(u) /\ task[t] = task[u] => t = u

HeldExists == \A t \in Procs : task[t] # NoTask => m_state[task[t]] # "FREE"

ReadyFound ==
    \A f \in Tasks : m_state[f] \in {"NONE", "READY"} =>
        f \in InQueue \/ \E t \in Procs : task[t] = f /\ Early(t)

RunningFound ==
    \A f \in Tasks : m_state[f] = "RUNNING" =>
        \E t \in Procs : task[t] = f /\ InBody(t)

\* Who holds a fiber in each of its states.
Owned ==
    /\ QueueStates /\ EarlyReady /\ EarlyOnce /\ BodyRunning /\ BodyOnce
    /\ HeldExists /\ ReadyFound /\ RunningFound

FiberInv == UniqueQueue /\ Owned

StopInv ==
    /\ (\E t \in Procs : idleTerm[t]) =>
            m_stopping /\ m_tasks = <<>> /\ m_activeThreadCount = 0
    /\ \A w \in Workers : pc[w] = "exit" => idleTerm[w]
    /\ UseCaller /\ pc[Caller] \in {"join", "stopped"} => idleTerm[Caller]
    /\ pc[Caller] = "stopped" => \A w \in Workers : pc[w] = "exit"

IInv == TypeOK /\ PcInv /\ CountInv /\ FiberInv /\ StopInv

-----------------------------------------------------------------------------
(* What removing the i-th task does to the queue.                          *)
LEMMA EraseProperties ==
    ASSUME NEW S, NEW s \in Seq(S), NEW i \in 1..Len(s)
    PROVE  /\ Erase(s, i) \in Seq(S)
           /\ Len(Erase(s, i)) = Len(s) - 1
           /\ \A j \in 1..(Len(s) - 1) :
                 Erase(s, i)[j] = s[IF j < i THEN j ELSE j + 1]
  <1> DEFINE A == SubSeq(s, 1, i - 1)
             B == SubSeq(s, i + 1, Len(s))
  <1>1. /\ A \in Seq(S) /\ Len(A) = i - 1
        /\ \A j \in 1..(i - 1) : A[j] = s[j]
    BY SubSeqProperties, LenProperties
  <1>2. /\ B \in Seq(S) /\ Len(B) = Len(s) - i
        /\ \A j \in 1..(Len(s) - i) : B[j] = s[i + j]
    BY SubSeqProperties, LenProperties
  <1>3. Erase(s, i) = A \o B
    BY DEF Erase
  <1> HIDE DEF A, B
  <1>4. /\ A \o B \in Seq(S)
        /\ Len(A \o B) = Len(A) + Len(B)
        /\ \A j \in 1..(Len(A) + Len(B)) :
              (A \o B)[j] = IF j <= Len(A) THEN A[j] ELSE B[j - Len(A)]
    BY Zenon, <1>1, <1>2, ConcatProperties
  <1>5. Len(s) \in Nat
    BY LenProperties
  <1>6. ASSUME NEW j \in 1..(Len(s) - 1)
        PROVE  (A \o B)[j] = s[IF j < i THEN j ELSE j + 1]
    <2>1. CASE j < i
      BY <2>1, <1>1, <1>2, <1>4, <1>5
    <2>2. CASE ~(j < i)
      <3>1. j - (i - 1) \in 1..(Len(s) - i) /\ i + (j - (i - 1)) = j + 1
        BY <2>2, <1>5
      <3>2. (A \o B)[j] = B[j - (i - 1)]
        BY <2>2, <1>1, <1>2, <1>4, <1>5
      <3>3. B[j - (i - 1)] = s[j + 1]
        BY <3>1, <1>2
      <3> QED
        BY <2>2, <3>2, <3>3
    <2> QED
      BY Zenon, <2>1, <2>2
  <1> QED
    BY <1>1, <1>2, <1>3, <1>4, <1>5, <1>6

\* The queue q is s without its i-th entry: it has exactly the other entries,
\* each at one position.
Removed(s, i, q) ==
    /\ q \in Seq(ScheduleTask)
    /\ \A j \in DOMAIN q : \E k \in DOMAIN s : k # i /\ q[j] = s[k]
    /\ \A k \in DOMAIN s : k # i => \E j \in DOMAIN q : q[j] = s[k]
    /\ (\A j, k \in DOMAIN s : s[j].fiber = s[k].fiber => j = k)
          => \A j, k \in DOMAIN q : q[j].fiber = q[k].fiber => j = k

LEMMA RemoveTask ==
    ASSUME NEW s \in Seq(ScheduleTask), NEW i \in DOMAIN s
    PROVE  Removed(s, i, Erase(s, i))
  <1> DEFINE q == Erase(s, i)
  <1> HIDE DEF q
  <1> DEFINE at(j) == IF j < i THEN j ELSE j + 1
  <1>1. DOMAIN s = 1..Len(s) /\ Len(s) \in Nat
    BY LenProperties
  <1>2. /\ q \in Seq(ScheduleTask) /\ Len(q) = Len(s) - 1
        /\ \A j \in 1..(Len(s) - 1) : q[j] = s[at(j)]
    BY Zenon, <1>1, EraseProperties DEF q
  <1>3. DOMAIN q = 1..(Len(s) - 1)
    BY <1>2, LenProperties
  <1>4. \A j \in DOMAIN q : at(j) \in DOMAIN s /\ at(j) # i
    BY <1>1, <1>3
  <1>5. \A j, k \in DOMAIN q : at(j) = at(k) => j = k
    BY <1>1, <1>3
  <1>6. ASSUME NEW k \in DOMAIN s, k # i
        PROVE  \E j \in DOMAIN q : q[j] = s[k]
    <2>1. CASE k < i
      <3>1. k \in DOMAIN q /\ q[k] = s[k]
        BY <2>1, <1>1, <1>2, <1>3
      <3> QED BY <3>1
    <2>2. CASE k > i
      <3>1. k - 1 \in DOMAIN q /\ at(k - 1) = k
        BY <2>2, <1>1, <1>3
      <3>2. q[k - 1] = s[k]
        BY <3>1, <1>2, <1>3
      <3> QED BY <3>1, <3>2
    <2> QED BY <2>1, <2>2, <1>1, <1>6
  <1>7. \A j \in DOMAIN q : q[j] = s[at(j)]
    BY <1>2, <1>3
  <1> HIDE DEF at
  <1>8. \A j \in DOMAIN q : \E k \in DOMAIN s : k # i /\ q[j] = s[k]
    BY <1>4, <1>7
  <1>9. ASSUME \A j, k \in DOMAIN s : s[j].fiber = s[k].fiber => j = k,
               NEW j \in DOMAIN q, NEW k \in DOMAIN q, q[j].fiber = q[k].fiber
        PROVE  j = k
    BY <1>4, <1>5, <1>7, <1>9
  <1> QED
    BY <1>2, <1>6, <1>8, <1>9 DEF q, Removed

LEMMA AppendTask ==
    ASSUME NEW s \in Seq(ScheduleTask), NEW e \in ScheduleTask,
           NEW q, q = Append(s, e)
    PROVE  /\ q \in Seq(ScheduleTask)
           /\ DOMAIN q = 1..(Len(s) + 1)
           /\ DOMAIN s = 1..Len(s) /\ Len(s) \in Nat
           /\ \A j \in DOMAIN s : j \in DOMAIN q /\ q[j] = s[j]
           /\ q[Len(s) + 1] = e
           /\ \A j \in DOMAIN q : j \in DOMAIN s \/ j = Len(s) + 1
  BY AppendProperties, LenProperties

-----------------------------------------------------------------------------
LEMMA ThreadsFinite == IsFiniteSet(Threads) /\ IsFiniteSet(Procs)
  BY SchedulerAssumption, FS_AddElement DEF Threads, Procs

LEMMA WhoRuns ==
    ASSUME TypeOK, PcInv, NEW t \in Procs,
           task[t] # NoTask \/ pc[t] \in RunPc \ {"tickle"}
    PROVE  t \in Threads
  BY SchedulerAssumption DEF PcInv, TypeOK, Threads, Procs, RunPc, MainPc, InBody, Early

LEMMA BusyPositive ==
    ASSUME TypeOK, PcInv, CountInv, NEW t \in Procs, task[t] # NoTask
    PROVE  m_activeThreadCount - 1 \in Nat /\ m_activeThreadCount # 0
  <1>1. t \in Busy
    BY WhoRuns DEF Busy
  <1>2. IsFiniteSet(Busy)
    BY ThreadsFinite, FS_Subset DEF Busy
  <1>3. Cardinality(Busy) # 0
    BY <1>1, <1>2, FS_EmptySet
  <1> QED
    BY <1>3 DEF CountInv, TypeOK

LEMMA IdlePositive ==
    ASSUME TypeOK, PcInv, CountInv, NEW t \in Procs, pc[t] \in {"idle", "idleOut"}
    PROVE  m_idleThreadCount - 1 \in Nat
  <1>1. t \in Idling
    BY WhoRuns DEF Idling, RunPc
  <1>2. IsFiniteSet(Idling)
    BY ThreadsFinite, FS_Subset DEF Idling
  <1>3. Cardinality(Idling) # 0
    BY <1>1, <1>2, FS_EmptySet
  <1> QED
    BY <1>3 DEF CountInv, TypeOK

-----------------------------------------------------------------------------
(* One lemma per part of the invariant: every step preserves it.           *)

\* The entry that schedule() appends is a ScheduleTask.
LEMMA ScheduleType ==
    ASSUME NEW f \in Tasks, NEW thread \in Threads \cup {AnyThread}
    PROVE  [fiber |-> f, thread |-> thread] \in ScheduleTask
  BY DEF ScheduleTask

\* The thread a fiber names when it reschedules itself.
LEMMA YieldPinType ==
    ASSUME TypeOK, PcInv, NEW t \in Procs, pc[t] = "body", NEW p \in YieldPins
    PROVE  (IF p = Own THEN t ELSE p) \in Threads \cup {AnyThread}
  BY WhoRuns, SchedulerAssumption DEF RunPc

\* What the critical section of run does when it takes the i-th entry.
Fetched(t, i, q) ==
    /\ m_tasks[i].fiber \in Tasks
    /\ ~PinnedElsewhere(i, t) /\ ~IsRunning(i)
    /\ task' = [task EXCEPT ![t] = m_tasks[i].fiber]
    /\ Removed(m_tasks, i, q)

LEMMA FetchFacts ==
    ASSUME TypeOK, NEW t \in Procs, FetchTask(t)
    PROVE  \E i \in DOMAIN m_tasks : Fetched(t, i, m_tasks')
  <1>1. PICK i \in Takeable(t) :
            /\ task' = [task EXCEPT ![t] = m_tasks[i].fiber]
            /\ m_tasks' = Erase(m_tasks, i)
    BY Zenon DEF FetchTask
  <1>2. i \in DOMAIN m_tasks /\ ~PinnedElsewhere(i, t) /\ ~IsRunning(i)
    BY <1>1 DEF Takeable
  <1>3. m_tasks \in Seq(ScheduleTask)
    BY DEF TypeOK
  <1>4. m_tasks[i] \in ScheduleTask
    BY <1>2, <1>3, LenProperties, ElementOfSeq
  <1>5. m_tasks[i].fiber \in Tasks
    BY <1>4 DEF ScheduleTask
  <1>6. Removed(m_tasks, i, m_tasks')
    BY <1>1, <1>2, <1>3, RemoveTask
  <1> QED
    BY Zenon, <1>1, <1>2, <1>5, <1>6 DEF Fetched

LEMMA TypeStep == IInv /\ [Next]_vars => TypeOK'
  <1> SUFFICES ASSUME TypeOK, PcInv, CountInv, [Next]_vars
               PROVE  TypeOK'
    BY DEF IInv
  <1> USE DEF TypeOK, Goto, GotoTickling
  <1>1. CASE MainSchedule
    BY <1>1, ScheduleType, AppendTask, SchedulerAssumption
       DEF MainSchedule, ScheduleNew, schedule, FiberState, RunPc, MainPc, Procs
  <1>2. CASE Start \/ Stop \/ Join
    <2>1. CASE Start
      BY <2>1 DEF Start, RunPc, MainPc
    <2>2. CASE Stop
      BY Zenon, <2>2 DEF Stop, RunPc, MainPc
    <2>3. CASE Join
      BY Zenon, <2>3 DEF Join, MainPc
    <2> QED
      BY Zenon, <1>2, <2>1, <2>2, <2>3
  <1>3. ASSUME NEW t \in Procs, Run(t)
        PROVE  TypeOK'
    <2>1. CASE FetchTask(t)
      <3>1. PICK i \in DOMAIN m_tasks : Fetched(t, i, m_tasks')
        BY <2>1, FetchFacts
      <3>2. m_tasks' \in Seq(ScheduleTask) /\ task' \in [Procs -> Tasks \cup {NoTask}]
        BY <3>1 DEF Fetched, Removed
      <3>3. \E needed \in BOOLEAN : GotoTickling(t, needed, "dispatch")
        BY Zenon, <2>1 DEF FetchTask
      <3> QED
        BY <2>1, <3>2, <3>3 DEF FetchTask, RunPc
    <2>2. CASE FetchNone(t)
      BY <2>2 DEF FetchNone, RunPc
    <2>6. CASE Tickle(t)
      BY <2>6 DEF Tickle, RunPc, MainPc
    <2>3. CASE Resume(t)
      BY <2>3 DEF Resume, FiberState, RunPc
    <2>7. CASE EnterIdle(t) \/ Exit(t)
      BY <2>7 DEF EnterIdle, Exit, RunPc, MainPc
    <2>8. CASE Idle(t)
      <3>1. stopping \in BOOLEAN
        BY DEF stopping
      <3> QED
        BY <2>8, <3>1 DEF Idle, RunPc
    <2>4. CASE PostRun(t)
      <3>1. task[t] # NoTask
        BY <2>4 DEF PostRun, PcInv
      <3> QED
        BY <2>4, <3>1, BusyPositive DEF PostRun, RunPc
    <2>5. CASE LeaveIdle(t)
      BY <2>5, IdlePositive DEF LeaveIdle, RunPc
    <2> QED
      BY <1>3, <2>1, <2>2, <2>3, <2>4, <2>5, <2>6, <2>7, <2>8 DEF Run
  <1>4. ASSUME NEW t \in Procs, Body(t)
        PROVE  TypeOK'
    <2>1. CASE BodySchedule(t)
      BY <2>1, ScheduleType, AppendTask, SchedulerAssumption
         DEF BodySchedule, ScheduleNew, schedule, FiberState, RunPc
    <2>2. CASE BodyReschedule(t)
      <3>1. task[t] \in Tasks
        BY <2>2 DEF BodyReschedule, PcInv, InBody
      <3>2. PICK p \in YieldPins : schedule(t, task[t], IF p = Own THEN t ELSE p)
        BY <2>2 DEF BodyReschedule
      <3>3. [fiber |-> task[t], thread |-> IF p = Own THEN t ELSE p] \in ScheduleTask
        BY <2>2, <3>1, ScheduleType, YieldPinType DEF BodyReschedule
      <3>4. m_tasks' \in Seq(ScheduleTask)
        BY <3>2, <3>3, AppendTask DEF schedule
      <3> QED
        BY <2>2, <3>2, <3>4, SchedulerAssumption DEF BodyReschedule, schedule, RunPc
    <2>3. CASE Yield(t) \/ MainFunc(t) \/ SwapOut(t)
      BY <2>3 DEF Yield, MainFunc, SwapOut, FiberState, RunPc
    <2> QED
      BY <1>4, <2>1, <2>2, <2>3 DEF Body
  <1>5. CASE UNCHANGED vars
    BY <1>5 DEF vars
  <1> QED
    BY <1>1, <1>2, <1>3, <1>4, <1>5 DEF Next, Main, Terminated

LEMMA PcStep == IInv /\ [Next]_vars => PcInv'
  <1> SUFFICES ASSUME TypeOK, PcInv, [Next]_vars
               PROVE  PcInv'
    BY DEF IInv
  <1> USE SchedulerAssumption
      DEF TypeOK, PcInv, BeforeStop, Early, InBody, Goto, GotoTickling, Procs,
          RunPc, MainPc
  <1>1. CASE MainSchedule
    BY <1>1 DEF MainSchedule, ScheduleNew, schedule
  <1>2. CASE Start
    BY <1>2 DEF Start
  <1>3. CASE Stop
    BY <1>3 DEF Stop
  <1>4. CASE Join
    BY <1>4 DEF Join
  <1>5. ASSUME NEW t \in Procs, Run(t)
        PROVE  PcInv'
    <2>1. CASE FetchTask(t)
      <3>1. PICK i \in DOMAIN m_tasks : Fetched(t, i, m_tasks')
        BY <2>1, FetchFacts
      <3>2. m_tasks[i].fiber # NoTask /\ task' = [task EXCEPT ![t] = m_tasks[i].fiber]
        BY <3>1 DEF Fetched
      <3>3. \E needed \in BOOLEAN : GotoTickling(t, needed, "dispatch")
        BY Zenon, <2>1 DEF FetchTask
      <3>4. pc[t] = "fetch" /\ UNCHANGED m_stopping
        BY <2>1 DEF FetchTask
      <3> QED
        BY SMTT(30), <3>2, <3>3, <3>4
    <2>2. CASE FetchNone(t)
      <3>1. \E needed \in BOOLEAN : GotoTickling(t, needed, "dispatch")
        BY ZenonT(60), <2>2 DEF FetchNone
      <3> QED
        BY <2>2, <3>1 DEF FetchNone
    <2>3. CASE Tickle(t)
      BY <2>3 DEF Tickle
    <2>4. CASE Resume(t)
      BY SMTT(30), <2>4 DEF Resume
    <2>5. CASE PostRun(t)
      BY SMTT(30), <2>5 DEF PostRun
    <2>6. CASE EnterIdle(t)
      BY <2>6 DEF EnterIdle
    <2>7. CASE Exit(t)
      BY SMTT(30), <2>7 DEF Exit
    <2>8. CASE Idle(t)
      BY <2>8 DEF Idle
    <2>9. CASE LeaveIdle(t)
      BY <2>9 DEF LeaveIdle
    <2> QED
      BY Zenon, <1>5, <2>1, <2>2, <2>3, <2>4, <2>5, <2>6, <2>7, <2>8, <2>9 DEF Run
  <1>6. ASSUME NEW t \in Procs, Body(t)
        PROVE  PcInv'
    <2>1. CASE BodySchedule(t)
      BY SMTT(30), <2>1 DEF BodySchedule, ScheduleNew, schedule
    <2>2. CASE BodyReschedule(t)
      BY SMTT(30), <2>2 DEF BodyReschedule, schedule
    <2>3. CASE Yield(t)
      BY <2>3 DEF Yield
    <2>4. CASE MainFunc(t)
      BY <2>4 DEF MainFunc
    <2>5. CASE SwapOut(t)
      BY <2>5 DEF SwapOut
    <2> QED
      BY Zenon, <1>6, <2>1, <2>2, <2>3, <2>4, <2>5 DEF Body
  <1>7. CASE UNCHANGED vars
    BY <1>7 DEF vars
  <1> QED
    BY Zenon, <1>1, <1>2, <1>3, <1>4, <1>5, <1>6, <1>7 DEF Next, Main, Terminated

LEMMA CountStep == IInv /\ [Next]_vars => CountInv'
  <1> SUFFICES ASSUME TypeOK, PcInv, CountInv, [Next]_vars
               PROVE  CountInv'
    BY DEF IInv
  <1>1. IsFiniteSet(Busy) /\ IsFiniteSet(Idling)
    BY ThreadsFinite, FS_Subset DEF Busy, Idling
  <1>2. Threads \subseteq Procs
    BY SchedulerAssumption DEF Threads, Procs
  <1>3. ASSUME Busy' = Busy, Idling' = Idling,
               UNCHANGED <<m_activeThreadCount, m_idleThreadCount>>
        PROVE  CountInv'
    BY <1>3 DEF CountInv
  <1>4. CASE Main
    <2> USE SchedulerAssumption DEF Goto, GotoTickling, Idling, TypeOK, Procs
    <2>1. Busy' = Busy
      BY <1>4 DEF Main, MainSchedule, Start, Stop, Join, Busy
    <2>2. CASE MainSchedule
      <3>1. Idling' = Idling
        BY <1>2, <2>2 DEF MainSchedule, ScheduleNew, schedule
      <3> QED
        BY <1>3, <2>1, <2>2, <3>1 DEF MainSchedule
    <2>3. CASE Start
      <3>1. Idling = {} /\ Idling' = {}
        BY <1>2, <2>3 DEF Start, PcInv
      <3> QED
        BY ZenonT(60), <1>3, <2>1, <2>3, <3>1 DEF Start
    <2>4. CASE Stop \/ Join
      <3>1. Idling' = Idling
        BY <1>2, <2>4 DEF Stop, Join
      <3> QED
        BY <1>3, <2>1, <2>4, <3>1 DEF Stop, Join
    <2> QED
      BY <1>4, <2>2, <2>3, <2>4 DEF Main
  <1>5. ASSUME NEW t \in Procs, Run(t)
        PROVE  CountInv'
    <2>1. CASE FetchTask(t)
      <3>1. PICK i \in DOMAIN m_tasks : Fetched(t, i, m_tasks')
        BY <2>1, FetchFacts
      <3>2. m_tasks[i].fiber # NoTask /\ task' = [task EXCEPT ![t] = m_tasks[i].fiber]
        BY <3>1, SchedulerAssumption DEF Fetched
      <3>3. t \in Threads /\ t \notin Busy
        BY <2>1, WhoRuns DEF FetchTask, RunPc, PcInv, Early, InBody, Busy
      <3>4. Busy' = Busy \cup {t}
        BY <1>2, <3>2, <3>3 DEF Busy, TypeOK
      <3>5. \E needed \in BOOLEAN : GotoTickling(t, needed, "dispatch")
        BY Zenon, <2>1 DEF FetchTask
      <3>6. Idling' = Idling
        BY <1>2, <2>1, <3>5 DEF FetchTask, GotoTickling, Goto, Idling, TypeOK
      <3>7. Cardinality(Busy') = Cardinality(Busy) + 1
        BY Zenon, <1>1, <3>3, <3>4, FS_AddElement
      <3> QED
        BY <2>1, <3>6, <3>7 DEF FetchTask, CountInv
    <2>2. CASE PostRun(t)
      <3>1. t \in Busy /\ Busy' = Busy \ {t}
        BY <1>2, <2>2, WhoRuns DEF PostRun, PcInv, Busy, TypeOK, RunPc
      <3>2. Idling' = Idling
        BY <1>2, <2>2 DEF PostRun, Goto, Idling, TypeOK
      <3>3. Cardinality(Busy') = Cardinality(Busy) - 1
        BY Zenon, <1>1, <3>1, FS_RemoveElement
      <3> QED
        BY <2>2, <3>2, <3>3 DEF PostRun, CountInv
    <2>3. CASE EnterIdle(t)
      <3>1. t \in Threads
        BY <2>3, WhoRuns DEF EnterIdle, RunPc
      <3>2. t \notin Idling /\ Idling' = Idling \cup {t} /\ Busy' = Busy
        <4>1. t \notin Idling
          BY <2>3 DEF EnterIdle, Idling
        <4>2. Idling' = Idling \cup {t}
          BY <1>2, <2>3, <3>1 DEF EnterIdle, Goto, Idling, TypeOK
        <4>3. Busy' = Busy
          BY <2>3 DEF EnterIdle, Busy
        <4> QED
          BY Zenon, <4>1, <4>2, <4>3
      <3>3. Cardinality(Idling') = Cardinality(Idling) + 1
        BY Zenon, <1>1, <3>2, FS_AddElement
      <3> QED
        BY <2>3, <3>2, <3>3 DEF EnterIdle, CountInv
    <2>4. CASE LeaveIdle(t)
      <3>1. t \in Threads
        BY <2>4, WhoRuns DEF LeaveIdle, RunPc
      <3>2. t \in Idling /\ Idling' = Idling \ {t} /\ Busy' = Busy
        <4>1. t \in Idling
          BY <2>4, <3>1 DEF LeaveIdle, Idling
        <4>2. Idling' = Idling \ {t}
          BY <1>2, <2>4, <3>1 DEF LeaveIdle, Goto, Idling, TypeOK
        <4>3. Busy' = Busy
          BY <2>4 DEF LeaveIdle, Busy
        <4> QED
          BY Zenon, <4>1, <4>2, <4>3
      <3>3. Cardinality(Idling') = Cardinality(Idling) - 1
        BY Zenon, <1>1, <3>2, FS_RemoveElement
      <3> QED
        BY <2>4, <3>2, <3>3 DEF LeaveIdle, CountInv
    <2>5. CASE FetchNone(t) \/ Tickle(t) \/ Resume(t) \/ Exit(t) \/ Idle(t)
      <3>1. Busy' = Busy
        BY Zenon, <2>5 DEF FetchNone, Tickle, Resume, Exit, Idle, Busy
      <3>2. Idling' = Idling
        <4>1. CASE FetchNone(t)
          BY <1>2, <4>1 DEF FetchNone, Goto, GotoTickling, Idling, TypeOK
        <4>2. CASE Tickle(t)
          BY <1>2, <4>2 DEF Tickle, Goto, Idling, TypeOK
        <4>3. CASE Resume(t)
          BY <1>2, <4>3 DEF Resume, Goto, Idling, TypeOK
        <4>4. CASE Exit(t)
          BY <1>2, <4>4 DEF Exit, Goto, Idling, TypeOK
        <4>5. CASE Idle(t)
          BY <1>2, <4>5 DEF Idle, Goto, Idling, TypeOK
        <4> QED
          BY Zenon, <2>5, <4>1, <4>2, <4>3, <4>4, <4>5
      <3> QED
        BY Zenon, <1>3, <2>5, <3>1, <3>2 DEF FetchNone, Tickle, Resume, Exit, Idle
    <2> QED
      BY <1>5, <2>1, <2>2, <2>3, <2>4, <2>5 DEF Run
  <1>6. ASSUME NEW t \in Procs, Body(t)
        PROVE  CountInv'
    <2>1. Busy' = Busy
      BY <1>6 DEF Body, BodySchedule, BodyReschedule, Yield, MainFunc, SwapOut, Busy
    <2>2. Idling' = Idling
      BY ZenonT(60), <1>2, <1>6
         DEF Body, BodySchedule, ScheduleNew, BodyReschedule, schedule, Yield, MainFunc,
             SwapOut, Goto, GotoTickling, Idling, TypeOK
    <2> QED
      BY <1>3, <1>6, <2>1, <2>2
         DEF Body, BodySchedule, BodyReschedule, Yield, MainFunc, SwapOut
  <1>7. CASE UNCHANGED vars
    BY <1>3, <1>7 DEF vars, Busy, Idling
  <1> QED
    BY <1>4, <1>5, <1>6, <1>7 DEF Next, Terminated

-----------------------------------------------------------------------------
(* Who holds a fiber in each of its states: every step keeps FiberInv, the  *)
(* part of the invariant about the queue and the fibers.                   *)

LEMMA QueueAppend ==
    ASSUME TypeOK, UniqueQueue, NEW f \in Tasks \ InQueue,
           NEW thread \in Threads \cup {AnyThread},
           m_tasks' = Append(m_tasks, [fiber |-> f, thread |-> thread])
    PROVE  UniqueQueue' /\ InQueue' = InQueue \cup {f}
  <1> DEFINE e == [fiber |-> f, thread |-> thread]
             n == Len(m_tasks) + 1
  <1>1. e \in ScheduleTask /\ e.fiber = f /\ m_tasks \in Seq(ScheduleTask)
    BY ScheduleType DEF TypeOK
  <1> HIDE DEF e
  <1>2. /\ DOMAIN m_tasks = 1..(n - 1) /\ n \in Nat \ {0}
        /\ DOMAIN m_tasks' = 1..n
        /\ \A j \in DOMAIN m_tasks : m_tasks'[j] = m_tasks[j]
        /\ m_tasks'[n] = e
    BY SMTT(30), <1>1, AppendProperties, LenProperties DEF e
  <1> HIDE DEF n
  <1>3. DOMAIN m_tasks' = DOMAIN m_tasks \cup {n} /\ n \notin DOMAIN m_tasks
    BY <1>2
  <1>4. InQueue' = InQueue \cup {f}
    BY SMTT(30), <1>1, <1>2, <1>3 DEF InQueue
  <1>5. UniqueQueue'
    BY SMTT(30), <1>1, <1>2, <1>3 DEF UniqueQueue, InQueue
  <1> QED
    BY <1>4, <1>5

LEMMA QueueFetch ==
    ASSUME TypeOK, UniqueQueue, NEW i \in DOMAIN m_tasks, Removed(m_tasks, i, m_tasks')
    PROVE  UniqueQueue' /\ InQueue' = InQueue \ {m_tasks[i].fiber}
  BY DEF Removed, UniqueQueue, InQueue

LEMMA InQueueType == TypeOK => InQueue \subseteq Tasks
  <1> SUFFICES ASSUME TypeOK, NEW i \in DOMAIN m_tasks
               PROVE  m_tasks[i].fiber \in Tasks
    BY DEF InQueue
  <1>1. m_tasks[i] \in ScheduleTask
    BY LenProperties, ElementOfSeq DEF TypeOK
  <1> QED
    BY <1>1 DEF ScheduleTask

\* Queued, as the module states it.
LEMMA QueuedIsInQueue == \A f : Queued(f) <=> f \in InQueue
  BY DEF Queued, InQueue

-----------------------------------------------------------------------------
(* What a step does to the fibers, thread by thread.  The lemmas below see *)
(* Early, InBody and the queue only through these facts.                   *)

\* The variables are functions on the threads and the tasks.
Domains ==
    /\ DOMAIN pc = Procs /\ DOMAIN ret = Procs /\ DOMAIN task = Procs
    /\ DOMAIN m_state = Tasks

LEMMA DomainsType == TypeOK => Domains
  BY DEF TypeOK, Domains

\* A thread that has a task has one of Tasks, and is at one place with it.
Held ==
    \A p \in Procs :
        /\ task[p] # NoTask => task[p] \in Tasks
        /\ Early(p) \/ InBody(p) => task[p] \in Tasks
        /\ ~(Early(p) /\ InBody(p))

LEMMA HeldType ==
    ASSUME TypeOK, PcInv
    PROVE  Held
  <1>1. \A p \in Procs : task[p] \in Tasks \cup {NoTask}
    BY DEF TypeOK
  <1>2. \A p \in Procs : InBody(p) \/ Early(p) => task[p] # NoTask
    BY DEF PcInv, Early
  <1>3. \A p \in Procs : ~(Early(p) /\ InBody(p))
    BY DEF Early, InBody
  <1> QED
    BY <1>1, <1>2, <1>3 DEF Held

Kept(p) ==
    /\ task'[p] = task[p]
    /\ Early(p)' <=> Early(p)
    /\ InBody(p)' <=> InBody(p)

OthersKept(t) == \A p \in Procs \ {t} : Kept(p)

\* Only the state of f changes, to s.
OnlyState(f, s) ==
    /\ m_state'[f] = s
    /\ \A g \in Tasks \ {f} : m_state'[g] = m_state[g]

\* Threads whose variables stay the same are where they were.
LEMMA KeptSame ==
    ASSUME NEW p, pc'[p] = pc[p], ret'[p] = ret[p], task'[p] = task[p]
    PROVE  Kept(p)
  BY DEF Kept, Early, InBody

\* A step of t that assigns only t's own place keeps the others.
LEMMA OthersStay ==
    ASSUME Domains, NEW t \in Procs, NEW label, NEW back, NEW f,
           pc' = [pc EXCEPT ![t] = label],
           ret' = ret \/ ret' = [ret EXCEPT ![t] = back],
           task' = task \/ task' = [task EXCEPT ![t] = f]
    PROVE  OthersKept(t)
  <1> SUFFICES ASSUME NEW p \in Procs \ {t}
               PROVE  Kept(p)
    BY DEF OthersKept
  <1>1. pc'[p] = pc[p]
    BY DEF Domains
  <1>2. ret'[p] = ret[p]
    BY DEF Domains
  <1>3. task'[p] = task[p]
    BY DEF Domains
  <1> QED
    BY <1>1, <1>2, <1>3, KeptSame

\* Where t is after it went on at label, by way of tickle() or not.
LEMMA TicklingAt ==
    ASSUME Domains, NEW t \in Procs, NEW label,
           \E needed \in BOOLEAN : GotoTickling(t, needed, label)
    PROVE  /\ \/ pc'[t] = label
              \/ pc'[t] = "tickle" /\ ret'[t] = label
           /\ \E at \in {label, "tickle"} : pc' = [pc EXCEPT ![t] = at]
           /\ ret' = ret \/ ret' = [ret EXCEPT ![t] = label]
  BY DEF Domains, GotoTickling, Goto

\* schedule() leaves every thread where it was.
LEMMA TicklingKeeps ==
    ASSUME Domains, NEW t \in Procs, pc[t] \in {"created", "started", "body"},
           \E needed \in BOOLEAN : GotoTickling(t, needed, pc[t]),
           UNCHANGED task
    PROVE  \A p \in Procs : Kept(p)
  <1>1. PICK at \in {pc[t], "tickle"} : pc' = [pc EXCEPT ![t] = at]
    BY Zenon, TicklingAt
  <1>2. ret' = ret \/ ret' = [ret EXCEPT ![t] = pc[t]]
    BY Zenon, TicklingAt
  <1>3. OthersKept(t)
    BY Zenon, <1>1, <1>2, OthersStay
  <1>4. pc'[t] = pc[t] \/ (pc'[t] = "tickle" /\ ret'[t] = pc[t])
    BY ZenonT(60), TicklingAt
  <1>5. Kept(t)
    BY <1>4 DEF Kept, Early, InBody
  <1> QED
    BY <1>3, <1>5 DEF OthersKept

\* No thread enters or leaves a task, no state changes.
LEMMA OwnedKept ==
    ASSUME Owned, \A p \in Procs : Kept(p), InQueue' = InQueue, m_state' = m_state
    PROVE  Owned'
  <1> USE DEF Kept
  <1>1. QueueStates'
    BY DEF Owned, QueueStates
  <1>2. EarlyReady'
    BY DEF Owned, EarlyReady
  <1>3. EarlyOnce'
    BY DEF Owned, EarlyOnce
  <1>4. BodyRunning'
    BY DEF Owned, BodyRunning
  <1>5. BodyOnce'
    BY DEF Owned, BodyOnce
  <1>6. HeldExists'
    BY DEF Owned, HeldExists
  <1>7. ReadyFound'
    BY DEF Owned, ReadyFound
  <1>8. RunningFound'
    BY DEF Owned, RunningFound
  <1> QED
    BY <1>1, <1>2, <1>3, <1>4, <1>5, <1>6, <1>7, <1>8 DEF Owned

\* A task that did not exist is queued.
LEMMA OwnedNew ==
    ASSUME Owned, Held, InQueue \subseteq Tasks, \A p \in Procs : Kept(p),
           NEW f \in Tasks, NEW s \in {"NONE", "READY"}, m_state[f] = "FREE",
           OnlyState(f, s), InQueue' = InQueue \cup {f}
    PROVE  Owned'
  <1> USE DEF Kept, Held, OnlyState
  <1>1. QueueStates'
    BY DEF Owned, QueueStates
  <1>2. EarlyReady'
    BY DEF Owned, EarlyReady, HeldExists
  <1>3. EarlyOnce'
    BY DEF Owned, EarlyOnce
  <1>4. BodyRunning'
    BY DEF Owned, BodyRunning
  <1>5. BodyOnce'
    BY DEF Owned, BodyOnce
  <1>6. HeldExists'
    BY DEF Owned, HeldExists
  <1>7. ReadyFound'
    BY DEF Owned, ReadyFound
  <1>8. RunningFound'
    BY DEF Owned, RunningFound
  <1> QED
    BY <1>1, <1>2, <1>3, <1>4, <1>5, <1>6, <1>7, <1>8 DEF Owned

\* The fiber that t runs is queued.
LEMMA OwnedRequeued ==
    ASSUME Owned, \A p \in Procs : Kept(p), NEW t \in Procs, InBody(t),
           m_state' = m_state, InQueue' = InQueue \cup {task[t]}
    PROVE  Owned'
  <1> USE DEF Kept
  <1>1. QueueStates'
    BY DEF Owned, QueueStates, BodyRunning
  <1>2. EarlyReady'
    BY DEF Owned, EarlyReady, BodyRunning
  <1>3. EarlyOnce'
    BY DEF Owned, EarlyOnce
  <1>4. BodyRunning'
    BY DEF Owned, BodyRunning
  <1>5. BodyOnce'
    BY DEF Owned, BodyOnce
  <1>6. HeldExists'
    BY DEF Owned, HeldExists
  <1>7. ReadyFound'
    BY DEF Owned, ReadyFound
  <1>8. RunningFound'
    BY DEF Owned, RunningFound
  <1> QED
    BY <1>1, <1>2, <1>3, <1>4, <1>5, <1>6, <1>7, <1>8 DEF Owned

\* t takes f from the queue.
LEMMA OwnedFetched ==
    ASSUME Owned, NEW t \in Procs, OthersKept(t), NEW f \in InQueue,
           m_state[f] # "RUNNING", ~Early(t), ~InBody(t),
           task'[t] = f, Early(t)', ~InBody(t)',
           m_state' = m_state, InQueue' = InQueue \ {f}
    PROVE  Owned'
  <1> USE DEF OthersKept, Kept
  <1>1. QueueStates'
    BY DEF Owned, QueueStates
  <1>2. EarlyReady'
    BY DEF Owned, EarlyReady, QueueStates
  <1>3. EarlyOnce'
    BY DEF Owned, EarlyOnce, EarlyReady
  <1>4. BodyRunning'
    BY DEF Owned, BodyRunning
  <1>5. BodyOnce'
    BY DEF Owned, BodyOnce
  <1>6. HeldExists'
    BY DEF Owned, HeldExists, QueueStates
  <1>7. ReadyFound'
    BY DEF Owned, ReadyFound
  <1>8. RunningFound'
    BY DEF Owned, RunningFound
  <1> QED
    BY <1>1, <1>2, <1>3, <1>4, <1>5, <1>6, <1>7, <1>8 DEF Owned

\* t resumes the fiber it took.
LEMMA OwnedResumed ==
    ASSUME Owned, Held, InQueue \subseteq Tasks, NEW t \in Procs, OthersKept(t),
           Early(t), task'[t] = task[t], ~Early(t)', InBody(t)',
           OnlyState(task[t], "RUNNING"), InQueue' = InQueue
    PROVE  Owned'
  <1> USE DEF OthersKept, Kept, Held, OnlyState
  <1>1. QueueStates'
    BY DEF Owned, QueueStates, EarlyReady
  <1>2. EarlyReady'
    BY DEF Owned, EarlyReady, EarlyOnce
  <1>3. EarlyOnce'
    BY DEF Owned, EarlyOnce
  <1>4. BodyRunning'
    BY DEF Owned, BodyRunning
  <1>5. BodyOnce'
    BY SMTT(30) DEF Owned, BodyOnce, BodyRunning, EarlyReady
  <1>6. HeldExists'
    BY DEF Owned, HeldExists
  <1>7. ReadyFound'
    BY SMTT(30) DEF Owned, ReadyFound
  <1>8. RunningFound'
    BY DEF Owned, RunningFound
  <1> QED
    BY <1>1, <1>2, <1>3, <1>4, <1>5, <1>6, <1>7, <1>8 DEF Owned

\* The fiber that t runs yields, being queued, or ends.
LEMMA OwnedLeft ==
    ASSUME Owned, Held, InQueue \subseteq Tasks, NEW t \in Procs, OthersKept(t),
           InBody(t), task'[t] = task[t], ~Early(t)', ~InBody(t)', NEW s,
           \/ s = "READY" /\ task[t] \in InQueue
           \/ s = "TERM" /\ task[t] \notin InQueue,
           OnlyState(task[t], s), InQueue' = InQueue
    PROVE  Owned'
  <1> USE DEF OthersKept, Kept, Held, OnlyState
  <1>1. QueueStates'
    BY DEF Owned, QueueStates
  <1>2. EarlyReady'
    BY SMTT(30) DEF Owned, EarlyReady, BodyRunning
  <1>3. EarlyOnce'
    BY DEF Owned, EarlyOnce
  <1>4. BodyRunning'
    BY DEF Owned, BodyRunning, BodyOnce
  <1>5. BodyOnce'
    BY DEF Owned, BodyOnce
  <1>6. HeldExists'
    BY DEF Owned, HeldExists
  <1>7. ReadyFound'
    BY SMTT(30) DEF Owned, ReadyFound
  <1>8. RunningFound'
    BY DEF Owned, RunningFound
  <1> QED
    BY <1>1, <1>2, <1>3, <1>4, <1>5, <1>6, <1>7, <1>8 DEF Owned

\* t lets go of a fiber it has left.
LEMMA OwnedReleased ==
    ASSUME Owned, NEW t \in Procs, OthersKept(t), ~Early(t), ~InBody(t),
           task'[t] = NoTask, ~Early(t)', ~InBody(t)',
           m_state' = m_state, InQueue' = InQueue
    PROVE  Owned'
  <1> USE DEF OthersKept, Kept
  <1>1. QueueStates'
    BY DEF Owned, QueueStates
  <1>2. EarlyReady'
    BY DEF Owned, EarlyReady
  <1>3. EarlyOnce'
    BY DEF Owned, EarlyOnce
  <1>4. BodyRunning'
    BY DEF Owned, BodyRunning
  <1>5. BodyOnce'
    BY DEF Owned, BodyOnce
  <1>6. HeldExists'
    BY DEF Owned, HeldExists
  <1>7. ReadyFound'
    BY DEF Owned, ReadyFound
  <1>8. RunningFound'
    BY DEF Owned, RunningFound
  <1> QED
    BY <1>1, <1>2, <1>3, <1>4, <1>5, <1>6, <1>7, <1>8 DEF Owned

LEMMA FiberStep == IInv /\ [Next]_vars => FiberInv'
  <1> SUFFICES ASSUME IInv, [Next]_vars
               PROVE  FiberInv'
    OBVIOUS
  <1>1. TypeOK /\ PcInv /\ UniqueQueue /\ Owned
    BY DEF IInv, FiberInv
  <1>2. Domains /\ Held /\ InQueue \subseteq Tasks
    BY <1>1, DomainsType, HeldType, InQueueType
  <1>3. ASSUME UNCHANGED m_tasks
        PROVE  UniqueQueue' /\ InQueue' = InQueue
    BY <1>1, <1>3 DEF UniqueQueue, InQueue
  <1>4. ASSUME NEW p \in Procs, pc[p] \in {"created", "started", "body"},
               \E f \in Tasks, thread \in Pins, kind \in {"NONE", "READY"} :
                   ScheduleNew(p, f, thread, kind),
               UNCHANGED task
        PROVE  FiberInv'
    <2>1. PICK f \in Tasks, thread \in Pins, kind \in {"NONE", "READY"} :
              ScheduleNew(p, f, thread, kind)
      BY <1>4
    <2>2. m_state[f] = "FREE" /\ m_state' = [m_state EXCEPT ![f] = kind]
      BY <2>1 DEF ScheduleNew
    <2>3. f \notin InQueue /\ thread \in Threads \cup {AnyThread}
      BY <1>1, <2>2, SchedulerAssumption DEF Owned, QueueStates
    <2>4. UniqueQueue' /\ InQueue' = InQueue \cup {f}
      BY <1>1, <2>1, <2>3, QueueAppend DEF ScheduleNew, schedule
    <2>5. \E needed \in BOOLEAN : GotoTickling(p, needed, pc[p])
      BY ZenonT(60), <2>1 DEF ScheduleNew, schedule
    <2>6. \A q \in Procs : Kept(q)
      BY <1>2, <1>4, <2>5, TicklingKeeps
    <2>7. OnlyState(f, kind)
      BY <1>2, <2>2 DEF OnlyState, Domains
    <2> QED
      BY <1>1, <1>2, <2>2, <2>4, <2>6, <2>7, OwnedNew DEF FiberInv
  <1>5. ASSUME UNCHANGED <<m_tasks, m_state>>, \A p \in Procs : Kept(p)
        PROVE  FiberInv'
    BY <1>1, <1>3, <1>5, OwnedKept DEF FiberInv
  <1>6. CASE MainSchedule
    <2>1. Caller \in Procs
      BY DEF Procs
    <2> QED
      BY <1>4, <1>6, <2>1 DEF MainSchedule
  <1>7. CASE Start
    <2>1. \A p \in Procs : ~Early(p) /\ ~InBody(p)
      BY <1>1, <1>7, SchedulerAssumption DEF Start, PcInv, Early, InBody, Procs
    <2>2. \A p \in Procs : pc'[p] \in {"started", "fetch"}
      BY <1>7 DEF Start
    <2>3. \A p \in Procs : Kept(p)
      BY <1>7, <2>1, <2>2 DEF Start, Kept, Early, InBody
    <2> QED
      BY <1>5, <1>7, <2>3 DEF Start
  <1>8. CASE Stop \/ Join
    <2>1. /\ pc[Caller] \in {"started", "join"} /\ Caller \in Procs
          /\ \E label \in {"fetch", "join", "stopped"} : pc' = [pc EXCEPT ![Caller] = label]
          /\ UNCHANGED <<m_tasks, m_state, ret, task>>
      BY <1>8 DEF Stop, Join, Goto, Procs
    <2>2. OthersKept(Caller)
      BY ZenonT(60), <1>2, <2>1, OthersStay
    <2>3. Kept(Caller)
      BY <1>2, <2>1 DEF Domains, Kept, Early, InBody
    <2> QED
      BY <1>5, <2>1, <2>2, <2>3 DEF OthersKept
  <1>9. ASSUME NEW t \in Procs, Run(t)
        PROVE  FiberInv'
    <2>1. CASE FetchTask(t)
      <3>1. PICK i \in DOMAIN m_tasks : Fetched(t, i, m_tasks')
        BY <1>1, <2>1, FetchFacts
      <3> DEFINE f == m_tasks[i].fiber
      <3>2. f \in InQueue /\ m_state[f] # "RUNNING" /\ f # NoTask
        BY <3>1, SchedulerAssumption DEF Fetched, IsRunning, InQueue
      <3>3. UniqueQueue' /\ InQueue' = InQueue \ {f}
        BY <1>1, <3>1, QueueFetch DEF Fetched
      <3>4. task' = [task EXCEPT ![t] = f]
        BY <3>1 DEF Fetched
      <3>5. \E needed \in BOOLEAN : GotoTickling(t, needed, "dispatch")
        BY Zenon, <2>1 DEF FetchTask
      <3>6. pc[t] = "fetch" /\ m_state' = m_state
        BY <2>1 DEF FetchTask
      <3> HIDE DEF f
      <3>7. OthersKept(t)
        <4>1. PICK at \in {"dispatch", "tickle"} : pc' = [pc EXCEPT ![t] = at]
          BY Zenon, <1>2, <3>5, TicklingAt
        <4>2. ret' = ret \/ ret' = [ret EXCEPT ![t] = "dispatch"]
          BY Zenon, <1>2, <3>5, TicklingAt
        <4> QED
          BY Zenon, <1>2, <3>4, <4>1, <4>2, OthersStay
      <3>8. ~Early(t) /\ ~InBody(t)
        BY <3>6 DEF Early, InBody
      <3>9. pc'[t] = "dispatch" \/ (pc'[t] = "tickle" /\ ret'[t] = "dispatch")
        BY ZenonT(60), <1>2, <3>5, TicklingAt
      <3>10. task'[t] = f
        BY <1>2, <3>4 DEF Domains
      <3>11. Early(t)' /\ ~InBody(t)'
        BY <3>2, <3>9, <3>10 DEF Early, InBody
      <3> QED
        BY <1>1, <3>2, <3>3, <3>6, <3>7, <3>8, <3>10, <3>11, OwnedFetched DEF FiberInv
    <2>2. CASE FetchNone(t)
      <3>1. \E needed \in BOOLEAN : GotoTickling(t, needed, "dispatch")
        BY Zenon, <2>2 DEF FetchNone
      <3>2. pc[t] = "fetch" /\ UNCHANGED <<m_tasks, m_state, task>>
        BY <2>2 DEF FetchNone
      <3>3. task[t] = NoTask
        BY <1>1, <3>2 DEF PcInv, Early, InBody
      <3>4. pc'[t] = "dispatch" \/ (pc'[t] = "tickle" /\ ret'[t] = "dispatch")
        BY Zenon, <1>2, <3>1, TicklingAt
      <3>5. Kept(t)
        BY <3>2, <3>3, <3>4 DEF Kept, Early, InBody
      <3>6. OthersKept(t)
        <4>1. PICK at \in {"dispatch", "tickle"} : pc' = [pc EXCEPT ![t] = at]
          BY Zenon, <1>2, <3>1, TicklingAt
        <4>2. ret' = ret \/ ret' = [ret EXCEPT ![t] = "dispatch"]
          BY Zenon, <1>2, <3>1, TicklingAt
        <4> QED
          BY Zenon, <1>2, <3>2, <4>1, <4>2, OthersStay
      <3> QED
        BY <1>5, <3>2, <3>5, <3>6 DEF OthersKept
    <2>3. CASE Tickle(t)
      <3>1. /\ pc[t] = "tickle" /\ pc' = [pc EXCEPT ![t] = ret[t]]
            /\ UNCHANGED <<m_tasks, m_state, ret, task>>
        BY <2>3 DEF Tickle, Goto
      <3>2. OthersKept(t)
        BY ZenonT(60), <1>2, <3>1, OthersStay
      <3>3. pc'[t] = ret[t] /\ ret[t] \in {"dispatch", "body", "created", "started"}
        BY <1>1, <1>2, <3>1 DEF Domains, TypeOK
      <3>4. Kept(t)
        BY <3>1, <3>3 DEF Kept, Early, InBody
      <3> QED
        BY <1>5, <3>1, <3>2, <3>4 DEF OthersKept
    <2>4. CASE Resume(t)
      <3>1. /\ pc[t] = "dispatch" /\ task[t] # NoTask /\ pc' = [pc EXCEPT ![t] = "body"]
            /\ m_state' = [m_state EXCEPT ![task[t]] = "RUNNING"]
            /\ UNCHANGED <<m_tasks, ret, task>>
        BY <2>4 DEF Resume, Goto
      <3>2. OthersKept(t)
        BY Zenon, <1>2, <3>1, OthersStay
      <3>3. Early(t) /\ ~Early(t)' /\ InBody(t)'
        BY <1>2, <3>1 DEF Domains, Early, InBody
      <3>4. OnlyState(task[t], "RUNNING")
        BY <1>2, <3>1 DEF Domains, Held, OnlyState
      <3> QED
        BY <1>1, <1>2, <1>3, <3>1, <3>2, <3>3, <3>4, OwnedResumed DEF FiberInv
    <2>5. CASE PostRun(t)
      <3>1. /\ pc[t] = "post" /\ pc' = [pc EXCEPT ![t] = "fetch"]
            /\ task' = [task EXCEPT ![t] = NoTask] /\ UNCHANGED <<m_tasks, m_state, ret>>
        BY <2>5 DEF PostRun, Goto
      <3>2. OthersKept(t)
        BY ZenonT(60), <1>2, <3>1, OthersStay
      <3>3. task'[t] = NoTask /\ pc'[t] = "fetch"
        BY <1>2, <3>1 DEF Domains
      <3>4. ~Early(t) /\ ~InBody(t) /\ ~Early(t)' /\ ~InBody(t)'
        BY <3>1, <3>3 DEF Early, InBody
      <3> QED
        BY <1>1, <1>3, <3>1, <3>2, <3>3, <3>4, OwnedReleased DEF FiberInv
    <2>6. CASE EnterIdle(t) \/ Exit(t) \/ Idle(t) \/ LeaveIdle(t)
      <3>1. /\ pc[t] \in {"dispatch", "idle", "idleOut"}
            /\ pc[t] = "dispatch" => task[t] = NoTask
            /\ \E label \in {"idle", "idleOut", "fetch", "join", "exit"} :
                  pc' = [pc EXCEPT ![t] = label]
            /\ UNCHANGED <<m_tasks, m_state, ret, task>>
        BY <2>6 DEF EnterIdle, Exit, Idle, LeaveIdle, Goto
      <3>2. OthersKept(t)
        BY ZenonT(60), <1>2, <3>1, OthersStay
      <3>3. Kept(t)
        BY <1>2, <3>1 DEF Domains, Kept, Early, InBody
      <3> QED
        BY <1>5, <3>1, <3>2, <3>3 DEF OthersKept
    <2> QED
      BY <1>9, <2>1, <2>2, <2>3, <2>4, <2>5, <2>6 DEF Run
  <1>10. ASSUME NEW t \in Procs, Body(t)
         PROVE  FiberInv'
    <2>1. CASE BodySchedule(t)
      BY <1>4, <2>1 DEF BodySchedule
    <2>2. CASE BodyReschedule(t)
      <3>1. pc[t] = "body" /\ ~Queued(task[t]) /\ UNCHANGED <<task, m_state>>
        BY <2>2 DEF BodyReschedule
      <3>2. InBody(t)
        BY <3>1 DEF InBody
      <3>3. task[t] \in Tasks \ InQueue
        BY <1>2, <3>1, <3>2, QueuedIsInQueue DEF Held
      <3>4. PICK p \in YieldPins : schedule(t, task[t], IF p = Own THEN t ELSE p)
        BY <2>2 DEF BodyReschedule
      <3>5. (IF p = Own THEN t ELSE p) \in Threads \cup {AnyThread}
        BY <1>1, <3>1, YieldPinType
      <3>6. UniqueQueue' /\ InQueue' = InQueue \cup {task[t]}
        BY <1>1, <3>3, <3>4, <3>5, QueueAppend DEF schedule
      <3>7. \E needed \in BOOLEAN : GotoTickling(t, needed, pc[t])
        BY ZenonT(60), <3>4 DEF schedule
      <3>8. \A q \in Procs : Kept(q)
        BY <1>2, <3>1, <3>7, TicklingKeeps
      <3> QED
        BY <1>1, <3>1, <3>2, <3>6, <3>8, OwnedRequeued DEF FiberInv
    <2>3. ASSUME pc[t] = "body", pc' = [pc EXCEPT ![t] = "swap"], NEW s,
                 \/ s = "READY" /\ task[t] \in InQueue
                 \/ s = "TERM" /\ task[t] \notin InQueue,
                 m_state' = [m_state EXCEPT ![task[t]] = s],
                 UNCHANGED <<m_tasks, ret, task>>
          PROVE  FiberInv'
      <3>1. OthersKept(t)
        BY ZenonT(60), <1>2, <2>3, OthersStay
      <3>2. InBody(t) /\ ~Early(t)' /\ ~InBody(t)'
        BY <1>2, <2>3 DEF Domains, Early, InBody
      <3>3. OnlyState(task[t], s)
        BY <1>2, <2>3, <3>2 DEF Domains, Held, OnlyState
      <3> QED
        BY <1>1, <1>2, <1>3, <2>3, <3>1, <3>2, <3>3, OwnedLeft DEF FiberInv
    <2>4. CASE Yield(t)
      <3>1. m_state[task[t]] = "RUNNING"
        BY <1>1, <2>4 DEF Yield, Owned, BodyRunning, InBody
      <3>2. m_state' = [m_state EXCEPT ![task[t]] = "READY"]
        BY <2>4, <3>1 DEF Yield
      <3> QED
        BY Zenon, <2>3, <2>4, <3>2, QueuedIsInQueue DEF Yield, Goto
    <2>5. CASE MainFunc(t)
      BY Zenon, <2>3, <2>5, QueuedIsInQueue DEF MainFunc, Goto
    <2>6. CASE SwapOut(t)
      <3>1. /\ pc[t] = "swap" /\ pc' = [pc EXCEPT ![t] = "post"]
            /\ UNCHANGED <<m_tasks, m_state, ret, task>>
        BY <2>6 DEF SwapOut, Goto
      <3>2. OthersKept(t)
        BY Zenon, <1>2, <3>1, OthersStay
      <3>3. Kept(t)
        BY <1>2, <3>1 DEF Domains, Kept, Early, InBody
      <3> QED
        BY <1>5, <3>1, <3>2, <3>3 DEF OthersKept
    <2> QED
      BY <1>10, <2>1, <2>2, <2>4, <2>5, <2>6 DEF Body
  <1>11. CASE UNCHANGED vars
    <2>1. \A p \in Procs : Kept(p)
      BY <1>11, KeptSame DEF vars
    <2> QED
      BY <1>5, <1>11, <2>1 DEF vars
  <1> QED
    BY <1>6, <1>7, <1>8, <1>9, <1>10, <1>11 DEF Next, Main, Terminated
=============================================================================
