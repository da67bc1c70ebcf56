----------------------------- MODULE Scheduler -----------------------------
(***************************************************************************)
(* The N-M fiber scheduler: Scheduler (scheduler.h, scheduler.cpp) and the *)
(* part of Fiber (fiber.cpp) it drives.                                    *)
(*                                                                         *)
(* Every thread of the pool executes Scheduler::run; pc gives the point it *)
(* has reached.  The thread that constructed the scheduler (Caller) goes   *)
(* through start(), schedule()... and stop(); with use_caller it executes  *)
(* run as well, inside stop().  A step is one critical section of m_mutex, *)
(* or one access to an atomic or shared field made outside of it.          *)
(*                                                                         *)
(* What a task does is arbitrary: it may schedule further tasks, put itself*)
(* back in the queue and yield, or end.                                    *)
(***************************************************************************)
EXTENDS Naturals, Sequences, FiniteSets

CONSTANTS
    Workers,        \* the m_threadCount threads that start() creates
    Caller,         \* the thread that owns the Scheduler object
    UseCaller,      \* the constructor's use_caller
    Tasks,          \* identities of tasks; a callback's fiber has the task's
    AnyThread,      \* thread -1: the task may run anywhere
    NoTask,         \* an empty ScheduleTask
    Pins,           \* the values of schedule's "thread" for a new task
    YieldPins,      \* ... and when a fiber reschedules itself: AnyThread, or Own
    Own,            \* in YieldPins: pinned to the thread it is running on
    MaxYields       \* bound: how often fibers yield, all together

Procs == Workers \cup {Caller}
Threads == IF UseCaller THEN Procs ELSE Workers

ASSUME SchedulerAssumption ==
    /\ IsFiniteSet(Workers)
    /\ Caller \notin Workers
    /\ UseCaller \in BOOLEAN
    /\ Threads # {}
    /\ NoTask \notin Tasks
    /\ Pins \subseteq Threads \cup {AnyThread}
    /\ AnyThread \notin Threads
    /\ YieldPins \subseteq {AnyThread, Own}
    /\ MaxYields \in Nat

VARIABLES
    m_tasks,              \* the run queue: sequence of [fiber, thread]
    m_activeThreadCount,
    m_idleThreadCount,
    m_stopping,
    m_state,              \* Fiber::m_state; NONE: still a plain callback,
                          \* FREE: the task does not exist yet
    pc,                   \* where each thread is
    ret,                  \* where it goes on after tickle()
    task,                 \* the local "task" of run (or its cb_fiber)
    idleTerm,             \* the thread's idle_fiber is TERM
    yields                \* yields so far

vars == <<m_tasks, m_activeThreadCount, m_idleThreadCount, m_stopping,
          m_state, pc, ret, task, idleTerm, yields>>

ScheduleTask == [fiber : Tasks, thread : Threads \cup {AnyThread}]
FiberState == {"FREE", "NONE", "READY", "RUNNING", "TERM"}
RunPc == {"fetch", "tickle", "dispatch", "body", "swap", "post",
          "idle", "idleOut"}
MainPc == {"created", "started", "join", "stopped"}

TypeOK ==
    /\ m_tasks \in Seq(ScheduleTask)
    /\ m_activeThreadCount \in Nat
    /\ m_idleThreadCount \in Nat
    /\ m_stopping \in BOOLEAN
    /\ m_state \in [Tasks -> FiberState]
    /\ pc \in [Procs -> RunPc \cup MainPc \cup {"off", "exit"}]
    /\ ret \in [Procs -> {"dispatch", "body", "created", "started"}]
    /\ task \in [Procs -> Tasks \cup {NoTask}]
    /\ idleTerm \in [Procs -> BOOLEAN]
    /\ yields \in 0..MaxYields

Init ==
    /\ m_tasks = <<>>
    /\ m_activeThreadCount = 0
    /\ m_idleThreadCount = 0
    /\ m_stopping = FALSE
    /\ m_state = [f \in Tasks |-> "FREE"]
    /\ pc = [p \in Procs |-> IF p = Caller THEN "created" ELSE "off"]
    /\ ret = [p \in Procs |-> "dispatch"]
    /\ task = [p \in Procs |-> NoTask]
    /\ idleTerm = [p \in Procs |-> FALSE]
    /\ yields = 0

-----------------------------------------------------------------------------
(* Fibers and the queue.                                                   *)

Goto(p, label) == pc' = [pc EXCEPT ![p] = label]

\* p goes on at label, by way of tickle() when needed.
GotoTickling(p, needed, label) ==
    IF needed
      THEN /\ Goto(p, "tickle")
           /\ ret' = [ret EXCEPT ![p] = label]
      ELSE /\ Goto(p, label)
           /\ UNCHANGED ret

\* schedule(): push under m_mutex; tickle, after the unlock, only when the
\* queue was empty.  m_stopping is not looked at.
schedule(p, f, thread) ==
    /\ m_tasks' = Append(m_tasks, [fiber |-> f, thread |-> thread])
    /\ GotoTickling(p, m_tasks = <<>>, pc[p])

\* A new task: a callback (NONE) or a Fiber the user constructed (READY).
ScheduleNew(p, f, thread, kind) ==
    /\ m_state[f] = "FREE"
    /\ m_state' = [m_state EXCEPT ![f] = kind]
    /\ schedule(p, f, thread)

\* Mutants: the affinity test dropped; a task bound to no thread never matches.
PinnedElsewhereNever(i, t) == FALSE

PinnedElsewhereAnyToo(i, t) == m_tasks[i].thread # t

PinnedElsewhere(i, t) == m_tasks[i].thread \notin {AnyThread, t}

IsRunning(i) == m_state[m_tasks[i].fiber] = "RUNNING"

\* The positions run's scan would stop at on thread t.
Takeable(t) == {i \in DOMAIN m_tasks : ~PinnedElsewhere(i, t) /\ ~IsRunning(i)}

\* m_tasks.erase of the i-th entry.
Erase(q, i) == SubSeq(q, 1, i - 1) \o SubSeq(q, i + 1, Len(q))

\* Mutants: threads that still run a task are forgotten; idle ones are counted.
stoppingIgnoresActive == m_stopping /\ m_tasks = <<>>

stoppingCountsIdle ==
    /\ m_stopping /\ m_tasks = <<>> /\ m_activeThreadCount = 0
    /\ m_idleThreadCount = 0

\* Scheduler::stopping, one critical section.
stopping == m_stopping /\ m_tasks = <<>> /\ m_activeThreadCount = 0

Queued(f) == \E i \in DOMAIN m_tasks : m_tasks[i].fiber = f

\* t is inside the callback of its task.
InBody(t) == pc[t] = "body" \/ (pc[t] = "tickle" /\ ret[t] = "body")

\* Thread t executes on the stack of fiber f: it is inside resume() of f and
\* has not completed the swapcontext of f's yield().
OnStack(t, f) == task[t] = f /\ (InBody(t) \/ pc[t] = "swap")

-----------------------------------------------------------------------------
(* Scheduler::run, on thread t.                                            *)

\* Mutant: the task that is taken stays in the queue.
FetchTaskKept(t) ==
    /\ pc[t] = "fetch"
    /\ \E i \in Takeable(t) :
        /\ \A j \in Takeable(t) : i <= j
        /\ task' = [task EXCEPT ![t] = m_tasks[i].fiber]
        /\ m_activeThreadCount' = m_activeThreadCount + 1
        /\ GotoTickling(t, i < Len(m_tasks), "dispatch")
    /\ UNCHANGED <<m_tasks, m_idleThreadCount, m_stopping, m_state, idleTerm, yields>>

\* The critical section at the top of the loop: take the first task that is
\* neither pinned to another thread nor a fiber that is RUNNING.
FetchTask(t) ==
    /\ pc[t] = "fetch"
    /\ \E i \in Takeable(t) :
        /\ \A j \in Takeable(t) : i <= j
        /\ task' = [task EXCEPT ![t] = m_tasks[i].fiber]
        /\ m_tasks' = Erase(m_tasks, i)
        /\ m_activeThreadCount' = m_activeThreadCount + 1
        /\ LET tickle_me == \/ i < Len(m_tasks)
                            \/ \E j \in 1..(i - 1) : PinnedElsewhere(j, t)
           IN  GotoTickling(t, tickle_me, "dispatch")
    /\ UNCHANGED <<m_idleThreadCount, m_stopping, m_state, idleTerm, yields>>

\* The same section when the scan finds nothing to take.
FetchNone(t) ==
    /\ pc[t] = "fetch"
    /\ Takeable(t) = {}
    /\ LET tickle_me == \E j \in DOMAIN m_tasks : PinnedElsewhere(j, t)
       IN  GotoTickling(t, tickle_me, "dispatch")
    /\ UNCHANGED <<m_tasks, m_activeThreadCount, m_idleThreadCount, m_stopping,
                   m_state, task, idleTerm, yields>>

\* Scheduler::tickle only logs; classes derived from it override it.
Tickle(t) ==
    /\ pc[t] = "tickle"
    /\ Goto(t, ret[t])
    /\ UNCHANGED <<m_tasks, m_activeThreadCount, m_idleThreadCount, m_stopping,
                   m_state, ret, task, idleTerm, yields>>

\* A task was taken: make a callback a fiber, and resume() the fiber.  The
\* assertion of resume() admits READY only.
Resume(t) ==
    /\ pc[t] = "dispatch"
    /\ task[t] # NoTask
    /\ m_state[task[t]] \in {"NONE", "READY"}
    /\ m_state' = [m_state EXCEPT ![task[t]] = "RUNNING"]
    /\ Goto(t, "body")
    /\ UNCHANGED <<m_tasks, m_activeThreadCount, m_idleThreadCount, m_stopping,
                   ret, task, idleTerm, yields>>

\* Mutant: --m_activeThreadCount forgotten.
PostRunUncounted(t) ==
    /\ pc[t] = "post"
    /\ task' = [task EXCEPT ![t] = NoTask]
    /\ Goto(t, "fetch")
    /\ UNCHANGED <<m_tasks, m_activeThreadCount, m_idleThreadCount, m_stopping,
                   m_state, ret, idleTerm, yields>>

\* resume() has returned: the fiber ended or yielded.
PostRun(t) ==
    /\ pc[t] = "post"
    /\ m_activeThreadCount' = m_activeThreadCount - 1
    /\ task' = [task EXCEPT ![t] = NoTask]
    /\ Goto(t, "fetch")
    /\ UNCHANGED <<m_tasks, m_idleThreadCount, m_stopping, m_state, ret,
                   idleTerm, yields>>

\* No task: resume the idle fiber, or leave run when it has ended.
EnterIdle(t) ==
    /\ pc[t] = "dispatch"
    /\ task[t] = NoTask
    /\ ~idleTerm[t]
    /\ m_idleThreadCount' = m_idleThreadCount + 1
    /\ Goto(t, "idle")
    /\ UNCHANGED <<m_tasks, m_activeThreadCount, m_stopping, m_state, ret,
                   task, idleTerm, yields>>

Exit(t) ==
    /\ pc[t] = "dispatch"
    /\ task[t] = NoTask
    /\ idleTerm[t]
    /\ Goto(t, IF t = Caller THEN "join" ELSE "exit")
    /\ UNCHANGED <<m_tasks, m_activeThreadCount, m_idleThreadCount, m_stopping,
                   m_state, ret, task, idleTerm, yields>>

\* Scheduler::idle between two resumes: end when stopping(), else yield.
Idle(t) ==
    /\ pc[t] = "idle"
    /\ idleTerm' = [idleTerm EXCEPT ![t] = stopping]
    /\ Goto(t, "idleOut")
    /\ UNCHANGED <<m_tasks, m_activeThreadCount, m_idleThreadCount, m_stopping,
                   m_state, ret, task, yields>>

LeaveIdle(t) ==
    /\ pc[t] = "idleOut"
    /\ m_idleThreadCount' = m_idleThreadCount - 1
    /\ Goto(t, "fetch")
    /\ UNCHANGED <<m_tasks, m_activeThreadCount, m_stopping, m_state, ret,
                   task, idleTerm, yields>>

-----------------------------------------------------------------------------
(* The task running on thread t.                                           *)

\* Scheduler::GetThis()->schedule(...) of a new callback or fiber.
BodySchedule(t) ==
    /\ pc[t] = "body"
    /\ \E f \in Tasks, thread \in Pins, kind \in {"NONE", "READY"} :
         ScheduleNew(t, f, thread, kind)
    /\ UNCHANGED <<m_activeThreadCount, m_idleThreadCount, m_stopping, task,
                   idleTerm, yields>>

\* The first half of a voluntary yield: the fiber queues itself.
BodyReschedule(t) ==
    /\ pc[t] = "body"
    /\ ~Queued(task[t])
    /\ yields < MaxYields
    /\ yields' = yields + 1
    /\ \E p \in YieldPins : schedule(t, task[t], IF p = Own THEN t ELSE p)
    /\ UNCHANGED <<m_activeThreadCount, m_idleThreadCount, m_stopping, m_state,
                   task, idleTerm>>

\* Fiber::yield up to the assignment m_state = READY; the context is saved
\* by the swapcontext that follows.
Yield(t) ==
    /\ pc[t] = "body"
    /\ Queued(task[t])
    /\ m_state[task[t]] # "READY"
    /\ m_state' = [m_state EXCEPT ![task[t]] = IF @ = "TERM" THEN @ ELSE "READY"]
    /\ Goto(t, "swap")
    /\ UNCHANGED <<m_tasks, m_activeThreadCount, m_idleThreadCount, m_stopping,
                   ret, task, idleTerm, yields>>

\* Fiber::MainFunc after the callback: TERM, and the yield it ends with.
MainFunc(t) ==
    /\ pc[t] = "body"
    /\ ~Queued(task[t])
    /\ m_state' = [m_state EXCEPT ![task[t]] = "TERM"]
    /\ Goto(t, "swap")
    /\ UNCHANGED <<m_tasks, m_activeThreadCount, m_idleThreadCount, m_stopping,
                   ret, task, idleTerm, yields>>

\* The swapcontext of yield(): t leaves the fiber's stack.
SwapOut(t) ==
    /\ pc[t] = "swap"
    /\ Goto(t, "post")
    /\ UNCHANGED <<m_tasks, m_activeThreadCount, m_idleThreadCount, m_stopping,
                   m_state, ret, task, idleTerm, yields>>

-----------------------------------------------------------------------------
(* The owner of the scheduler.                                             *)

MainSchedule ==
    /\ pc[Caller] \in {"created", "started"}
    /\ \E f \in Tasks, thread \in Pins, kind \in {"NONE", "READY"} :
         ScheduleNew(Caller, f, thread, kind)
    /\ UNCHANGED <<m_activeThreadCount, m_idleThreadCount, m_stopping, task,
                   idleTerm, yields>>

\* start() holds m_mutex while it creates the threads, so none of them gets
\* past the top of its loop before all exist.
Start ==
    /\ pc[Caller] = "created"
    /\ ~m_stopping
    /\ pc' = [p \in Procs |-> IF p = Caller THEN "started" ELSE "fetch"]
    /\ UNCHANGED <<m_tasks, m_activeThreadCount, m_idleThreadCount, m_stopping,
                   m_state, ret, task, idleTerm, yields>>

\* stop(): m_stopping is written without m_mutex; then the root fiber runs
\* the loop on this thread (use_caller), and the workers are joined.
Stop ==
    /\ pc[Caller] = "started"
    /\ ~stopping
    /\ m_stopping' = TRUE
    /\ Goto(Caller, IF UseCaller THEN "fetch" ELSE "join")
    /\ UNCHANGED <<m_tasks, m_activeThreadCount, m_idleThreadCount, m_state,
                   ret, task, idleTerm, yields>>

\* Mutant: the threads are not joined.
JoinNoWait ==
    /\ pc[Caller] = "join"
    /\ Goto(Caller, "stopped")
    /\ UNCHANGED <<m_tasks, m_activeThreadCount, m_idleThreadCount, m_stopping,
                   m_state, ret, task, idleTerm, yields>>

Join ==
    /\ pc[Caller] = "join"
    /\ \A w \in Workers : pc[w] = "exit"
    /\ Goto(Caller, "stopped")
    /\ UNCHANGED <<m_tasks, m_activeThreadCount, m_idleThreadCount, m_stopping,
                   m_state, ret, task, idleTerm, yields>>

Terminated == pc[Caller] = "stopped" /\ UNCHANGED vars

-----------------------------------------------------------------------------
Run(t) ==
    \/ FetchTask(t) \/ FetchNone(t) \/ Tickle(t)
    \/ Resume(t) \/ PostRun(t)
    \/ EnterIdle(t) \/ Exit(t) \/ Idle(t) \/ LeaveIdle(t)

Body(t) ==
    \/ BodySchedule(t) \/ BodyReschedule(t) \/ Yield(t) \/ MainFunc(t)
    \/ SwapOut(t)

Main == MainSchedule \/ Start \/ Stop \/ Join

Next == Main \/ (\E t \in Procs : Run(t) \/ Body(t)) \/ Terminated

Spec == Init /\ [][Next]_vars

\* The operating system runs every thread, tasks end, and the owner calls
\* start and stop (main does, the latter in ~IOManager).
FairSpec ==
    /\ Spec
    /\ WF_vars(Main)
    /\ \A t \in Procs : WF_vars(Run(t) \/ Body(t))

-----------------------------------------------------------------------------
(* Properties.                                                             *)

Working(t) ==
    \/ pc[t] \in {"body", "swap", "post"}
    \/ task[t] # NoTask /\ pc[t] \in {"tickle", "dispatch"}

\* m_activeThreadCount is exactly the number of threads between the removal
\* of a task from the queue and the end of resume(), and m_idleThreadCount
\* that of threads in their idle fiber: stopping() and hasIdleThreads() decide
\* on these numbers while other threads are changing them.
CountersExact ==
    /\ m_activeThreadCount = Cardinality({t \in Threads : Working(t)})
    /\ m_idleThreadCount =
         Cardinality({t \in Threads : pc[t] \in {"idle", "idleOut"}})

\* stop() returns, and already a single thread leaves its loop, only when
\* every task ever scheduled has run to its end (the promise written above
\* Scheduler::stop): a thread that saw stopping() is never overtaken by work.
StopWaitsForTasks ==
    (\E t \in Threads : idleTerm[t]) \/ pc[Caller] = "stopped"
        => \A f \in Tasks : m_state[f] \in {"FREE", "TERM"}

\* The assertion of resume(): a fiber handed to a thread is READY when the
\* thread gets to resume it, although the queue is scanned in one critical
\* section and resume() runs after it.
ResumeReady ==
    \A t \in Threads :
        pc[t] = "dispatch" /\ task[t] # NoTask
            => m_state[task[t]] \in {"NONE", "READY"}

\* The assertion of ~Fiber: a fiber whose last reference is gone (not queued,
\* held by no thread) has run to its end.
DestroyedOnlyTerm ==
    \A f \in Tasks :
        m_state[f] \in {"READY", "RUNNING"}
            => Queued(f) \/ \E t \in Threads : task[t] = f

\* No two threads ever execute on the stack of one fiber.
StackExclusive ==
    \A f \in Tasks : \A t, u \in Threads :
        OnStack(t, f) /\ OnStack(u, f) => t = u

\* Every task that was scheduled runs to its end.
EveryTaskEnds ==
    \A f \in Tasks : m_state[f] \in {"NONE", "READY"} ~> m_state[f] = "TERM"

\* stop() returns.
StopReturns == <>(pc[Caller] = "stopped")

-----------------------------------------------------------------------------
(* The scheduler seen as a pool of tasks.                                  *)

status == [f \in Tasks |-> CASE m_state[f] = "FREE" -> "absent"
                             [] m_state[f] \in {"NONE", "READY"} -> "pending"
                             [] m_state[f] = "RUNNING" -> "running"
                             [] m_state[f] = "TERM" -> "done"]

closed == \E t \in Threads : idleTerm[t]

on == [t \in Threads |-> IF InBody(t) THEN task[t] ELSE NoTask]

Pool == INSTANCE TaskPool

\* Every step of the scheduler is a step of the pool, or none: no task is run by
\* two threads at once or again after its end, and the first thread that leaves
\* run() closes the pool for good.
IsPool == Pool!Spec

=============================================================================
