----------------------------- MODULE IOManager -----------------------------
(***************************************************************************)
(* IOManager (iomanager.h, iomanager.cpp): the scheduler of Scheduler.tla  *)
(* with epoll.  It overrides tickle(), stopping() and idle(), and adds     *)
(* events on file descriptors and timers.                                  *)
(*                                                                         *)
(* The steps of run(), of fibers and of start() are those of Scheduler.    *)
(* While pc is "tickle" a thread is inside IOManager::tickle, entered from *)
(* ret; while pc is "idle" it is inside IOManager::idle, at the point io.  *)
(* In idle() the number of events is stored in an inner rt that shadows the*)
(* one the dispatch loop runs to: the loop never has an iteration, and what*)
(* epoll_wait reported is dropped.                                         *)
(*                                                                         *)
(* Time is left out: an armed timer may be found expired at any moment     *)
(* (TimerManager says when), and epoll_wait may always time out.  Timers   *)
(* are one-shot here.                                                      *)
(***************************************************************************)
EXTENDS Scheduler

CONSTANTS
    Fds,          \* sockets; contexts exist for all of them
    PipeCap,      \* what the pipe behind m_tickleFds holds
    NoFd          \* no cancel operation in progress

Events == {"READ", "WRITE"}

ASSUME IOAssumption == IsFiniteSet(Fds) /\ PipeCap \in Nat \ {0} /\ NoFd \notin Fds

VARIABLES
    sawIdle,              \* tickle() found hasIdleThreads()
    io,                   \* where in idle() the thread is
    due,                  \* idle()'s cbs: expired timers still to be scheduled
    left,                 \* tickles stop() still has to make
    pipe,                 \* bytes in the pipe
    ready,                \* what epoll has to report
    m_pendingEventCount,
    ctx,                  \* fd_ctx's callback or fiber per event; NoTask: not registered
    cancel,               \* the cancelEvent or cancelAll a thread is in: it holds the
                          \* mutex of fd, has to trigger todo, and owes a decrement
    timers,               \* armed timers, named by the task they will schedule
    m_tickled

ioVars == <<sawIdle, io, due, left, pipe, ready, m_pendingEventCount, ctx, cancel,
            timers, m_tickled>>

allVars == <<vars, ioVars>>

PipeReadable == <<NoFd, "READ">>

NoCancel == [fd |-> NoFd, todo |-> {}, owe |-> FALSE]

\* The constructor calls start() when epoll and the pipe exist.
IOInit ==
    /\ Init
    /\ sawIdle = [p \in Procs |-> FALSE]
    /\ io = [p \in Procs |-> "start"]
    /\ due = [p \in Procs |-> {}]
    /\ left = 0
    /\ pipe = 0
    /\ ready = {}
    /\ m_pendingEventCount = 0
    /\ ctx = [fd \in Fds |-> [e \in Events |-> NoTask]]
    /\ cancel = [p \in Procs |-> NoCancel]
    /\ timers = {}
    /\ m_tickled = FALSE

-----------------------------------------------------------------------------
Registered(fd) == {e \in Events : ctx[fd][e] # NoTask}

\* Tasks that an event context, a timer or an idle fiber holds.
Contexts == {ctx[fd][e] : fd \in Fds, e \in Events} \ {NoTask}
Reserved == Contexts \cup timers \cup UNION {due[p] : p \in Procs}

Unlocked(fd) == \A p \in Procs : cancel[p].fd # fd

\* A callback held so far becomes a task; a fiber that waited is one already.
Hand(p, f) ==
    /\ m_state' = [m_state EXCEPT ![f] = IF @ = "FREE" THEN "NONE" ELSE @]
    /\ schedule(p, f, AnyThread)

-----------------------------------------------------------------------------
(* tickle().                                                               *)

TickleTest(t) ==
    /\ pc[t] = "tickle"
    /\ ~sawIdle[t]
    /\ \/ /\ m_idleThreadCount > 0
          /\ sawIdle' = [sawIdle EXCEPT ![t] = TRUE]
          /\ UNCHANGED pc
       \/ /\ m_idleThreadCount = 0
          /\ Goto(t, ret[t])
          /\ UNCHANGED sawIdle
    /\ UNCHANGED <<m_tasks, m_activeThreadCount, m_idleThreadCount, m_stopping,
                   m_state, ret, task, idleTerm, yields, io, due, left, pipe, ready,
                   m_pendingEventCount, ctx, cancel, timers, m_tickled>>

\* The write end is blocking: a full pipe blocks the thread.
TickleWrite(t) ==
    /\ pc[t] = "tickle"
    /\ sawIdle[t]
    /\ pipe < PipeCap
    /\ pipe' = pipe + 1
    /\ ready' = ready \cup {PipeReadable}
    /\ sawIdle' = [sawIdle EXCEPT ![t] = FALSE]
    /\ Goto(t, ret[t])
    /\ UNCHANGED <<m_tasks, m_activeThreadCount, m_idleThreadCount, m_stopping,
                   m_state, ret, task, idleTerm, yields, io, due, left,
                   m_pendingEventCount, ctx, cancel, timers, m_tickled>>

-----------------------------------------------------------------------------
(* idle(), and stopping() inside it.                                       *)

IdleGoto(t, label) == io' = [io EXCEPT ![t] = label]

\* stopping() reads m_pendingEventCount ...
IdlePending(t) ==
    /\ pc[t] = "idle"
    /\ io[t] = "start"
    /\ IdleGoto(t, IF m_pendingEventCount = 0 THEN "stopTest" ELSE "wait")
    /\ UNCHANGED <<vars, sawIdle, due, left, pipe, ready, m_pendingEventCount, ctx,
                   cancel, timers, m_tickled>>

\* ... and then, in a critical section of its own, Scheduler::stopping().
IdleStopping(t) ==
    /\ pc[t] = "idle"
    /\ io[t] = "stopTest"
    /\ \/ /\ stopping
          /\ idleTerm' = [idleTerm EXCEPT ![t] = TRUE]
          /\ Goto(t, "idleOut")
          /\ IdleGoto(t, "start")
       \/ /\ ~stopping
          /\ IdleGoto(t, "wait")
          /\ UNCHANGED <<pc, idleTerm>>
    /\ UNCHANGED <<m_tasks, m_activeThreadCount, m_idleThreadCount, m_stopping,
                   m_state, ret, task, yields, sawIdle, due, left, pipe, ready,
                   m_pendingEventCount, ctx, cancel, timers, m_tickled>>

\* epoll_wait returns, with everything there is to report or after its timeout;
\* listExpiredCb takes the expired timers; the events are not looked at.
EpollWait(t) ==
    /\ pc[t] = "idle"
    /\ io[t] = "wait"
    /\ ready' = {}
    /\ \E expired \in SUBSET timers :
        /\ timers' = timers \ expired
        /\ due' = [due EXCEPT ![t] = expired]
    /\ IdleGoto(t, "sched")
    /\ UNCHANGED <<vars, sawIdle, left, pipe, m_pendingEventCount, ctx, cancel,
                   m_tickled>>

\* schedule(cb) for one of cbs.
IdleSchedule(t) ==
    /\ pc[t] = "idle"
    /\ io[t] = "sched"
    /\ \E f \in due[t] :
        /\ Hand(t, f)
        /\ due' = [due EXCEPT ![t] = @ \ {f}]
    /\ UNCHANGED <<m_activeThreadCount, m_idleThreadCount, m_stopping, task, idleTerm,
                   yields, sawIdle, io, left, pipe, ready, m_pendingEventCount, ctx,
                   cancel, timers, m_tickled>>

\* The idle fiber yields to run().
IdleYield(t) ==
    /\ pc[t] = "idle"
    /\ io[t] = "sched"
    /\ due[t] = {}
    /\ Goto(t, "idleOut")
    /\ IdleGoto(t, "start")
    /\ UNCHANGED <<m_tasks, m_activeThreadCount, m_idleThreadCount, m_stopping,
                   m_state, ret, task, idleTerm, yields, sawIdle, due, left, pipe,
                   ready, m_pendingEventCount, ctx, cancel, timers, m_tickled>>

IOIdle(t) ==
    \/ IdlePending(t) \/ IdleStopping(t) \/ EpollWait(t) \/ IdleSchedule(t)
    \/ IdleYield(t)

-----------------------------------------------------------------------------
(* The task on thread t calls addEvent, delEvent, cancelEvent, cancelAll or *)
(* addTimer.  A call that finds nothing to do, or whose epoll_ctl fails,   *)
(* changes nothing (FdContext has the locking of the former).              *)

Calls(t) == pc[t] = "body" /\ cancel[t] = NoCancel

\* addEvent with a callback (a new task), or for the running fiber, which then
\* has to yield.
addEvent(t) ==
    /\ Calls(t)
    /\ \E fd \in Fds, e \in Events, f \in Tasks :
        /\ Unlocked(fd)
        /\ ctx[fd][e] = NoTask
        /\ f \notin Reserved
        /\ \/ m_state[f] = "FREE" /\ UNCHANGED yields
           \/ /\ f = task[t] /\ ~Queued(f)
              /\ yields < MaxYields /\ yields' = yields + 1
        /\ ctx' = [ctx EXCEPT ![fd][e] = f]
    /\ m_pendingEventCount' = m_pendingEventCount + 1
    /\ UNCHANGED <<m_tasks, m_activeThreadCount, m_idleThreadCount, m_stopping,
                   m_state, pc, ret, task, idleTerm, sawIdle, io, due, left, pipe, ready, cancel, timers,
                   m_tickled>>

\* delEvent.  The context's reference goes without being run: right for a
\* callback, while a waiting fiber would be destroyed before its end.
delEvent(t) ==
    /\ Calls(t)
    /\ \E fd \in Fds : \E e \in Registered(fd) :
        /\ Unlocked(fd)
        /\ m_state[ctx[fd][e]] = "FREE"
        /\ ctx' = [ctx EXCEPT ![fd][e] = NoTask]
        /\ ready' = ready \ {<<fd, e>>}
    /\ m_pendingEventCount' = m_pendingEventCount - 1
    /\ UNCHANGED <<vars, sawIdle, io, due, left, pipe, cancel, timers, m_tickled>>

\* cancelEvent, cancelAll: the mutex is taken, epoll_ctl removes the events ...
cancelBegin(t) ==
    /\ Calls(t)
    /\ \E fd \in Fds : \E todo \in {{e} : e \in Registered(fd)} \cup {Registered(fd)} :
        /\ todo # {}
        /\ Unlocked(fd)
        /\ cancel' = [cancel EXCEPT ![t] = [fd |-> fd, todo |-> todo, owe |-> FALSE]]
        /\ ready' = ready \ ({fd} \X todo)
    /\ UNCHANGED <<vars, sawIdle, io, due, left, pipe, m_pendingEventCount, ctx, timers,
                   m_tickled>>

\* Mutant: the context is reset before it is scheduled.
triggerEventReset(t) ==
    /\ pc[t] = "body"
    /\ ~cancel[t].owe
    /\ \E e \in cancel[t].todo :
        /\ e = "WRITE" => "READ" \notin cancel[t].todo
        /\ ctx' = [ctx EXCEPT ![cancel[t].fd][e] = NoTask]
        /\ cancel' = [cancel EXCEPT ![t].todo = @ \ {e}, ![t].owe = TRUE]
    /\ UNCHANGED <<vars, sawIdle, io, due, left, pipe, ready, m_pendingEventCount,
                   timers, m_tickled>>

\* ... triggerEvent schedules what waits for one of them (READ first), and
\* tickles, with the mutex held ...
triggerEvent(t) ==
    /\ pc[t] = "body"
    /\ ~cancel[t].owe
    /\ \E e \in cancel[t].todo :
        /\ e = "WRITE" => "READ" \notin cancel[t].todo
        /\ Hand(t, ctx[cancel[t].fd][e])
        /\ ctx' = [ctx EXCEPT ![cancel[t].fd][e] = NoTask]
        /\ cancel' = [cancel EXCEPT ![t].todo = @ \ {e}, ![t].owe = TRUE]
    /\ UNCHANGED <<m_activeThreadCount, m_idleThreadCount, m_stopping, task, idleTerm,
                   yields, sawIdle, io, due, left, pipe, ready, m_pendingEventCount,
                   timers, m_tickled>>

\* Mutant: --m_pendingEventCount forgotten.
cancelCountForgotten(t) ==
    /\ pc[t] = "body"
    /\ cancel[t].owe
    /\ cancel' = [cancel EXCEPT ![t] = IF @.todo = {} THEN NoCancel
                                       ELSE [@ EXCEPT !.owe = FALSE]]
    /\ UNCHANGED <<vars, sawIdle, io, due, left, pipe, ready, m_pendingEventCount, ctx,
                   timers, m_tickled>>

\* ... and the event is no longer pending; after the last the mutex is free.
cancelCount(t) ==
    /\ pc[t] = "body"
    /\ cancel[t].owe
    /\ m_pendingEventCount' = m_pendingEventCount - 1
    /\ cancel' = [cancel EXCEPT ![t] = IF @.todo = {} THEN NoCancel
                                       ELSE [@ EXCEPT !.owe = FALSE]]
    /\ UNCHANGED <<vars, sawIdle, io, due, left, pipe, ready, ctx, timers, m_tickled>>

\* addTimer: a timer at the front tickles, the first time: m_tickled is reset by
\* getNextTimer only, which is not called.
addTimer(t) ==
    /\ Calls(t)
    /\ \E f \in Tasks, at_front \in BOOLEAN :
        /\ m_state[f] = "FREE"
        /\ f \notin Reserved
        /\ timers = {} => at_front
        /\ timers' = timers \cup {f}
        /\ m_tickled' = (m_tickled \/ at_front)
        /\ GotoTickling(t, at_front /\ ~m_tickled, "body")
    /\ UNCHANGED <<m_tasks, m_activeThreadCount, m_idleThreadCount, m_stopping,
                   m_state, task, idleTerm, yields, sawIdle, io, due, left, pipe, ready,
                   m_pendingEventCount, ctx, cancel>>

\* Something happens on a socket that epoll watches.
FdReady ==
    /\ \E fd \in Fds : \E e \in Registered(fd) :
        /\ Unlocked(fd)
        /\ ready' = ready \cup {<<fd, e>>}
    /\ UNCHANGED <<vars, sawIdle, io, due, left, pipe, m_pendingEventCount, ctx, cancel,
                   timers, m_tickled>>

-----------------------------------------------------------------------------
(* Steps of Scheduler.                                                     *)

\* New tasks are not among those held by a context or a timer.
Fresh == \A f \in Reserved : m_state'[f] = m_state[f]

\* A fiber that waits for an event yields without being queued.
Waits(t) ==
    /\ Calls(t)
    /\ task[t] \in Contexts
    /\ ~Queued(task[t])
    /\ m_state' = [m_state EXCEPT ![task[t]] = "READY"]
    /\ Goto(t, "swap")
    /\ UNCHANGED <<m_tasks, m_activeThreadCount, m_idleThreadCount, m_stopping,
                   ret, task, idleTerm, yields, ioVars>>

IORun(t) ==
    /\ \/ FetchTask(t) \/ FetchNone(t) \/ Resume(t) \/ PostRun(t)
       \/ EnterIdle(t) \/ Exit(t) \/ LeaveIdle(t)
    /\ UNCHANGED ioVars

IOBody(t) ==
    \/ /\ Calls(t)
       /\ \/ BodySchedule(t) /\ Fresh
          \/ task[t] \notin Contexts /\ (BodyReschedule(t) \/ MainFunc(t))
          \/ Yield(t)
       /\ UNCHANGED ioVars
    \/ SwapOut(t) /\ UNCHANGED ioVars
    \/ Waits(t)

IOCalls(t) ==
    \/ addEvent(t) \/ delEvent(t) \/ cancelBegin(t) \/ triggerEvent(t)
    \/ cancelCount(t) \/ addTimer(t)

IOSchedule == pc[Caller] = "started" /\ MainSchedule /\ Fresh /\ UNCHANGED ioVars

IOStart == Start /\ UNCHANGED ioVars

\* stop(): after m_stopping is set, one tickle per thread.
IOStop ==
    /\ pc[Caller] = "started"
    /\ ~(m_pendingEventCount = 0 /\ stopping)
    /\ m_stopping' = TRUE
    /\ left' = Cardinality(Threads)
    /\ Goto(Caller, "stop")
    /\ UNCHANGED <<m_tasks, m_activeThreadCount, m_idleThreadCount, m_state, ret, task,
                   idleTerm, yields, sawIdle, io, due, pipe, ready, m_pendingEventCount,
                   ctx, cancel, timers, m_tickled>>

StopTickle ==
    /\ pc[Caller] = "stop"
    /\ left > 0
    /\ left' = left - 1
    /\ GotoTickling(Caller, TRUE, "stop")
    /\ UNCHANGED <<m_tasks, m_activeThreadCount, m_idleThreadCount, m_stopping,
                   m_state, task, idleTerm, yields, sawIdle, io, due, pipe, ready,
                   m_pendingEventCount, ctx, cancel, timers, m_tickled>>

StopRun ==
    /\ pc[Caller] = "stop"
    /\ left = 0
    /\ Goto(Caller, IF UseCaller THEN "fetch" ELSE "join")
    /\ UNCHANGED <<m_tasks, m_activeThreadCount, m_idleThreadCount, m_stopping,
                   m_state, ret, task, idleTerm, yields, ioVars>>

IOJoin == Join /\ UNCHANGED ioVars

IOMain == IOSchedule \/ IOStart \/ IOStop \/ StopTickle \/ StopRun \/ IOJoin

Tickling(t) == TickleTest(t) \/ TickleWrite(t)

IOTerminated == Terminated /\ UNCHANGED ioVars

IONext ==
    \/ IOMain
    \/ \E t \in Procs : Tickling(t) \/ IORun(t) \/ IOIdle(t) \/ IOBody(t) \/ IOCalls(t)
    \/ FdReady
    \/ IOTerminated

IOSpec == IOInit /\ [][IONext]_allVars

\* As in Scheduler; epoll_wait returns after 5 s at the latest.
IOFairSpec ==
    /\ IOSpec
    /\ WF_allVars(IOMain)
    /\ \A t \in Procs :
        WF_allVars(Tickling(t) \/ IORun(t) \/ IOIdle(t) \/ IOBody(t) \/ IOCalls(t))

-----------------------------------------------------------------------------
(* Properties.                                                             *)

\* m_pendingEventCount is the number of registered events, and of those that
\* are triggered and not yet counted down: stopping() relies on it while other
\* threads register and cancel.
PendingExact ==
    m_pendingEventCount =
        Cardinality({x \in Fds \X Events : ctx[x[1]][x[2]] # NoTask})
      + Cardinality({p \in Procs : cancel[p].owe})

\* The assertion of ~Fiber, with event contexts holding references too.
NoFiberLost ==
    \A f \in Tasks :
        m_state[f] \in {"READY", "RUNNING"}
            => Queued(f) \/ f \in Contexts \/ \E t \in Threads : task[t] = f

\* When stop() returns every task that was scheduled has run to its end, also
\* one that an idle fiber scheduled for a timer after another thread had left.
StopWaitsForScheduled ==
    pc[Caller] = "stopped" =>
        \A f \in Tasks : m_state[f] \in {"FREE", "TERM"} \/ f \in Contexts

\* The comment in IOManager::stopping: the manager may end only when all pending
\* IO events have been executed.
EndsWithoutEvents ==
    [][\A t \in Threads : idleTerm'[t] /\ ~idleTerm[t] => m_pendingEventCount = 0]_allVars

\* The comment at the top of idle(): a registered event that happens has its
\* callback run, so it does not stay registered.
EventsTriggered ==
    \A fd \in Fds, e \in Events :
        <<fd, e>> \in ready ~> ctx[fd][e] = NoTask

\* The comment on tickle(): it notifies the scheduler, so it returns.
TickleReturns == \A t \in Procs : pc[t] = "tickle" ~> pc[t] # "tickle"

\* The comment at the top of idle(): with a new task idle is left at once.  No
\* thread waits in epoll_wait, with nothing to wake it, while a task it could
\* take is queued and nobody else is about to look at the queue.
IdleLeftForTasks ==
    ~ /\ \A t \in Threads : pc[t] = "idle" /\ io[t] = "wait"
      /\ \E t \in Threads : Takeable(t) # {}
      /\ ready = {}
      /\ pc[Caller] \notin {"tickle", "stop"}
=============================================================================
