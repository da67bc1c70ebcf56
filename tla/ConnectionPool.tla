--------------------------- MODULE ConnectionPool ---------------------------
(***************************************************************************)
(* The database connection pool (ConnectionPool.h, ConnectionPool.cpp).    *)
(*                                                                         *)
(* The consumers are the threads that call GetConnection and later drop    *)
(* the shared_ptr; Producer and Scanner are the pool's two threads; Main   *)
(* runs the destructor of the static pool after main() has returned, when  *)
(* no task runs any more.  A step is a critical section of m_mtx, or an    *)
(* access to the atomic m_isShutdown: the destructor writes m_isShutdown   *)
(* and notifies without m_mtx, so the producer and the scanner are split   *)
(* between their test of m_isShutdown and their wait.                      *)
(*                                                                         *)
(* The pool starts as its constructor leaves it.                           *)
(***************************************************************************)
EXTENDS Naturals, Sequences, FiniteSets, Functions

CONSTANTS
    Consumers, Producer, Scanner,
    Conns,        \* addresses of Connection objects
    NoConn,
    Nobody,       \* m_mtx is free
    m_minSize, m_maxSize,
    ConnectOk,    \* the results Connect may have
    MaxGets       \* bound: calls of GetConnection per consumer

Daemons == {Producer, Scanner}
Threads == Consumers \cup Daemons

ASSUME PoolAssumption ==
    /\ IsFiniteSet(Consumers) /\ IsFiniteSet(Conns)
    /\ Producer # Scanner
    /\ Daemons \cap Consumers = {}
    /\ Nobody \notin Threads
    /\ NoConn \notin Conns
    /\ m_minSize \in Nat \ {0} /\ m_maxSize \in Nat /\ m_minSize <= m_maxSize
    /\ m_maxSize <= Cardinality(Conns)
    /\ ConnectOk \subseteq BOOLEAN /\ ConnectOk # {}
    /\ MaxGets \in Nat

VARIABLES
    m_connectionQueue,
    m_connectionCount,
    m_isShutdown,
    m_mtx,        \* who holds the mutex between two steps
    m_cv,         \* the threads blocked on the condition variable
    pc,           \* where each thread is
    dtor,         \* where the destructor is
    held,         \* the connection each consumer has
    broken,       \* connections whose Connect failed
    gets          \* calls of GetConnection so far

vars == <<m_connectionQueue, m_connectionCount, m_isShutdown, m_mtx, m_cv, pc,
          dtor, held, broken, gets>>

ConsumerPc == {"out", "enter", "waiting", "using"}
DaemonPc == {"top", "enter", "test", "sleep", "waiting", "after", "done", "undefined"}

TypeOK ==
    /\ m_connectionQueue \in Seq(Conns)
    /\ m_connectionCount \in Nat
    /\ m_isShutdown \in BOOLEAN
    /\ m_mtx \in Daemons \cup {Nobody}
    /\ m_cv \subseteq Threads
    /\ pc \in [Threads -> ConsumerPc \cup DaemonPc]
    /\ dtor \in {"no", "notify", "join", "done"}
    /\ held \in [Consumers -> Conns \cup {NoConn}]
    /\ broken \subseteq Conns
    /\ gets \in [Consumers -> 0..MaxGets]

Queued == {m_connectionQueue[i] : i \in DOMAIN m_connectionQueue}
Holders == {c \in Consumers : held[c] # NoConn}
Alive == Queued \cup {held[c] : c \in Holders}

Init ==
    /\ m_connectionQueue \in {q \in [1..m_minSize -> Conns] : IsInjective(q)}
    /\ m_connectionCount = m_minSize
    /\ m_isShutdown = FALSE
    /\ m_mtx = Nobody
    /\ m_cv = {}
    /\ pc = [p \in Threads |-> IF p \in Consumers THEN "out" ELSE "top"]
    /\ dtor = "no"
    /\ held = [c \in Consumers |-> NoConn]
    /\ broken \in {b \in SUBSET Queued : \A c \in Queued : (c \notin b) \in ConnectOk}
    /\ gets = [c \in Consumers |-> 0]

-----------------------------------------------------------------------------
Goto(p, label) == pc' = [pc EXCEPT ![p] = label]

\* p has been notified (or woken for no reason) and m_mtx is free again, or p
\* comes from outside.
Acquires(p) ==
    /\ m_mtx = Nobody
    /\ pc[p] = "enter" \/ (pc[p] = "waiting" /\ p \notin m_cv)

NotifyAll == m_cv' = {}

\* Mutant: ++m_connectionCount forgotten.
AddConnectionUncounted ==
    \E c \in Conns \ Alive :
        /\ m_connectionQueue' = Append(m_connectionQueue, c)
        /\ UNCHANGED <<m_connectionCount, broken>>

\* AddConnection: whatever Connect answers, the connection is queued and counted.
AddConnection ==
    \E c \in Conns \ Alive, ok \in ConnectOk :
        /\ m_connectionQueue' = Append(m_connectionQueue, c)
        /\ m_connectionCount' = m_connectionCount + 1
        /\ broken' = IF ok THEN broken \ {c} ELSE broken \cup {c}

-----------------------------------------------------------------------------
(* Consumers.                                                              *)

CallGet(c) ==
    /\ pc[c] = "out"
    /\ dtor = "no"
    /\ gets[c] < MaxGets
    /\ gets' = [gets EXCEPT ![c] = @ + 1]
    /\ Goto(c, "enter")
    /\ UNCHANGED <<m_connectionQueue, m_connectionCount, m_isShutdown, m_mtx, m_cv,
                   dtor, held, broken>>

\* Mutant: the pop forgotten.
GetConnectionNoPop(c) ==
    /\ Acquires(c)
    /\ m_connectionQueue # <<>>
    /\ held' = [held EXCEPT ![c] = Head(m_connectionQueue)]
    /\ NotifyAll
    /\ Goto(c, "using")
    /\ UNCHANGED <<m_connectionQueue, m_connectionCount, m_isShutdown, m_mtx, dtor,
                   broken, gets>>

\* GetConnection with a connection at hand.
GetConnection(c) ==
    /\ Acquires(c)
    /\ m_connectionQueue # <<>>
    /\ held' = [held EXCEPT ![c] = Head(m_connectionQueue)]
    /\ m_connectionQueue' = Tail(m_connectionQueue)
    /\ NotifyAll
    /\ Goto(c, "using")
    /\ UNCHANGED <<m_connectionCount, m_isShutdown, m_mtx, dtor, broken, gets>>

\* GetConnection on an empty queue: wait_for.
GetWaits(c) ==
    /\ Acquires(c)
    /\ m_connectionQueue = <<>>
    /\ m_cv' = m_cv \cup {c}
    /\ Goto(c, "waiting")
    /\ UNCHANGED <<m_connectionQueue, m_connectionCount, m_isShutdown, m_mtx, dtor,
                   held, broken, gets>>

\* The deleter of the shared_ptr: the connection goes back; nobody is notified.
Return(c) ==
    /\ pc[c] = "using"
    /\ m_mtx = Nobody
    /\ m_connectionQueue' = Append(m_connectionQueue, held[c])
    /\ held' = [held EXCEPT ![c] = NoConn]
    /\ Goto(c, "out")
    /\ UNCHANGED <<m_connectionCount, m_isShutdown, m_mtx, m_cv, dtor, broken, gets>>

-----------------------------------------------------------------------------
(* Both threads of the pool begin a round alike.                           *)

\* while (!m_isShutdown), read without the mutex.
RoundTop(d) ==
    /\ pc[d] = "top"
    /\ Goto(d, IF m_isShutdown THEN "done" ELSE "enter")
    /\ UNCHANGED <<m_connectionQueue, m_connectionCount, m_isShutdown, m_mtx, m_cv,
                   dtor, held, broken, gets>>

RoundLock(d) ==
    /\ Acquires(d)
    /\ m_mtx' = d
    /\ Goto(d, "test")
    /\ UNCHANGED <<m_connectionQueue, m_connectionCount, m_isShutdown, m_cv, dtor,
                   held, broken, gets>>

\* What each thread waits for: to be needed, or only to be told to end.
WaitTest(d) ==
    /\ ~m_isShutdown
    /\ d = Producer => Len(m_connectionQueue) >= m_minSize

RoundTest(d) ==
    /\ pc[d] = "test"
    /\ Goto(d, IF WaitTest(d) THEN "sleep" ELSE "after")
    /\ UNCHANGED <<m_connectionQueue, m_connectionCount, m_isShutdown, m_mtx, m_cv,
                   dtor, held, broken, gets>>

\* m_cv.wait: blocked and unlocked in one step.
RoundSleep(d) ==
    /\ pc[d] = "sleep"
    /\ m_cv' = m_cv \cup {d}
    /\ m_mtx' = Nobody
    /\ Goto(d, "waiting")
    /\ UNCHANGED <<m_connectionQueue, m_connectionCount, m_isShutdown, dtor, held,
                   broken, gets>>

\* if (m_isShutdown) break.
RoundBreak(d) ==
    /\ pc[d] = "after"
    /\ m_isShutdown
    /\ m_mtx' = Nobody
    /\ Goto(d, "done")
    /\ UNCHANGED <<m_connectionQueue, m_connectionCount, m_isShutdown, m_cv, dtor,
                   held, broken, gets>>

\* The rest of ProduceConnectionTask's round.
Produce ==
    /\ pc[Producer] = "after"
    /\ ~m_isShutdown
    /\ \/ m_connectionCount < m_maxSize /\ AddConnection
       \/ /\ m_connectionCount >= m_maxSize
          /\ UNCHANGED <<m_connectionQueue, m_connectionCount, broken>>
    /\ NotifyAll
    /\ m_mtx' = Nobody
    /\ Goto(Producer, "top")
    /\ UNCHANGED <<m_isShutdown, dtor, held, gets>>

\* The rest of ScannerConnectionTask's round.  Connections are queued in the
\* order of their time stamps, so those that are too old are the first n.  When
\* they are all too old and still more than m_minSize exist, front() is called
\* on an empty queue.
Scan ==
    /\ pc[Scanner] = "after"
    /\ ~m_isShutdown
    /\ \E n \in 0..Len(m_connectionQueue) :
        /\ n = 0 \/ m_connectionCount - n >= m_minSize
        /\ m_connectionQueue' = SubSeq(m_connectionQueue, n + 1, Len(m_connectionQueue))
        /\ m_connectionCount' = m_connectionCount - n
        /\ Goto(Scanner, IF n = Len(m_connectionQueue) /\ m_connectionCount - n > m_minSize
                           THEN "undefined" ELSE "top")
    /\ m_mtx' = Nobody
    /\ UNCHANGED <<m_isShutdown, m_cv, dtor, held, broken, gets>>

\* wait_for of the scanner expires: the predicate is tested a last time, and
\* the wait ends whatever it says.
ScanTimeout ==
    /\ pc[Scanner] = "waiting"
    /\ m_mtx = Nobody
    /\ m_mtx' = Scanner
    /\ m_cv' = m_cv \ {Scanner}
    /\ Goto(Scanner, "after")
    /\ UNCHANGED <<m_connectionQueue, m_connectionCount, m_isShutdown, dtor, held,
                   broken, gets>>

\* Mutant: consumers wait without a time limit.
WakeDaemons(p) ==
    /\ p \in m_cv \cap Daemons
    /\ m_cv' = m_cv \ {p}
    /\ UNCHANGED <<m_connectionQueue, m_connectionCount, m_isShutdown, m_mtx, pc,
                   dtor, held, broken, gets>>

\* wait_for of a consumer expires; any wait may end without a reason.
Wake(p) ==
    /\ p \in m_cv
    /\ m_cv' = m_cv \ {p}
    /\ UNCHANGED <<m_connectionQueue, m_connectionCount, m_isShutdown, m_mtx, pc,
                   dtor, held, broken, gets>>

-----------------------------------------------------------------------------
(* ~ConnectionPool.                                                        *)

Shutdown ==
    /\ dtor = "no"
    /\ \A c \in Consumers : pc[c] = "out"
    /\ m_isShutdown' = TRUE
    /\ dtor' = "notify"
    /\ UNCHANGED <<m_connectionQueue, m_connectionCount, m_mtx, m_cv, pc, held,
                   broken, gets>>

ShutdownNotify ==
    /\ dtor = "notify"
    /\ NotifyAll
    /\ dtor' = "join"
    /\ UNCHANGED <<m_connectionQueue, m_connectionCount, m_isShutdown, m_mtx, pc,
                   held, broken, gets>>

\* Mutant: the queue is left as it is.
ShutdownJoinKeeps ==
    /\ dtor = "join"
    /\ \A d \in Daemons : pc[d] = "done"
    /\ dtor' = "done"
    /\ UNCHANGED <<m_connectionQueue, m_connectionCount, m_isShutdown, m_mtx, m_cv,
                   pc, held, broken, gets>>

\* Both joins, then every queued connection is deleted.
ShutdownJoin ==
    /\ dtor = "join"
    /\ \A d \in Daemons : pc[d] = "done"
    /\ m_connectionQueue' = <<>>
    /\ dtor' = "done"
    /\ UNCHANGED <<m_connectionCount, m_isShutdown, m_mtx, m_cv, pc, held, broken,
                   gets>>

\* Nothing is left to do, or nothing more can be said of the process.
Over == (dtor = "done" \/ pc[Scanner] = "undefined") /\ UNCHANGED vars

-----------------------------------------------------------------------------
Consumer(c) == CallGet(c) \/ GetConnection(c) \/ GetWaits(c) \/ Return(c)

Round(d) ==
    RoundTop(d) \/ RoundLock(d) \/ RoundTest(d) \/ RoundSleep(d) \/ RoundBreak(d)

Destructor == Shutdown \/ ShutdownNotify \/ ShutdownJoin

Next ==
    \/ \E c \in Consumers : Consumer(c)
    \/ \E d \in Daemons : Round(d)
    \/ Produce \/ Scan \/ ScanTimeout
    \/ \E p \in Threads : Wake(p)
    \/ Destructor
    \/ Over

Spec == Init /\ [][Next]_vars

\* Threads run, a mutex that is released again and again is obtained some time,
\* connections are given back, and timed waits expire.  Nothing makes a consumer
\* call GetConnection or the process exit.
Fairness ==
    /\ \A c \in Consumers : /\ SF_vars(GetConnection(c) \/ GetWaits(c))
                            /\ SF_vars(Return(c))
                            /\ WF_vars(Wake(c))
    /\ \A d \in Daemons : WF_vars(Round(d)) /\ SF_vars(RoundLock(d))
    /\ WF_vars(Produce) /\ WF_vars(Scan) /\ SF_vars(ScanTimeout)
    /\ WF_vars(ShutdownNotify) /\ WF_vars(ShutdownJoin)

-----------------------------------------------------------------------------
(* Properties.                                                             *)

\* m_connectionCount counts the connections that exist: those in the queue and
\* those that consumers have.  Producer and scanner decide on it while
\* consumers take and return connections.
CountExact ==
    dtor # "done" =>
        m_connectionCount = Len(m_connectionQueue) + Cardinality(Holders)

\* A connection is in one place: once in the queue or with one consumer.
OneOwner ==
    /\ IsInjective(m_connectionQueue)
    /\ \A c, d \in Holders : held[c] = held[d] => c = d
    /\ \A c \in Holders : held[c] \notin Queued

\* The number of connections stays between m_minSize and m_maxSize, whatever
\* producer and scanner do in turn.
SizeBounds == m_minSize <= m_connectionCount /\ m_connectionCount <= m_maxSize

\* The scanner looks at front() only when the queue has one.
FrontExists == pc[Scanner] # "undefined"

\* When the destructor has returned no Connection is left.
AllDeleted == dtor = "done" => Alive = {}

\* A consumer that asks for a connection gets one, although returning one
\* notifies nobody: the timed wait sees to it.  (Consumers wait only when there
\* are more than m_minSize of them, where FrontExists can fail as well.)
EveryGetServed ==
    \A c \in Consumers :
        pc[c] = "enter" ~> (pc[c] = "using" \/ pc[Scanner] = "undefined")

\* The comment on ProduceConnectionTask: it cooperates through the condition
\* variable and does not busy-wait, so a round that does not wait creates a
\* connection.
NoBusyWait ==
    [][pc[Producer] = "after" /\ pc'[Producer] = "top"
          => m_connectionCount' > m_connectionCount]_vars

\* The comment on AddConnection: a connection is queued once it is connected.
QueuedAreConnected == Queued \cap broken = {}

\* The destructor returns: both threads end when they are told to.
DestructorReturns == dtor = "notify" ~> dtor = "done"
=============================================================================
