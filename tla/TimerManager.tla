---------------------------- MODULE TimerManager ----------------------------
(***************************************************************************)
(* Timer and TimerManager (timer.h, timer.cpp), and the part of            *)
(* IOManager::idle that serves them.                                       *)
(*                                                                         *)
(* Times are milliseconds in a machine word of Word values.  The operations*)
(* of a Timer are critical sections of m_mutex.  listExpiredCb reads the   *)
(* clock, tests for an empty set under a read lock and works under a write *)
(* lock: three steps, and an idle thread can be overtaken between them by  *)
(* another with a later time.  Nothing calls getNextTimer, so m_tickled is *)
(* never reset.                                                            *)
(***************************************************************************)
EXTENDS Naturals, FiniteSets, FiniteSetsExt

CONSTANTS
    Idlers,       \* the threads in IOManager::idle
    Timers,       \* Timer objects
    Periods,      \* the ms that callers use
    MAX_TIMEOUT,  \* of epoll_wait
    Hour,         \* 60 * 60 * 1000
    Word,         \* 2^64
    Boot,         \* the clock when the manager is made: time since boot
    MaxTime,      \* bound: the last value of the clock
    Skew          \* bound: how long a thread runs on with the time it has read

ASSUME TimerAssumption ==
    /\ IsFiniteSet(Idlers) /\ IsFiniteSet(Timers)
    /\ Periods \subseteq Nat
    /\ MAX_TIMEOUT \in Nat \ {0} /\ Hour \in Nat /\ Skew \in Nat
    /\ Word \in Nat /\ Boot \in Nat /\ MaxTime \in Boot..(Word - 1)
    /\ Hour < Word

VARIABLES
    now,              \* GetElapsedMS()
    m_timers,         \* the set, ordered by m_next
    m_next, m_ms, m_recurring,
    m_cb,             \* the timers whose m_cb is not empty
    made,             \* Timer objects that exist
    m_previouseTime,
    m_tickled,
    edge,             \* a tickle has made the pipe readable, no thread woke yet
    armed,            \* history: when the timer last got its m_next
    pc, stamp, cbs    \* of each idle thread: place, the time of its clock read
                      \* or the start of its wait, the callbacks it took

vars == <<now, m_timers, m_next, m_ms, m_recurring, m_cb, made, m_previouseTime,
          m_tickled, edge, armed, pc, stamp, cbs>>

Init ==
    /\ now = Boot
    /\ m_timers = {}
    /\ m_next = [x \in Timers |-> 0]
    /\ m_ms = [x \in Timers |-> 0]
    /\ m_recurring = [x \in Timers |-> FALSE]
    /\ m_cb = {}
    /\ made = {}
    /\ m_previouseTime = Boot
    /\ m_tickled = FALSE
    /\ edge = FALSE
    /\ armed = [x \in Timers |-> 0]
    /\ pc = [i \in Idlers |-> "wait"]
    /\ stamp = [i \in Idlers |-> Boot]
    /\ cbs = [i \in Idlers |-> {}]

Add(a, b) == (a + b) % Word
Sub(a, b) == (a + Word - b) % Word

-----------------------------------------------------------------------------
(* Callers.                                                                *)

\* The private addTimer: at the front, and not tickled yet, it tickles.  Timers
\* of the same m_next are ordered by their addresses.
Insert(x) ==
    /\ m_timers' = m_timers \cup {x}
    /\ \E front \in BOOLEAN :
        /\ front => \A y \in m_timers \ {x} : m_next'[x] <= m_next[y]
        /\ ~front => \E y \in m_timers \ {x} : m_next[y] <= m_next'[x]
        /\ m_tickled' = (m_tickled \/ front)
        /\ edge' = (edge \/ (front /\ ~m_tickled))
    /\ armed' = [armed EXCEPT ![x] = now]

\* The constructor of Timer reads the clock, and addTimer locks after that.
addTimer(x) ==
    /\ x \notin made
    /\ \E ms \in Periods, recurring \in BOOLEAN, t \in Boot..now :
        /\ now <= t + Skew
        /\ m_ms' = [m_ms EXCEPT ![x] = ms]
        /\ m_recurring' = [m_recurring EXCEPT ![x] = recurring]
        /\ m_next' = [m_next EXCEPT ![x] = Add(t, ms)]
    /\ made' = made \cup {x}
    /\ m_cb' = m_cb \cup {x}
    /\ Insert(x)
    /\ UNCHANGED <<now, m_previouseTime, pc, stamp, cbs>>

cancel(x) ==
    /\ x \in m_cb
    /\ m_cb' = m_cb \ {x}
    /\ m_timers' = m_timers \ {x}
    /\ UNCHANGED <<now, m_next, m_ms, m_recurring, made, m_previouseTime, m_tickled,
                   edge, armed, pc, stamp, cbs>>

\* Mutant: a timer that is done is put back.
refreshAlways(x) ==
    /\ x \in made
    /\ m_next' = [m_next EXCEPT ![x] = Add(now, m_ms[x])]
    /\ m_timers' = m_timers \cup {x}
    /\ armed' = [armed EXCEPT ![x] = now]
    /\ UNCHANGED <<now, m_ms, m_recurring, m_cb, made, m_previouseTime, m_tickled,
                   edge, pc, stamp, cbs>>

\* refresh inserts without looking whether the timer is now at the front.
refresh(x) ==
    /\ x \in m_cb
    /\ x \in m_timers
    /\ m_next' = [m_next EXCEPT ![x] = Add(now, m_ms[x])]
    /\ armed' = [armed EXCEPT ![x] = now]
    /\ UNCHANGED <<now, m_timers, m_ms, m_recurring, m_cb, made, m_previouseTime,
                   m_tickled, edge, pc, stamp, cbs>>

\* reset returns early when nothing changes, but it compares with m_ms before it
\* locks: another reset in between brings it here with any ms.
reset(x) ==
    /\ x \in m_cb
    /\ x \in m_timers
    /\ \E ms \in Periods, from_now \in BOOLEAN :
        /\ m_ms' = [m_ms EXCEPT ![x] = ms]
        /\ m_next' = [m_next EXCEPT ![x] =
                        Add(IF from_now THEN now ELSE Sub(m_next[x], m_ms[x]), ms)]
    /\ Insert(x)
    /\ UNCHANGED <<now, m_recurring, m_cb, made, m_previouseTime, pc, stamp, cbs>>

-----------------------------------------------------------------------------
(* Idle threads.                                                           *)

\* epoll_wait is given MAX_TIMEOUT.  It returns then, on a tickle, or earlier for
\* another event; listExpiredCb reads the clock.
Wake(i) ==
    /\ pc[i] = "wait"
    /\ pc' = [pc EXCEPT ![i] = "look"]
    /\ stamp' = [stamp EXCEPT ![i] = now]
    /\ edge' = FALSE
    /\ UNCHANGED <<now, m_timers, m_next, m_ms, m_recurring, m_cb, made,
                   m_previouseTime, m_tickled, armed, cbs>>

\* The test under the read lock.
Look(i) ==
    /\ pc[i] = "look"
    /\ pc' = [pc EXCEPT ![i] = IF m_timers = {} THEN "schedule" ELSE "list"]
    /\ UNCHANGED <<now, m_timers, m_next, m_ms, m_recurring, m_cb, made,
                   m_previouseTime, m_tickled, edge, armed, stamp, cbs>>

detectClockRollover(now_ms) ==
    now_ms < m_previouseTime /\ now_ms < Sub(m_previouseTime, Hour)

\* Mutant: the comparison is the wrong way round.
ExpiredReversed(now_ms) == {x \in m_timers : m_next[x] > now_ms}

\* Mutant: all timers of the set are taken when the first has expired.
ExpiredAll(now_ms) == IF \E x \in m_timers : m_next[x] <= now_ms THEN m_timers ELSE {}

Expired(now_ms) ==
    IF detectClockRollover(now_ms) THEN m_timers
    ELSE {x \in m_timers : m_next[x] <= now_ms}

\* Under the write lock: what has expired is taken; recurring timers go back.
listExpiredCb(i) ==
    /\ pc[i] = "list"
    /\ LET expired == Expired(stamp[i])
           again == {x \in expired : m_recurring[x]}
       IN  /\ cbs' = [cbs EXCEPT ![i] = expired]
           /\ m_timers' = (m_timers \ expired) \cup again
           /\ m_cb' = m_cb \ (expired \ again)
           /\ m_next' = [x \in Timers |-> IF x \in again THEN Add(stamp[i], m_ms[x])
                                          ELSE m_next[x]]
           /\ armed' = [x \in Timers |-> IF x \in again THEN now ELSE armed[x]]
    /\ m_previouseTime' = IF m_timers = {} THEN m_previouseTime ELSE stamp[i]
    /\ pc' = [pc EXCEPT ![i] = "schedule"]
    /\ UNCHANGED <<now, m_ms, m_recurring, made, m_tickled, edge, stamp>>

\* The callbacks go to the scheduler; idle() comes back to epoll_wait.
Schedule(i) ==
    /\ pc[i] = "schedule"
    /\ cbs' = [cbs EXCEPT ![i] = {}]
    /\ pc' = [pc EXCEPT ![i] = "wait"]
    /\ stamp' = [stamp EXCEPT ![i] = now]
    /\ UNCHANGED <<now, m_timers, m_next, m_ms, m_recurring, m_cb, made,
                   m_previouseTime, m_tickled, edge, armed>>

\* Time passes; epoll_wait does not last longer than its timeout nor beyond a
\* tickle, and a thread that has read the clock is done with it within Skew.
Tick ==
    /\ now < MaxTime
    /\ \A i \in Idlers :
        now < stamp[i] + (IF pc[i] = "wait" THEN MAX_TIMEOUT ELSE Skew)
    /\ edge => \A i \in Idlers : pc[i] # "wait"
    /\ now' = now + 1
    /\ UNCHANGED <<m_timers, m_next, m_ms, m_recurring, m_cb, made, m_previouseTime,
                   m_tickled, edge, armed, pc, stamp, cbs>>

Next ==
    \/ \E x \in Timers : addTimer(x) \/ cancel(x) \/ refresh(x) \/ reset(x)
    \/ \E i \in Idlers : Wake(i) \/ Look(i) \/ listExpiredCb(i) \/ Schedule(i)
    \/ Tick

Spec == Init /\ [][Next]_vars

-----------------------------------------------------------------------------
(* Properties.                                                             *)

\* A timer that is done, by cancel or as a one-shot that fired, is never armed
\* again: not by refresh or reset, and not by the thread that lists it.
DoneStaysDone == [][\A x \in made : x \notin m_timers => x \notin m_timers']_vars

\* A round of listExpiredCb takes exactly what is due.  A callback is taken when its time
\* has come and not before; and the write-locked part leaves no timer behind that was due
\* at the time it read, apart from those it put back itself.
ExpiredExactly ==
    [][\A i \in Idlers :
          /\ \A x \in cbs'[i] \ cbs[i] : m_next[x] <= now
          /\ pc[i] = "list" /\ pc'[i] = "schedule" =>
               \A x \in m_timers' : m_next'[x] > stamp[i] \/ x \in cbs'[i]]_vars

\* The comments on m_tickled and onTimerInsertedAtFront: a timer at the front makes
\* epoll_wait return and be given the time until that timer.  So no timer is overdue
\* while all the threads sleep.
OnTime == \A x \in m_timers : m_next[x] >= now \/ \E i \in Idlers : pc[i] # "wait"

\* As idle() is, with its constant timeout, a timer is late by at most that timeout
\* and the time of two rounds, counted from its m_next or, when reset put that in
\* the past, from the reset.
LateAtMost ==
    \A x \in m_timers : now <= Max({m_next[x], armed[x]}) + MAX_TIMEOUT + 2 * Skew
=============================================================================
