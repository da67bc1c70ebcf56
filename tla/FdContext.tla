----------------------------- MODULE FdContext -----------------------------
(***************************************************************************)
(* The table of file-descriptor contexts of IOManager and its locking      *)
(* (iomanager.cpp: addEvent, delEvent, cancelEvent, cancelAll,             *)
(* contextResize), with threads interleaved between the table's lock, the  *)
(* context's mutex and the changes made under it.  What a triggered event  *)
(* schedules is in IOManager.                                              *)
(*                                                                         *)
(* A context is a heap object that outlives its place in the table:        *)
(* <<fd, k>> is the k-th context created for fd.  mutex[c] is released by   *)
(* whoever unlocks it, as a pthread mutex of the default kind is.          *)
(***************************************************************************)
EXTENDS Naturals, FiniteSets, FiniteSetsExt

CONSTANTS
    Threads,
    Nobody,       \* a mutex that is free
    Fds,          \* numbers of sockets
    InitSize,     \* the constructor's contextResize(32)
    MaxGen,       \* bound: contexts created per fd
    Uses,         \* which thread works with which socket: pairs <<t, fd>>
    Stray         \* where it may also delete and cancel what is not registered

ASSUME FdAssumption ==
    /\ Fds \subseteq Nat /\ Fds # {}
    /\ Nobody \notin Threads
    /\ InitSize \in Nat \ {0, 1} /\ MaxGen \in Nat \ {0}
    /\ Uses \subseteq Threads \X Fds /\ Stray \subseteq Uses

Events == {"READ", "WRITE"}
Contexts == Fds \X (1..MaxGen)
Ops == {"addEvent", "delEvent", "cancelEvent", "cancelAll"}

VARIABLES
    size,         \* m_fdContexts.size()
    table,        \* m_fdContexts: which context of fd it holds, 0 for none
    created,      \* contexts created so far for fd
    events,       \* fd_ctx->events
    mutex,        \* fd_ctx->mutex
    epoll,        \* what epoll watches on fd
    m_pendingEventCount,
    place, call, ctx,    \* of each thread: place, the call it is in, its fd_ctx
    own           \* the events a thread has added and not removed

fdVars == <<size, table, created, events, mutex, epoll, m_pendingEventCount, place, call,
            ctx, own>>

Call == [op : Ops, fd : Fds, e : Events]

\* contextResize: pointers beyond n are dropped, new places get new contexts.
Resized(n, fd) ==
    IF fd >= n THEN 0 ELSE IF table[fd] = 0 THEN created[fd] + 1 ELSE table[fd]

FdInit ==
    /\ size = InitSize
    /\ table = [fd \in Fds |-> IF fd < InitSize THEN 1 ELSE 0]
    /\ created = table
    /\ events = [c \in Contexts |-> {}]
    /\ mutex = [c \in Contexts |-> Nobody]
    /\ epoll = [fd \in Fds |-> {}]
    /\ m_pendingEventCount = 0
    /\ place = [t \in Threads |-> "out"]
    /\ call = [t \in Threads |-> CHOOSE c \in Call : TRUE]
    /\ ctx = [t \in Threads |-> CHOOSE c \in Contexts : TRUE]
    /\ own = [t \in Threads |-> {}]

-----------------------------------------------------------------------------
Goto(t, label) == place' = [place EXCEPT ![t] = label]

\* An event is used by one thread at a time, and not added twice.
Unused(fd, e) ==
    \A t \in Threads :
        /\ <<fd, e>> \notin own[t]
        /\ ~(place[t] # "out" /\ call[t].fd = fd /\ call[t].e = e)

\* Without Stray a thread removes what it added, event by event.
Allowed(t, c) ==
    /\ <<t, c.fd>> \in Uses
    /\ IF c.op = "addEvent" THEN Unused(c.fd, c.e)
       ELSE \/ <<t, c.fd>> \in Stray
            \/ <<c.fd, c.e>> \in own[t] /\ c.op # "cancelAll"

Begin(t) ==
    /\ place[t] = "out"
    /\ \E c \in Call :
        /\ Allowed(t, c)
        /\ call' = [call EXCEPT ![t] = c]
    /\ Goto(t, "look")
    /\ UNCHANGED <<size, table, created, events, mutex, epoll, m_pendingEventCount,
                   ctx, own>>

\* Under the read lock: is there a context?
LookUp(t) ==
    /\ place[t] = "look"
    /\ LET fd == call[t].fd IN
       IF size > fd
         THEN /\ ctx' = [ctx EXCEPT ![t] = <<fd, table[fd]>>]
              /\ Goto(t, "lock")
         ELSE /\ Goto(t, IF call[t].op = "addEvent" THEN "grow" ELSE "out")
              /\ UNCHANGED ctx
    /\ UNCHANGED <<size, table, created, events, mutex, epoll, m_pendingEventCount,
                   call, own>>

\* Under the write lock, taken later: resize to fd * 1.5, whatever the size is now.
Grow(t) ==
    /\ place[t] = "grow"
    /\ LET fd == call[t].fd
           n  == (fd * 3) \div 2
       IN /\ \A g \in Fds : Resized(n, g) <= MaxGen
          /\ size' = n
          /\ table' = [g \in Fds |-> Resized(n, g)]
          /\ created' = [g \in Fds |-> Max({created[g], Resized(n, g)})]
          /\ ctx' = [ctx EXCEPT ![t] = <<fd, table'[fd]>>]
    /\ Goto(t, "lock")
    /\ UNCHANGED <<events, mutex, epoll, m_pendingEventCount, call, own>>

\* Mutant: the mutex is not waited for.
LockNoWait(t) ==
    /\ place[t] = "lock"
    /\ mutex' = [mutex EXCEPT ![ctx[t]] = t]
    /\ Goto(t, "check")
    /\ UNCHANGED <<size, table, created, events, epoll, m_pendingEventCount, call, ctx,
                   own>>

Lock(t) ==
    /\ place[t] = "lock"
    /\ mutex[ctx[t]] = Nobody
    /\ mutex' = [mutex EXCEPT ![ctx[t]] = t]
    /\ Goto(t, "check")
    /\ UNCHANGED <<size, table, created, events, epoll, m_pendingEventCount, call, ctx,
                   own>>

Unlock(t) == mutex' = [mutex EXCEPT ![ctx[t]] = Nobody]

\* The early tests under the mutex.  addEvent asserts that the event is new;
\* delEvent and cancelEvent unlock by hand and return, and the guard unlocks
\* again; cancelAll only returns.
Check(t) ==
    /\ place[t] = "check"
    /\ LET c == call[t]
           evs == events[ctx[t]]
           next == CASE c.op = "addEvent" -> IF c.e \in evs THEN "abort" ELSE "effect"
                     [] c.op = "cancelAll" -> IF evs = {} THEN "out" ELSE "effect"
                     [] OTHER -> IF c.e \in evs THEN "effect" ELSE "unlock"
       IN  /\ Goto(t, next)
           /\ IF next \in {"out", "unlock"} THEN Unlock(t) ELSE UNCHANGED mutex
    /\ UNCHANGED <<size, table, created, events, epoll, m_pendingEventCount, call, ctx,
                   own>>

\* The guard's destructor, after the unlock by hand.
UnlockAgain(t) ==
    /\ place[t] = "unlock"
    /\ Unlock(t)
    /\ Goto(t, "out")
    /\ UNCHANGED <<size, table, created, events, epoll, m_pendingEventCount, call, ctx,
                   own>>

\* epoll_ctl: ADD wants an fd that is not watched, MOD and DEL one that is.
CtlOk(c, evs) ==
    IF c.op = "addEvent" THEN (epoll[c.fd] = {}) = (evs = {}) ELSE epoll[c.fd] # {}

\* The events left when the call is done.
After(c, evs) ==
    CASE c.op = "addEvent" -> evs \cup {c.e}
      [] c.op = "cancelAll" -> {}
      [] OTHER -> evs \ {c.e}

\* Mutant: events is not updated by delEvent and cancelEvent.
EffectEventsKept(t) ==
    /\ place[t] = "effect"
    /\ LET c == call[t]
           evs == events[ctx[t]]
           new == After(c, evs)
       IN  /\ epoll' = [epoll EXCEPT ![c.fd] = new]
           /\ events' = [events EXCEPT ![ctx[t]] = IF c.op = "addEvent" THEN new ELSE @]
           /\ m_pendingEventCount' =
                (m_pendingEventCount + Cardinality(new)) - Cardinality(evs)
           /\ own' = [u \in Threads |->
                        IF u = t /\ c.op = "addEvent" THEN own[u] \cup {<<c.fd, c.e>>}
                        ELSE own[u] \ ({c.fd} \X (evs \ new))]
           /\ Goto(t, "out")
    /\ Unlock(t)
    /\ UNCHANGED <<size, table, created, call, ctx>>

\* epoll_ctl, the count and the context, and the unlock.  When epoll_ctl fails
\* nothing else changes; cancelAll then unlocks by hand as well.
Effect(t) ==
    /\ place[t] = "effect"
    /\ LET c == call[t]
           evs == events[ctx[t]]
           new == After(c, evs)
       IN  IF CtlOk(c, evs)
             THEN /\ epoll' = [epoll EXCEPT ![c.fd] = new]
                  /\ events' = [events EXCEPT ![ctx[t]] = new]
                  /\ m_pendingEventCount' =
                       (m_pendingEventCount + Cardinality(new)) - Cardinality(evs)
                  /\ own' = [u \in Threads |->
                               IF u = t /\ c.op = "addEvent" THEN own[u] \cup {<<c.fd, c.e>>}
                               ELSE own[u] \ ({c.fd} \X (evs \ new))]
                  /\ Goto(t, "out")
             ELSE /\ Goto(t, IF c.op = "cancelAll" THEN "unlock" ELSE "out")
                  /\ UNCHANGED <<epoll, events, m_pendingEventCount, own>>
    /\ Unlock(t)
    /\ UNCHANGED <<size, table, created, call, ctx>>

FdNext ==
    \E t \in Threads :
        \/ Begin(t) \/ LookUp(t) \/ Grow(t) \/ Lock(t) \/ Check(t) \/ UnlockAgain(t)
        \/ Effect(t)

FdSpec == FdInit /\ [][FdNext]_fdVars

-----------------------------------------------------------------------------
(* Properties.                                                             *)

\* FdContext::mutex is the mutex of the events: between its lock and unlock
\* there is one thread at a time.
FdExclusive ==
    \A t, u \in Threads :
        /\ place[t] \in {"check", "effect"} /\ place[u] \in {"check", "effect"}
        /\ ctx[t] = ctx[u]
        => t = u

\* The pairs of a socket and an event that epoll watches.
Watched == {x \in Fds \X Events : x[2] \in epoll[x[1]]}

\* epoll watches exactly the events recorded in contexts, m_pendingEventCount (the
\* number of IO events waiting) is their number, and a context with registered events is
\* the one that the table holds for its socket, so that delEvent and cancelEvent find it.
EpollAgrees ==
    /\ \A fd \in Fds : epoll[fd] = UNION {events[c] : c \in {x \in Contexts : x[1] = fd}}
    /\ m_pendingEventCount = Cardinality(Watched)
    /\ \A c \in Contexts : events[c] # {} => c[1] < size /\ table[c[1]] = c[2]
=============================================================================
