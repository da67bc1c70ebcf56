-------------------------- MODULE IOManagerProofs ---------------------------
(***************************************************************************)
(* IOManager: m_pendingEventCount is exact, no fiber is lost and stop()    *)
(* waits for what was scheduled, for any number of threads, tasks and      *)
(* sockets.                                                                *)
(*                                                                         *)
(* The invariant IOInv speaks of the place of a thread: the point it is at,*)
(* or will go on from when it is inside tickle().  Every call of tickle()  *)
(* leaves the places alone, and so does every schedule().                  *)
(***************************************************************************)
EXTENDS IOManager, SchedulerInvariant

Running == {"fetch", "dispatch", "body", "swap", "post", "idle", "idleOut"}

Labels == Running \cup {"off", "exit", "created", "started", "stop", "join", "stopped"}

place == [p \in Procs |-> IF pc[p] = "tickle" THEN ret[p] ELSE pc[p]]

IOTypes ==
    /\ m_tasks \in Seq(ScheduleTask)
    /\ m_state \in [Tasks -> FiberState]
    /\ pc \in [Procs -> Labels \cup {"tickle"}]
    /\ ret \in [Procs -> Labels]
    /\ task \in [Procs -> Tasks \cup {NoTask}]
    /\ idleTerm \in [Procs -> BOOLEAN]
    /\ timers \subseteq Tasks
    /\ due \in [Procs -> SUBSET Tasks]
    /\ ctx \in [Fds -> [Events -> Tasks \cup {NoTask}]]

\* The events that are registered, and the threads that have still to count one
\* down.
Pending == {x \in Fds \X Events : ctx[x[1]][x[2]] # NoTask}
Owing == {p \in Procs : cancel[p].owe}

\* The mutex of a socket's context is held by one thread at most, and what its
\* holder has to trigger is registered.
EventInv ==
    /\ cancel \in [Procs -> [fd : Fds \cup {NoFd}, todo : SUBSET Events, owe : BOOLEAN]]
    /\ \A p \in Procs : cancel[p].fd = NoFd => cancel[p] = NoCancel
    /\ \A p, q \in Procs : cancel[p].fd \in Fds /\ cancel[p].fd = cancel[q].fd => p = q
    /\ \A p \in Procs : \A e \in cancel[p].todo : <<cancel[p].fd, e>> \in Pending
    /\ m_pendingEventCount = Cardinality(Pending) + Cardinality(Owing)

\* Where a thread can be and what it then holds.
PlaceInv ==
    /\ \A w \in Workers : place[w] \in Running \cup {"off", "exit"}
    /\ place[Caller] \in {"created", "started", "stop", "join", "stopped"}
                           \cup (IF UseCaller THEN Running ELSE {})
    /\ place[Caller] = "created" => \A w \in Workers : place[w] = "off"
    /\ m_stopping <=> place[Caller] \notin {"created", "started"}
    /\ \A p \in Procs : place[p] \in {"body", "swap", "post"} => task[p] # NoTask
    /\ \A p \in Procs :
            task[p] # NoTask => place[p] \in {"dispatch", "body", "swap", "post"}
    /\ \A p \in Procs : place[p] = "idle" => ~idleTerm[p]
    /\ \A p \in Procs : idleTerm[p] => m_stopping
    /\ \A w \in Workers : place[w] = "exit" => idleTerm[w]
    /\ UseCaller /\ place[Caller] \in {"join", "stopped"} => idleTerm[Caller]
    /\ place[Caller] = "stopped" => \A w \in Workers : place[w] = "exit"

\* A thread holds the task it has taken until the task ends or yields.
Holds(t, f) == task[t] = f /\ place[t] \in {"dispatch", "body"}

HeldInv ==
    \A f \in Tasks : m_state[f] \notin {"FREE", "TERM"} =>
        f \in InQueue \/ f \in Contexts \/ \E t \in Procs : Holds(t, f)

BusyInv == m_activeThreadCount = Cardinality(Busy)

\* The last idle fiber to end has seen an empty queue and no busy thread.
EndInv ==
    (\A t \in Threads : idleTerm[t]) =>
        m_tasks = <<>> /\ \A t \in Threads : task[t] = NoTask

IOInv == IOTypes /\ EventInv /\ PlaceInv /\ HeldInv /\ BusyInv /\ EndInv

-----------------------------------------------------------------------------
LEMMA WhoRunsIO ==
    ASSUME PlaceInv, NEW t \in Procs, place[t] \in Running
    PROVE  t \in Threads
  BY Zenon, SchedulerAssumption DEF PlaceInv, Threads, Procs, Running

\* A thread that goes to a label has its place there; a tickle() on the way
\* makes no difference.
LEMMA GotoPlace ==
    ASSUME IOTypes, NEW p \in Procs, NEW label \in Labels,
           \/ Goto(p, label) /\ UNCHANGED ret
           \/ \E needed \in BOOLEAN : GotoTickling(p, needed, label)
    PROVE  /\ place' = [place EXCEPT ![p] = label]
           /\ pc' \in [Procs -> Labels \cup {"tickle"}]
           /\ ret' \in [Procs -> Labels]
  <1>1. "tickle" \notin Labels
    BY Zenon DEF Labels, Running
  <1>2. CASE Goto(p, label) /\ UNCHANGED ret
    BY Zenon, <1>1, <1>2 DEF Goto, IOTypes, place
  <1>3. CASE \E needed \in BOOLEAN : GotoTickling(p, needed, label)
    <2>1. CASE GotoTickling(p, TRUE, label)
      BY Zenon, <1>1, <2>1 DEF GotoTickling, Goto, IOTypes, place
    <2>2. CASE GotoTickling(p, FALSE, label)
      BY ZenonT(60), <1>1, <2>2 DEF GotoTickling, Goto, IOTypes, place
    <2> QED
      BY Zenon, <1>3, <2>1, <2>2
  <1> QED
    BY Zenon, <1>2, <1>3

\* Taking the i-th entry of the queue.
LEMMA FetchedFacts ==
    ASSUME IOTypes, NEW t \in Procs, FetchTask(t)
    PROVE  \E i \in DOMAIN m_tasks, f \in Tasks :
             /\ f = m_tasks[i].fiber
             /\ task' = [task EXCEPT ![t] = f]
             /\ Removed(m_tasks, i, m_tasks')
  <1>1. PICK i \in Takeable(t) :
            /\ task' = [task EXCEPT ![t] = m_tasks[i].fiber]
            /\ m_tasks' = Erase(m_tasks, i)
    BY Zenon DEF FetchTask
  <1>2. i \in DOMAIN m_tasks
    BY Zenon, <1>1 DEF Takeable
  <1>3. m_tasks \in Seq(ScheduleTask)
    BY Zenon DEF IOTypes
  <1>4. m_tasks[i] \in ScheduleTask
    BY Zenon, <1>2, <1>3, LenProperties, ElementOfSeq
  <1>5. m_tasks[i].fiber \in Tasks
    BY Zenon, <1>4 DEF ScheduleTask
  <1>6. Removed(m_tasks, i, m_tasks')
    BY Zenon, <1>1, <1>2, <1>3, RemoveTask
  <1> QED
    BY Zenon, <1>1, <1>2, <1>5, <1>6

\* schedule() of a task by thread p, at one of its places.
LEMMA ScheduledFacts ==
    ASSUME IOTypes, NEW p \in Procs, pc[p] # "tickle", NEW f \in Tasks,
           NEW thread \in Threads \cup {AnyThread}, schedule(p, f, thread)
    PROVE  /\ m_tasks' \in Seq(ScheduleTask) /\ m_tasks' # <<>>
           /\ InQueue' = InQueue \cup {f}
           /\ place' = place
           /\ pc' \in [Procs -> Labels \cup {"tickle"}]
           /\ ret' \in [Procs -> Labels]
  <1> DEFINE e == [fiber |-> f, thread |-> thread]
             q == Append(m_tasks, e)
  <1>1. m_tasks \in Seq(ScheduleTask) /\ e \in ScheduleTask /\ m_tasks' = q
    BY Zenon, ScheduleType DEF IOTypes, schedule
  <1>2. e.fiber = f
    BY Zenon
  <1> HIDE DEF e
  <1>3. /\ q \in Seq(ScheduleTask) /\ DOMAIN q = 1..(Len(m_tasks) + 1)
        /\ DOMAIN m_tasks = 1..Len(m_tasks) /\ Len(m_tasks) \in Nat
        /\ \A j \in DOMAIN m_tasks : j \in DOMAIN q /\ q[j] = m_tasks[j]
        /\ q[Len(m_tasks) + 1] = e
        /\ \A j \in DOMAIN q : j \in DOMAIN m_tasks \/ j = Len(m_tasks) + 1
    BY Zenon, <1>1, AppendTask
  <1>4. q # <<>>
    BY <1>1, AppendProperties
  <1> HIDE DEF q
  <1>5. Len(m_tasks) + 1 \in DOMAIN q
    BY <1>3
  <1>6. {q[i].fiber : i \in DOMAIN q} = {m_tasks[i].fiber : i \in DOMAIN m_tasks} \cup {f}
    BY Zenon, <1>2, <1>3, <1>5
  <1>7. pc[p] \in Labels /\ place[p] = pc[p]
    BY Zenon DEF IOTypes, place
  <1>8. /\ place' = [place EXCEPT ![p] = pc[p]]
        /\ pc' \in [Procs -> Labels \cup {"tickle"}]
        /\ ret' \in [Procs -> Labels]
    <2>1. \E needed \in BOOLEAN : GotoTickling(p, needed, pc[p])
      BY Zenon DEF schedule
    <2> QED
      BY Zenon, <1>7, <2>1, GotoPlace
  <1>9. place' = place
    BY Zenon, <1>7, <1>8 DEF place
  <1> QED
    BY <1>1, <1>3, <1>4, <1>6, <1>8, <1>9 DEF InQueue

-----------------------------------------------------------------------------
(* What most steps leave alone.                                            *)

RestInv == PlaceInv /\ HeldInv /\ BusyInv /\ EndInv

LEMMA EventsSame ==
    ASSUME EventInv, UNCHANGED <<ctx, cancel, m_pendingEventCount>>
    PROVE  EventInv'
  BY Zenon DEF EventInv, Pending, Owing

\* A fiber that somebody holds, or that is queued or waits for an event, stays
\* with one of the three.
LEMMA HeldKept ==
    ASSUME HeldInv,
           \A f \in Tasks : m_state'[f] \notin {"FREE", "TERM"} =>
                m_state[f] \notin {"FREE", "TERM"} \/ f \in InQueue' \cup Contexts',
           InQueue \cup Contexts \subseteq InQueue' \cup Contexts',
           \A t \in Procs : \A f \in Tasks :
                Holds(t, f) => Holds(t, f)' \/ f \in InQueue' \cup Contexts'
                                 \/ m_state'[f] = "TERM"
    PROVE  HeldInv'
  <1> SUFFICES ASSUME NEW f \in Tasks, m_state'[f] \notin {"FREE", "TERM"},
                      f \notin InQueue', f \notin Contexts'
               PROVE  \E t \in Procs : Holds(t, f)'
    BY Zenon DEF HeldInv
  <1>1. PICK t \in Procs : Holds(t, f)
    BY Zenon DEF HeldInv
  <1> QED
    BY Zenon, <1>1

LEMMA QuietStep ==
    ASSUME RestInv, place' = place,
           UNCHANGED <<m_tasks, m_state, task, idleTerm, m_stopping, m_activeThreadCount>>,
           Contexts \subseteq Contexts' \cup {f \in Tasks : m_state[f] = "FREE"}
    PROVE  RestInv'
  <1>1. PlaceInv' /\ BusyInv' /\ EndInv'
    BY Zenon DEF RestInv, PlaceInv, BusyInv, EndInv, Busy
  <1>2. InQueue' = InQueue /\ \A t \in Procs, f \in Tasks : Holds(t, f) => Holds(t, f)'
    BY Zenon DEF InQueue, Holds
  <1>3. HeldInv'
    BY Zenon, <1>2 DEF RestInv, HeldInv
  <1> QED
    BY Zenon, <1>1, <1>3 DEF RestInv

\* schedule() of a task by a thread that runs one, by an idle fiber, or by the
\* owner before stop().
LEMMA ScheduleStep ==
    ASSUME IOTypes, RestInv, NEW p \in Procs, NEW f \in Tasks,
           place[p] \in {"body", "idle"} \/ place[Caller] = "started",
           place' = place, InQueue' = InQueue \cup {f},
           Contexts \subseteq Contexts' \cup {f},
           NEW state, m_state' = [m_state EXCEPT ![f] = state],
           UNCHANGED <<task, idleTerm, m_stopping, m_activeThreadCount>>
    PROVE  RestInv'
  <1>1. PlaceInv' /\ BusyInv'
    BY Zenon DEF RestInv, PlaceInv, BusyInv, Busy
  <1>2. HeldInv'
    <2>1. \A g \in Tasks : m_state'[g] # m_state[g] => g \in InQueue'
      BY Zenon DEF IOTypes
    <2>2. \A t \in Procs, g \in Tasks : Holds(t, g) => Holds(t, g)'
      BY Zenon DEF Holds
    <2> QED
      BY Zenon, <2>1, <2>2, HeldKept DEF RestInv
  <1>3. \E t \in Threads : ~idleTerm[t]
    <2>1. CASE place[Caller] = "started"
      BY Zenon, <2>1, SchedulerAssumption DEF RestInv, PlaceInv, Threads, Procs
    <2>2. CASE place[p] = "idle"
      BY Zenon, <2>2, WhoRunsIO DEF RestInv, PlaceInv, Running
    <2>3. CASE place[p] = "body"
      <3>1. p \in Threads /\ task[p] # NoTask
        BY Zenon, <2>3, WhoRunsIO DEF RestInv, PlaceInv, Running
      <3> QED
        BY Zenon, <3>1 DEF RestInv, EndInv
    <2> QED
      BY Zenon, <2>1, <2>2, <2>3
  <1>4. EndInv'
    BY Zenon, <1>3 DEF EndInv
  <1> QED
    BY Zenon, <1>1, <1>2, <1>4 DEF RestInv

\* A thread moves on and nothing else happens.
LEMMA MoveStep ==
    ASSUME IOTypes, RestInv, NEW p \in Procs, NEW label \in Labels,
           place' = [place EXCEPT ![p] = label],
           place[p] \in {"body", "dispatch"} =>
                \/ label \in {"body", "dispatch"}
                \/ task[p] = NoTask
                \/ task[p] \in InQueue \cup Contexts
                \/ m_state'[task[p]] = "TERM",
           \A f \in Tasks : m_state'[f] \notin {"FREE", "TERM"} =>
                m_state[f] \notin {"FREE", "TERM"} \/ f \in InQueue \cup Contexts,
           UNCHANGED <<m_tasks, task, idleTerm, m_activeThreadCount, ctx>>
    PROVE  HeldInv' /\ BusyInv' /\ EndInv'
  <1>1. BusyInv' /\ EndInv'
    BY Zenon DEF RestInv, BusyInv, EndInv, Busy
  <1>2. InQueue' = InQueue /\ Contexts' = Contexts
    BY DEF InQueue, Contexts
  <1>3. ASSUME NEW t \in Procs, NEW f \in Tasks, Holds(t, f)
        PROVE  Holds(t, f)' \/ f \in InQueue' \cup Contexts' \/ m_state'[f] = "TERM"
    <2>1. CASE t = p
      BY Zenon, <1>2, <1>3, <2>1, SchedulerAssumption DEF Holds, place
    <2>2. CASE t # p
      BY Zenon, <1>3, <2>2 DEF Holds, place
    <2> QED
      BY Zenon, <2>1, <2>2
  <1> QED
    BY Zenon, <1>1, <1>2, <1>3, HeldKept DEF RestInv

-----------------------------------------------------------------------------
LEMMA IOInvInit == IOInit => IOInv
  <1> SUFFICES ASSUME IOInit
               PROVE  IOInv
    BY Zenon
  <1> USE SchedulerAssumption, IOAssumption DEF IOInit, Init
  <1>1. IOTypes
    BY DEF IOTypes, FiberState, Labels, Running, Procs
  <1>2. place = [p \in Procs |-> IF p = Caller THEN "created" ELSE "off"]
    BY Zenon DEF place
  <1>3. PlaceInv
    BY Zenon, <1>2 DEF PlaceInv, Procs, Running
  <1>4. HeldInv
    BY Zenon DEF HeldInv
  <1>5. BusyInv /\ EndInv
    <2>1. Busy = {}
      BY Zenon DEF Busy, Threads, Procs
    <2>2. Threads \subseteq Procs
      BY Zenon DEF Threads, Procs
    <2> QED
      BY Zenon, <2>1, <2>2, FS_EmptySet DEF BusyInv, EndInv
  <1>6. EventInv
    <2>1. Pending = {} /\ Owing = {}
      BY Zenon DEF Pending, Owing, NoCancel
    <2> QED
      BY <2>1, FS_EmptySet DEF EventInv, NoCancel
  <1> QED
    BY Zenon, <1>1, <1>3, <1>4, <1>5, <1>6 DEF IOInv

LEMMA EventsFinite ==
    /\ IsFiniteSet(Pending) /\ IsFiniteSet(Owing)
    /\ Cardinality(Pending) \in Nat /\ Cardinality(Owing) \in Nat
  <1>1. Events = {"READ"} \cup {"WRITE"}
    BY Zenon DEF Events
  <1>2. IsFiniteSet(Events)
    BY ZenonT(60), <1>1, FS_Singleton, FS_Union
  <1>3. IsFiniteSet(Fds \X Events)
    BY Zenon, <1>2, IOAssumption, FS_Product
  <1>4. Pending \subseteq Fds \X Events /\ Owing \subseteq Procs
    BY Zenon DEF Pending, Owing
  <1>5. IsFiniteSet(Pending) /\ IsFiniteSet(Owing)
    BY Zenon, <1>3, <1>4, ThreadsFinite, FS_Subset
  <1> QED
    BY Zenon, <1>5, FS_CardinalityType

LEMMA AddEventStep ==
    ASSUME IOInv, NEW t \in Procs, addEvent(t)
    PROVE  EventInv' /\ ctx' \in [Fds -> [Events -> Tasks \cup {NoTask}]]
                     /\ Contexts \subseteq Contexts'
  <1>1. PICK fd \in Fds, e \in Events, f \in Tasks :
            Unlocked(fd) /\ ctx[fd][e] = NoTask /\ ctx' = [ctx EXCEPT ![fd][e] = f]
    BY Zenon DEF addEvent
  <1>2. ctx \in [Fds -> [Events -> Tasks \cup {NoTask}]] /\ EventInv /\ cancel' = cancel
    BY Zenon DEF addEvent, IOInv, IOTypes
  <1>3. ctx' \in [Fds -> [Events -> Tasks \cup {NoTask}]]
    BY Zenon, <1>1, <1>2
  <1>4. \A d \in Fds, c \in Events : ctx'[d][c] = IF d = fd /\ c = e THEN f ELSE ctx[d][c]
    BY Zenon, <1>1, <1>2
  <1>5. f # NoTask
    BY Zenon, SchedulerAssumption
  <1>6. Pending' = Pending \cup {<<fd, e>>} /\ <<fd, e>> \notin Pending
    BY <1>1, <1>4, <1>5 DEF Pending
  <1>7. Cardinality(Pending') = Cardinality(Pending) + 1
    BY ZenonT(60), <1>6, EventsFinite, FS_AddElement
  <1>8. EventInv'
    <2>1. Owing' = Owing
      BY Zenon, <1>2 DEF Owing
    <2>2. m_pendingEventCount' = Cardinality(Pending') + Cardinality(Owing')
      BY SMTT(30), <1>2, <1>7, <2>1, EventsFinite DEF EventInv, addEvent
    <2> QED
      BY Zenon, <1>2, <1>6, <2>2 DEF EventInv
  <1>9. Contexts \subseteq Contexts'
    BY <1>1, <1>4, <1>5 DEF Contexts
  <1> QED
    BY Zenon, <1>3, <1>8, <1>9

LEMMA DelEventStep ==
    ASSUME IOInv, NEW t \in Procs, delEvent(t)
    PROVE  /\ EventInv' /\ ctx' \in [Fds -> [Events -> Tasks \cup {NoTask}]]
           /\ Contexts \subseteq Contexts' \cup {f \in Tasks : m_state[f] = "FREE"}
  <1>1. PICK fd \in Fds, e \in Events :
            /\ ctx[fd][e] # NoTask /\ Unlocked(fd) /\ m_state[ctx[fd][e]] = "FREE"
            /\ ctx' = [ctx EXCEPT ![fd][e] = NoTask]
    BY Zenon DEF delEvent, Registered
  <1>2. ctx \in [Fds -> [Events -> Tasks \cup {NoTask}]] /\ EventInv /\ cancel' = cancel
    BY Zenon DEF delEvent, IOInv, IOTypes
  <1>3. ctx' \in [Fds -> [Events -> Tasks \cup {NoTask}]]
    BY Zenon, <1>1, <1>2
  <1>4. \A d \in Fds, c \in Events :
            ctx'[d][c] = IF d = fd /\ c = e THEN NoTask ELSE ctx[d][c]
    BY Zenon, <1>1, <1>2
  <1>5. Pending' = Pending \ {<<fd, e>>} /\ <<fd, e>> \in Pending
    BY <1>1, <1>4 DEF Pending
  <1>6. Cardinality(Pending') = Cardinality(Pending) - 1
    BY ZenonT(60), <1>5, EventsFinite, FS_RemoveElement
  <1>7. \A p \in Procs : cancel[p].fd # fd
    BY Zenon, <1>1 DEF Unlocked
  <1>8. \A p \in Procs : \A c \in cancel[p].todo : <<cancel[p].fd, c>> \in Pending'
    BY Zenon, <1>2, <1>5, <1>7 DEF EventInv
  <1>9. EventInv'
    <2>1. Owing' = Owing
      BY Zenon, <1>2 DEF Owing
    <2>2. m_pendingEventCount' = Cardinality(Pending') + Cardinality(Owing')
      BY <1>2, <1>6, <2>1, EventsFinite DEF EventInv, delEvent
    <2> QED
      BY Zenon, <1>2, <1>8, <2>2 DEF EventInv
  <1>10. Contexts \subseteq Contexts' \cup {f \in Tasks : m_state[f] = "FREE"}
    BY <1>1, <1>2, <1>4 DEF Contexts
  <1> QED
    BY Zenon, <1>3, <1>9, <1>10

LEMMA CancelBeginStep ==
    ASSUME IOInv, NEW t \in Procs, cancelBegin(t)
    PROVE  EventInv'
  <1>1. PICK fd \in Fds, todo \in SUBSET Events :
            /\ todo \subseteq Registered(fd) /\ Unlocked(fd)
            /\ cancel' = [cancel EXCEPT ![t] = [fd |-> fd, todo |-> todo, owe |-> FALSE]]
    BY ZenonT(60) DEF cancelBegin, Registered
  <1>2. EventInv /\ cancel[t] = NoCancel /\ ctx' = ctx
                 /\ m_pendingEventCount' = m_pendingEventCount
    BY Zenon DEF cancelBegin, IOInv, Calls
  <1>3. Pending' = Pending /\ \A c \in todo : <<fd, c>> \in Pending
    BY Zenon, <1>1, <1>2 DEF Pending, Registered
  <1>4. Owing' = Owing
    BY <1>1, <1>2 DEF Owing, EventInv, NoCancel
  <1>5. \A p \in Procs : cancel[p].fd # fd
    BY Zenon, <1>1 DEF Unlocked
  <1> QED
    BY Zenon, <1>1, <1>2, <1>3, <1>4, <1>5, IOAssumption DEF EventInv

LEMMA TriggerEventStep ==
    ASSUME IOInv, NEW t \in Procs, triggerEvent(t)
    PROVE  /\ EventInv' /\ ctx' \in [Fds -> [Events -> Tasks \cup {NoTask}]]
           /\ \E f \in Tasks : Hand(t, f) /\ Contexts \subseteq Contexts' \cup {f}
  <1> DEFINE fd == cancel[t].fd
  <1>1. PICK e \in cancel[t].todo :
            /\ Hand(t, ctx[fd][e]) /\ ctx' = [ctx EXCEPT ![fd][e] = NoTask]
            /\ cancel' = [cancel EXCEPT ![t].todo = @ \ {e}, ![t].owe = TRUE]
    BY ZenonT(60) DEF triggerEvent
  <1>2. ctx \in [Fds -> [Events -> Tasks \cup {NoTask}]] /\ EventInv
    BY Zenon DEF IOInv, IOTypes
  <1>3. <<fd, e>> \in Pending /\ ~cancel[t].owe
        /\ m_pendingEventCount' = m_pendingEventCount
    BY Zenon, <1>1, <1>2 DEF EventInv, triggerEvent
  <1>4. fd \in Fds /\ e \in Events /\ ctx[fd][e] # NoTask /\ ctx[fd][e] \in Tasks
    BY Zenon, <1>2, <1>3 DEF Pending
  <1>5. ctx' \in [Fds -> [Events -> Tasks \cup {NoTask}]]
    BY Zenon, <1>1, <1>2, <1>4
  <1>6. \A d \in Fds, c \in Events :
            ctx'[d][c] = IF d = fd /\ c = e THEN NoTask ELSE ctx[d][c]
    BY Zenon, <1>1, <1>2, <1>4
  <1>7. Pending' = Pending \ {<<fd, e>>}
    BY <1>4, <1>6 DEF Pending
  <1>8. Cardinality(Pending') = Cardinality(Pending) - 1
    BY ZenonT(60), <1>3, <1>7, EventsFinite, FS_RemoveElement
  <1>9. /\ cancel' \in [Procs -> [fd : Fds \cup {NoFd}, todo : SUBSET Events,
                                  owe : BOOLEAN]]
        /\ cancel'[t] = [fd |-> fd, todo |-> cancel[t].todo \ {e}, owe |-> TRUE]
        /\ \A p \in Procs : p # t => cancel'[p] = cancel[p]
    BY ZenonT(60), <1>1, <1>2 DEF EventInv
  <1>10. Owing' = Owing \cup {t} /\ t \notin Owing
    BY SMTT(30), <1>3, <1>9 DEF Owing
  <1>11. Cardinality(Owing') = Cardinality(Owing) + 1
    BY ZenonT(60), <1>10, EventsFinite, FS_AddElement
  <1>12. m_pendingEventCount' = Cardinality(Pending') + Cardinality(Owing')
    BY <1>2, <1>3, <1>8, <1>11, EventsFinite DEF EventInv
  <1>13. \A p \in Procs : \A c \in cancel'[p].todo : <<cancel'[p].fd, c>> \in Pending'
    <2>1. ASSUME NEW p \in Procs, p # t, NEW c \in cancel[p].todo
          PROVE  <<cancel[p].fd, c>> \in Pending /\ cancel[p].fd # fd
      BY Zenon, <1>2, <1>4, <2>1 DEF EventInv
    <2>2. ASSUME NEW c \in cancel[t].todo \ {e}
          PROVE  <<fd, c>> \in Pending
      BY Zenon, <1>2 DEF EventInv
    <2> QED
      BY SMTT(30), <1>7, <1>9, <2>1, <2>2
  <1>14. EventInv'
    <2>1. \A p \in Procs : cancel'[p].fd = cancel[p].fd
      BY SMTT(30), <1>9
    <2>2. \A p \in Procs : cancel'[p].fd = NoFd => cancel'[p] = NoCancel
      BY <1>2, <1>4, <1>9, IOAssumption DEF EventInv
    <2>3. \A p, q \in Procs : cancel'[p].fd \in Fds /\ cancel'[p].fd = cancel'[q].fd => p = q
      BY <1>2, <2>1 DEF EventInv
    <2> QED
      BY Zenon, <1>9, <1>12, <1>13, <2>2, <2>3 DEF EventInv, NoCancel
  <1>15. Contexts \subseteq Contexts' \cup {ctx[fd][e]}
    BY <1>4, <1>6 DEF Contexts
  <1> QED
    BY Zenon, <1>1, <1>4, <1>5, <1>14, <1>15

LEMMA CancelCountStep ==
    ASSUME IOInv, NEW t \in Procs, cancelCount(t)
    PROVE  EventInv'
  <1> DEFINE r == cancel[t]
  <1>1. /\ r.owe /\ m_pendingEventCount' = m_pendingEventCount - 1 /\ ctx' = ctx
        /\ cancel' = [cancel EXCEPT ![t] = IF r.todo = {} THEN NoCancel
                                           ELSE [r EXCEPT !.owe = FALSE]]
    BY Zenon DEF cancelCount
  <1>2. EventInv
    BY Zenon DEF IOInv
  <1>3. r.fd # NoFd
    BY <1>1, <1>2 DEF EventInv, NoCancel
  <1>4. /\ cancel' \in [Procs -> [fd : Fds \cup {NoFd}, todo : SUBSET Events,
                                  owe : BOOLEAN]]
        /\ cancel'[t] = NoCancel \/ cancel'[t] = [fd |-> r.fd, todo |-> r.todo, owe |-> FALSE]
        /\ \A p \in Procs : p # t => cancel'[p] = cancel[p]
    BY ZenonT(60), <1>1, <1>2 DEF EventInv, NoCancel
  <1>5. ~cancel'[t].owe
    BY SMTT(30), <1>4 DEF NoCancel
  <1>6. Owing' = Owing \ {t} /\ t \in Owing
    BY Zenon, <1>1, <1>4, <1>5 DEF Owing
  <1>7. Cardinality(Owing') = Cardinality(Owing) - 1
    BY Zenon, <1>6, EventsFinite, FS_RemoveElement
  <1>8. Pending' = Pending
    BY Zenon, <1>1 DEF Pending
  <1>9. m_pendingEventCount' = Cardinality(Pending') + Cardinality(Owing')
    <2>1. Cardinality(Owing') \in Nat
      BY Zenon, <1>6, EventsFinite, FS_RemoveElement, FS_CardinalityType
    <2> QED
      BY <1>1, <1>2, <1>7, <1>8, <2>1, EventsFinite DEF EventInv
  <1>10. \A p \in Procs : cancel'[p].fd = NoFd => cancel'[p] = NoCancel
    BY <1>2, <1>3, <1>4 DEF EventInv
  <1>11. \A p \in Procs : \A c \in cancel'[p].todo : <<cancel'[p].fd, c>> \in Pending'
    BY SMTT(30), <1>2, <1>4, <1>8 DEF EventInv, NoCancel
  <1>12. \A p, q \in Procs : cancel'[p].fd \in Fds /\ cancel'[p].fd = cancel'[q].fd => p = q
    <2>1. \A p \in Procs : cancel'[p].fd \in Fds => cancel'[p].fd = cancel[p].fd
      BY SMTT(30), <1>4, IOAssumption DEF NoCancel
    <2> QED
      BY Zenon, <1>2, <2>1 DEF EventInv
  <1> QED
    BY <1>4, <1>9, <1>10, <1>11, <1>12 DEF EventInv, NoCancel

-----------------------------------------------------------------------------
(* The steps, one by one.                                                  *)

\* Steps in which at most the place of a thread inside tickle(), the timers or
\* the sockets change.
LEMMA QuietKeeps ==
    ASSUME IOInv, place' = place,
           pc' \in [Procs -> Labels \cup {"tickle"}], ret' \in [Procs -> Labels],
           timers' \subseteq Tasks, due' \in [Procs -> SUBSET Tasks],
           UNCHANGED <<m_tasks, m_state, task, idleTerm, m_stopping, m_activeThreadCount,
                       ctx, cancel, m_pendingEventCount>>
    PROVE  IOInv'
  <1>1. IOTypes'
    BY Zenon DEF IOInv, IOTypes
  <1>2. EventInv'
    BY Zenon, EventsSame DEF IOInv
  <1>3. Contexts' = Contexts
    BY DEF Contexts
  <1>4. RestInv'
    BY Zenon, <1>3, QuietStep DEF IOInv, RestInv
  <1> QED
    BY Zenon, <1>1, <1>2, <1>4 DEF IOInv, RestInv

LEMMA IOTicklingKeeps ==
    ASSUME IOInv, NEW t \in Procs, Tickling(t)
    PROVE  IOInv'
  <1>1. IOTypes /\ pc[t] = "tickle" /\ ret[t] \in Labels /\ place[t] = ret[t]
    BY Zenon DEF IOInv, IOTypes, Tickling, TickleTest, TickleWrite, place
  <1>2. UNCHANGED <<m_tasks, m_state, task, idleTerm, m_stopping, m_activeThreadCount,
                    ctx, cancel, m_pendingEventCount, timers, due, ret>>
    BY Zenon DEF Tickling, TickleTest, TickleWrite
  <1>3. Goto(t, ret[t]) \/ UNCHANGED pc
    BY Zenon DEF Tickling, TickleTest, TickleWrite
  <1>4. /\ place' = place
        /\ pc' \in [Procs -> Labels \cup {"tickle"}] /\ ret' \in [Procs -> Labels]
    <2>1. CASE UNCHANGED pc
      BY Zenon, <1>1, <1>2, <2>1 DEF place, IOTypes
    <2>2. CASE Goto(t, ret[t])
      <3>1. /\ place' = [place EXCEPT ![t] = ret[t]]
            /\ pc' \in [Procs -> Labels \cup {"tickle"}] /\ ret' \in [Procs -> Labels]
        BY Zenon, <1>1, <1>2, <2>2, GotoPlace
      <3>2. place' = place
        BY ZenonT(60), <1>1, <3>1 DEF place
      <3> QED
        BY Zenon, <3>1, <3>2
    <2> QED
      BY Zenon, <1>3, <2>1, <2>2
  <1> QED
    BY Zenon, <1>1, <1>2, <1>4, QuietKeeps DEF IOTypes

\* A new task, or one that an event context, a timer or itself puts in the queue.
LEMMA ScheduleKeeps ==
    ASSUME IOInv, NEW p \in Procs, pc[p] \in {"body", "idle", "started"}, NEW f \in Tasks,
           NEW thread \in Threads \cup {AnyThread}, schedule(p, f, thread),
           NEW state \in FiberState, m_state' = [m_state EXCEPT ![f] = state],
           UNCHANGED <<task, idleTerm, m_stopping, m_activeThreadCount, timers>>,
           due' \in [Procs -> SUBSET Tasks],
           Contexts \subseteq Contexts' \cup {f},
           ctx' \in [Fds -> [Events -> Tasks \cup {NoTask}]],
           EventInv'
    PROVE  IOInv'
  <1>1. IOTypes /\ RestInv
    BY Zenon DEF IOInv, RestInv
  <1>2. /\ m_tasks' \in Seq(ScheduleTask)
        /\ InQueue' = InQueue \cup {f} /\ place' = place
        /\ pc' \in [Procs -> Labels \cup {"tickle"}]
        /\ ret' \in [Procs -> Labels]
    BY Zenon, <1>1, ScheduledFacts
  <1>3. IOTypes'
    BY Zenon, <1>1, <1>2 DEF IOTypes
  <1>4. place[p] \in {"body", "idle"} \/ place[Caller] = "started"
    <2>1. place[p] = pc[p]
      BY Zenon DEF place
    <2>2. p # Caller => place[p] # "started"
      BY Zenon, <1>1 DEF RestInv, PlaceInv, Procs, Running
    <2> QED
      BY Zenon, <2>1, <2>2
  <1>5. RestInv'
    BY Zenon, <1>1, <1>2, <1>4, ScheduleStep
  <1> QED
    BY Zenon, <1>3, <1>5 DEF IOInv, RestInv

\* Scheduler's own steps change nothing of the events.
LEMMA IOVarsSame ==
    ASSUME IOInv, UNCHANGED ioVars
    PROVE  /\ EventInv' /\ Contexts' = Contexts
           /\ ctx' = ctx /\ timers' = timers /\ due' = due
  BY EventsSame DEF IOInv, ioVars, Contexts

LEMMA ScheduleNewKeeps ==
    ASSUME IOInv, UNCHANGED ioVars, NEW p \in Procs, pc[p] \in {"body", "started"},
           \E f \in Tasks, thread \in Pins, kind \in {"NONE", "READY"} :
                ScheduleNew(p, f, thread, kind),
           UNCHANGED <<task, idleTerm, m_stopping, m_activeThreadCount>>
    PROVE  IOInv'
  <1>1. PICK f \in Tasks, thread \in Pins, kind \in {"NONE", "READY"} :
                ScheduleNew(p, f, thread, kind)
    BY Zenon
  <1>2. thread \in Threads \cup {AnyThread} /\ kind \in FiberState
    BY Zenon, SchedulerAssumption DEF FiberState
  <1>3. schedule(p, f, thread) /\ m_state' = [m_state EXCEPT ![f] = kind]
    BY Zenon, <1>1 DEF ScheduleNew
  <1> QED
    BY Zenon, <1>2, <1>3, IOVarsSame, ScheduleKeeps DEF IOInv, IOTypes

LEMMA HandKeeps ==
    ASSUME IOInv, NEW p \in Procs, pc[p] \in {"body", "idle"}, NEW f \in Tasks, Hand(p, f),
           UNCHANGED <<task, idleTerm, m_stopping, m_activeThreadCount, timers>>,
           due' \in [Procs -> SUBSET Tasks],
           Contexts \subseteq Contexts' \cup {f},
           ctx' \in [Fds -> [Events -> Tasks \cup {NoTask}]],
           EventInv'
    PROVE  IOInv'
  <1> DEFINE state == IF m_state[f] = "FREE" THEN "NONE" ELSE m_state[f]
  <1>1. schedule(p, f, AnyThread) /\ m_state' = [m_state EXCEPT ![f] = state]
    BY Zenon DEF Hand
  <1>2. state \in FiberState
    BY Zenon DEF IOInv, IOTypes, FiberState
  <1> HIDE DEF state
  <1> QED
    BY ZenonT(60), <1>1, <1>2, ScheduleKeeps

\* A thread inside run() goes from one of its points to another.
LEMMA RunMoves ==
    ASSUME PlaceInv, NEW p \in Procs, NEW label \in Running, place[p] \in Running,
           place' = [place EXCEPT ![p] = label], UNCHANGED m_stopping,
           \A q \in Procs : q # p => task'[q] = task[q] /\ idleTerm'[q] = idleTerm[q],
           label \in {"body", "swap", "post"} => task'[p] # NoTask,
           task'[p] # NoTask => label \in {"dispatch", "body", "swap", "post"},
           label = "idle" => ~idleTerm'[p],
           idleTerm'[p] => m_stopping
    PROVE  PlaceInv'
  <1>1. p \in Threads
    BY Zenon, WhoRunsIO
  <1>2. place'[p] = label /\ \A q \in Procs : q # p => place'[q] = place[q]
    BY ZenonT(60) DEF place
  <1>3. Workers \subseteq Procs /\ Caller \in Procs /\ Caller \notin Workers
        /\ (p = Caller => UseCaller)
    BY Zenon, <1>1, SchedulerAssumption DEF Procs, Threads
  <1>4. "off" \notin Running /\ "exit" \notin Running /\ "created" \notin Running
        /\ "started" \notin Running /\ "join" \notin Running /\ "stopped" \notin Running
    BY Zenon DEF Running
  <1>5. /\ \A w \in Workers : place'[w] \in Running \cup {"off", "exit"}
        /\ place'[Caller] \in {"created", "started", "stop", "join", "stopped"}
                           \cup (IF UseCaller THEN Running ELSE {})
        /\ place'[Caller] = "created" => \A w \in Workers : place'[w] = "off"
        /\ m_stopping' <=> place'[Caller] \notin {"created", "started"}
    BY SMTT(30), <1>2, <1>3, <1>4 DEF PlaceInv
  <1>6. /\ \A w \in Workers : place'[w] = "exit" => idleTerm'[w]
        /\ UseCaller /\ place'[Caller] \in {"join", "stopped"} => idleTerm'[Caller]
        /\ place'[Caller] = "stopped" => \A w \in Workers : place'[w] = "exit"
    BY SMTT(30), <1>2, <1>3, <1>4 DEF PlaceInv
  <1>7. /\ \A q \in Procs : place'[q] \in {"body", "swap", "post"} => task'[q] # NoTask
        /\ \A q \in Procs :
            task'[q] # NoTask => place'[q] \in {"dispatch", "body", "swap", "post"}
        /\ \A q \in Procs : place'[q] = "idle" => ~idleTerm'[q]
        /\ \A q \in Procs : idleTerm'[q] => m_stopping'
    BY SMTT(30), <1>2 DEF PlaceInv
  <1> QED
    BY Zenon, <1>5, <1>6, <1>7 DEF PlaceInv

\* Such a step that takes no task and ends no idle fiber.
LEMMA MoveKeeps ==
    ASSUME IOInv, NEW p \in Procs, NEW label \in Running, pc[p] \in Running,
           \/ Goto(p, label) /\ UNCHANGED ret
           \/ \E needed \in BOOLEAN : GotoTickling(p, needed, label),
           label \in {"body", "swap", "post"} => task[p] # NoTask,
           task[p] # NoTask => label \in {"dispatch", "body", "swap", "post"},
           label = "idle" => ~idleTerm[p],
           pc[p] \in {"body", "dispatch"} =>
                \/ label \in {"body", "dispatch"}
                \/ task[p] = NoTask
                \/ task[p] \in InQueue \cup Contexts
                \/ m_state'[task[p]] = "TERM",
           m_state' \in [Tasks -> FiberState],
           \A f \in Tasks : m_state'[f] \notin {"FREE", "TERM"} =>
                m_state[f] \notin {"FREE", "TERM"} \/ f \in InQueue \cup Contexts,
           UNCHANGED <<m_tasks, task, idleTerm, m_stopping, m_activeThreadCount, ctx, cancel,
                       m_pendingEventCount, timers, due>>
    PROVE  IOInv'
  <1>1. IOTypes /\ RestInv /\ EventInv
    BY Zenon DEF IOInv, RestInv
  <1>2. label \in Labels /\ place[p] = pc[p]
    BY Zenon DEF Labels, Running, place
  <1>3. /\ place' = [place EXCEPT ![p] = label]
        /\ pc' \in [Procs -> Labels \cup {"tickle"}]
        /\ ret' \in [Procs -> Labels]
    BY Zenon, <1>1, <1>2, GotoPlace
  <1>4. IOTypes'
    BY Zenon, <1>1, <1>3 DEF IOTypes
  <1>5. EventInv'
    BY Zenon, <1>1, EventsSame
  <1>6. PlaceInv'
    <2>1. idleTerm[p] => m_stopping
      BY Zenon, <1>1 DEF RestInv, PlaceInv
    <2> QED
      BY ZenonT(60), <1>1, <1>2, <1>3, <2>1, RunMoves DEF RestInv
  <1>7. HeldInv' /\ BusyInv' /\ EndInv'
    BY ZenonT(60), <1>1, <1>2, <1>3, MoveStep
  <1> QED
    BY Zenon, <1>4, <1>5, <1>6, <1>7 DEF IOInv

LEMMA FetchTaskKeeps ==
    ASSUME IOInv, NEW t \in Procs, FetchTask(t), UNCHANGED ioVars
    PROVE  IOInv'
  <1>1. IOTypes /\ PlaceInv /\ HeldInv /\ BusyInv /\ EndInv
    BY Zenon DEF IOInv
  <1>2. PICK i \in DOMAIN m_tasks, f \in Tasks :
             /\ f = m_tasks[i].fiber
             /\ task' = [task EXCEPT ![t] = f]
             /\ Removed(m_tasks, i, m_tasks')
    BY Zenon, <1>1, FetchedFacts
  <1>3. pc[t] = "fetch" /\ place[t] = "fetch" /\ task[t] = NoTask /\ t \in Threads
    <2>1. pc[t] = "fetch" /\ place[t] = "fetch"
      BY ZenonT(60) DEF FetchTask, place
    <2> QED
      BY Zenon, <1>1, <2>1, WhoRunsIO DEF PlaceInv, Running
  <1>4. \E needed \in BOOLEAN : GotoTickling(t, needed, "dispatch")
    BY ZenonT(60) DEF FetchTask
  <1>5. /\ place' = [place EXCEPT ![t] = "dispatch"]
        /\ pc' \in [Procs -> Labels \cup {"tickle"}]
        /\ ret' \in [Procs -> Labels]
    BY Zenon, <1>1, <1>4, GotoPlace DEF Labels, Running
  <1>6. /\ m_tasks' \in Seq(ScheduleTask) /\ task' \in [Procs -> Tasks \cup {NoTask}]
        /\ UNCHANGED <<m_stopping, m_state, idleTerm, ctx, cancel, m_pendingEventCount,
                       timers, due>>
        /\ m_activeThreadCount' = m_activeThreadCount + 1
    BY Zenon, <1>1, <1>2 DEF Removed, IOTypes, FetchTask, ioVars
  <1>7. IOTypes'
    BY Zenon, <1>1, <1>5, <1>6 DEF IOTypes
  <1>8. EventInv' /\ Contexts' = Contexts
    BY Zenon, IOVarsSame
  <1>9. PlaceInv'
    <2>1. idleTerm'[t] => m_stopping
      BY Zenon, <1>1, <1>6 DEF PlaceInv
    <2>2. "dispatch" \in Running /\ place[t] \in Running
      BY Zenon, <1>3 DEF Running
    <2>3. \A q \in Procs : q # t => task'[q] = task[q] /\ idleTerm'[q] = idleTerm[q]
      BY Zenon, <1>1, <1>2, <1>6 DEF IOTypes
    <2> QED
      BY ZenonT(60), <1>1, <1>5, <1>6, <2>1, <2>2, <2>3, RunMoves
  <1>10. BusyInv'
    <2>1. Threads \subseteq Procs /\ f # NoTask
      BY Zenon, <1>2, SchedulerAssumption DEF Threads, Procs
    <2>2. Busy' = Busy \cup {t} /\ t \notin Busy
      BY Zenon, <1>1, <1>2, <1>3, <2>1 DEF Busy, IOTypes
    <2>3. IsFiniteSet(Busy)
      BY Zenon, ThreadsFinite, FS_Subset DEF Busy
    <2> QED
      BY ZenonT(60), <1>1, <1>6, <2>2, <2>3, FS_AddElement DEF BusyInv
  <1>11. EndInv'
    <2>1. m_tasks # <<>>
      BY <1>2
    <2> QED
      BY Zenon, <1>1, <1>6, <2>1 DEF EndInv
  <1>12. HeldInv'
    <2>1. \A g \in InQueue : g \in InQueue' \/ g = f
      BY SMTT(30), <1>2 DEF Removed, InQueue
    <2>2. Holds(t, f)'
      BY Zenon, <1>1, <1>2, <1>5 DEF Holds, IOTypes, place
    <2>3. \A u \in Procs, g \in Tasks : Holds(u, g) => Holds(u, g)'
      BY ZenonT(60), <1>1, <1>2, <1>3, <1>5 DEF Holds, IOTypes, place
    <2> QED
      BY <1>1, <1>6, <1>8, <2>1, <2>2, <2>3 DEF HeldInv
  <1> QED
    BY <1>7, <1>8, <1>9, <1>10, <1>11, <1>12 DEF IOInv

LEMMA PostRunKeeps ==
    ASSUME IOInv, NEW t \in Procs, PostRun(t), UNCHANGED ioVars
    PROVE  IOInv'
  <1>1. IOTypes /\ PlaceInv /\ HeldInv /\ BusyInv /\ EndInv
    BY Zenon DEF IOInv
  <1>2. place[t] = "post"
    BY Zenon DEF PostRun, place
  <1>3. task[t] # NoTask /\ t \in Threads
    BY ZenonT(60), <1>1, <1>2, WhoRunsIO DEF PlaceInv, Running
  <1>4. /\ UNCHANGED <<m_tasks, m_stopping, m_state, idleTerm, ctx, cancel,
                       m_pendingEventCount, timers, due, ret>>
        /\ m_activeThreadCount' = m_activeThreadCount - 1
        /\ task' = [task EXCEPT ![t] = NoTask] /\ Goto(t, "fetch")
    BY Zenon DEF PostRun, ioVars
  <1>5. /\ place' = [place EXCEPT ![t] = "fetch"]
        /\ pc' \in [Procs -> Labels \cup {"tickle"}]
        /\ ret' \in [Procs -> Labels]
    BY Zenon, <1>1, <1>4, GotoPlace DEF Labels, Running
  <1>6. IOTypes'
    BY Zenon, <1>1, <1>4, <1>5 DEF IOTypes
  <1>7. EventInv' /\ Contexts' = Contexts
    BY Zenon, IOVarsSame
  <1>8. PlaceInv'
    <2>1. idleTerm'[t] => m_stopping
      BY Zenon, <1>1, <1>4 DEF PlaceInv
    <2>2. "fetch" \in Running /\ place[t] \in Running
      BY Zenon, <1>2 DEF Running
    <2>3. task'[t] = NoTask
          /\ \A q \in Procs : q # t => task'[q] = task[q] /\ idleTerm'[q] = idleTerm[q]
      BY Zenon, <1>1, <1>4 DEF IOTypes
    <2> QED
      BY ZenonT(60), <1>1, <1>4, <1>5, <2>1, <2>2, <2>3, RunMoves
  <1>9. BusyInv'
    <2>1. Threads \subseteq Procs
      BY Zenon, SchedulerAssumption DEF Threads, Procs
    <2>2. Busy' = Busy \ {t} /\ t \in Busy
      BY Zenon, <1>1, <1>3, <1>4, <2>1 DEF Busy, IOTypes
    <2>3. IsFiniteSet(Busy)
      BY Zenon, ThreadsFinite, FS_Subset DEF Busy
    <2> QED
      BY <1>1, <1>4, <2>2, <2>3, FS_RemoveElement DEF BusyInv
  <1>10. EndInv'
    BY Zenon, <1>1, <1>3, <1>4 DEF EndInv
  <1>11. HeldInv'
    <2>1. InQueue' = InQueue
      BY Zenon, <1>4 DEF InQueue
    <2>2. \A u \in Procs, g \in Tasks : Holds(u, g) => Holds(u, g)'
      BY ZenonT(60), <1>1, <1>2, <1>4, <1>5 DEF Holds, IOTypes, place
    <2> QED
      BY <1>1, <1>4, <1>7, <2>1, <2>2 DEF HeldInv
  <1> QED
    BY <1>6, <1>7, <1>8, <1>9, <1>10, <1>11 DEF IOInv

LEMMA RunKeeps ==
    ASSUME IOInv, NEW t \in Procs, IORun(t)
    PROVE  IOInv'
  <1>1. UNCHANGED ioVars
    BY Zenon DEF IORun
  <1>2. UNCHANGED <<ctx, cancel, m_pendingEventCount, timers, due>>
    BY Zenon, <1>1 DEF ioVars
  <1>3. IOTypes /\ PlaceInv /\ (pc[t] # "tickle" => place[t] = pc[t])
    BY Zenon DEF IOInv, place
  <1>4. CASE FetchTask(t)
    BY Zenon, <1>1, <1>4, FetchTaskKeeps
  <1>5. CASE PostRun(t)
    BY Zenon, <1>1, <1>5, PostRunKeeps
  <1>6. CASE FetchNone(t)
    <2>1. \E needed \in BOOLEAN : GotoTickling(t, needed, "dispatch")
      BY ZenonT(60), <1>6 DEF FetchNone
    <2>2. /\ pc[t] = "fetch" /\ UNCHANGED <<m_tasks, task, idleTerm, m_stopping, m_state,
                                            m_activeThreadCount>>
          /\ m_state \in [Tasks -> FiberState] /\ "dispatch" \in Running /\ pc[t] \in Running
      BY Zenon, <1>3, <1>6 DEF FetchNone, IOTypes, Running
    <2> QED
      BY Zenon, <1>2, <2>1, <2>2, MoveKeeps
  <1>7. CASE Resume(t)
    <2>1. /\ pc[t] = "dispatch" /\ task[t] # NoTask /\ Goto(t, "body")
          /\ UNCHANGED <<m_tasks, task, idleTerm, m_stopping, m_activeThreadCount, ret>>
          /\ m_state' = [m_state EXCEPT ![task[t]] = "RUNNING"]
          /\ m_state[task[t]] \in {"NONE", "READY"}
      BY ZenonT(60), <1>7 DEF Resume
    <2>2. m_state' \in [Tasks -> FiberState] /\ "body" \in Running /\ pc[t] \in Running
      BY Zenon, <1>3, <2>1 DEF IOTypes, FiberState, Running
    <2>3. \A f \in Tasks : m_state'[f] \notin {"FREE", "TERM"} =>
                m_state[f] \notin {"FREE", "TERM"}
      BY Zenon, <1>3, <2>1 DEF IOTypes
    <2> QED
      BY Zenon, <1>2, <2>1, <2>2, <2>3, MoveKeeps
  <1>8. CASE EnterIdle(t)
    <2>1. /\ pc[t] = "dispatch" /\ task[t] = NoTask /\ ~idleTerm[t] /\ Goto(t, "idle")
          /\ UNCHANGED <<m_tasks, task, idleTerm, m_stopping, m_activeThreadCount, ret,
                         m_state>>
      BY ZenonT(60), <1>8 DEF EnterIdle
    <2>2. m_state \in [Tasks -> FiberState] /\ "idle" \in Running /\ pc[t] \in Running
      BY Zenon, <1>3, <2>1 DEF IOTypes, Running
    <2> QED
      BY ZenonT(60), <1>2, <2>1, <2>2, MoveKeeps
  <1>9. CASE LeaveIdle(t)
    <2>1. /\ pc[t] = "idleOut" /\ Goto(t, "fetch")
          /\ UNCHANGED <<m_tasks, task, idleTerm, m_stopping, m_activeThreadCount, ret,
                         m_state>>
      BY Zenon, <1>9 DEF LeaveIdle
    <2>2. m_state \in [Tasks -> FiberState] /\ "fetch" \in Running /\ pc[t] \in Running
      BY Zenon, <1>3, <2>1 DEF IOTypes, Running
    <2>3. task[t] = NoTask
      BY Zenon, <1>3, <2>1 DEF PlaceInv
    <2> QED
      BY ZenonT(60), <1>2, <2>1, <2>2, <2>3, MoveKeeps
  <1>10. CASE Exit(t)
    <2> DEFINE label == IF t = Caller THEN "join" ELSE "exit"
    <2>1. /\ pc[t] = "dispatch" /\ task[t] = NoTask /\ idleTerm[t] /\ Goto(t, label)
          /\ UNCHANGED <<m_tasks, task, idleTerm, m_stopping, m_activeThreadCount, ret,
                         m_state>>
      BY Zenon, <1>10 DEF Exit
    <2>2. label \in Labels /\ place[t] = "dispatch"
      BY Zenon, <1>3, <2>1 DEF Labels
    <2>3. /\ place' = [place EXCEPT ![t] = label]
          /\ pc' \in [Procs -> Labels \cup {"tickle"}]
          /\ ret' \in [Procs -> Labels]
      BY Zenon, <1>3, <2>1, <2>2, GotoPlace
    <2>4. IOTypes'
      BY Zenon, <1>2, <1>3, <2>1, <2>3 DEF IOTypes
    <2>5. EventInv'
      BY Zenon, <1>1, IOVarsSame
    <2>6. HeldInv' /\ BusyInv' /\ EndInv'
      <3> HIDE DEF label
      <3> QED
        BY Zenon, <1>2, <2>1, <2>2, <2>3, MoveStep DEF IOInv, RestInv
    <2>7. PlaceInv'
      <3>1. place'[t] = label /\ \A q \in Procs : q # t => place'[q] = place[q]
        BY ZenonT(60), <2>3 DEF place
      <3>2. Workers \subseteq Procs /\ Caller \in Procs /\ Caller \notin Workers
            /\ (t # Caller => t \in Workers)
        BY Zenon, SchedulerAssumption DEF Procs
      <3> QED
        BY ZenonT(60), <1>3, <2>1, <2>2, <3>1, <3>2 DEF PlaceInv
    <2> QED
      BY Zenon, <2>4, <2>5, <2>6, <2>7 DEF IOInv
  <1> QED
    BY <1>4, <1>5, <1>6, <1>7, <1>8, <1>9, <1>10 DEF IORun

\* An idle fiber ends: when it is the last one, nothing is left to do.
LEMMA IdleStoppingKeeps ==
    ASSUME IOInv, NEW t \in Procs, IdleStopping(t)
    PROVE  IOInv'
  <1>1. IOTypes /\ RestInv /\ EventInv /\ place[t] = "idle"
    BY Zenon DEF IOInv, RestInv, IdleStopping, place
  <1>2. UNCHANGED <<m_tasks, m_state, task, m_stopping, m_activeThreadCount, ret,
                    ctx, cancel, m_pendingEventCount, timers, due>>
    BY Zenon DEF IdleStopping
  <1>3. CASE UNCHANGED <<pc, idleTerm>>
    BY <1>1, <1>2, <1>3, QuietKeeps DEF place, IOTypes
  <1>4. CASE stopping /\ idleTerm' = [idleTerm EXCEPT ![t] = TRUE] /\ Goto(t, "idleOut")
    <2>1. /\ place' = [place EXCEPT ![t] = "idleOut"]
          /\ pc' \in [Procs -> Labels \cup {"tickle"}]
          /\ ret' \in [Procs -> Labels]
      BY Zenon, <1>1, <1>2, <1>4, GotoPlace DEF Labels, Running
    <2>2. IOTypes'
      BY ZenonT(60), <1>1, <1>2, <1>4, <2>1 DEF IOTypes
    <2>3. EventInv' /\ Contexts' = Contexts
      BY <1>1, <1>2, EventsSame DEF Contexts
    <2>4. PlaceInv'
      <3>1. m_stopping /\ task'[t] = NoTask
        BY Zenon, <1>1, <1>2, <1>4 DEF stopping, RestInv, PlaceInv
      <3>2. "idleOut" \in Running /\ place[t] \in Running
        BY Zenon, <1>1 DEF Running
      <3>3. \A q \in Procs : q # t => task'[q] = task[q] /\ idleTerm'[q] = idleTerm[q]
        BY Zenon, <1>1, <1>2, <1>4 DEF IOTypes
      <3> QED
        BY ZenonT(60), <1>1, <1>2, <2>1, <3>1, <3>2, <3>3, RunMoves DEF RestInv
    <2>5. BusyInv'
      BY Zenon, <1>1, <1>2 DEF RestInv, BusyInv, Busy
    <2>6. HeldInv'
      <3>1. InQueue' = InQueue
        BY Zenon, <1>2 DEF InQueue
      <3>2. \A u \in Procs, g \in Tasks : Holds(u, g) => Holds(u, g)'
        BY ZenonT(60), <1>1, <1>2, <2>1 DEF Holds, place
      <3> QED
        BY <1>1, <1>2, <2>3, <3>1, <3>2 DEF RestInv, HeldInv
    <2>7. EndInv'
      <3>1. m_tasks = <<>> /\ m_activeThreadCount = 0
        BY Zenon, <1>4 DEF stopping
      <3>2. IsFiniteSet(Busy) /\ Cardinality(Busy) = 0
        BY <1>1, <3>1, ThreadsFinite, FS_Subset DEF RestInv, BusyInv, Busy
      <3>3. Busy = {}
        BY Zenon, <3>2, FS_EmptySet
      <3> QED
        BY Zenon, <1>2, <3>1, <3>3 DEF EndInv, Busy
    <2> QED
      BY <2>2, <2>3, <2>4, <2>5, <2>6, <2>7 DEF IOInv
  <1> QED
    BY Zenon, <1>3, <1>4 DEF IdleStopping

LEMMA IdleKeeps ==
    ASSUME IOInv, NEW t \in Procs, IOIdle(t)
    PROVE  IOInv'
  <1>1. IOTypes /\ PlaceInv /\ EventInv /\ pc[t] = "idle" /\ place[t] = "idle"
    BY ZenonT(60) DEF IOInv, place, IOIdle, IdlePending, IdleStopping, EpollWait, IdleSchedule, IdleYield
  <1>2. CASE IdlePending(t)
    <2>1. UNCHANGED <<pc, ret, m_tasks, m_state, task, idleTerm, m_stopping,
                      m_activeThreadCount, ctx, cancel, m_pendingEventCount, timers, due>>
      BY Zenon, <1>2 DEF IdlePending, vars
    <2> QED
      BY Zenon, <1>1, <2>1, QuietKeeps DEF IOTypes, place
  <1>3. CASE IdleStopping(t)
    BY Zenon, <1>3, IdleStoppingKeeps
  <1>4. CASE EpollWait(t)
    <2>1. UNCHANGED <<pc, ret, m_tasks, m_state, task, idleTerm, m_stopping,
                      m_activeThreadCount, ctx, cancel, m_pendingEventCount>>
      BY Zenon, <1>4 DEF EpollWait, vars
    <2>2. timers' \subseteq Tasks /\ due' \in [Procs -> SUBSET Tasks]
      BY ZenonT(60), <1>1, <1>4 DEF EpollWait, IOTypes
    <2> QED
      BY <1>1, <2>1, <2>2, QuietKeeps DEF IOTypes, place
  <1>5. CASE IdleSchedule(t)
    <2>1. PICK f \in due[t] : Hand(t, f) /\ due' = [due EXCEPT ![t] = @ \ {f}]
      BY ZenonT(60), <1>5 DEF IdleSchedule
    <2>2. f \in Tasks /\ due' \in [Procs -> SUBSET Tasks]
      BY Zenon, <1>1, <2>1 DEF IOTypes
    <2>3. UNCHANGED <<task, idleTerm, m_stopping, m_activeThreadCount, timers, ctx, cancel,
                      m_pendingEventCount>>
      BY Zenon, <1>5 DEF IdleSchedule
    <2>4. EventInv' /\ Contexts' = Contexts /\ ctx' \in [Fds -> [Events -> Tasks \cup {NoTask}]]
      BY SMTT(30), <1>1, <2>3, EventsSame DEF Contexts, IOTypes
    <2> QED
      BY ZenonT(60), <1>1, <2>1, <2>2, <2>3, <2>4, HandKeeps
  <1>6. CASE IdleYield(t)
    <2>1. /\ Goto(t, "idleOut")
          /\ UNCHANGED <<m_tasks, task, idleTerm, m_stopping, m_activeThreadCount, ret,
                         m_state, ctx, cancel, m_pendingEventCount, timers, due>>
      BY ZenonT(60), <1>6 DEF IdleYield
    <2>2. m_state \in [Tasks -> FiberState] /\ "idleOut" \in Running /\ pc[t] \in Running
      BY Zenon, <1>1 DEF IOTypes, Running
    <2>3. task[t] = NoTask
      BY ZenonT(60), <1>1 DEF PlaceInv
    <2> QED
      BY <1>1, <2>1, <2>2, <2>3, MoveKeeps
  <1> QED
    BY <1>2, <1>3, <1>4, <1>5, <1>6 DEF IOIdle

LEMMA BodyKeeps ==
    ASSUME IOInv, NEW t \in Procs, IOBody(t)
    PROVE  IOInv'
  <1>1. IOTypes /\ PlaceInv /\ (pc[t] # "tickle" => place[t] = pc[t])
    BY Zenon DEF IOInv, place
  <1>2. UNCHANGED ioVars /\ UNCHANGED <<ctx, cancel, m_pendingEventCount, timers, due>>
    BY Zenon DEF IOBody, Waits, ioVars
  <1>3. CASE BodySchedule(t)
    BY Zenon, <1>2, <1>3, ScheduleNewKeeps DEF BodySchedule
  <1>4. CASE BodyReschedule(t)
    <2>1. PICK p \in YieldPins : schedule(t, task[t], IF p = Own THEN t ELSE p)
      BY ZenonT(60), <1>4 DEF BodyReschedule
    <2> DEFINE thread == IF p = Own THEN t ELSE p
    <2>2. /\ pc[t] = "body" /\ m_state' = m_state
          /\ UNCHANGED <<task, idleTerm, m_stopping, m_activeThreadCount>>
      BY Zenon, <1>4 DEF BodyReschedule
    <2>3. t \in Threads /\ task[t] # NoTask /\ task[t] \in Tasks
      BY ZenonT(60), <1>1, <2>2, WhoRunsIO DEF PlaceInv, IOTypes, Running
    <2>4. thread \in Threads \cup {AnyThread}
      BY Zenon, <2>3, SchedulerAssumption
    <2>5. /\ m_state[task[t]] \in FiberState
          /\ m_state' = [m_state EXCEPT ![task[t]] = m_state[task[t]]]
      BY Zenon, <1>1, <2>2, <2>3 DEF IOTypes
    <2>6. EventInv' /\ Contexts' = Contexts /\ ctx' \in [Fds -> [Events -> Tasks \cup {NoTask}]]
          /\ due' \in [Procs -> SUBSET Tasks]
      BY Zenon, <1>1, <1>2, IOVarsSame DEF IOTypes
    <2> HIDE DEF thread
    <2>7. schedule(t, task[t], thread)
      BY Zenon, <2>1 DEF thread
    <2> QED
      BY ZenonT(60), <1>2, <2>2, <2>3, <2>4, <2>5, <2>6, <2>7, ScheduleKeeps
  <1>5. ASSUME pc[t] = "body", Goto(t, "swap"), NEW state \in FiberState \ {"FREE"},
               m_state' = [m_state EXCEPT ![task[t]] = state],
               state # "TERM" => task[t] \in InQueue \cup Contexts,
               UNCHANGED <<m_tasks, task, idleTerm, m_stopping, m_activeThreadCount, ret>>
        PROVE  IOInv'
    <2>1. task[t] # NoTask /\ task[t] \in Tasks
      BY Zenon, <1>1, <1>5 DEF PlaceInv, IOTypes
    <2>2. m_state' \in [Tasks -> FiberState] /\ "swap" \in Running /\ pc[t] \in Running
      BY Zenon, <1>1, <1>5, <2>1 DEF IOTypes, Running
    <2>3. m_state'[task[t]] = state
          /\ \A f \in Tasks : m_state'[f] \notin {"FREE", "TERM"} =>
                m_state[f] \notin {"FREE", "TERM"} \/ f \in InQueue \cup Contexts
      BY Zenon, <1>1, <1>5, <2>1 DEF IOTypes
    <2> QED
      BY ZenonT(60), <1>2, <1>5, <2>1, <2>2, <2>3, MoveKeeps
  <1>6. CASE MainFunc(t)
    BY ZenonT(60), <1>5, <1>6 DEF MainFunc, FiberState
  <1>7. CASE Yield(t)
    <2> DEFINE state == IF m_state[task[t]] = "TERM" THEN "TERM" ELSE "READY"
    <2>1. /\ pc[t] = "body" /\ Goto(t, "swap") /\ task[t] \in InQueue
          /\ UNCHANGED <<m_tasks, task, idleTerm, m_stopping, m_activeThreadCount, ret>>
          /\ m_state' = [m_state EXCEPT ![task[t]] = state]
      BY ZenonT(60), <1>7 DEF Yield, Queued, InQueue
    <2>2. state \in FiberState \ {"FREE"}
      BY Zenon DEF FiberState
    <2> HIDE DEF state
    <2> QED
      BY ZenonT(60), <1>5, <2>1, <2>2
  <1>8. CASE SwapOut(t)
    <2>1. /\ pc[t] = "swap" /\ Goto(t, "post")
          /\ UNCHANGED <<m_tasks, task, idleTerm, m_stopping, m_activeThreadCount, ret,
                         m_state>>
      BY Zenon, <1>8 DEF SwapOut
    <2>2. m_state \in [Tasks -> FiberState] /\ "post" \in Running /\ pc[t] \in Running
          /\ task[t] # NoTask
      BY Zenon, <1>1, <2>1 DEF IOTypes, Running, PlaceInv
    <2> QED
      BY Zenon, <1>2, <2>1, <2>2, MoveKeeps
  <1>9. CASE Waits(t)
    <2>1. /\ pc[t] = "body" /\ Goto(t, "swap") /\ task[t] \in Contexts
          /\ UNCHANGED <<m_tasks, task, idleTerm, m_stopping, m_activeThreadCount, ret>>
          /\ m_state' = [m_state EXCEPT ![task[t]] = "READY"]
      BY Zenon, <1>9 DEF Waits, Calls
    <2>2. "READY" \in FiberState \ {"FREE"}
      BY Zenon DEF FiberState
    <2> QED
      BY Zenon, <1>5, <2>1, <2>2
  <1> QED
    BY <1>3, <1>4, <1>6, <1>7, <1>8, <1>9 DEF IOBody

LEMMA CallsKeep ==
    ASSUME IOInv, NEW t \in Procs, IOCalls(t)
    PROVE  IOInv'
  <1>1. IOTypes /\ RestInv /\ EventInv
    BY Zenon DEF IOInv, RestInv
  <1>2. ASSUME EventInv', ctx' \in [Fds -> [Events -> Tasks \cup {NoTask}]],
               Contexts \subseteq Contexts' \cup {f \in Tasks : m_state[f] = "FREE"},
               UNCHANGED <<pc, ret, m_tasks, m_state, task, idleTerm, m_stopping,
                           m_activeThreadCount, timers, due>>
        PROVE  IOInv'
    <2>1. IOTypes' /\ place' = place
      BY Zenon, <1>1, <1>2 DEF IOTypes, place
    <2>2. RestInv'
      BY Zenon, <1>1, <1>2, <2>1, QuietStep
    <2> QED
      BY Zenon, <1>2, <2>1, <2>2 DEF IOInv, RestInv
  <1>3. CASE addEvent(t)
    <2>1. UNCHANGED <<pc, ret, m_tasks, m_state, task, idleTerm, m_stopping,
                      m_activeThreadCount, timers, due>>
      BY Zenon, <1>3 DEF addEvent
    <2> QED
      BY Zenon, <1>2, <1>3, <2>1, AddEventStep
  <1>4. CASE delEvent(t)
    <2>1. UNCHANGED <<pc, ret, m_tasks, m_state, task, idleTerm, m_stopping,
                      m_activeThreadCount, timers, due>>
      BY Zenon, <1>4 DEF delEvent, vars
    <2> QED
      BY Zenon, <1>2, <1>4, <2>1, DelEventStep
  <1>5. CASE cancelBegin(t) \/ cancelCount(t)
    <2>1. UNCHANGED <<pc, ret, m_tasks, m_state, task, idleTerm, m_stopping,
                      m_activeThreadCount, timers, due>> /\ ctx' = ctx
      BY Zenon, <1>5 DEF cancelBegin, cancelCount, vars
    <2>2. ctx \in [Fds -> [Events -> Tasks \cup {NoTask}]]
      BY Zenon, <1>1 DEF IOTypes
    <2>3. ctx' \in [Fds -> [Events -> Tasks \cup {NoTask}]]
      BY Zenon, <2>1, <2>2
    <2>4. Contexts' = Contexts
      <3>1. ctx' = ctx
        BY Zenon, <2>1
      <3> QED
        BY ONLY <3>1 DEF Contexts
    <2> QED
      BY <1>2, <1>5, <2>1, <2>3, <2>4, CancelBeginStep, CancelCountStep
  <1>6. CASE triggerEvent(t)
    <2>1. /\ UNCHANGED <<task, idleTerm, m_stopping, m_activeThreadCount, timers, due>>
          /\ pc[t] = "body" /\ due' \in [Procs -> SUBSET Tasks]
      BY Zenon, <1>1, <1>6 DEF triggerEvent, IOTypes
    <2> QED
      BY Zenon, <1>6, <2>1, TriggerEventStep, HandKeeps
  <1>7. CASE addTimer(t)
    <2>1. /\ UNCHANGED <<m_tasks, m_state, task, idleTerm, m_stopping, m_activeThreadCount,
                         ctx, cancel, m_pendingEventCount, due>>
          /\ pc[t] = "body" /\ timers' \subseteq Tasks
          /\ \E needed \in BOOLEAN : GotoTickling(t, needed, "body")
      BY ZenonT(60), <1>1, <1>7 DEF addTimer, Calls, IOTypes
    <2>2. /\ place' = [place EXCEPT ![t] = "body"]
          /\ pc' \in [Procs -> Labels \cup {"tickle"}]
          /\ ret' \in [Procs -> Labels]
      BY Zenon, <1>1, <2>1, GotoPlace DEF Labels, Running
    <2>3. place' = place
      BY ZenonT(60), <2>1, <2>2 DEF place
    <2> QED
      BY <1>1, <2>1, <2>2, <2>3, QuietKeeps DEF IOTypes
  <1> QED
    BY <1>3, <1>4, <1>5, <1>6, <1>7 DEF IOCalls

\* The owner, outside of run().
LEMMA MainKeeps ==
    ASSUME IOInv, IOMain
    PROVE  IOInv'
  <1>1. /\ IOTypes /\ RestInv /\ EventInv /\ (pc[Caller] # "tickle" => place[Caller] = pc[Caller])
        /\ Caller \in Procs /\ Workers \subseteq Procs /\ Caller \notin Workers
    BY Zenon, SchedulerAssumption DEF IOInv, RestInv, place, Procs
  <1>2. CASE IOSchedule
    BY ZenonT(60), <1>1, <1>2, ScheduleNewKeeps DEF IOSchedule, MainSchedule
  <1>3. CASE StopTickle
    <2>1. /\ UNCHANGED <<m_tasks, m_state, task, idleTerm, m_stopping, m_activeThreadCount,
                         ctx, cancel, m_pendingEventCount, timers, due>>
          /\ pc[Caller] = "stop"
          /\ \E needed \in BOOLEAN : GotoTickling(Caller, needed, "stop")
      BY ZenonT(60), <1>3 DEF StopTickle
    <2>2. /\ place' = [place EXCEPT ![Caller] = "stop"]
          /\ pc' \in [Procs -> Labels \cup {"tickle"}]
          /\ ret' \in [Procs -> Labels]
      BY Zenon, <1>1, <2>1, GotoPlace DEF Labels, Running
    <2>3. place' = place
      BY ZenonT(60), <1>1, <2>1, <2>2 DEF place
    <2> QED
      BY Zenon, <1>1, <2>1, <2>2, <2>3, QuietKeeps DEF IOTypes
  <1>4. ASSUME NEW label \in Labels, Goto(Caller, label),
               pc[Caller] \in {"started", "stop", "join"},
               place' = [place EXCEPT ![Caller] = label] => PlaceInv',
               UNCHANGED <<m_tasks, m_state, task, idleTerm, m_activeThreadCount, ret,
                           ctx, cancel, m_pendingEventCount, timers, due>>
        PROVE  IOInv'
    <2>1. /\ place' = [place EXCEPT ![Caller] = label]
          /\ pc' \in [Procs -> Labels \cup {"tickle"}]
          /\ ret' \in [Procs -> Labels]
      BY Zenon, <1>1, <1>4, GotoPlace
    <2>2. IOTypes' /\ EventInv'
      BY Zenon, <1>1, <1>4, <2>1, EventsSame DEF IOTypes
    <2>3. HeldInv' /\ BusyInv' /\ EndInv'
      BY ZenonT(60), <1>1, <1>4, <2>1, MoveStep
    <2> QED
      BY Zenon, <1>4, <2>1, <2>2, <2>3 DEF IOInv
  <1>5. CASE IOStop
    <2>1. /\ pc[Caller] = "started" /\ Goto(Caller, "stop") /\ m_stopping' = TRUE
          /\ UNCHANGED <<m_tasks, m_state, task, idleTerm, m_activeThreadCount, ret,
                         ctx, cancel, m_pendingEventCount, timers, due>>
      BY Zenon, <1>5 DEF IOStop
    <2>2. ASSUME place' = [place EXCEPT ![Caller] = "stop"]
          PROVE  PlaceInv'
      <3>1. place'[Caller] = "stop" /\ \A q \in Procs : q # Caller => place'[q] = place[q]
        BY ZenonT(60), <1>1, <2>2 DEF place
      <3> QED
        BY ZenonT(60), <1>1, <2>1, <3>1 DEF RestInv, PlaceInv
    <2> QED
      BY Zenon, <1>4, <2>1, <2>2 DEF Labels
  <1>6. CASE StopRun
    <2> DEFINE label == IF UseCaller THEN "fetch" ELSE "join"
    <2>1. /\ pc[Caller] = "stop" /\ Goto(Caller, label)
          /\ UNCHANGED <<m_tasks, m_state, task, idleTerm, m_stopping, m_activeThreadCount, ret,
                         ctx, cancel, m_pendingEventCount, timers, due>>
      BY Zenon, <1>6 DEF StopRun, ioVars
    <2>2. ASSUME place' = [place EXCEPT ![Caller] = label]
          PROVE  PlaceInv'
      <3>1. place'[Caller] = label /\ \A q \in Procs : q # Caller => place'[q] = place[q]
        BY ZenonT(60), <1>1, <2>2 DEF place
      <3>2. task[Caller] = NoTask
        BY Zenon, <1>1, <2>1 DEF RestInv, PlaceInv
      <3> QED
        BY ZenonT(60), <1>1, <2>1, <3>1, <3>2 DEF RestInv, PlaceInv, Running
    <2> QED
      BY Zenon, <1>4, <2>1, <2>2 DEF Labels, Running
  <1>7. CASE IOJoin
    <2>1. /\ pc[Caller] = "join" /\ Goto(Caller, "stopped") /\ \A w \in Workers : pc[w] = "exit"
          /\ UNCHANGED <<m_tasks, m_state, task, idleTerm, m_stopping, m_activeThreadCount, ret,
                         ctx, cancel, m_pendingEventCount, timers, due>>
      BY Zenon, <1>7 DEF IOJoin, Join, ioVars
    <2>2. ASSUME place' = [place EXCEPT ![Caller] = "stopped"]
          PROVE  PlaceInv'
      <3>1. place'[Caller] = "stopped" /\ \A q \in Procs : q # Caller => place'[q] = place[q]
        BY ZenonT(60), <1>1, <2>2 DEF place
      <3>2. task[Caller] = NoTask /\ \A w \in Workers : place[w] = "exit"
        BY Zenon, <1>1, <2>1 DEF RestInv, PlaceInv, place
      <3> QED
        BY ZenonT(60), <1>1, <2>1, <3>1, <3>2 DEF RestInv, PlaceInv
    <2> QED
      BY Zenon, <1>4, <2>1, <2>2 DEF Labels
  <1>8. CASE IOStart
    <2>1. /\ pc[Caller] = "created" /\ UNCHANGED ioVars
          /\ pc' = [p \in Procs |-> IF p = Caller THEN "started" ELSE "fetch"]
          /\ UNCHANGED <<m_tasks, m_state, task, idleTerm, m_stopping, m_activeThreadCount,
                         ret>>
      BY Zenon, <1>8 DEF IOStart, Start
    <2>2. place' = pc'
      BY Zenon, <2>1 DEF place
    <2>3. UNCHANGED <<ctx, cancel, m_pendingEventCount, timers, due>>
      BY Zenon, <2>1 DEF ioVars
    <2>4. IOTypes' /\ EventInv'
      BY Zenon, <1>1, <2>1, <2>3, EventsSame DEF IOTypes, Labels, Running
    <2>5. \A p \in Procs : place[p] \in {"created", "off"} /\ task[p] = NoTask
      BY ZenonT(60), <1>1, <2>1 DEF RestInv, PlaceInv, Procs
    <2>6. PlaceInv'
      BY ZenonT(60), <1>1, <2>1, <2>2, <2>5 DEF RestInv, PlaceInv, Running, Procs
    <2>7. BusyInv' /\ EndInv'
      BY Zenon, <1>1, <2>1 DEF RestInv, BusyInv, Busy, EndInv
    <2>8. InQueue' = InQueue /\ Contexts' = Contexts
          /\ \A p \in Procs, f \in Tasks : ~Holds(p, f)
      <3>1. ctx' = ctx
        BY Zenon, <2>3
      <3>2. m_tasks' = m_tasks
        BY Zenon, <2>1
      <3>3. Contexts' = Contexts
        BY ONLY <3>1 DEF Contexts
      <3>4. InQueue' = InQueue
        BY ONLY Zenon, <3>2 DEF InQueue
      <3>5. \A p \in Procs, f \in Tasks : ~Holds(p, f)
        BY Zenon, <2>5 DEF Holds
      <3> QED
        BY Zenon, <3>3, <3>4, <3>5
    <2>9. HeldInv'
      BY Zenon, <1>1, <2>1, <2>8 DEF RestInv, HeldInv
    <2> QED
      BY Zenon, <2>4, <2>6, <2>7, <2>9 DEF IOInv
  <1> QED
    BY <1>2, <1>3, <1>5, <1>6, <1>7, <1>8 DEF IOMain

LEMMA IOInvNext == IOInv /\ [IONext]_allVars => IOInv'
  <1> SUFFICES ASSUME IOInv, [IONext]_allVars
               PROVE  IOInv'
    BY Zenon
  <1>1. CASE UNCHANGED <<vars, ioVars>> \/ IOTerminated \/ FdReady
    <2>1. UNCHANGED <<pc, ret, m_tasks, m_state, task, idleTerm, m_stopping,
                      m_activeThreadCount, ctx, cancel, m_pendingEventCount, timers, due>>
      BY Zenon, <1>1 DEF IOTerminated, Terminated, FdReady, vars, ioVars
    <2> QED
      BY Zenon, <2>1, QuietKeeps DEF IOInv, IOTypes, place
  <1>2. CASE IOMain
    BY Zenon, <1>2, MainKeeps
  <1>3. ASSUME NEW t \in Procs,
               Tickling(t) \/ IORun(t) \/ IOIdle(t) \/ IOBody(t) \/ IOCalls(t)
        PROVE  IOInv'
    BY <1>3, IOTicklingKeeps, RunKeeps, IdleKeeps, BodyKeeps, CallsKeep
  <1> QED
    BY Zenon, <1>1, <1>2, <1>3 DEF IONext, allVars

LEMMA IOInvariance == IOSpec => []IOInv
  BY IOInvInit, IOInvNext, PTL DEF IOSpec

-----------------------------------------------------------------------------
\* m_pendingEventCount, which stopping() reads, is the number of registered
\* events and of those triggered but not counted down yet, however many threads
\* register, remove and cancel events on however many sockets.
THEOREM PendingCounted == IOSpec => []PendingExact
  <1>1. IOInv => PendingExact
    BY Zenon DEF IOInv, EventInv, PendingExact, Pending, Owing
  <1> QED
    BY <1>1, IOInvariance, PTL

\* The assertion of ~Fiber with events and timers: a fiber that has begun and not
\* ended is queued, waits in the context of an event, or is held by a thread.
THEOREM FibersKept == IOSpec => []NoFiberLost
  <1>1. ASSUME IOInv
        PROVE  NoFiberLost
    <2>1. ASSUME NEW t \in Procs, NEW f \in Tasks, Holds(t, f)
          PROVE  t \in Threads /\ task[t] = f
      BY <1>1, <2>1, WhoRunsIO DEF Holds, IOInv, Running
    <2> QED
      BY Zenon, <1>1, <2>1 DEF IOInv, HeldInv, NoFiberLost, Queued, InQueue
  <1> QED
    BY <1>1, IOInvariance, PTL

\* When stop() has returned, every task that was ever scheduled has ended, one
\* that an idle fiber scheduled for a timer late included; what is left waits
\* for an event.
THEOREM StopWaits == IOSpec => []StopWaitsForScheduled
  <1>1. ASSUME IOInv, pc[Caller] = "stopped", NEW f \in Tasks,
               m_state[f] \notin {"FREE", "TERM"}
        PROVE  f \in Contexts
    <2>1. place[Caller] = "stopped" /\ PlaceInv
      BY Zenon, <1>1, SchedulerAssumption DEF place, Procs, IOInv
    <2>2. \A t \in Threads : idleTerm[t]
      BY Zenon, <2>1, SchedulerAssumption DEF PlaceInv, Threads, Procs
    <2>3. m_tasks = <<>> /\ \A t \in Threads : task[t] = NoTask
      BY Zenon, <1>1, <2>2 DEF IOInv, EndInv
    <2>4. f \notin InQueue
      BY <2>3 DEF InQueue
    <2>5. ASSUME NEW t \in Procs, Holds(t, f)
          PROVE  FALSE
      <3>1. t \in Threads
        BY Zenon, <2>1, <2>5, WhoRunsIO DEF Holds, Running
      <3> QED
        BY Zenon, <2>3, <2>5, <3>1, SchedulerAssumption DEF Holds
    <2> QED
      BY Zenon, <1>1, <2>4, <2>5 DEF IOInv, HeldInv
  <1>2. IOInv => StopWaitsForScheduled
    BY Zenon, <1>1 DEF StopWaitsForScheduled
  <1> QED
    BY <1>2, IOInvariance, PTL
=============================================================================
