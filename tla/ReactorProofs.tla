--------------------------- MODULE ReactorProofs ---------------------------
(***************************************************************************)
(* Proofs about the timers of TimerManager and about the table of contexts *)
(* of FdContext, the two parts of IOManager besides the scheduling.        *)
(***************************************************************************)
EXTENDS FdContext, TimerManager, FiniteSetTheorems, TLAPS

-----------------------------------------------------------------------------
(* Words and maxima.                                                       *)

\* The sum of Timer's arithmetic is a number again, whether it wraps or not.
LEMMA AddType ==
    ASSUME NEW a \in Nat, NEW b \in Nat
    PROVE  Add(a, b) \in Nat
<1>1. Word \in Nat \ {0}
    BY TimerAssumption
<1>2. (a + b) % Word \in Nat
    BY <1>1
<1> QED BY Zenon, <1>2 DEF Add

\* The difference of detectClockRollover does not wrap when there is an hour to go back.
LEMMA SubExact ==
    ASSUME NEW a \in Nat, Hour <= a, a < Word
    PROVE  Sub(a, Hour) = a - Hour
<1>1. /\ Word \in Nat \ {0} /\ Hour \in Nat
    BY TimerAssumption
<1>2. a + Word - Hour = (a - Hour) + Word
    BY <1>1
<1>3. a - Hour \in 0..(Word - 1)
    BY <1>1
<1>4. \A k \in 0..(Word - 1) : (k + Word) % Word = k
    BY <1>1
<1> QED BY Zenon, <1>2, <1>3, <1>4 DEF Sub

\* Sub gives a number, too.
LEMMA SubType ==
    ASSUME NEW a \in Nat, NEW b \in Nat
    PROVE  Sub(a, b) \in Nat
<1>1. Word \in Nat \ {0}
    BY TimerAssumption
<1>2. a + Word - b \in Int
    BY <1>1
<1>3. (a + Word - b) % Word \in Nat
    BY <1>1, <1>2
<1> QED BY Zenon, <1>3 DEF Sub

\* Max of two numbers.
LEMMA MaxPair ==
    ASSUME NEW a \in Nat, NEW b \in Nat
    PROVE  /\ Max({a, b}) \in {a, b}
           /\ a <= Max({a, b}) /\ b <= Max({a, b})
<1>1. \E x \in {a, b} : \A y \in {a, b} : x >= y
  <2>1. CASE a <= b
      BY <2>1
  <2>2. CASE ~(a <= b)
      BY <2>2
  <2> QED BY Zenon, <2>1, <2>2
<1>2. /\ Max({a, b}) \in {a, b}
      /\ \A y \in {a, b} : Max({a, b}) >= y
    BY Zenon, <1>1 DEF Max
<1> QED BY Zenon, <1>2

-----------------------------------------------------------------------------
(* Timers.                                                                 *)

TimerType ==
    /\ now \in Boot..MaxTime
    /\ m_timers \in SUBSET Timers /\ m_cb \in SUBSET Timers /\ made \in SUBSET Timers
    /\ m_next \in [Timers -> Nat] /\ m_ms \in [Timers -> Nat]
    /\ m_recurring \in [Timers -> BOOLEAN]
    /\ armed \in [Timers -> Nat]
    /\ m_previouseTime \in Boot..now
    /\ pc \in [Idlers -> {"wait", "look", "list", "schedule"}]
    /\ stamp \in [Idlers -> Boot..now]
    /\ cbs \in [Idlers -> SUBSET Timers]

\* No idle thread stays in epoll_wait for longer than its timeout, nor works on with a
\* clock it has read for longer than Skew.
RoundsShort ==
    \A i \in Idlers : now <= stamp[i] + (IF pc[i] = "wait" THEN MAX_TIMEOUT ELSE Skew)

\* Timer x is due at time k less d at the earliest, or was armed then.
DueFrom(x, k, d) == k <= m_next[x] + d \/ k <= armed[x] + d

\* How late a timer of the set can be, seen from each place of an idle thread: when the
\* thread has listed, everything left is due after the time it read; each step from
\* there on costs what RoundsShort allows it.
DueAt(i, x) ==
    /\ pc[i] = "schedule" => DueFrom(x, stamp[i], 0)
    /\ pc[i] = "wait" => DueFrom(x, stamp[i], Skew)
    /\ pc[i] \in {"look", "list"} => DueFrom(x, stamp[i], Skew + MAX_TIMEOUT)

DueBounds == \A i \in Idlers, x \in m_timers : DueAt(i, x)

TimerInv == TimerType /\ RoundsShort /\ DueBounds

LEMMA TimerInvInit == Init => TimerInv
BY TimerAssumption DEF Init, TimerInv, TimerType, RoundsShort, DueBounds

LEMMA TimerTypeNext == TimerType /\ [Next]_vars => TimerType'
<1> SUFFICES ASSUME TimerType, [Next]_vars PROVE TimerType'
    BY Zenon
<1>0. Word \in Nat /\ Boot \in Nat /\ MaxTime \in Boot..(Word - 1) /\ Periods \subseteq Nat
    BY Zenon, TimerAssumption
<1>1. ASSUME NEW x \in Timers, addTimer(x) PROVE TimerType'
  <2>1. PICK ms \in Periods, recurring \in BOOLEAN, t \in Boot..now :
           /\ m_ms' = [m_ms EXCEPT ![x] = ms]
           /\ m_recurring' = [m_recurring EXCEPT ![x] = recurring]
           /\ m_next' = [m_next EXCEPT ![x] = Add(t, ms)]
      BY Zenon, <1>1 DEF addTimer
  <2>2. t \in Nat /\ ms \in Nat
      BY <1>0 DEF TimerType
  <2>3. Add(t, ms) \in Nat
      BY Zenon, <2>2, AddType
  <2> QED BY <1>0, <1>1, <2>1, <2>3 DEF TimerType, addTimer, Insert
<1>2. ASSUME NEW x \in Timers, cancel(x) PROVE TimerType'
    BY Zenon, <1>2 DEF TimerType, cancel
<1>3. ASSUME NEW x \in Timers, refresh(x) PROVE TimerType'
  <2>1. now \in Nat /\ m_ms[x] \in Nat
      BY <1>0 DEF TimerType
  <2>2. Add(now, m_ms[x]) \in Nat
      BY Zenon, <2>1, AddType
  <2> QED BY <1>0, <1>3, <2>2 DEF TimerType, refresh
<1>4. ASSUME NEW x \in Timers, reset(x) PROVE TimerType'
  <2>1. PICK ms \in Periods, from_now \in BOOLEAN :
           /\ m_ms' = [m_ms EXCEPT ![x] = ms]
           /\ m_next' = [m_next EXCEPT ![x] =
                           Add(IF from_now THEN now ELSE Sub(m_next[x], m_ms[x]), ms)]
      BY Zenon, <1>4 DEF reset
  <2>2. Sub(m_next[x], m_ms[x]) \in Nat
      BY Zenon, <1>0, SubType DEF TimerType
  <2>3. now \in Nat /\ ms \in Nat
      BY <1>0 DEF TimerType
  <2>4. Add(IF from_now THEN now ELSE Sub(m_next[x], m_ms[x]), ms) \in Nat
      BY Zenon, <2>2, <2>3, AddType
  <2> QED BY <1>0, <1>4, <2>1, <2>4 DEF TimerType, reset, Insert
<1>5. ASSUME NEW i \in Idlers, Wake(i) PROVE TimerType'
    BY <1>0, <1>5 DEF TimerType, Wake
<1>6. ASSUME NEW i \in Idlers, Look(i) PROVE TimerType'
    BY Zenon, <1>0, <1>6 DEF TimerType, Look
<1>7. ASSUME NEW i \in Idlers, listExpiredCb(i) PROVE TimerType'
  <2>1. \A x \in Timers : Add(stamp[i], m_ms[x]) \in Nat
    <3>1. stamp[i] \in Nat /\ \A x \in Timers : m_ms[x] \in Nat
        BY <1>0 DEF TimerType
    <3> QED BY Zenon, <3>1, AddType
  <2>2. Expired(stamp[i]) \subseteq m_timers
      BY Zenon DEF Expired
  <2> DEFINE again == {x \in Expired(stamp[i]) : m_recurring[x]}
  <2>3. /\ m_timers' = (m_timers \ Expired(stamp[i])) \cup again
        /\ m_cb' = m_cb \ (Expired(stamp[i]) \ again)
        /\ cbs' = [cbs EXCEPT ![i] = Expired(stamp[i])]
        /\ m_next' = [x \in Timers |-> IF x \in again THEN Add(stamp[i], m_ms[x])
                                        ELSE m_next[x]]
        /\ armed' = [x \in Timers |-> IF x \in again THEN now ELSE armed[x]]
        /\ m_previouseTime' \in {m_previouseTime, stamp[i]}
        /\ pc' = [pc EXCEPT ![i] = "schedule"]
        /\ UNCHANGED <<now, m_ms, m_recurring, made, stamp>>
      BY Zenon, <1>7 DEF listExpiredCb
  <2>4. again \subseteq Expired(stamp[i])
      BY Zenon
  <2> HIDE DEF again
  <2> QED BY <1>0, <2>1, <2>2, <2>3, <2>4 DEF TimerType
<1>8. ASSUME NEW i \in Idlers, Schedule(i) PROVE TimerType'
    BY <1>0, <1>8 DEF TimerType, Schedule
<1>9. CASE Tick
    BY <1>0, <1>9 DEF TimerType, Tick
<1>10. CASE UNCHANGED vars
    BY Zenon, <1>10 DEF TimerType, vars
<1> QED BY Zenon, <1>1, <1>2, <1>3, <1>4, <1>5, <1>6, <1>7, <1>8, <1>9, <1>10 DEF Next

\* What the clocks of the idle threads say stays true of a timer that is armed again.
LEMMA ArmedNow ==
    ASSUME TimerType, TimerType', NEW i \in Idlers, NEW x \in Timers,
           now' = now, pc'[i] = pc[i], stamp'[i] = stamp[i], armed'[x] = now
    PROVE  DueAt(i, x)'
BY TimerAssumption DEF TimerType, DueAt, DueFrom

\* ... and of one that is left alone.
LEMMA ArmedBefore ==
    ASSUME TimerType, NEW i \in Idlers, NEW x \in Timers, DueAt(i, x),
           pc'[i] = pc[i], stamp'[i] = stamp[i],
           armed'[x] = armed[x], m_next'[x] = m_next[x]
    PROVE  DueAt(i, x)'
BY Zenon DEF DueAt, DueFrom

LEMMA TimerInvNext == TimerInv /\ [Next]_vars => TimerInv'
<1> SUFFICES ASSUME TimerInv, [Next]_vars PROVE TimerInv'
    BY Zenon
<1>0. /\ TimerType /\ TimerType'
      /\ MAX_TIMEOUT \in Nat /\ Skew \in Nat /\ Boot \in Nat /\ MaxTime \in Nat
    BY TimerTypeNext, TimerAssumption DEF TimerInv
<1>a. /\ RoundsShort
      /\ \A i \in Idlers, x \in m_timers : DueAt(i, x)
    BY Zenon DEF TimerInv, DueBounds
<1>1. ASSUME NEW x \in Timers, addTimer(x) \/ refresh(x) \/ reset(x) PROVE TimerInv'
  <2>1. /\ UNCHANGED <<now, pc, stamp>>
        /\ m_timers' \subseteq m_timers \cup {x}
        /\ armed'[x] = now
        /\ \A y \in Timers \ {x} : armed'[y] = armed[y] /\ m_next'[y] = m_next[y]
      BY <1>0, <1>1 DEF TimerType, addTimer, refresh, reset, Insert
  <2>2. ASSUME NEW i \in Idlers, NEW y \in m_timers' PROVE DueAt(i, y)'
    <3>0. y \in Timers
        BY Zenon, <1>0 DEF TimerType
    <3>1. CASE y = x
        BY Zenon, <1>0, <2>1, <3>0, <3>1, ArmedNow
    <3>2. CASE y # x
        BY Zenon, <1>0, <1>a, <2>1, <3>0, <3>2, ArmedBefore
    <3> QED BY Zenon, <3>1, <3>2
  <2> QED BY Zenon, <1>0, <1>a, <2>1, <2>2 DEF TimerInv, RoundsShort, DueBounds
<1>2. ASSUME NEW x \in Timers, cancel(x) PROVE TimerInv'
    BY Zenon, <1>0, <1>2 DEF TimerInv, TimerType, RoundsShort, DueBounds, DueAt, DueFrom, cancel
<1>3. ASSUME NEW i \in Idlers, Wake(i) PROVE TimerInv'
  <2>1. RoundsShort'
      BY <1>0, <1>3, <1>a DEF TimerType, RoundsShort, Wake
  <2>2. ASSUME NEW j \in Idlers, NEW x \in m_timers PROVE DueAt(j, x)'
      BY <1>0, <1>3, <1>a DEF TimerType, RoundsShort, DueAt, DueFrom, Wake
  <2> QED BY Zenon, <1>0, <1>3, <2>1, <2>2 DEF TimerInv, DueBounds, Wake
<1>4. ASSUME NEW i \in Idlers, Look(i) PROVE TimerInv'
  <2>1. RoundsShort'
      BY Zenon, <1>0, <1>4, <1>a DEF TimerType, RoundsShort, Look
  <2>2. ASSUME NEW j \in Idlers, NEW x \in m_timers PROVE DueAt(j, x)'
      BY Zenon, <1>0, <1>4, <1>a DEF TimerType, RoundsShort, DueAt, DueFrom, Look
  <2> QED BY Zenon, <1>0, <1>4, <2>1, <2>2 DEF TimerInv, DueBounds, Look
<1>5. ASSUME NEW i \in Idlers, listExpiredCb(i) PROVE TimerInv'
  <2> DEFINE expired == Expired(stamp[i])
             again == {x \in expired : m_recurring[x]}
  <2>1. /\ m_timers' = (m_timers \ expired) \cup again
        /\ m_next' = [x \in Timers |-> IF x \in again THEN Add(stamp[i], m_ms[x])
                                        ELSE m_next[x]]
        /\ armed' = [x \in Timers |-> IF x \in again THEN now ELSE armed[x]]
        /\ pc[i] = "list" /\ pc' = [pc EXCEPT ![i] = "schedule"]
        /\ UNCHANGED <<now, stamp>>
      BY Zenon, <1>5 DEF listExpiredCb
  <2>2. expired \subseteq m_timers /\ again \subseteq expired
      BY Zenon DEF Expired
  <2>3. \A x \in m_timers \ expired : m_next[x] > stamp[i]
    <3>1. \A x \in m_timers \ expired : ~(m_next[x] <= stamp[i])
        BY Zenon DEF Expired
    <3> QED BY <1>0, <3>1 DEF TimerType
  <2> HIDE DEF expired, again
  <2>4. RoundsShort'
      BY Zenon, <1>0, <1>a, <2>1 DEF TimerType, RoundsShort
  <2>5. ASSUME NEW j \in Idlers, NEW x \in m_timers' PROVE DueAt(j, x)'
    <3>0. x \in Timers /\ x \in m_timers
        BY Zenon, <1>0, <2>1, <2>2 DEF TimerType
    <3>1. CASE j = i
        BY <1>0, <2>1, <2>2, <2>3, <3>0, <3>1 DEF TimerType, DueAt, DueFrom
    <3>2. CASE j # i /\ x \in again
        BY Zenon, <1>0, <2>1, <3>0, <3>2, ArmedNow DEF TimerType
    <3>3. CASE j # i /\ x \notin again
        BY Zenon, <1>0, <1>a, <2>1, <3>0, <3>3, ArmedBefore DEF TimerType
    <3> QED BY Zenon, <3>1, <3>2, <3>3
  <2> QED BY Zenon, <1>0, <2>4, <2>5 DEF TimerInv, DueBounds
<1>6. ASSUME NEW i \in Idlers, Schedule(i) PROVE TimerInv'
  <2>1. RoundsShort'
      BY <1>0, <1>6, <1>a DEF TimerType, RoundsShort, Schedule
  <2>2. ASSUME NEW j \in Idlers, NEW x \in m_timers PROVE DueAt(j, x)'
      BY <1>0, <1>6, <1>a DEF TimerType, RoundsShort, DueAt, DueFrom, Schedule
  <2> QED BY Zenon, <1>0, <1>6, <2>1, <2>2 DEF TimerInv, DueBounds, Schedule
<1>7. CASE Tick
  <2>1. RoundsShort'
      BY <1>0, <1>7 DEF TimerType, RoundsShort, Tick
  <2> QED BY Zenon, <1>0, <1>7, <1>a, <2>1 DEF TimerInv, DueBounds, DueAt, DueFrom, Tick
<1>8. CASE UNCHANGED vars
    BY Zenon, <1>0, <1>8, <1>a DEF TimerInv, RoundsShort, DueBounds, DueAt, DueFrom, vars
<1> QED BY Zenon, <1>1, <1>2, <1>3, <1>4, <1>5, <1>6, <1>7, <1>8 DEF Next

LEMMA TimerInvariance == Spec => []TimerInv
BY TimerInvInit, TimerInvNext, PTL DEF Spec

\* LateAtMost, for any number of idle threads, timers and periods: as long as a thread is
\* in IOManager::idle a timer waits for one timeout of epoll_wait and two rounds at most,
\* however timers are added, reset and cancelled and however the threads overtake each
\* other between the clock, the test and the list of listExpiredCb.
THEOREM TimersNotLate ==
    ASSUME Idlers # {}
    PROVE  Spec => []LateAtMost
<1>1. TimerInv => LateAtMost
  <2> SUFFICES ASSUME TimerInv, NEW x \in m_timers
               PROVE  now <= Max({m_next[x], armed[x]}) + MAX_TIMEOUT + 2 * Skew
      BY Zenon DEF LateAtMost
  <2>1. PICK i \in Idlers : TRUE
      BY Zenon
  <2>2. /\ TimerType /\ DueAt(i, x)
        /\ now <= stamp[i] + (IF pc[i] = "wait" THEN MAX_TIMEOUT ELSE Skew)
        /\ x \in Timers
      BY Zenon, <2>1 DEF TimerInv, TimerType, RoundsShort, DueBounds
  <2>3. /\ MAX_TIMEOUT \in Nat /\ Skew \in Nat /\ Boot \in Nat /\ MaxTime \in Nat
        /\ m_next[x] \in Nat /\ armed[x] \in Nat
        /\ now \in Nat /\ stamp[i] \in Nat
      BY <2>2, TimerAssumption DEF TimerType
  <2> DEFINE d == Max({m_next[x], armed[x]})
  <2>4. d \in Nat /\ m_next[x] <= d /\ armed[x] <= d
      BY Zenon, <2>3, MaxPair
  <2>5. pc[i] \in {"wait", "look", "list", "schedule"}
      BY Zenon, <2>2 DEF TimerType
  <2> HIDE DEF d
  <2>6. now <= d + MAX_TIMEOUT + 2 * Skew
      BY <2>2, <2>3, <2>4, <2>5 DEF DueAt, DueFrom
  <2> QED BY Zenon, <2>6 DEF d
<1> QED BY <1>1, TimerInvariance, PTL

\* DoneStaysDone: whatever the threads and the callers do, a timer that has been
\* cancelled, or has fired once and for all, is never in the set again.
THEOREM TimersStayDone == Spec => DoneStaysDone
<1>1. [Next]_vars => [\A x \in made : x \notin m_timers => x \notin m_timers']_vars
  <2> SUFFICES ASSUME Next, NEW x \in made, x \notin m_timers
               PROVE  x \notin m_timers'
      BY Zenon
  <2>1. ASSUME NEW y \in Timers, addTimer(y) \/ cancel(y) \/ refresh(y) \/ reset(y)
        PROVE  x \notin m_timers'
      BY Zenon, <2>1 DEF addTimer, cancel, refresh, reset, Insert
  <2>2. ASSUME NEW i \in Idlers, listExpiredCb(i) PROVE x \notin m_timers'
      BY Zenon, <2>2 DEF listExpiredCb, Expired
  <2>3. ASSUME NEW i \in Idlers, Wake(i) \/ Look(i) \/ Schedule(i)
        PROVE  x \notin m_timers'
      BY Zenon, <2>3 DEF Wake, Look, Schedule
  <2>4. CASE Tick
      BY Zenon, <2>4 DEF Tick
  <2> QED BY Zenon, <2>1, <2>2, <2>3, <2>4 DEF Next
<1> QED BY <1>1, PTL DEF Spec, DoneStaysDone

\* ExpiredExactly, when the machine has been up for an hour and no thread holds a time it
\* has read for that long: detectClockRollover then never mistakes a thread that was
\* overtaken for a clock that has been set back, and listExpiredCb takes exactly the
\* timers that are due.
THEOREM TimersExpireExactly ==
    ASSUME Hour <= Boot, Skew <= Hour
    PROVE  Spec => ExpiredExactly
<1>1. TimerInv /\ [Next]_vars =>
        [\A i \in Idlers :
          /\ \A x \in cbs'[i] \ cbs[i] : m_next[x] <= now
          /\ pc[i] = "list" /\ pc'[i] = "schedule" =>
               \A x \in m_timers' : m_next'[x] > stamp[i] \/ x \in cbs'[i]]_vars
  <2> SUFFICES ASSUME TimerInv, Next, NEW i \in Idlers
               PROVE  /\ \A x \in cbs'[i] \ cbs[i] : m_next[x] <= now
                      /\ pc[i] = "list" /\ pc'[i] = "schedule" =>
                           \A x \in m_timers' : m_next'[x] > stamp[i] \/ x \in cbs'[i]
      BY Zenon
  <2>0. /\ TimerType /\ RoundsShort
        /\ Hour \in Nat /\ Skew \in Nat /\ Boot \in Nat /\ MaxTime \in Nat
        /\ Word \in Nat /\ MaxTime < Word
      BY TimerAssumption DEF TimerInv
  <2>1. ASSUME NEW j \in Idlers, listExpiredCb(j), j = i
        PROVE  /\ \A x \in cbs'[i] \ cbs[i] : m_next[x] <= now
               /\ \A x \in m_timers' : m_next'[x] > stamp[i] \/ x \in cbs'[i]
    <3>1. /\ m_previouseTime \in Nat /\ Hour <= m_previouseTime
          /\ m_previouseTime < Word /\ m_previouseTime <= now
          /\ stamp[i] \in Nat /\ stamp[i] <= now /\ now \in Nat /\ now <= stamp[i] + Skew
        BY <2>0, <2>1 DEF TimerType, RoundsShort, listExpiredCb
    <3>2. Sub(m_previouseTime, Hour) = m_previouseTime - Hour
        BY Zenon, <3>1, SubExact
    <3>3. ~detectClockRollover(stamp[i])
        BY <2>0, <3>1, <3>2 DEF detectClockRollover
    <3> DEFINE expired == {x \in m_timers : m_next[x] <= stamp[i]}
               again == {x \in expired : m_recurring[x]}
    <3>4. Expired(stamp[i]) = expired
        BY Zenon, <3>3 DEF Expired
    <3>5. /\ cbs' = [cbs EXCEPT ![i] = expired]
          /\ m_timers' = (m_timers \ expired) \cup again
          /\ \A x \in Timers \ again : m_next'[x] = m_next[x]
        BY Zenon, <2>1, <3>4 DEF listExpiredCb
    <3>6. cbs'[i] = expired
        BY Zenon, <2>0, <3>5 DEF TimerType
    <3> QED BY <2>0, <3>1, <3>5, <3>6 DEF TimerType
  <2>2. ASSUME NEW j \in Idlers, listExpiredCb(j), j # i
        PROVE  cbs'[i] = cbs[i] /\ pc'[i] = pc[i]
      BY Zenon, <2>0, <2>2 DEF TimerType, listExpiredCb
  <2>3. ASSUME NEW j \in Idlers, Wake(j) \/ Look(j) \/ Schedule(j)
        PROVE  cbs'[i] \subseteq cbs[i] /\ ~(pc[i] = "list" /\ pc'[i] = "schedule")
      BY Zenon, <2>0, <2>3 DEF TimerType, Wake, Look, Schedule
  <2>4. ASSUME NEW x \in Timers, addTimer(x) \/ cancel(x) \/ refresh(x) \/ reset(x)
        PROVE  UNCHANGED <<cbs, pc>>
      BY Zenon, <2>4 DEF addTimer, cancel, refresh, reset
  <2>5. CASE Tick
      BY Zenon, <2>5 DEF Tick
  <2> QED BY Zenon, <2>1, <2>2, <2>3, <2>4, <2>5 DEF Next
<1> QED BY <1>1, TimerInvariance, PTL DEF Spec, ExpiredExactly

-----------------------------------------------------------------------------
(* The table of contexts.                                                  *)

Places == {"out", "look", "grow", "lock", "check", "effect", "unlock", "abort"}
WithContext == {"lock", "check", "effect", "unlock", "abort"}

FdType ==
    /\ size \in Nat
    /\ table \in [Fds -> {0, 1}]
    /\ events \in [Contexts -> SUBSET Events]
    /\ mutex \in [Contexts -> Threads \cup {Nobody}]
    /\ epoll \in [Fds -> SUBSET Events]
    /\ m_pendingEventCount \in Int
    /\ place \in [Threads -> Places]
    /\ call \in [Threads -> Call]
    /\ ctx \in [Threads -> Contexts]
    /\ own \in [Threads -> SUBSET (Fds \X Events)]

\* contextResize is called for a socket beyond the first size only.
GrowsBeyond ==
    /\ size >= InitSize
    /\ \A t \in Threads : place[t] = "grow" => call[t].fd >= InitSize

\* A socket inside the table has one context, its first.
OneContext ==
    /\ created = table
    /\ \A fd \in Fds : table[fd] = 1 <=> fd < size
    /\ \A t \in Threads :
         place[t] \in WithContext => ctx[t] = <<call[t].fd, 1>> /\ call[t].fd < size

\* It has the events that epoll watches; m_pendingEventCount counts them.
EventsExact ==
    /\ \A fd \in Fds : epoll[fd] = events[<<fd, 1>>]
    /\ \A fd \in Fds, k \in 1..MaxGen :
         events[<<fd, k>>] # {} => k = 1 /\ fd < size
    /\ IsFiniteSet(Watched)
    /\ m_pendingEventCount = Cardinality(Watched)

TableInv == FdType /\ GrowsBeyond /\ OneContext /\ EventsExact

\* A step of contextResize drops no context.
NoneDropped == \A fd \in Fds : fd < size => fd < size'

LEMMA TableInvInit == FdInit => TableInv
<1> SUFFICES ASSUME FdInit PROVE TableInv
    BY Zenon
<1>1. (CHOOSE c \in Call : TRUE) \in Call /\ (CHOOSE c \in Contexts : TRUE) \in Contexts
  <2>1. PICK fd \in Fds : TRUE
      BY Zenon, FdAssumption
  <2>2. [op |-> "addEvent", fd |-> fd, e |-> "READ"] \in Call
      BY Zenon, <2>1 DEF Call, Ops, Events
  <2>3. <<fd, 1>> \in Contexts
      BY <2>1, FdAssumption DEF Contexts
  <2> QED BY Zenon, <2>2, <2>3
<1>2. FdType
    BY <1>1, FdAssumption DEF FdInit, FdType, Places
<1>3. Watched = {}
    BY Zenon DEF FdInit, Watched
<1>4. IsFiniteSet({}) /\ Cardinality({}) = 0
    BY Zenon, FS_EmptySet
<1>5. \A fd \in Fds, k \in 1..MaxGen : events[<<fd, k>>] = {}
    BY Zenon DEF FdInit, Contexts
<1>6. \A fd \in Fds : events[<<fd, 1>>] = {}
  <2>1. 1 \in 1..MaxGen
      BY FdAssumption
  <2> QED BY Zenon, <1>5, <2>1
<1>7. GrowsBeyond /\ OneContext
    BY FdAssumption DEF FdInit, GrowsBeyond, OneContext, WithContext
<1> QED BY Zenon, <1>2, <1>3, <1>4, <1>5, <1>6, <1>7 DEF TableInv, EventsExact, FdInit

\* Steps that change neither the table nor the events.
TableFrame == UNCHANGED <<size, table, created, events, epoll, m_pendingEventCount>>

LEMMA EventsFrame ==
    ASSUME EventsExact, TableFrame
    PROVE  EventsExact'
BY Zenon DEF EventsExact, TableFrame, Watched

LEMMA EventsFinite == IsFiniteSet(Events)
<1>1. Events = {"READ"} \cup {"WRITE"}
    BY Zenon DEF Events
<1>2. IsFiniteSet({"READ"})
    BY Zenon, FS_Singleton
<1>3. IsFiniteSet({"READ"} \cup {"WRITE"})
    BY Zenon, <1>2, FS_AddElement
<1> QED BY Zenon, <1>1, <1>3

\* The count of what epoll watches after the events of one socket have changed.
LEMMA WatchedCount ==
    ASSUME FdType, FdType', NEW fd \in Fds, NEW new \in SUBSET Events,
           epoll' = [epoll EXCEPT ![fd] = new],
           IsFiniteSet(Watched), m_pendingEventCount = Cardinality(Watched)
    PROVE  /\ IsFiniteSet(Watched')
           /\ (m_pendingEventCount + Cardinality(new)) - Cardinality(epoll[fd])
                 = Cardinality(Watched')
<1> DEFINE rest == {x \in Fds \X Events : x[2] \in epoll[x[1]] /\ x[1] # fd}
           before == {fd} \X epoll[fd]
           after == {fd} \X new
<1>0. epoll[fd] \in SUBSET Events /\ epoll'[fd] = new /\ \A g \in Fds \ {fd} : epoll'[g] = epoll[g]
    BY Zenon DEF FdType
<1>1. IsFiniteSet(Events)
    BY Zenon, EventsFinite
<1>2. IsFiniteSet(new) /\ IsFiniteSet(epoll[fd]) /\ IsFiniteSet({fd}) /\ Cardinality({fd}) = 1
    BY Zenon, <1>0, <1>1, FS_Subset, FS_Singleton
<1>3. Cardinality(new) \in Nat /\ Cardinality(epoll[fd]) \in Nat
    BY Zenon, <1>2, FS_CardinalityType
<1>4. /\ IsFiniteSet(before) /\ Cardinality(before) = Cardinality(epoll[fd])
      /\ IsFiniteSet(after) /\ Cardinality(after) = Cardinality(new)
  <2>1. Cardinality(before) = 1 * Cardinality(epoll[fd]) /\ IsFiniteSet(before)
      BY <1>2, FS_Product
  <2>2. Cardinality(after) = 1 * Cardinality(new) /\ IsFiniteSet(after)
      BY <1>2, FS_Product
  <2> QED BY <1>3, <2>1, <2>2
<1>5. Watched = rest \cup before /\ rest \cap before = {}
    BY Zenon, <1>0 DEF Watched
<1>6. Watched' = rest \cup after /\ rest \cap after = {}
    BY Zenon, <1>0 DEF Watched
<1> HIDE DEF rest, before, after
<1>7. IsFiniteSet(rest) /\ Cardinality(rest) \in Nat
    BY <1>5, FS_Subset, FS_CardinalityType
<1>8. Cardinality(Watched) = Cardinality(rest) + Cardinality(before)
  <2>1. /\ IsFiniteSet(rest \cup before)
        /\ Cardinality(rest \cup before)
             = Cardinality(rest) + Cardinality(before) - Cardinality(rest \cap before)
      BY Zenon, <1>4, <1>7, FS_Union
  <2>2. Cardinality(rest \cap before) = 0
      BY Zenon, <1>5, FS_EmptySet
  <2>3. Cardinality(before) \in Nat
      BY Zenon, <1>4, FS_CardinalityType
  <2> QED BY <1>5, <1>7, <2>1, <2>2, <2>3
<1>9. IsFiniteSet(Watched') /\ Cardinality(Watched') = Cardinality(rest) + Cardinality(after)
  <2>1. /\ IsFiniteSet(rest \cup after)
        /\ Cardinality(rest \cup after)
             = Cardinality(rest) + Cardinality(after) - Cardinality(rest \cap after)
      BY Zenon, <1>4, <1>7, FS_Union
  <2>2. Cardinality(rest \cap after) = 0
      BY Zenon, <1>6, FS_EmptySet
  <2>3. Cardinality(after) \in Nat
      BY Zenon, <1>4, FS_CardinalityType
  <2> QED BY <1>6, <1>7, <2>1, <2>2, <2>3
<1> QED BY <1>3, <1>4, <1>7, <1>8, <1>9

\* The steps that leave the table alone, apart from Effect.
LEMMA TableInvSmallSteps ==
    ASSUME TableInv, NEW t \in Threads,
           Begin(t) \/ LookUp(t) \/ Lock(t) \/ Check(t) \/ UnlockAgain(t)
    PROVE  TableInv'
<1>0. FdType /\ GrowsBeyond /\ OneContext /\ EventsExact
    BY Zenon DEF TableInv
<1>a. \A fd \in Fds : <<fd, 1>> \in Contexts /\ fd \in Nat
    BY FdAssumption DEF Contexts
<1>b. \A c \in Call : c.fd \in Fds
    BY Zenon DEF Call
<1>1. CASE Begin(t)
  <2>1. FdType'
      BY <1>0, <1>1 DEF FdType, Begin, Goto, Places
  <2>2. GrowsBeyond' /\ OneContext'
      BY Zenon, <1>0, <1>1 DEF FdType, GrowsBeyond, OneContext, Begin, Goto, WithContext
  <2>3. EventsExact'
      BY Zenon, <1>0, <1>1, EventsFrame DEF Begin, TableFrame
  <2> QED BY Zenon, <2>1, <2>2, <2>3 DEF TableInv
<1>2. CASE LookUp(t)
  <2>0. call[t].fd \in Fds /\ call[t].fd \in Nat
      BY ZenonT(60), <1>0, <1>a, <1>b DEF FdType
  <2>1. CASE size > call[t].fd
    <3>1. table[call[t].fd] = 1
        BY Zenon, <1>0, <2>0, <2>1 DEF FdType, OneContext
    <3>2. /\ ctx' = [ctx EXCEPT ![t] = <<call[t].fd, 1>>]
          /\ place' = [place EXCEPT ![t] = "lock"]
          /\ UNCHANGED <<call, mutex, own>> /\ TableFrame
        BY Zenon, <1>2, <2>1, <3>1 DEF LookUp, Goto, TableFrame
    <3>3. FdType'
        BY Zenon, <1>0, <1>a, <2>0, <3>2 DEF FdType, TableFrame, Places
    <3>4. GrowsBeyond' /\ OneContext'
        BY Zenon, <1>0, <2>0, <2>1, <3>2 DEF FdType, GrowsBeyond, OneContext, TableFrame, WithContext
    <3> QED BY Zenon, <1>0, <3>2, <3>3, <3>4, EventsFrame DEF TableInv
  <2>2. CASE ~(size > call[t].fd)
    <3>1. /\ place' = [place EXCEPT ![t] = IF call[t].op = "addEvent" THEN "grow" ELSE "out"]
          /\ UNCHANGED <<call, mutex, own, ctx>> /\ TableFrame
        BY Zenon, <1>2, <2>2 DEF LookUp, Goto, TableFrame
    <3>2. FdType'
        BY Zenon, <1>0, <3>1 DEF FdType, TableFrame, Places
    <3>3. call[t].fd >= InitSize
        BY <1>0, <2>0, <2>2, FdAssumption DEF FdType, GrowsBeyond
    <3>4. GrowsBeyond' /\ OneContext'
        BY Zenon, <1>0, <3>1, <3>3 DEF FdType, GrowsBeyond, OneContext, TableFrame, WithContext
    <3> QED BY Zenon, <1>0, <3>1, <3>2, <3>4, EventsFrame DEF TableInv
  <2> QED BY Zenon, <2>1, <2>2
<1>3. CASE Lock(t)
  <2>1. FdType'
      BY Zenon, <1>0, <1>3 DEF FdType, Lock, Goto, Places
  <2>2. GrowsBeyond' /\ OneContext'
      BY Zenon, <1>0, <1>3 DEF FdType, GrowsBeyond, OneContext, Lock, Goto, WithContext
  <2>3. EventsExact'
      BY Zenon, <1>0, <1>3, EventsFrame DEF Lock, TableFrame
  <2> QED BY Zenon, <2>1, <2>2, <2>3 DEF TableInv
<1>4. CASE Check(t)
  <2>1. PICK next \in {"abort", "effect", "out", "unlock"} :
           /\ place' = [place EXCEPT ![t] = next]
           /\ mutex' = mutex \/ mutex' = [mutex EXCEPT ![ctx[t]] = Nobody]
      BY ZenonT(60), <1>4 DEF Check, Goto, Unlock
  <2>2. /\ UNCHANGED <<call, ctx, own>> /\ TableFrame
        /\ place[t] = "check"
      BY Zenon, <1>4 DEF Check, TableFrame
  <2>3. FdType'
      BY Zenon, <1>0, <2>1, <2>2 DEF FdType, TableFrame, Places
  <2>4. GrowsBeyond' /\ OneContext'
      BY Zenon, <1>0, <2>1, <2>2 DEF FdType, GrowsBeyond, OneContext, TableFrame, WithContext
  <2> QED BY Zenon, <1>0, <2>2, <2>3, <2>4, EventsFrame DEF TableInv
<1>5. CASE UnlockAgain(t)
  <2>1. FdType'
      BY Zenon, <1>0, <1>5 DEF FdType, UnlockAgain, Unlock, Goto, Places
  <2>2. GrowsBeyond' /\ OneContext'
      BY Zenon, <1>0, <1>5 DEF FdType, GrowsBeyond, OneContext, UnlockAgain, Goto, WithContext
  <2>3. EventsExact'
      BY Zenon, <1>0, <1>5, EventsFrame DEF UnlockAgain, TableFrame
  <2> QED BY Zenon, <2>1, <2>2, <2>3 DEF TableInv
<1> QED BY Zenon, <1>1, <1>2, <1>3, <1>4, <1>5

LEMMA TableInvGrow ==
    ASSUME TableInv, NEW t \in Threads, Grow(t), NoneDropped
    PROVE  TableInv'
<1>0. FdType /\ GrowsBeyond /\ OneContext /\ EventsExact
    BY Zenon DEF TableInv
<1>a. \A fd \in Fds : <<fd, 1>> \in Contexts /\ fd \in Nat
    BY FdAssumption DEF Contexts
<1> DEFINE fd == call[t].fd
           n == (fd * 3) \div 2
<1>1. fd \in Fds /\ fd \in Nat /\ fd >= 2 /\ fd >= InitSize
  <2>1. place[t] = "grow" /\ call[t] \in Call
      BY Zenon, <1>0 DEF Grow, FdType
  <2>2. fd \in Fds
      BY Zenon, <2>1 DEF Call
  <2>3. fd >= InitSize
      BY Zenon, <1>0, <2>1 DEF GrowsBeyond
  <2> HIDE DEF fd
  <2> QED BY <1>a, <2>2, <2>3, FdAssumption
<1>2. n \in Nat /\ fd < n /\ n >= InitSize
    BY SMTT(30), <1>1, FdAssumption
<1>3. /\ size' = n
      /\ table' = [g \in Fds |-> Resized(n, g)]
      /\ created' = [g \in Fds |-> Max({created[g], Resized(n, g)})]
      /\ ctx' = [ctx EXCEPT ![t] = <<fd, table'[fd]>>]
      /\ place' = [place EXCEPT ![t] = "lock"]
      /\ UNCHANGED <<events, mutex, epoll, m_pendingEventCount, call, own>>
    BY Zenon DEF Grow, Goto
<1> HIDE DEF n, fd
<1>4. ASSUME NEW g \in Fds
      PROVE  /\ Resized(n, g) = IF g < n THEN 1 ELSE 0
             /\ created[g] <= Resized(n, g) /\ created[g] \in Nat
  <2>1. table[g] \in {0, 1} /\ created[g] = table[g] /\ (table[g] = 1 <=> g < size) /\ g \in Nat
      BY Zenon, <1>0, <1>a DEF FdType, OneContext
  <2>2. g < size => g < n
      BY Zenon, <1>3 DEF NoneDropped
  <2> QED BY <1>2, <2>1, <2>2 DEF Resized
<1>5. \A g \in Fds : Max({created[g], Resized(n, g)}) = Resized(n, g)
  <2> SUFFICES ASSUME NEW g \in Fds PROVE Max({created[g], Resized(n, g)}) = Resized(n, g)
      BY Zenon
  <2>1. Resized(n, g) \in Nat
      BY <1>4
  <2> QED BY <1>4, <2>1, MaxPair
<1>6. created' = table' /\ table' \in [Fds -> {0, 1}] /\ \A g \in Fds : table'[g] = 1 <=> g < size'
    BY <1>3, <1>4, <1>5
<1>7. ctx' = [ctx EXCEPT ![t] = <<fd, 1>>]
    BY ZenonT(60), <1>1, <1>2, <1>3, <1>6
<1>8. FdType'
    BY <1>0, <1>1, <1>2, <1>3, <1>6, <1>7, <1>a DEF FdType, Places
<1>9. GrowsBeyond'
    BY Zenon, <1>0, <1>2, <1>3 DEF FdType, GrowsBeyond
<1>10. OneContext'
  <2> SUFFICES ASSUME NEW u \in Threads, place'[u] \in WithContext
               PROVE  ctx'[u] = <<call[u].fd, 1>> /\ call[u].fd < size'
      BY Zenon, <1>3, <1>6 DEF OneContext
  <2>1. CASE u = t
      BY Zenon, <1>0, <1>2, <1>3, <1>7, <2>1 DEF FdType, fd
  <2>2. CASE u # t
    <3>1. place[u] \in WithContext /\ ctx'[u] = ctx[u] /\ call[u].fd \in Fds
        BY Zenon, <1>0, <1>3, <1>7, <2>2 DEF FdType, Call
    <3> QED BY Zenon, <1>0, <3>1 DEF OneContext, NoneDropped
  <2> QED BY Zenon, <2>1, <2>2
<1>11. EventsExact'
  <2>1. Watched' = Watched
      BY Zenon, <1>3 DEF Watched
  <2> QED BY Zenon, <1>0, <1>3, <2>1 DEF EventsExact, NoneDropped
<1> QED BY Zenon, <1>8, <1>9, <1>10, <1>11 DEF TableInv

LEMMA TableInvEffect ==
    ASSUME TableInv, NEW t \in Threads, Effect(t)
    PROVE  TableInv'
<1>0. FdType /\ GrowsBeyond /\ OneContext /\ EventsExact
    BY Zenon DEF TableInv
<1> DEFINE c == call[t]
           evs == events[ctx[t]]
           new == After(c, evs)
<1>1. /\ c \in Call /\ c.fd \in Fds /\ c.e \in Events
      /\ ctx[t] = <<c.fd, 1>> /\ c.fd < size /\ ctx[t] \in Contexts
    BY Zenon, <1>0 DEF FdType, OneContext, Effect, WithContext, Call
<1>2. evs \in SUBSET Events /\ new \in SUBSET Events /\ evs = epoll[c.fd]
    BY Zenon, <1>0, <1>1 DEF FdType, EventsExact, After
<1>3. CASE ~CtlOk(c, evs)
  <2>1. /\ UNCHANGED <<epoll, events, m_pendingEventCount, own, size, table, created, call, ctx>>
        /\ mutex' = [mutex EXCEPT ![ctx[t]] = Nobody]
        /\ place' = [place EXCEPT ![t] = IF c.op = "cancelAll" THEN "unlock" ELSE "out"]
        /\ place[t] = "effect"
      BY ZenonT(60), <1>3 DEF Effect, Goto, Unlock
  <2>2. FdType'
      BY Zenon, <1>0, <2>1 DEF FdType, Places
  <2>3. GrowsBeyond' /\ OneContext'
      BY Zenon, <1>0, <2>1 DEF FdType, GrowsBeyond, OneContext, WithContext
  <2>4. EventsExact'
      BY Zenon, <1>0, <2>1, EventsFrame DEF TableFrame
  <2> QED BY Zenon, <2>2, <2>3, <2>4 DEF TableInv
<1>4. CASE CtlOk(c, evs)
  <2>1. /\ UNCHANGED <<size, table, created, call, ctx>>
        /\ mutex' = [mutex EXCEPT ![ctx[t]] = Nobody]
        /\ place' = [place EXCEPT ![t] = "out"]
        /\ place[t] = "effect"
        /\ epoll' = [epoll EXCEPT ![c.fd] = new]
        /\ events' = [events EXCEPT ![ctx[t]] = new]
        /\ m_pendingEventCount' =
              (m_pendingEventCount + Cardinality(new)) - Cardinality(evs)
        /\ own' = [u \in Threads |->
                     IF u = t /\ c.op = "addEvent" THEN own[u] \cup {<<c.fd, c.e>>}
                     ELSE own[u] \ ({c.fd} \X (evs \ new))]
      BY ZenonT(60), <1>4 DEF Effect, Goto, Unlock
  <2> HIDE DEF c, evs, new
  <2>a. IsFiniteSet(new) /\ IsFiniteSet(evs)
      BY Zenon, <1>2, EventsFinite, FS_Subset
  <2>b. Cardinality(new) \in Nat /\ Cardinality(evs) \in Nat
      BY Zenon, <2>a, FS_CardinalityType
  <2>2. own' \in [Threads -> SUBSET (Fds \X Events)]
      BY SMTT(30), <1>0, <1>1, <2>1 DEF FdType
  <2>3. FdType'
      BY SMTT(30), <1>0, <1>1, <1>2, <2>1, <2>2, <2>b DEF FdType, Places
  <2>4. GrowsBeyond' /\ OneContext'
      BY Zenon, <1>0, <2>1 DEF FdType, GrowsBeyond, OneContext, WithContext
  <2>5. IsFiniteSet(Watched') /\ m_pendingEventCount' = Cardinality(Watched')
      BY ZenonT(60), <1>0, <1>1, <1>2, <2>1, <2>3, WatchedCount DEF EventsExact
  <2>6. \A fd \in Fds : epoll'[fd] = events'[<<fd, 1>>]
    <3> SUFFICES ASSUME NEW fd \in Fds PROVE epoll'[fd] = events'[<<fd, 1>>]
        BY Zenon
    <3>1. <<fd, 1>> \in Contexts /\ (<<fd, 1>> = ctx[t] <=> fd = c.fd)
        BY <1>1, FdAssumption DEF Contexts
    <3>2. events'[<<fd, 1>>] = IF fd = c.fd THEN new ELSE events[<<fd, 1>>]
        BY Zenon, <1>0, <2>1, <3>1 DEF FdType
    <3>3. epoll'[fd] = IF fd = c.fd THEN new ELSE epoll[fd]
        BY Zenon, <1>0, <2>1 DEF FdType
    <3> QED BY Zenon, <1>0, <3>2, <3>3 DEF EventsExact
  <2>7. \A fd \in Fds, k \in 1..MaxGen : events'[<<fd, k>>] # {} => k = 1 /\ fd < size'
    <3> SUFFICES ASSUME NEW fd \in Fds, NEW k \in 1..MaxGen, events'[<<fd, k>>] # {}
                 PROVE  k = 1 /\ fd < size'
        BY Zenon
    <3>1. <<fd, k>> \in Contexts /\ size' = size
        BY Zenon, <2>1 DEF Contexts
    <3>2. CASE <<fd, k>> = ctx[t]
        BY <1>1, <3>1, <3>2
    <3>3. CASE <<fd, k>> # ctx[t]
      <4>1. events'[<<fd, k>>] = events[<<fd, k>>]
          BY Zenon, <1>0, <2>1, <3>1, <3>3 DEF FdType
      <4> QED BY Zenon, <1>0, <3>1, <4>1 DEF EventsExact
    <3> QED BY Zenon, <3>2, <3>3
  <2> QED BY Zenon, <2>3, <2>4, <2>5, <2>6, <2>7 DEF TableInv, EventsExact
<1> QED BY Zenon, <1>3, <1>4

LEMMA TableInvNext == TableInv /\ [FdNext]_fdVars /\ [NoneDropped]_fdVars => TableInv'
<1> SUFFICES ASSUME TableInv, [FdNext]_fdVars, [NoneDropped]_fdVars PROVE TableInv'
    BY Zenon
<1>1. CASE UNCHANGED fdVars
    BY Zenon, <1>1 DEF TableInv, FdType, GrowsBeyond, OneContext, EventsExact, Watched, fdVars
<1>2. ASSUME NEW t \in Threads, Grow(t) PROVE TableInv'
  <2>1. CASE UNCHANGED fdVars
      BY Zenon, <1>1, <2>1
  <2>2. CASE NoneDropped
      BY Zenon, <1>2, <2>2, TableInvGrow
  <2> QED BY Zenon, <2>1, <2>2
<1>3. ASSUME NEW t \in Threads,
             \/ Begin(t) \/ LookUp(t) \/ Lock(t) \/ Check(t) \/ UnlockAgain(t)
             \/ Effect(t)
      PROVE  TableInv'
    BY Zenon, <1>3, TableInvSmallSteps, TableInvEffect
<1> QED BY Zenon, <1>1, <1>2, <1>3 DEF FdNext

LEMMA TableInvAgrees == TableInv => EpollAgrees
<1> SUFFICES ASSUME TableInv PROVE EpollAgrees
    BY Zenon
<1>0. FdType /\ OneContext /\ EventsExact
    BY Zenon DEF TableInv
<1>1. ASSUME NEW fd \in Fds
      PROVE  epoll[fd] = UNION {events[c] : c \in {x \in Contexts : x[1] = fd}}
  <2>1. \A c \in Contexts : c[1] = fd => c = <<fd, c[2]>> /\ c[2] \in 1..MaxGen
      BY DEF Contexts
  <2>2. \A c \in Contexts : c[1] = fd /\ events[c] # {} => c = <<fd, 1>>
      BY <1>0, <2>1 DEF EventsExact
  <2>3. <<fd, 1>> \in Contexts /\ <<fd, 1>>[1] = fd
      BY FdAssumption DEF Contexts
  <2>4. epoll[fd] = events[<<fd, 1>>]
      BY Zenon, <1>0 DEF EventsExact
  <2> QED BY <2>2, <2>3, <2>4
<1>2. ASSUME NEW c \in Contexts, events[c] # {}
      PROVE  c[1] < size /\ table[c[1]] = c[2]
  <2>1. c = <<c[1], c[2]>> /\ c[1] \in Fds /\ c[2] \in 1..MaxGen
      BY DEF Contexts
  <2>2. c[2] = 1 /\ c[1] < size
      BY Zenon, <1>0, <1>2, <2>1 DEF EventsExact
  <2> QED BY Zenon, <1>0, <2>1, <2>2 DEF OneContext
<1> QED BY Zenon, <1>0, <1>1, <1>2 DEF EpollAgrees, EventsExact

\* EpollAgrees, for any number of threads and sockets: in every run in which contextResize
\* drops no context, however the threads interleave between the look under the read lock,
\* the growth under the write lock and the context's mutex, and whatever they delete and
\* cancel, epoll, the contexts and m_pendingEventCount agree.
THEOREM EventsAgreeWhileTableGrows ==
    FdSpec /\ [][NoneDropped]_fdVars => []EpollAgrees
BY TableInvInit, TableInvNext, TableInvAgrees, PTL DEF FdSpec

\* Every socket number is below the size that contextResize chooses for any socket
\* beyond the first table: with a table of 32, numbers up to 47.
SmallNumbers == \A f, g \in Fds : g >= InitSize => f < (g * 3) \div 2

LEMMA SmallNumbersDropNone ==
    ASSUME SmallNumbers, TableInv, [FdNext]_fdVars
    PROVE  [NoneDropped]_fdVars
<1>1. ASSUME NEW t \in Threads, Grow(t) PROVE NoneDropped
  <2>1. call[t].fd >= InitSize /\ call[t].fd \in Fds /\ size' = (call[t].fd * 3) \div 2
      BY Zenon, <1>1 DEF TableInv, FdType, GrowsBeyond, Grow, Call
  <2> QED BY Zenon, <2>1 DEF NoneDropped, SmallNumbers
<1>2. ASSUME NEW t \in Threads, ~Grow(t),
             \/ Begin(t) \/ LookUp(t) \/ Lock(t) \/ Check(t) \/ UnlockAgain(t)
             \/ Effect(t)
      PROVE  size' = size
    BY Zenon, <1>2 DEF Begin, LookUp, Lock, Check, UnlockAgain, Effect
<1>3. size' = size => NoneDropped
    BY Zenon DEF NoneDropped
<1> QED BY Zenon, <1>1, <1>2, <1>3 DEF FdNext

\* EpollAgrees without a condition on the run, as long as the process has few sockets.
THEOREM EventsAgreeWithFewSockets ==
    ASSUME SmallNumbers
    PROVE  FdSpec => []EpollAgrees
<1>1. TableInv /\ [FdNext]_fdVars => TableInv'
    BY Zenon, TableInvNext, SmallNumbersDropNone
<1> QED BY <1>1, TableInvInit, TableInvAgrees, PTL DEF FdSpec

-----------------------------------------------------------------------------
(* The mutex of a context.                                                 *)

InCall(t) == place[t] # "out"

\* A thread in a call works on a socket it uses.  One that is about to unlock a second
\* time may have nobody beside it.
CallsAllowed ==
    \A t \in Threads :
        /\ InCall(t) => <<t, call[t].fd>> \in Uses
        /\ place[t] = "unlock" => <<t, call[t].fd>> \in Stray
        /\ InCall(t) /\ <<t, call[t].fd>> \notin Stray /\ call[t].op # "addEvent" =>
             /\ call[t].op \in {"delEvent", "cancelEvent"}
             /\ <<call[t].fd, call[t].e>> \in own[t]

\* What a thread has added is registered, and no other thread has added it.
OwnersUnique ==
    \A t \in Threads : \A x \in own[t] :
        /\ x[1] < size /\ x[2] \in events[<<x[1], 1>>]
        /\ <<t, x[1]>> \in Uses
        /\ \A u \in Threads : x \in own[u] => u = t

\* An event that is being added has no owner and no other call in progress.
AddsUnused ==
    \A t, u \in Threads :
        InCall(t) /\ call[t].op = "addEvent" =>
            /\ <<call[t].fd, call[t].e>> \notin own[u]
            /\ InCall(u) /\ call[u].fd = call[t].fd /\ call[u].e = call[t].e => u = t

MutexHeld == \A t \in Threads : place[t] \in {"check", "effect"} => mutex[ctx[t]] = t

LockInv == TableInv /\ CallsAllowed /\ OwnersUnique /\ AddsUnused /\ MutexHeld

\* A thread that deletes or cancels what is not registered has the socket for itself.
StrayAlone == \A p \in Stray : \A q \in Uses : q[2] = p[2] => q[1] = p[1]

LEMMA LockInvInit == FdInit => LockInv
BY TableInvInit DEF FdInit, LockInv, CallsAllowed, OwnersUnique, AddsUnused, MutexHeld, InCall

LEMMA MutexExclusive == LockInv => FdExclusive
BY Zenon DEF LockInv, MutexHeld, FdExclusive

\* The steps that change neither what is owned nor what is registered, nor the call.
LEMMA LockFrame ==
    ASSUME LockInv, TableInv', NEW t \in Threads,
           UNCHANGED <<call, own, events>>,
           \A fd \in Fds : fd < size => fd < size',
           NEW next \in Places \ {"look"}, place' = [place EXCEPT ![t] = next], InCall(t),
           next = "unlock" => <<t, call[t].fd>> \in Stray
    PROVE  CallsAllowed' /\ OwnersUnique' /\ AddsUnused'
<1>0. FdType /\ CallsAllowed /\ OwnersUnique /\ AddsUnused
    BY Zenon DEF LockInv, TableInv
<1>1. \A u \in Threads : InCall(u)' => InCall(u)
    BY Zenon, <1>0 DEF FdType, InCall
<1>2. \A u \in Threads : place'[u] = "unlock" => <<u, call[u].fd>> \in Stray
    BY ZenonT(60), <1>0 DEF FdType, CallsAllowed
<1>3. CallsAllowed'
    BY Zenon, <1>0, <1>1, <1>2 DEF CallsAllowed
<1>4. OwnersUnique'
  <2>1. \A u \in Threads : \A x \in own[u] : x[1] \in Fds
      BY <1>0 DEF FdType
  <2> QED BY ZenonT(60), <1>0, <2>1 DEF OwnersUnique
<1>5. AddsUnused'
    BY Zenon, <1>0, <1>1 DEF AddsUnused
<1> QED BY Zenon, <1>3, <1>4, <1>5

LEMMA LockInvNext ==
    ASSUME StrayAlone
    PROVE  LockInv /\ [FdNext]_fdVars /\ [NoneDropped]_fdVars => LockInv'
<1> SUFFICES ASSUME LockInv, [FdNext]_fdVars, [NoneDropped]_fdVars PROVE LockInv'
    BY Zenon
<1>0. /\ FdType /\ OneContext /\ EventsExact /\ CallsAllowed /\ OwnersUnique /\ AddsUnused
      /\ MutexHeld /\ TableInv /\ TableInv' /\ FdType'
    BY Zenon, TableInvNext DEF LockInv, TableInv
<1>a. \A t, u \in Threads, fd \in Fds :
        <<t, fd>> \in Stray /\ <<u, fd>> \in Uses => u = t
    BY Zenon DEF StrayAlone
<1>b. \A u \in Threads : call[u] \in Call /\ call[u].fd \in Fds /\ call[u].e \in Events
                          /\ call[u].op \in Ops
    BY Zenon, <1>0 DEF FdType, Call
<1>c. \A u, v \in Threads : ctx[u] \in Contexts
    BY Zenon, <1>0 DEF FdType
<1>1. CASE UNCHANGED fdVars
    BY ZenonT(60), <1>0, <1>1 DEF LockInv, CallsAllowed, OwnersUnique, AddsUnused, MutexHeld, InCall, fdVars
<1>2. ASSUME NEW t \in Threads, Begin(t) PROVE LockInv'
  <2>1. PICK c \in Call : Allowed(t, c) /\ call' = [call EXCEPT ![t] = c]
      BY Zenon, <1>2 DEF Begin
  <2>2. /\ place[t] = "out" /\ place' = [place EXCEPT ![t] = "look"]
        /\ UNCHANGED <<size, events, mutex, ctx, own>>
      BY Zenon, <1>2 DEF Begin, Goto
  <2>3. /\ c.fd \in Fds /\ c.e \in Events /\ c.op \in Ops
        /\ call'[t] = c /\ place'[t] = "look"
        /\ \A u \in Threads \ {t} : call'[u] = call[u] /\ place'[u] = place[u]
      BY ZenonT(60), <1>0, <2>1, <2>2 DEF FdType, Call
  <2>4. CallsAllowed'
    <3> SUFFICES ASSUME NEW u \in Threads
                 PROVE  /\ InCall(u)' => <<u, call'[u].fd>> \in Uses
                        /\ place'[u] = "unlock" => <<u, call'[u].fd>> \in Stray
                        /\ InCall(u)' /\ <<u, call'[u].fd>> \notin Stray
                             /\ call'[u].op # "addEvent" =>
                             /\ call'[u].op \in {"delEvent", "cancelEvent"}
                             /\ <<call'[u].fd, call'[u].e>> \in own'[u]
        BY ZenonT(60) DEF CallsAllowed
    <3>1. CASE u = t
        BY Zenon, <2>1, <2>2, <2>3, <3>1 DEF Allowed, Ops
    <3>2. CASE u # t
        BY Zenon, <1>0, <2>2, <2>3, <3>2 DEF CallsAllowed, InCall
    <3> QED BY ZenonT(60), <3>1, <3>2
  <2>5. OwnersUnique'
      BY ZenonT(60), <1>0, <2>2 DEF OwnersUnique
  <2>6. AddsUnused'
    <3> SUFFICES ASSUME NEW v \in Threads, NEW u \in Threads,
                        InCall(v)', call'[v].op = "addEvent"
                 PROVE  /\ <<call'[v].fd, call'[v].e>> \notin own'[u]
                        /\ InCall(u)' /\ call'[u].fd = call'[v].fd /\ call'[u].e = call'[v].e
                             => u = v
        BY Zenon DEF AddsUnused
    <3>1. CASE v = t
      <4>1. Unused(c.fd, c.e)
          BY Zenon, <2>1, <2>3, <3>1 DEF Allowed
      <4> QED BY Zenon, <2>2, <2>3, <3>1, <4>1 DEF Unused, InCall
    <3>2. CASE v # t /\ u # t
        BY SMTT(30), <1>0, <2>2, <2>3, <3>2 DEF AddsUnused, InCall
    <3>3. CASE v # t /\ u = t
      <4>1. /\ InCall(v) /\ call[v].op = "addEvent" /\ call'[v] = call[v]
            /\ <<call[v].fd, call[v].e>> \notin own[t]
            /\ <<v, call[v].fd>> \in Uses
          BY ZenonT(60), <1>0, <2>3, <3>3 DEF AddsUnused, CallsAllowed, InCall
      <4>2. ASSUME c.fd = call[v].fd, c.e = call[v].e PROVE FALSE
        <5>1. <<t, c.fd>> \notin Stray
            BY ZenonT(60), <1>a, <2>3, <3>3, <4>1, <4>2
        <5>2. c.op = "addEvent"
            BY Zenon, <2>1, <4>1, <4>2, <5>1 DEF Allowed
        <5>3. Unused(c.fd, c.e)
            BY Zenon, <2>1, <5>2 DEF Allowed
        <5> QED BY ZenonT(60), <4>1, <4>2, <5>3 DEF Unused, InCall
      <4> QED BY Zenon, <2>2, <2>3, <3>3, <4>1, <4>2
    <3> QED BY Zenon, <3>1, <3>2, <3>3
  <2>7. MutexHeld'
      BY Zenon, <1>0, <2>2, <2>3 DEF MutexHeld
  <2> QED BY Zenon, <1>0, <2>4, <2>5, <2>6, <2>7 DEF LockInv
<1>3. ASSUME NEW t \in Threads, LookUp(t) PROVE LockInv'
  <2>1. PICK next \in {"lock", "grow", "out"} : place' = [place EXCEPT ![t] = next]
      BY Zenon, <1>3 DEF LookUp, Goto
  <2>2. /\ place[t] = "look" /\ UNCHANGED <<call, own, events, size, mutex>>
        /\ \A u \in Threads \ {t} : ctx'[u] = ctx[u]
      BY Zenon, <1>0, <1>3 DEF LookUp, FdType
  <2>3. CallsAllowed' /\ OwnersUnique' /\ AddsUnused'
      BY Zenon, <1>0, <2>1, <2>2, LockFrame DEF Places, InCall
  <2>4. MutexHeld'
      BY Zenon, <1>0, <2>1, <2>2 DEF MutexHeld, FdType
  <2> QED BY Zenon, <1>0, <2>3, <2>4 DEF LockInv
<1>4. ASSUME NEW t \in Threads, Grow(t) PROVE LockInv'
  <2>1. /\ place[t] = "grow" /\ place' = [place EXCEPT ![t] = "lock"]
        /\ UNCHANGED <<call, own, events, mutex>>
        /\ \A u \in Threads \ {t} : ctx'[u] = ctx[u]
      BY Zenon, <1>0, <1>4 DEF Grow, Goto, FdType
  <2>2. CASE NoneDropped
    <3>1. CallsAllowed' /\ OwnersUnique' /\ AddsUnused'
        BY ZenonT(60), <1>0, <2>1, <2>2, LockFrame DEF Places, InCall, NoneDropped
    <3>2. MutexHeld'
        BY Zenon, <1>0, <2>1 DEF MutexHeld, FdType
    <3> QED BY Zenon, <1>0, <3>1, <3>2 DEF LockInv
  <2> QED BY Zenon, <1>1, <2>2
<1>5. ASSUME NEW t \in Threads, Lock(t) PROVE LockInv'
  <2>1. /\ place[t] = "lock" /\ place' = [place EXCEPT ![t] = "check"]
        /\ mutex[ctx[t]] = Nobody /\ mutex' = [mutex EXCEPT ![ctx[t]] = t]
        /\ UNCHANGED <<call, own, events, size, ctx>>
      BY Zenon, <1>5 DEF Lock, Goto
  <2>2. CallsAllowed' /\ OwnersUnique' /\ AddsUnused'
      BY Zenon, <1>0, <2>1, LockFrame DEF Places, InCall
  <2>3. MutexHeld'
      BY SMTT(30), <1>0, <1>c, <2>1, FdAssumption DEF MutexHeld, FdType
  <2> QED BY Zenon, <1>0, <2>2, <2>3 DEF LockInv
<1>6. ASSUME NEW t \in Threads, Check(t) PROVE LockInv'
  <2>1. PICK next \in {"abort", "effect", "out", "unlock"} :
           /\ place' = [place EXCEPT ![t] = next]
           /\ next = "unlock" => /\ call[t].op \notin {"addEvent", "cancelAll"}
                                 /\ call[t].e \notin events[ctx[t]]
           /\ IF next \in {"out", "unlock"} THEN mutex' = [mutex EXCEPT ![ctx[t]] = Nobody]
              ELSE mutex' = mutex
      BY ZenonT(60), <1>6 DEF Check, Goto, Unlock
  <2>2. place[t] = "check" /\ UNCHANGED <<call, own, events, size, ctx>>
      BY Zenon, <1>6 DEF Check
  <2>3. next = "unlock" => <<t, call[t].fd>> \in Stray
    <3> SUFFICES ASSUME next = "unlock", <<t, call[t].fd>> \notin Stray PROVE FALSE
        BY Zenon
    <3>1. <<call[t].fd, call[t].e>> \in own[t]
        BY Zenon, <1>0, <2>1, <2>2 DEF CallsAllowed, InCall
    <3>2. call[t].e \in events[<<call[t].fd, 1>>]
        BY ZenonT(60), <1>0, <3>1 DEF OwnersUnique
    <3>3. ctx[t] = <<call[t].fd, 1>>
        BY Zenon, <1>0, <2>2 DEF OneContext, WithContext
    <3> QED BY Zenon, <2>1, <3>2, <3>3
  <2>4. CallsAllowed' /\ OwnersUnique' /\ AddsUnused'
      BY ZenonT(60), <1>0, <2>1, <2>2, <2>3, LockFrame DEF Places, InCall
  <2>5. MutexHeld'
      BY Zenon, <1>0, <1>c, <2>1, <2>2 DEF MutexHeld, FdType
  <2> QED BY Zenon, <1>0, <2>4, <2>5 DEF LockInv
<1>7. ASSUME NEW t \in Threads, UnlockAgain(t) PROVE LockInv'
  <2>1. /\ place[t] = "unlock" /\ place' = [place EXCEPT ![t] = "out"]
        /\ mutex' = [mutex EXCEPT ![ctx[t]] = Nobody]
        /\ UNCHANGED <<call, own, events, size, ctx>>
      BY Zenon, <1>7 DEF UnlockAgain, Unlock, Goto
  <2>2. CallsAllowed' /\ OwnersUnique' /\ AddsUnused'
      BY ZenonT(60), <1>0, <2>1, LockFrame DEF Places, InCall
  <2>3. ASSUME NEW u \in Threads, place[u] \in {"check", "effect"}, ctx[u] = ctx[t]
        PROVE  FALSE
    <3>1. call[u].fd = call[t].fd
        BY <1>0, <2>1, <2>3 DEF OneContext, WithContext
    <3>2. <<t, call[t].fd>> \in Stray /\ <<u, call[t].fd>> \in Uses
        BY Zenon, <1>0, <2>1, <2>3, <3>1 DEF CallsAllowed, InCall
    <3>3. t # u
        BY Zenon, <2>1, <2>3
    <3> QED BY Zenon, <1>a, <1>b, <3>2, <3>3
  <2>4. MutexHeld'
      BY ZenonT(60), <1>0, <1>c, <2>1, <2>3 DEF MutexHeld, FdType
  <2> QED BY Zenon, <1>0, <2>2, <2>4 DEF LockInv
<1>8. ASSUME NEW t \in Threads, Effect(t) PROVE LockInv'
  <2> DEFINE c == call[t]
             evs == events[ctx[t]]
             new == After(c, evs)
  <2>1. /\ place[t] = "effect" /\ mutex' = [mutex EXCEPT ![ctx[t]] = Nobody]
        /\ UNCHANGED <<call, size, ctx>>
      BY ZenonT(60), <1>8 DEF Effect, Unlock
  <2>2. ctx[t] = <<c.fd, 1>> /\ c.fd < size /\ c.fd \in Fds /\ c.e \in Events /\ c.op \in Ops
      BY ZenonT(60), <1>0, <1>b, <2>1 DEF OneContext, WithContext
  <2>3. <<t, c.fd>> \in Uses /\ (c.op = "cancelAll" => <<t, c.fd>> \in Stray)
      BY Zenon, <1>0, <2>1 DEF CallsAllowed, InCall
  <2>4. CASE ~CtlOk(c, evs)
    <3>1. PICK next \in {"unlock", "out"} :
             /\ place' = [place EXCEPT ![t] = next]
             /\ next = "unlock" => c.op = "cancelAll"
             /\ UNCHANGED <<own, events>>
        BY ZenonT(60), <1>8, <2>4 DEF Effect, Goto
    <3>2. CallsAllowed' /\ OwnersUnique' /\ AddsUnused'
        BY ZenonT(60), <1>0, <2>1, <2>3, <3>1, LockFrame DEF Places, InCall
    <3>3. MutexHeld'
        BY Zenon, <1>0, <1>c, <2>1, <3>1 DEF MutexHeld, FdType
    <3> QED BY Zenon, <1>0, <3>2, <3>3 DEF LockInv
  <2>5. CASE CtlOk(c, evs)
    <3>1. /\ place' = [place EXCEPT ![t] = "out"]
          /\ events' = [events EXCEPT ![ctx[t]] = new]
          /\ own' = [u \in Threads |->
                       IF u = t /\ c.op = "addEvent" THEN own[u] \cup {<<c.fd, c.e>>}
                       ELSE own[u] \ ({c.fd} \X (evs \ new))]
        BY Zenon, <1>8, <2>5 DEF Effect, Goto
    <3>2. /\ c.op = "addEvent" => new = evs \cup {c.e}
          /\ c.op # "addEvent" /\ c.op # "cancelAll" => new = evs \ {c.e}
        BY Zenon DEF After
    <3>3. events'[<<c.fd, 1>>] = new
        BY ZenonT(60), <1>0, <1>c, <2>2, <3>1 DEF FdType
    <3>4. \A fd \in Fds \ {c.fd} : events'[<<fd, 1>>] = events[<<fd, 1>>]
      <4> SUFFICES ASSUME NEW fd \in Fds, fd # c.fd
                   PROVE  events'[<<fd, 1>>] = events[<<fd, 1>>]
          BY ZenonT(60)
      <4>1. <<fd, 1>> \in Contexts /\ <<fd, 1>> # ctx[t]
          BY SMTT(30), <2>2, FdAssumption DEF Contexts
      <4> HIDE DEF new, evs, c
      <4> QED BY ZenonT(60), <1>0, <3>1, <4>1 DEF FdType
    <3> HIDE DEF c, evs, new
    <3>5. ASSUME NEW u \in Threads, u # t, NEW x \in own[u] PROVE x \in own'[u]
      <4>1. CASE c.op = "addEvent"
          BY Zenon, <3>1, <3>2, <3>5, <4>1
      <4>2. CASE c.op # "addEvent" /\ x[1] # c.fd
          BY Zenon, <3>1, <3>5, <4>2
      <4>3. CASE c.op # "addEvent" /\ x[1] = c.fd
        <5>1. <<t, c.fd>> \notin Stray
            BY ZenonT(60), <1>0, <1>a, <2>2, <3>5, <4>3 DEF OwnersUnique
        <5>2. c.op # "cancelAll"
            BY Zenon, <2>3, <5>1
        <5>3. <<c.fd, c.e>> \in own[t]
            BY Zenon, <1>0, <2>1, <4>3, <5>1 DEF CallsAllowed, InCall, c
        <5>4. x # <<c.fd, c.e>>
            BY ZenonT(60), <1>0, <3>5, <5>3 DEF OwnersUnique
        <5>5. x = <<x[1], x[2]>>
            BY <1>0, <3>5 DEF FdType
        <5>6. x \notin {c.fd} \X (evs \ new)
            BY Zenon, <3>2, <4>3, <5>2, <5>4, <5>5
        <5> QED BY Zenon, <3>1, <3>5, <5>6
      <4> QED BY ZenonT(60), <4>1, <4>2, <4>3
    <3>6. CallsAllowed'
      <4>1. \A u \in Threads : InCall(u)' => InCall(u) /\ u # t
          BY ZenonT(60), <1>0, <2>1, <3>1 DEF FdType, InCall
      <4>2. \A u \in Threads : place'[u] = "unlock" => place[u] = "unlock"
          BY ZenonT(60), <1>0, <3>1 DEF FdType
      <4> QED BY Zenon, <1>0, <2>1, <3>5, <4>1, <4>2 DEF CallsAllowed
    <3>7. OwnersUnique'
      <4> SUFFICES ASSUME NEW u \in Threads, NEW x \in own'[u]
                   PROVE  /\ x[1] < size' /\ x[2] \in events'[<<x[1], 1>>]
                          /\ <<u, x[1]>> \in Uses
                          /\ \A v \in Threads : x \in own'[v] => v = u
          BY ZenonT(60) DEF OwnersUnique
      <4>1. CASE x \in own[u]
        <5>0. x[1] \in Fds /\ x[2] \in Events /\ x = <<x[1], x[2]>>
            BY SMTT(30), <1>0, <4>1 DEF FdType
        <5>1. /\ x[1] < size /\ x[2] \in events[<<x[1], 1>>] /\ <<u, x[1]>> \in Uses
              /\ \A v \in Threads : x \in own[v] => v = u
            BY ZenonT(60), <1>0, <4>1 DEF OwnersUnique
        <5>2. x[2] \in events'[<<x[1], 1>>]
          <6>1. CASE x[1] # c.fd
              BY Zenon, <3>4, <5>0, <5>1, <6>1
          <6>2. CASE x[1] = c.fd
            <7>1. x[2] \in evs
                BY Zenon, <2>2, <5>1, <6>2 DEF evs
            <7>2. CASE c.op = "addEvent"
                BY Zenon, <3>2, <3>3, <6>2, <7>1, <7>2
            <7>3. CASE c.op # "addEvent"
              <8>1. x \notin {c.fd} \X (evs \ new)
                  BY Zenon, <3>1, <7>3
              <8>2. x[2] \in new
                  BY Zenon, <5>0, <6>2, <7>1, <8>1
              <8> QED BY Zenon, <3>3, <6>2, <8>2
            <7> QED BY Zenon, <7>2, <7>3
          <6> QED BY Zenon, <6>1, <6>2
        <5>3. \A v \in Threads : x \in own'[v] => v = u
          <6> SUFFICES ASSUME NEW v \in Threads, x \in own'[v], x \notin own[v] PROVE FALSE
              BY Zenon, <5>1
          <6>1. v = t /\ c.op = "addEvent" /\ x = <<c.fd, c.e>>
              BY ZenonT(60), <3>1
          <6> QED BY Zenon, <1>0, <2>1, <4>1, <6>1 DEF AddsUnused, InCall, c
        <5> QED BY Zenon, <2>1, <5>1, <5>2, <5>3
      <4>2. CASE x \notin own[u]
        <5>1. u = t /\ c.op = "addEvent" /\ x = <<c.fd, c.e>>
            BY Zenon, <3>1, <4>2
        <5>2. \A v \in Threads : x \notin own[v]
            BY Zenon, <1>0, <2>1, <5>1 DEF AddsUnused, InCall, c
        <5>3. \A v \in Threads : x \in own'[v] => v = t
            BY Zenon, <3>1, <5>2
        <5>4. x[1] = c.fd /\ x[2] = c.e
            BY Zenon, <5>1
        <5> QED BY ZenonT(60), <2>1, <2>2, <2>3, <3>2, <3>3, <5>1, <5>3, <5>4
      <4> QED BY ZenonT(60), <4>1, <4>2
    <3>8. AddsUnused'
      <4> SUFFICES ASSUME NEW v \in Threads, NEW u \in Threads,
                          InCall(v)', call[v].op = "addEvent"
                   PROVE  /\ <<call[v].fd, call[v].e>> \notin own'[u]
                          /\ InCall(u)' /\ call[u].fd = call[v].fd /\ call[u].e = call[v].e
                               => u = v
          BY Zenon, <2>1 DEF AddsUnused
      <4>1. InCall(v) /\ v # t /\ (InCall(u)' => InCall(u))
          BY ZenonT(60), <1>0, <2>1, <3>1 DEF FdType, InCall
      <4>2. ASSUME <<call[v].fd, call[v].e>> \in own'[u] PROVE FALSE
        <5>1. u = t /\ c.op = "addEvent" /\ <<call[v].fd, call[v].e>> = <<c.fd, c.e>>
            BY ZenonT(60), <1>0, <3>1, <4>1, <4>2 DEF AddsUnused
        <5> QED BY ZenonT(60), <1>0, <2>1, <4>1, <5>1 DEF AddsUnused, InCall, c
      <4> QED BY Zenon, <1>0, <4>1, <4>2 DEF AddsUnused
    <3>9. MutexHeld'
        BY Zenon, <1>0, <1>c, <2>1, <3>1 DEF MutexHeld, FdType
    <3> QED BY Zenon, <1>0, <3>6, <3>7, <3>8, <3>9 DEF LockInv
  <2> QED BY ZenonT(60), <2>4, <2>5
<1> QED BY Zenon, <1>1, <1>2, <1>3, <1>4, <1>5, <1>6, <1>7, <1>8 DEF FdNext

\* FdExclusive, for any number of threads and sockets: when contextResize drops no context,
\* and what is not registered is deleted or cancelled only where no other thread works,
\* the mutex of a context excludes.  Both conditions are needed: a thread that finds
\* nothing to delete unlocks twice, and the second time it unlocks for somebody else.
THEOREM ContextsExclusive ==
    ASSUME StrayAlone
    PROVE  FdSpec /\ [][NoneDropped]_fdVars => []FdExclusive
BY LockInvInit, LockInvNext, MutexExclusive, PTL DEF FdSpec

=============================================================================
