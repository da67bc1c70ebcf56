--------------------------- MODULE ServiceProofs ----------------------------
(***************************************************************************)
(* Proofs about the two services behind a request: ConnectionPool, for any *)
(* number of consumers and any sizes, and HttpServer, for any connections, *)
(* addresses and numbers.                                                  *)
(*                                                                         *)
(* PInv adds to the properties of the pool what makes them inductive: a    *)
(* consumer has a connection exactly while it is using one, consumers are  *)
(* gone once the destructor has begun, and the pool's threads once it has  *)
(* joined them.                                                            *)
(***************************************************************************)
EXTENDS ConnectionPool, HttpServer, FiniteSetTheorems, SequenceTheorems, TLAPS

PcInv ==
    /\ \A c \in Consumers : pc[c] = "using" <=> held[c] # NoConn
    /\ dtor # "no" => \A c \in Consumers : pc[c] = "out"
    /\ dtor = "done" => \A d \in Daemons : pc[d] = "done"
    /\ dtor = "done" => m_connectionQueue = <<>>

PInv == TypeOK /\ PcInv /\ CountExact /\ OneOwner /\ SizeBounds

-----------------------------------------------------------------------------
(* Queues.                                                                 *)

\* r is q without its first n entries.
Dropped(q, n, r) ==
    /\ r \in Seq(Conns)
    /\ Len(r) = Len(q) - n
    /\ \A i \in DOMAIN r : \E j \in DOMAIN q : j > n /\ r[i] = q[j]
    /\ IsInjective(q) => IsInjective(r)

LEMMA DropFirst ==
    ASSUME NEW q \in Seq(Conns), NEW n \in 0..Len(q)
    PROVE  Dropped(q, n, SubSeq(q, n + 1, Len(q)))
  <1> DEFINE r == SubSeq(q, n + 1, Len(q))
  <1>1. Len(q) \in Nat /\ DOMAIN q = 1..Len(q)
    BY Zenon, LenProperties
  <1>2. /\ r \in Seq(Conns) /\ Len(r) = Len(q) - n
        /\ \A i \in 1..(Len(q) - n) : r[i] = q[n + i]
    <2>1. \A i \in (n + 1)..Len(q) : q[i] \in Conns
      BY <1>1, ElementOfSeq
    <2>2. /\ r \in Seq(Conns)
          /\ Len(r) = IF n + 1 <= Len(q) THEN Len(q) - (n + 1) + 1 ELSE 0
          /\ \A i \in 1..(Len(q) - (n + 1) + 1) : r[i] = q[(n + 1) + i - 1]
      BY <1>1, <2>1, SubSeqProperties
    <2> HIDE DEF r
    <2>4. Len(r) = Len(q) - n
      <3> DEFINE l == Len(q)  k == Len(r)
      <3>1. l \in Nat /\ n \in Int /\ 0 <= n /\ n <= l
        BY <1>1
      <3>2. k = IF n + 1 <= l THEN l - (n + 1) + 1 ELSE 0
        BY Zenon, <2>2
      <3> HIDE DEF l, k
      <3>3. k = l - n
        BY <3>1, <3>2
      <3> QED
        BY Zenon, <3>3 DEF l, k
    <2>5. \A i \in 1..(Len(q) - n) : r[i] = q[n + i]
      <3> TAKE i \in 1..(Len(q) - n)
      <3>1. i \in 1..(Len(q) - (n + 1) + 1) /\ (n + 1) + i - 1 = n + i
        BY <1>1
      <3>2. r[i] = q[(n + 1) + i - 1]
        BY Zenon, <2>2, <3>1
      <3> QED
        BY Zenon, <3>1, <3>2
    <2> QED
      BY Zenon, <2>2, <2>4, <2>5
  <1>3. DOMAIN r = 1..(Len(q) - n)
    BY Zenon, <1>2, LenProperties
  <1> HIDE DEF r
  <1>4. \A i \in DOMAIN r : n + i \in DOMAIN q /\ n + i > n /\ r[i] = q[n + i]
    BY <1>1, <1>2, <1>3
  <1>5. \A i, j \in DOMAIN r : n + i = n + j => i = j
    BY <1>1, <1>3
  <1>6. IsInjective(q) => IsInjective(r)
    BY Zenon, <1>4, <1>5 DEF IsInjective
  <1>7. \A i \in DOMAIN r : \E j \in DOMAIN q : j > n /\ r[i] = q[j]
    BY Zenon, <1>4
  <1>8. Dropped(q, n, r)
    BY Zenon, <1>2, <1>6, <1>7 DEF Dropped
  <1> QED
    BY Zenon, <1>8 DEF r

LEMMA PopFront ==
    ASSUME NEW q \in Seq(Conns), q # <<>>
    PROVE  /\ Head(q) \in Conns /\ 1 \in DOMAIN q /\ Head(q) = q[1]
           /\ Dropped(q, 1, Tail(q))
  <1>1. Len(q) \in Nat \ {0} /\ DOMAIN q = 1..Len(q)
    BY Zenon, LenProperties, EmptySeq
  <1>2. Tail(q) = SubSeq(q, 1 + 1, Len(q))
    BY <1>1, TailIsSubSeq
  <1>3. Dropped(q, 1, Tail(q))
    <2>1. 1 \in 0..Len(q)
      BY <1>1
    <2> QED
      BY Zenon, <1>2, <2>1, DropFirst
  <1>4. Head(q) = q[1] /\ q[1] \in Conns
    BY <1>1, ElementOfSeq
  <1> QED
    BY <1>1, <1>3, <1>4

\* r is q with c at its end.
Pushed(q, c, r) ==
    /\ r \in Seq(Conns)
    /\ Len(r) = Len(q) + 1
    /\ \A i \in DOMAIN r : r[i] = c \/ \E j \in DOMAIN q : r[i] = q[j]
    /\ IsInjective(q) /\ (\A i \in DOMAIN q : q[i] # c) => IsInjective(r)

LEMMA Push ==
    ASSUME NEW q \in Seq(Conns), NEW c \in Conns
    PROVE  Pushed(q, c, Append(q, c))
  <1> DEFINE r == Append(q, c)
  <1>1. Len(q) \in Nat /\ DOMAIN q = 1..Len(q)
    BY Zenon, LenProperties
  <1>2. /\ r \in Seq(Conns) /\ Len(r) = Len(q) + 1
        /\ \A i \in 1..Len(q) : r[i] = q[i]
        /\ r[Len(q) + 1] = c
    BY <1>1, AppendProperties
  <1>3. DOMAIN r = 1..(Len(q) + 1)
    BY Zenon, <1>2, LenProperties
  <1> HIDE DEF r
  <1>4. \A i \in DOMAIN r : (i \in DOMAIN q /\ r[i] = q[i]) \/ (i = Len(q) + 1 /\ r[i] = c)
    BY <1>1, <1>2, <1>3
  <1>5. IsInjective(q) /\ (\A i \in DOMAIN q : q[i] # c) => IsInjective(r)
    BY Zenon, <1>4 DEF IsInjective
  <1>6. Pushed(q, c, r)
    BY Zenon, <1>2, <1>4, <1>5 DEF Pushed
  <1> QED
    BY Zenon, <1>6 DEF r

-----------------------------------------------------------------------------
LEMMA HoldersFinite == IsFiniteSet(Holders) /\ Cardinality(Holders) \in Nat
                       /\ Cardinality(Holders) <= Cardinality(Consumers)
  BY Zenon, PoolAssumption, FS_Subset, FS_CardinalityType DEF Holders

LEMMA QueuedType == TypeOK => Queued \subseteq Conns
  <1> SUFFICES ASSUME TypeOK, NEW i \in DOMAIN m_connectionQueue
               PROVE  m_connectionQueue[i] \in Conns
    BY Zenon DEF Queued
  <1> QED
    BY Zenon, LenProperties, ElementOfSeq DEF TypeOK

\* Steps that leave the queue, the connections and their number alone.
Quiet ==
    /\ UNCHANGED <<m_connectionQueue, m_connectionCount, held>>
    /\ dtor = "done" => dtor' = "done"
    /\ dtor' = "done" => dtor = "done"

LEMMA QuietStep ==
    ASSUME CountExact, OneOwner, SizeBounds, Quiet
    PROVE  CountExact' /\ OneOwner' /\ SizeBounds'
  BY DEF CountExact, OneOwner, SizeBounds, Quiet, Holders, Queued

LEMMA GetStep ==
    ASSUME PInv, NEW c \in Consumers, GetConnection(c)
    PROVE  PInv'
  <1> DEFINE q == m_connectionQueue
  <1> USE DEF PInv
  <1>1. /\ pc[c] \in {"enter", "waiting"} /\ held[c] = NoConn /\ dtor = "no" /\ q # <<>>
        /\ q \in Seq(Conns)
    BY Zenon DEF GetConnection, Acquires, PcInv, TypeOK
  <1>2. /\ Head(q) \in Conns /\ 1 \in DOMAIN q /\ Head(q) = q[1]
        /\ Dropped(q, 1, q')
    BY Zenon, <1>1, PopFront DEF GetConnection
  <1>3. /\ held' = [held EXCEPT ![c] = Head(q)] /\ pc' = [pc EXCEPT ![c] = "using"]
        /\ m_cv' = {}
        /\ UNCHANGED <<m_connectionCount, m_isShutdown, m_mtx, dtor, broken, gets>>
    BY Zenon DEF GetConnection, Goto, NotifyAll
  <1>4. NoConn \notin Conns /\ c \in Threads
    BY Zenon, PoolAssumption DEF Threads
  <1>5. TypeOK'
    BY Zenon, <1>2, <1>3, <1>4 DEF TypeOK, Dropped, ConsumerPc
  <1>6. PcInv'
    BY Zenon, <1>1, <1>2, <1>3, <1>4, PoolAssumption DEF PcInv, TypeOK, Daemons, Threads
  <1>7. CountExact'
    <2>1. Holders' = Holders \cup {c} /\ c \notin Holders
      BY Zenon, <1>1, <1>2, <1>3, <1>4 DEF Holders, TypeOK
    <2>2. Cardinality(Holders') = Cardinality(Holders) + 1
      BY Zenon, <2>1, HoldersFinite, FS_AddElement
    <2>3. Len(q') = Len(q) - 1 /\ Len(q) \in Nat
      BY Zenon, <1>1, <1>2, LenProperties DEF Dropped
    <2> QED
      BY <1>1, <1>3, <2>2, <2>3, HoldersFinite DEF CountExact
  <1>8. OneOwner'
    <2>1. Queued' \subseteq Queued /\ Head(q) \in Queued
      BY <1>2 DEF Queued, Dropped
    <2>2. Head(q) \notin Queued'
      <3> SUFFICES ASSUME NEW i \in DOMAIN q'
                   PROVE  q'[i] # q[1]
        BY Zenon, <1>2 DEF Queued
      <3>1. PICK j \in DOMAIN q : j > 1 /\ q'[i] = q[j]
        BY Zenon, <1>2 DEF Dropped
      <3> QED
        BY <1>2, <3>1 DEF OneOwner, IsInjective
    <2>3. IsInjective(q')
      BY Zenon, <1>2 DEF OneOwner, Dropped
    <2> QED
      BY <1>1, <1>2, <1>3, <1>4, <2>1, <2>2, <2>3 DEF OneOwner, Holders, TypeOK
  <1>9. SizeBounds'
    BY Zenon, <1>3 DEF SizeBounds
  <1> QED
    BY Zenon, <1>5, <1>6, <1>7, <1>8, <1>9

LEMMA ReturnStep ==
    ASSUME PInv, NEW c \in Consumers, Return(c)
    PROVE  PInv'
  <1> DEFINE q == m_connectionQueue
  <1> USE DEF PInv
  <1>1. /\ pc[c] = "using" /\ held[c] # NoConn /\ held[c] \in Conns /\ dtor = "no"
        /\ q \in Seq(Conns)
    BY Zenon DEF Return, PcInv, TypeOK
  <1>2. Pushed(q, held[c], q')
    BY Zenon, <1>1, Push DEF Return
  <1>3. /\ held' = [held EXCEPT ![c] = NoConn] /\ pc' = [pc EXCEPT ![c] = "out"]
        /\ UNCHANGED <<m_connectionCount, m_isShutdown, m_mtx, m_cv, dtor, broken, gets>>
    BY Zenon DEF Return, Goto
  <1>4. NoConn \notin Conns /\ c \in Threads
    BY Zenon, PoolAssumption DEF Threads
  <1>5. TypeOK'
    BY Zenon, <1>2, <1>3, <1>4 DEF TypeOK, Pushed, ConsumerPc
  <1>6. PcInv'
    BY Zenon, <1>1, <1>3, <1>4, PoolAssumption DEF PcInv, TypeOK, Daemons, Threads
  <1>7. CountExact'
    <2>1. Holders' = Holders \ {c} /\ c \in Holders
      BY Zenon, <1>1, <1>3, <1>4 DEF Holders, TypeOK
    <2>2. Cardinality(Holders') = Cardinality(Holders) - 1
      BY Zenon, <2>1, HoldersFinite, FS_RemoveElement
    <2>3. Len(q') = Len(q) + 1 /\ Len(q) \in Nat
      BY Zenon, <1>1, <1>2, LenProperties DEF Pushed
    <2> QED
      BY <1>1, <1>3, <2>2, <2>3, HoldersFinite DEF CountExact
  <1>8. OneOwner'
    <2>1. Queued' \subseteq Queued \cup {held[c]} /\ held[c] \notin Queued
      BY <1>1, <1>2 DEF Queued, Pushed, OneOwner, Holders
    <2>2. IsInjective(q')
      BY Zenon, <1>2, <2>1 DEF OneOwner, Pushed, Queued
    <2> QED
      BY <1>1, <1>3, <2>1, <2>2 DEF OneOwner, Holders, TypeOK
  <1>9. SizeBounds'
    BY Zenon, <1>3 DEF SizeBounds
  <1> QED
    BY Zenon, <1>5, <1>6, <1>7, <1>8, <1>9

LEMMA ProduceStep ==
    ASSUME PInv, Produce
    PROVE  PInv'
  <1> DEFINE q == m_connectionQueue
  <1> USE DEF PInv
  <1>1. Producer \in Threads /\ Producer \notin Consumers /\ pc[Producer] = "after"
        /\ dtor # "done" /\ q \in Seq(Conns)
    BY Zenon, PoolAssumption DEF Produce, PcInv, Daemons, Threads, TypeOK
  <1>2. /\ pc' = [pc EXCEPT ![Producer] = "top"] /\ m_cv' = {} /\ m_mtx' = Nobody
        /\ UNCHANGED <<m_isShutdown, dtor, held, gets>>
    BY Zenon DEF Produce, Goto, NotifyAll
  <1>3. CASE /\ m_connectionCount >= m_maxSize
             /\ UNCHANGED <<m_connectionQueue, m_connectionCount, broken>>
    <2>1. TypeOK' /\ PcInv'
      BY <1>1, <1>2, <1>3 DEF TypeOK, PcInv, DaemonPc
    <2> QED
      BY Zenon, <1>2, <1>3, <2>1, QuietStep DEF Quiet
  <1>4. CASE m_connectionCount < m_maxSize /\ AddConnection
    <2>1. PICK c \in Conns \ Alive, ok \in ConnectOk :
            /\ q' = Append(q, c)
            /\ m_connectionCount' = m_connectionCount + 1
            /\ broken' = IF ok THEN broken \ {c} ELSE broken \cup {c}
      BY ZenonT(60), <1>4 DEF AddConnection
    <2>2. Pushed(q, c, q')
      BY Zenon, <1>1, <2>1, Push
    <2>3. TypeOK'
      BY <1>1, <1>2, <2>1, <2>2 DEF TypeOK, Pushed, DaemonPc
    <2>4. PcInv'
      BY <1>1, <1>2, <2>3 DEF PcInv, TypeOK
    <2>5. CountExact'
      <3>1. Holders' = Holders
        BY Zenon, <1>2 DEF Holders
      <3>2. Len(q') = Len(q) + 1 /\ Len(q) \in Nat
        BY Zenon, <1>1, <2>2, LenProperties DEF Pushed
      <3> QED
        BY <1>1, <1>2, <2>1, <3>1, <3>2, HoldersFinite DEF CountExact
    <2>6. OneOwner'
      <3>1. Queued' \subseteq Queued \cup {c} /\ c \notin Queued
        BY <2>1, <2>2 DEF Queued, Pushed, Alive
      <3>2. IsInjective(q')
        BY Zenon, <2>2, <3>1 DEF OneOwner, Pushed, Queued
      <3>3. \A d \in Holders : held[d] # c
        BY Zenon, <2>1 DEF Alive
      <3> QED
        BY Zenon, <1>2, <3>1, <3>2, <3>3 DEF OneOwner, Holders
    <2>7. SizeBounds'
      BY <1>4, <2>1, PoolAssumption DEF SizeBounds, TypeOK
    <2> QED
      BY Zenon, <2>3, <2>4, <2>5, <2>6, <2>7
  <1> QED
    BY Zenon, <1>3, <1>4 DEF Produce

\* What a round of the scanner does, and when it runs off the queue.
LEMMA ScanEffect ==
    ASSUME PInv, Scan
    PROVE  \E n \in Nat :
             /\ Dropped(m_connectionQueue, n, m_connectionQueue')
             /\ n = 0 \/ m_connectionCount - n >= m_minSize
             /\ m_connectionCount' = m_connectionCount - n
             /\ n <= Len(m_connectionQueue)
             /\ pc' = [pc EXCEPT ![Scanner] =
                        IF n = Len(m_connectionQueue) /\ m_connectionCount - n > m_minSize
                          THEN "undefined" ELSE "top"]
  <1>1. m_connectionQueue \in Seq(Conns) /\ Len(m_connectionQueue) \in Nat
    BY Zenon, LenProperties DEF PInv, TypeOK
  <1>2. PICK n \in 0..Len(m_connectionQueue) :
        /\ n = 0 \/ m_connectionCount - n >= m_minSize
        /\ m_connectionQueue' = SubSeq(m_connectionQueue, n + 1, Len(m_connectionQueue))
        /\ m_connectionCount' = m_connectionCount - n
        /\ pc' = [pc EXCEPT ![Scanner] =
                        IF n = Len(m_connectionQueue) /\ m_connectionCount - n > m_minSize
                          THEN "undefined" ELSE "top"]
    BY ZenonT(60) DEF Scan, Goto
  <1>3. Dropped(m_connectionQueue, n, m_connectionQueue')
    BY Zenon, <1>1, <1>2, DropFirst
  <1>4. n \in Nat /\ n <= Len(m_connectionQueue)
    BY <1>1
  <1> QED
    BY Zenon, <1>2, <1>3, <1>4

LEMMA ScanStep ==
    ASSUME PInv, Scan
    PROVE  PInv'
  <1> DEFINE q == m_connectionQueue
  <1> USE DEF PInv
  <1>1. /\ Scanner \in Threads /\ Scanner \notin Consumers /\ pc[Scanner] = "after"
        /\ dtor # "done" /\ q \in Seq(Conns) /\ Len(q) \in Nat
    BY Zenon, PoolAssumption, LenProperties DEF Scan, PcInv, Daemons, Threads, TypeOK
  <1>2. /\ m_mtx' = Nobody
        /\ UNCHANGED <<m_isShutdown, m_cv, dtor, held, broken, gets>>
    BY Zenon DEF Scan
  <1>3. PICK n \in Nat :
             /\ Dropped(q, n, q')
             /\ n = 0 \/ m_connectionCount - n >= m_minSize
             /\ m_connectionCount' = m_connectionCount - n
             /\ n <= Len(q)
             /\ pc' = [pc EXCEPT ![Scanner] =
                        IF n = Len(q) /\ m_connectionCount - n > m_minSize
                          THEN "undefined" ELSE "top"]
    BY Zenon, ScanEffect
  <1>4. SizeBounds' /\ m_connectionCount' \in Nat
    BY <1>3, PoolAssumption DEF SizeBounds, TypeOK
  <1>5. \E l \in {"undefined", "top"} : pc' = [pc EXCEPT ![Scanner] = l]
    BY Zenon, <1>3
  <1>6. TypeOK' /\ PcInv'
    BY <1>1, <1>2, <1>3, <1>4, <1>5 DEF TypeOK, PcInv, Dropped, DaemonPc
  <1>7. CountExact'
    <2>1. Holders' = Holders
      BY Zenon, <1>2 DEF Holders
    <2>2. Len(q') = Len(q) - n
      BY Zenon, <1>3 DEF Dropped
    <2> QED
      BY <1>1, <1>2, <1>3, <2>1, <2>2, HoldersFinite DEF CountExact
  <1>8. OneOwner'
    <2>1. Queued' \subseteq Queued
      BY Zenon, <1>3 DEF Queued, Dropped
    <2>2. IsInjective(q')
      BY Zenon, <1>3 DEF OneOwner, Dropped
    <2> QED
      BY Zenon, <1>2, <2>1, <2>2 DEF OneOwner, Holders
  <1> QED
    BY Zenon, <1>4, <1>6, <1>7, <1>8

-----------------------------------------------------------------------------
LEMMA InitPInv == Init => PInv
  <1> SUFFICES ASSUME Init PROVE PInv
    BY Zenon
  <1>1. /\ m_connectionQueue \in [1..m_minSize -> Conns]
        /\ IsInjective(m_connectionQueue)
    BY Zenon DEF Init
  <1>2. m_connectionQueue \in Seq(Conns) /\ Len(m_connectionQueue) = m_minSize
    BY <1>1, PoolAssumption, SeqDef, LenProperties
  <1>3. Holders = {}
    BY Zenon DEF Init, Holders
  <1>4. broken \subseteq Conns
    BY Zenon, <1>1 DEF Init, Queued
  <1>5. TypeOK
    <2>1. pc \in [Threads -> ConsumerPc \cup DaemonPc]
      BY Zenon DEF Init, ConsumerPc, DaemonPc
    <2>2. held \in [Consumers -> Conns \cup {NoConn}] /\ gets \in [Consumers -> 0..MaxGets]
      BY PoolAssumption DEF Init
    <2> QED
      BY Zenon, <1>2, <1>4, <2>1, <2>2, PoolAssumption DEF Init, TypeOK
  <1>6. PcInv
    BY Zenon, PoolAssumption DEF Init, PcInv, Threads
  <1>7. CountExact
    BY <1>2, <1>3, FS_EmptySet, PoolAssumption DEF Init, CountExact
  <1>8. OneOwner /\ SizeBounds
    BY <1>1, <1>3, PoolAssumption DEF Init, OneOwner, SizeBounds
  <1> QED
    BY Zenon, <1>5, <1>6, <1>7, <1>8 DEF PInv

\* The steps that leave the connections alone.
LEMMA QuietSteps ==
    ASSUME PInv,
           \/ \E c \in Consumers : CallGet(c) \/ GetWaits(c)
           \/ \E d \in Daemons : Round(d)
           \/ ScanTimeout
           \/ \E p \in Threads : Wake(p)
           \/ Shutdown \/ ShutdownNotify
    PROVE  PInv'
  <1> USE DEF PInv
  <1>1. /\ Consumers \subseteq Threads /\ Daemons \subseteq Threads
        /\ Daemons \cap Consumers = {} /\ Scanner \in Daemons
    BY Zenon, PoolAssumption DEF Threads, Daemons
  <1>2. SUFFICES TypeOK' /\ PcInv' /\ Quiet
    BY Zenon, QuietStep
  <1>3. ASSUME NEW c \in Consumers, CallGet(c) PROVE TypeOK' /\ PcInv' /\ Quiet
    <2>1. TypeOK'
      BY <1>1, <1>3, PoolAssumption DEF CallGet, Goto, TypeOK, ConsumerPc
    <2> QED
      BY Zenon, <1>1, <1>3, <2>1 DEF CallGet, Goto, TypeOK, PcInv, Quiet
  <1>4. ASSUME NEW c \in Consumers, GetWaits(c) PROVE TypeOK' /\ PcInv' /\ Quiet
    BY Zenon, <1>1, <1>4 DEF GetWaits, Goto, Acquires, TypeOK, PcInv, Quiet, ConsumerPc
  <1>5. ASSUME NEW d \in Daemons, Round(d) PROVE TypeOK' /\ PcInv' /\ Quiet
    <2>1. PICK l \in DaemonPc :
            /\ Goto(d, l) /\ pc[d] # "done" /\ m_mtx' \in {m_mtx, d, Nobody}
            /\ m_cv' \in {m_cv, m_cv \cup {d}}
            /\ UNCHANGED <<m_connectionQueue, m_connectionCount, m_isShutdown, dtor,
                           held, broken, gets>>
      BY Zenon, <1>5 DEF Round, RoundTop, RoundLock, RoundTest, RoundSleep, RoundBreak,
                  Acquires, DaemonPc
    <2> QED
      BY Zenon, <1>1, <2>1 DEF Goto, TypeOK, PcInv, Quiet
  <1>6. CASE ScanTimeout
    BY Zenon, <1>1, <1>6 DEF ScanTimeout, Goto, TypeOK, PcInv, Quiet, DaemonPc
  <1>7. ASSUME NEW p \in Threads, Wake(p) PROVE TypeOK' /\ PcInv' /\ Quiet
    BY Zenon, <1>7 DEF Wake, TypeOK, PcInv, Quiet
  <1>8. CASE Shutdown \/ ShutdownNotify
    BY Zenon, <1>8 DEF Shutdown, ShutdownNotify, NotifyAll, TypeOK, PcInv, Quiet
  <1> QED
    BY Zenon, <1>3, <1>4, <1>5, <1>6, <1>7, <1>8

LEMMA JoinStep ==
    ASSUME PInv, ShutdownJoin
    PROVE  PInv'
  <1>1. /\ m_connectionQueue' = <<>> /\ dtor' = "done" /\ dtor = "join"
        /\ \A d \in Daemons : pc[d] = "done"
        /\ UNCHANGED <<m_connectionCount, m_isShutdown, m_mtx, m_cv, pc, held, broken,
                       gets>>
    BY Zenon DEF ShutdownJoin
  <1>2. TypeOK' /\ PcInv' /\ CountExact'
    BY Zenon, <1>1, EmptySeq DEF PInv, TypeOK, PcInv, CountExact
  <1>3. OneOwner' /\ SizeBounds'
    <2>1. Holders' = {}
      BY Zenon, <1>1 DEF PInv, PcInv, Holders
    <2> QED
      BY <1>1, <2>1 DEF PInv, OneOwner, SizeBounds, IsInjective
  <1> QED
    BY Zenon, <1>2, <1>3 DEF PInv

LEMMA NextPInv == PInv /\ [Next]_vars => PInv'
  <1> SUFFICES ASSUME PInv, [Next]_vars PROVE PInv'
    BY Zenon
  <1>1. CASE UNCHANGED vars \/ Over
    <2>1. UNCHANGED vars
      BY Zenon, <1>1 DEF Over
    <2>2. TypeOK' /\ PcInv' /\ Quiet
      BY Zenon, <2>1 DEF vars, PInv, TypeOK, PcInv, Quiet
    <2> QED
      BY Zenon, <2>2, QuietStep DEF PInv
  <1>2. CASE Next /\ ~Over
    BY Zenon, <1>2, GetStep, ReturnStep, ProduceStep, ScanStep, JoinStep, QuietSteps
       DEF Next, Consumer, Destructor
  <1> QED
    BY Zenon, <1>1, <1>2

-----------------------------------------------------------------------------
\* What every reachable state of the pool satisfies, for any consumers, sizes
\* and outcomes of Connect.
THEOREM PoolInvariance == Spec => []PInv
  BY InitPInv, NextPInv, PTL DEF Spec

\* m_connectionCount always counts the connections in the queue and in use, for
\* any interleaving of GetConnection, the deleter and the pool's two threads.
THEOREM CountCorrect == Spec => []CountExact
  <1>1. PInv => CountExact
    BY Zenon DEF PInv
  <1> QED
    BY <1>1, PoolInvariance, PTL

\* GetConnection never hands a connection to two consumers.
THEOREM OwnerCorrect == Spec => []OneOwner
  <1>1. PInv => OneOwner
    BY Zenon DEF PInv
  <1> QED
    BY <1>1, PoolInvariance, PTL

\* Producer and scanner keep the number of connections between m_minSize and
\* m_maxSize.
THEOREM BoundsCorrect == Spec => []SizeBounds
  <1>1. PInv => SizeBounds
    BY Zenon DEF PInv
  <1> QED
    BY <1>1, PoolInvariance, PTL

\* The destructor deletes every connection.
THEOREM DeleteCorrect == Spec => []AllDeleted
  <1>1. PInv => AllDeleted
    BY DEF PInv, PcInv, AllDeleted, Alive, Queued, Holders
  <1> QED
    BY <1>1, PoolInvariance, PTL

\* With at most m_minSize consumers the scanner never calls front() on an empty
\* queue: an empty queue with more than m_minSize connections alive needs more
\* than m_minSize of them in use at once.
THEOREM FrontCorrect ==
    ASSUME Cardinality(Consumers) <= m_minSize
    PROVE  Spec => []FrontExists
  <1>1. Init => FrontExists
    BY Zenon, PoolAssumption DEF Init, FrontExists, Threads, Daemons
  <1>2. PInv /\ FrontExists /\ [Next]_vars => FrontExists'
    <2> SUFFICES ASSUME PInv, FrontExists, [Next]_vars PROVE FrontExists'
      BY Zenon
    <2>1. Scanner \in Threads /\ Scanner \notin Consumers /\ pc \in [Threads -> ConsumerPc \cup DaemonPc]
      BY Zenon, PoolAssumption DEF Threads, Daemons, PInv, TypeOK
    <2>2. CASE Scan
      <3>1. PICK n \in Nat :
             /\ n <= Len(m_connectionQueue)
             /\ pc' = [pc EXCEPT ![Scanner] =
                        IF n = Len(m_connectionQueue) /\ m_connectionCount - n > m_minSize
                          THEN "undefined" ELSE "top"]
        BY Zenon, <2>2, ScanEffect
      <3>2. m_connectionCount = Len(m_connectionQueue) + Cardinality(Holders)
            /\ Len(m_connectionQueue) \in Nat
        BY Zenon, <2>1, <2>2, PoolAssumption, LenProperties
           DEF Scan, PInv, PcInv, CountExact, TypeOK, Daemons
      <3>3. Cardinality(Holders) \in Nat /\ Cardinality(Holders) <= m_minSize
        BY HoldersFinite, PoolAssumption, FS_CardinalityType
      <3>4. ~(n = Len(m_connectionQueue) /\ m_connectionCount - n > m_minSize)
        BY <3>2, <3>3, PoolAssumption
      <3> QED
        BY Zenon, <2>1, <3>1, <3>4 DEF FrontExists
    <2>3. CASE Next /\ ~Scan
      <3> DEFINE Moved == \E p \in Threads, l \in (ConsumerPc \cup DaemonPc) \ {"undefined"} :
                             pc' = [pc EXCEPT ![p] = l]
      <3>1. pc' = pc \/ Moved
        <4>1. ASSUME NEW c \in Consumers, Consumer(c)
              PROVE  Moved
          BY Zenon, <4>1 DEF Consumer, CallGet, GetConnection, GetWaits, Return, Goto, ConsumerPc,
                      Threads
        <4>2. ASSUME NEW d \in Daemons, Round(d)
              PROVE  Moved
          BY Zenon, <4>2 DEF Round, RoundTop, RoundLock, RoundTest, RoundSleep, RoundBreak, Goto,
                      DaemonPc, Threads
        <4>3. ASSUME Produce \/ ScanTimeout
              PROVE  Moved
          BY Zenon, <4>3 DEF Produce, ScanTimeout, Goto, DaemonPc, Threads, Daemons
        <4>4. ASSUME NEW p \in Threads, Wake(p)
              PROVE  pc' = pc \/ Moved
          BY Zenon, <4>4 DEF Wake, Goto, ConsumerPc, DaemonPc
        <4>5. ASSUME Destructor \/ Over
              PROVE  pc' = pc \/ Moved
          BY Zenon, <4>5 DEF Destructor, Shutdown, ShutdownNotify, ShutdownJoin, Over, vars
        <4> HIDE DEF Moved
        <4> QED
          BY Zenon, <2>3, <4>1, <4>2, <4>3, <4>4, <4>5 DEF Next
      <3> QED
        BY Zenon, <2>1, <3>1 DEF FrontExists
    <2>4. CASE UNCHANGED vars
      BY Zenon, <2>4 DEF vars, FrontExists
    <2> QED
      BY Zenon, <2>2, <2>3, <2>4
  <1> QED
    BY <1>1, <1>2, PoolInvariance, PTL DEF Spec

-----------------------------------------------------------------------------
(* HttpServer: as long as no read has failed nobody closes a number of       *)
(* another.                                                                *)

\* The parts of the state that the argument is about.
Shape ==
    /\ kernel \in [Fds -> Clients \cup {NoClient, Listening, Other}]
    /\ m_sock \in [Clients -> Fds \cup {0}]
    /\ DOMAIN users_ = Fds
    /\ stage \in [Clients -> {"new", "return", "done"} \cup Serving]
    /\ m_socks \in [Addrs -> Fds \cup {0}]
    /\ acceptor \in [Addrs -> {"off", "test", "enter", "blocked", "init", "schedule", "ended"}]
    /\ client \in [Addrs -> Clients \cup {NoClient}]
    /\ other \in Fds \cup {0}
    /\ failed \subseteq Clients

\* An acceptor between accept and schedule has a connection to itself, and the
\* connection is as far as the acceptor.
ClientInv ==
    /\ \A a \in Addrs : acceptor[a] \in {"init", "schedule"} =>
         client[a] \in Clients /\ stage[client[a]] = acceptor[a]
    /\ \A a, b \in Addrs :
         /\ acceptor[a] \in {"init", "schedule"} /\ acceptor[b] \in {"init", "schedule"}
         /\ client[a] = client[b]
         => a = b

\* Also between the end of the handler and ~Socket the number is the connection's.
ConnInv ==
    \A c \in Clients :
        /\ stage[c] \in Serving \cup {"return"} => m_sock[c] \in Fds /\ kernel[m_sock[c]] = c
        /\ stage[c] \in Serving \ {"init"} => users_[m_sock[c]].conn = c

ListenInv == \A a \in Addrs : m_socks[a] # 0 => kernel[m_socks[a]] = Listening

OtherInv == other # 0 /\ server # "destroyed" => kernel[other] = Other

\* The sockets that CloseListeners has closed are forgotten.
ClosedInv == server \in {"closed", "destroyed"} => \A a \in Addrs : m_socks[a] = 0

NumbersInv == ConnInv /\ ListenInv /\ OtherInv

ServerInv == Shape /\ ClientInv /\ ClosedInv /\ (failed = {} => NumbersInv)

-----------------------------------------------------------------------------
\* The actions, as the proofs split them.
LEMMA Cases ==
    ASSUME [ServerNext]_serverVars
    PROVE  \/ bound \/ start \/ CloseListeners \/ ServerDestroyed
           \/ bindFailed \/ stop \/ OtherOpens \/ UNCHANGED serverVars
           \/ \E a \in Addrs : \/ bind(a) \/ testStop(a) \/ enter(a) \/ init(a) \/ schedule(a)
                              \/ acceptFailed(a) \/ \E c \in Clients : accept(a, c)
           \/ \E c \in Clients : read(c) \/ process(c) \/ write(c) \/ SocketDestroyed(c)
  BY Zenon DEF ServerNext, Tcp, Ended, startAccept, handleClient

LEMMA ShapeStep ==
    ASSUME Shape, ClientInv, [ServerNext]_serverVars
    PROVE  Shape'
  <1> USE ServerAssumption DEF Shape, Serving, StageTo, AcceptorTo, conns, tcp
  <1>1. CASE bound \/ start \/ stop \/ UNCHANGED serverVars
    BY Zenon, <1>1 DEF bound, start, stop, serverVars
  <1>2. CASE CloseListeners \/ ServerDestroyed \/ bindFailed
    BY SMTT(30), <1>2 DEF CloseListeners, ServerDestroyed, bindFailed, ClosedAll
  <1>3. CASE OtherOpens
    BY ZenonT(60), <1>3 DEF OtherOpens, Lowest, Free
  <1>4. ASSUME NEW a \in Addrs, bind(a)
        PROVE  Shape'
    BY <1>4 DEF bind, Lowest, Free
  <1>5. ASSUME NEW a \in Addrs, testStop(a) \/ enter(a) \/ acceptFailed(a)
        PROVE  Shape'
    BY <1>5 DEF testStop, enter, acceptFailed
  <1>6. ASSUME NEW a \in Addrs, init(a)
        PROVE  Shape'
    BY Zenon, <1>6 DEF init, ClientInv
  <1>7. ASSUME NEW a \in Addrs, schedule(a)
        PROVE  Shape'
    BY Zenon, <1>7 DEF schedule, ClientInv
  <1>8. ASSUME NEW a \in Addrs, NEW c \in Clients, accept(a, c)
        PROVE  Shape'
    BY <1>8 DEF accept, Lowest, Free
  <1>9. ASSUME NEW c \in Clients, read(c)
        PROVE  Shape'
    <2>1. /\ kernel' \in [Fds -> Clients \cup {NoClient, Listening, Other}]
          /\ DOMAIN users_' = Fds
      BY <1>9 DEF read, Close, ClosedAll
    <2> QED
      BY SMTT(30), <1>9, <2>1 DEF read
  <1>10. ASSUME NEW c \in Clients, process(c) \/ write(c) \/ SocketDestroyed(c)
         PROVE  Shape'
    BY <1>10 DEF process, write, SocketDestroyed, ClosedAll
  <1> QED
    BY Zenon, Cases, <1>1, <1>2, <1>3, <1>4, <1>5, <1>6, <1>7, <1>8, <1>9, <1>10

LEMMA ClientStep ==
    ASSUME Shape, ClientInv, [ServerNext]_serverVars
    PROVE  ClientInv'
  <1> USE DEF Shape, ClientInv, Serving, StageTo, AcceptorTo, conns, tcp
  <1>1. CASE \/ bound \/ start \/ stop \/ UNCHANGED serverVars
             \/ CloseListeners \/ ServerDestroyed \/ bindFailed \/ OtherOpens
    BY Zenon, <1>1 DEF bound, start, stop, serverVars, CloseListeners, ServerDestroyed, bindFailed, OtherOpens
  <1>2. ASSUME NEW a \in Addrs,
               bind(a) \/ testStop(a) \/ enter(a) \/ acceptFailed(a)
        PROVE  ClientInv'
    BY <1>2 DEF bind, testStop, enter, acceptFailed
  <1>3. ASSUME NEW a \in Addrs, init(a)
        PROVE  ClientInv'
    BY <1>3 DEF init
  <1>4. ASSUME NEW a \in Addrs, schedule(a)
        PROVE  ClientInv'
    BY <1>4 DEF schedule
  <1>5. ASSUME NEW a \in Addrs, NEW c \in Clients, accept(a, c)
        PROVE  ClientInv'
    BY <1>5 DEF accept
  <1>6. ASSUME NEW c \in Clients, read(c) \/ process(c) \/ write(c) \/ SocketDestroyed(c)
        PROVE  ClientInv'
    <2>1. stage[c] \notin {"init", "schedule"} /\ UNCHANGED <<acceptor, client>>
      BY Zenon, <1>6 DEF read, process, write, SocketDestroyed
    <2>2. \A d \in Clients \ {c} : stage'[d] = stage[d]
      BY <1>6 DEF read, process, write, SocketDestroyed
    <2> QED
      BY Zenon, <2>1, <2>2
  <1> QED
    BY Zenon, Cases, <1>1, <1>2, <1>3, <1>4, <1>5, <1>6

LEMMA ClosedStep ==
    ASSUME Shape, ClosedInv, [ServerNext]_serverVars
    PROVE  ClosedInv'
  <1> USE DEF Shape, ClosedInv, conns, tcp
  <1>1. CASE \/ bound \/ start \/ stop \/ UNCHANGED serverVars
             \/ CloseListeners \/ ServerDestroyed \/ bindFailed \/ OtherOpens
    BY Zenon, <1>1 DEF bound, start, stop, serverVars, CloseListeners, ServerDestroyed, bindFailed, OtherOpens
  <1>2. ASSUME NEW a \in Addrs,
               \/ bind(a) \/ testStop(a) \/ enter(a) \/ acceptFailed(a) \/ init(a) \/ schedule(a)
               \/ \E c \in Clients : accept(a, c)
        PROVE  ClosedInv'
    BY Zenon, <1>2 DEF bind, testStop, enter, acceptFailed, init, schedule, accept
  <1>3. ASSUME NEW c \in Clients, read(c) \/ process(c) \/ write(c) \/ SocketDestroyed(c)
        PROVE  ClosedInv'
    BY Zenon, <1>3 DEF read, process, write, SocketDestroyed
  <1> QED
    BY Zenon, Cases, <1>1, <1>2, <1>3

\* A connection that goes on without a system call keeps the numbers apart.
LEMMA StageMoves ==
    ASSUME NumbersInv, stage \in [Clients -> {"new", "return", "done"} \cup Serving],
           NEW c \in Clients, NEW next \in Serving \cup {"return"},
           stage[c] \in Serving \ {"init"}, next # "init", stage' = [stage EXCEPT ![c] = next],
           UNCHANGED <<kernel, m_sock, users_, m_socks, server, other>>
    PROVE  NumbersInv'
  <1>1. \A d \in Clients : stage'[d] = IF d = c THEN next ELSE stage[d]
    BY Zenon
  <1>2. ConnInv'
    BY ONLY Zenon, <1>1, NumbersInv, stage[c] \in Serving \ {"init"}, UNCHANGED <<kernel, m_sock, users_>>
      DEF NumbersInv, ConnInv, Serving
  <1>3. ListenInv' /\ OtherInv'
    BY Zenon DEF NumbersInv, ListenInv, OtherInv
  <1> QED
    BY Zenon, <1>2, <1>3 DEF NumbersInv

LEMMA NumbersStep ==
    ASSUME Shape, ClientInv, ClosedInv, [ServerNext]_serverVars,
           failed = {} => NumbersInv, failed' = {}
    PROVE  NumbersInv'
  <1>1. failed = {} /\ ConnInv /\ ListenInv /\ OtherInv
    <2>1. failed \subseteq failed'
      <3> USE DEF conns
      <3>1. CASE \/ bound \/ start \/ stop \/ UNCHANGED serverVars
                 \/ CloseListeners \/ ServerDestroyed \/ bindFailed \/ OtherOpens
        BY Zenon, <3>1 DEF bound, start, stop, serverVars, CloseListeners, ServerDestroyed, bindFailed, OtherOpens
      <3>2. ASSUME NEW a \in Addrs,
                   \/ bind(a) \/ testStop(a) \/ enter(a) \/ acceptFailed(a) \/ init(a)
                   \/ schedule(a) \/ \E c \in Clients : accept(a, c)
            PROVE  failed \subseteq failed'
        BY Zenon, <3>2 DEF bind, testStop, enter, acceptFailed, init, schedule, accept
      <3>3. ASSUME NEW c \in Clients, read(c) \/ process(c) \/ write(c) \/ SocketDestroyed(c)
            PROVE  failed \subseteq failed'
        BY Zenon, <3>3 DEF read, process, write, SocketDestroyed
      <3> QED
        BY Zenon, Cases, <3>1, <3>2, <3>3
    <2> QED
      BY Zenon, <2>1 DEF NumbersInv
  <1> USE <1>1, ServerAssumption DEF Shape, Serving, StageTo, AcceptorTo, conns, tcp
  <1>2. CASE bound \/ start \/ stop \/ UNCHANGED serverVars
    BY <1>2 DEF bound, start, stop, serverVars, NumbersInv, ConnInv, ListenInv, OtherInv
  <1>3. CASE CloseListeners \/ bindFailed
    <2>1. ConnInv'
      <3>1. UNCHANGED <<m_sock, users_, stage>>
        BY Zenon, <1>3 DEF CloseListeners, bindFailed
      <3>2. kernel' = ClosedAll({m_socks[a] : a \in Addrs})
        BY Zenon, <1>3 DEF CloseListeners, bindFailed
      <3>3. ASSUME NEW c \in Clients, stage[c] \in Serving \cup {"return"}
            PROVE  kernel'[m_sock[c]] = c
        <4>1. m_sock[c] \in Fds /\ kernel[m_sock[c]] = c /\ c # Listening
          BY Zenon, <3>3 DEF ConnInv
        <4>2. \A a \in Addrs : m_socks[a] # m_sock[c]
          BY Zenon, <4>1 DEF ListenInv
        <4>3. m_sock[c] \notin {m_socks[a] : a \in Addrs}
          BY ONLY Zenon, <4>2
        <4>4. kernel'[m_sock[c]] = kernel[m_sock[c]]
          BY ONLY Zenon, <3>2, <4>1, <4>3 DEF ClosedAll
        <4> QED
          BY ONLY Zenon, <4>1, <4>4
      <3> QED
        BY Zenon, <3>1, <3>3 DEF ConnInv
    <2>2. ListenInv'
      <3>1. m_socks' = [a \in Addrs |-> 0]
        BY Zenon, <1>3 DEF CloseListeners, bindFailed
      <3> QED
        BY ONLY Zenon, <3>1 DEF ListenInv
    <2>3. OtherInv'
      <3>1. other' = other /\ kernel' = ClosedAll({m_socks[a] : a \in Addrs})
        BY Zenon, <1>3 DEF CloseListeners, bindFailed
      <3>2. server # "destroyed"
        BY <1>3 DEF CloseListeners, bindFailed
      <3>3. ASSUME other # 0
            PROVE  kernel'[other] = Other
        <4>1. other \in Fds /\ kernel[other] = Other
          BY Zenon, <3>2, <3>3 DEF OtherInv
        <4>2. \A a \in Addrs : m_socks[a] # other
          BY Zenon, <3>3, <4>1 DEF ListenInv
        <4>3. other \notin {m_socks[a] : a \in Addrs}
          BY ONLY Zenon, <4>2
        <4> QED
          BY ONLY Zenon, <3>1, <4>1, <4>3 DEF ClosedAll
      <3> QED
        BY Zenon, <3>1, <3>3 DEF OtherInv
    <2> QED
      BY Zenon, <2>1, <2>2, <2>3 DEF NumbersInv
  <1>4. CASE ServerDestroyed
    <2>1. ConnInv' /\ OtherInv'
      BY Zenon, <1>4 DEF ServerDestroyed, ConnInv, OtherInv
    <2>2. ListenInv'
      BY Zenon, <1>4 DEF ServerDestroyed, ListenInv, ClosedInv
    <2> QED
      BY Zenon, <2>1, <2>2 DEF NumbersInv
  <1>5. CASE OtherOpens
    <2>1. PICK f \in Fds : /\ kernel[f] = NoClient
                           /\ kernel' = [kernel EXCEPT ![f] = Other] /\ other' = f
      BY ZenonT(60), <1>5 DEF OtherOpens, Lowest, Free
    <2>2. ConnInv'
      BY <1>5, <2>1 DEF OtherOpens, ConnInv
    <2>3. ListenInv' /\ OtherInv'
      BY Zenon, <1>5, <2>1 DEF OtherOpens, ListenInv, OtherInv
    <2> QED
      BY Zenon, <2>2, <2>3 DEF NumbersInv
  <1>6. ASSUME NEW a \in Addrs, bind(a)
        PROVE  NumbersInv'
    <2>1. PICK f \in Fds : /\ kernel[f] = NoClient
                           /\ kernel' = [kernel EXCEPT ![f] = Listening]
                           /\ m_socks' = [m_socks EXCEPT ![a] = f]
      BY ZenonT(60), <1>6 DEF bind, Lowest, Free
    <2>2. ConnInv'
      BY Zenon, <1>6, <2>1 DEF bind, ConnInv
    <2>3. ListenInv' /\ OtherInv'
      BY <1>6, <2>1 DEF bind, ListenInv, OtherInv
    <2> QED
      BY Zenon, <2>2, <2>3 DEF NumbersInv
  <1>7. ASSUME NEW a \in Addrs, testStop(a) \/ enter(a) \/ acceptFailed(a)
        PROVE  NumbersInv'
    BY Zenon, <1>7 DEF testStop, enter, acceptFailed, NumbersInv, ConnInv, ListenInv, OtherInv
  <1>8. ASSUME NEW a \in Addrs, init(a)
        PROVE  NumbersInv'
    <2>1. client[a] \in Clients /\ stage[client[a]] = "init"
      BY Zenon, <1>8 DEF init, ClientInv
    <2>2. ConnInv'
      BY SMTT(30), <1>8, <2>1 DEF init, ConnInv
    <2>3. ListenInv' /\ OtherInv'
      BY Zenon, <1>8 DEF init, ListenInv, OtherInv
    <2> QED
      BY Zenon, <2>2, <2>3 DEF NumbersInv
  <1>9. ASSUME NEW a \in Addrs, schedule(a)
        PROVE  NumbersInv'
    <2>1. client[a] \in Clients /\ stage[client[a]] = "schedule"
      BY Zenon, <1>9 DEF schedule, ClientInv
    <2>2. /\ stage' = [stage EXCEPT ![client[a]] = "read"]
          /\ UNCHANGED <<kernel, m_sock, users_, m_socks, server, other>>
      BY Zenon, <1>9 DEF schedule
    <2> QED
      BY ZenonT(60), <2>1, <2>2, StageMoves DEF NumbersInv
  <1>10. ASSUME NEW a \in Addrs, NEW c \in Clients, accept(a, c)
         PROVE  NumbersInv'
    <2>1. PICK f \in Fds : /\ kernel[f] = NoClient
                           /\ kernel' = [kernel EXCEPT ![f] = c]
                           /\ m_sock' = [m_sock EXCEPT ![c] = f]
      BY ZenonT(60), <1>10 DEF accept, Lowest, Free
    <2>2. ConnInv'
      <3>1. /\ stage[c] = "new" /\ stage' = [stage EXCEPT ![c] = "init"]
            /\ users_' = users_
        BY Zenon, <1>10 DEF accept
      <3>2. \A d \in Clients \ {c} : stage[d] \in Serving \cup {"return"} => m_sock[d] # f
        BY Zenon, <2>1 DEF ConnInv
      <3>3. /\ m_sock'[c] = f /\ kernel'[f] = c /\ stage'[c] = "init"
            /\ \A d \in Clients \ {c} : m_sock'[d] = m_sock[d] /\ stage'[d] = stage[d]
            /\ \A g \in Fds \ {f} : kernel'[g] = kernel[g]
        BY <2>1, <3>1
      <3> QED
        BY ONLY <1>1, <2>1, <3>1, <3>2, <3>3 DEF ConnInv, Serving
    <2>3. ListenInv' /\ OtherInv'
      BY Zenon, <1>10, <2>1 DEF accept, ListenInv, OtherInv
    <2> QED
      BY Zenon, <2>2, <2>3 DEF NumbersInv
  <1>11. ASSUME NEW c \in Clients, read(c)
         PROVE  NumbersInv'
    <2>1. UNCHANGED <<kernel, users_, m_sock, m_socks, other, server>>
      BY Zenon, <1>11 DEF read
    <2>2. stage' = [stage EXCEPT ![c] = "process"] \/ stage' = [stage EXCEPT ![c] = "empty"]
      BY Zenon, <1>11 DEF read
    <2>3. stage[c] = "read"
      BY Zenon, <1>11 DEF read
    <2> QED
      BY Zenon, <2>1, <2>2, <2>3, StageMoves DEF NumbersInv
  <1>12. ASSUME NEW c \in Clients, process(c) \/ write(c)
         PROVE  NumbersInv'
    <2>1. /\ stage[c] \in {"process", "empty", "write"}
          /\ UNCHANGED <<kernel, m_sock, users_, m_socks, server, other>>
      BY Zenon, <1>12 DEF process, write
    <2>2. stage' = [stage EXCEPT ![c] = "write"] \/ stage' = [stage EXCEPT ![c] = "return"]
      BY Zenon, <1>12 DEF process, write
    <2> QED
      BY Zenon, <2>1, <2>2, StageMoves DEF NumbersInv
  <1>13. ASSUME NEW c \in Clients, SocketDestroyed(c)
         PROVE  NumbersInv'
    <2>1. m_sock[c] \in Fds /\ kernel[m_sock[c]] = c
      BY Zenon, <1>13 DEF SocketDestroyed, ConnInv
    <2>2. ConnInv'
      <3>1. /\ kernel' = ClosedAll({m_sock[c]}) /\ users_' = users_
            /\ m_sock' = [m_sock EXCEPT ![c] = 0] /\ stage' = [stage EXCEPT ![c] = "done"]
        BY Zenon, <1>13 DEF SocketDestroyed
      <3>2. \A d \in Clients \ {c} : stage[d] \in Serving \cup {"return"} => m_sock[d] # m_sock[c]
        BY Zenon, <2>1 DEF ConnInv
      <3>3. /\ stage'[c] = "done"
            /\ \A d \in Clients \ {c} : m_sock'[d] = m_sock[d] /\ stage'[d] = stage[d]
            /\ \A g \in Fds : g # m_sock[c] => kernel'[g] = kernel[g]
        BY Zenon, <3>1 DEF ClosedAll
      <3>4. users_' = users_
        BY Zenon, <3>1
      <3>5. ConnInv
        BY Zenon, <1>1
      <3> SUFFICES ASSUME NEW d \in Clients
                   PROVE  /\ stage'[d] \in Serving \cup {"return"}
                             => m_sock'[d] \in Fds /\ kernel'[m_sock'[d]] = d
                          /\ stage'[d] \in Serving \ {"init"} => users_'[m_sock'[d]].conn = d
        BY Zenon DEF ConnInv
      <3>6. CASE d = c
        <4>1. stage'[d] = "done"
          BY Zenon, <3>3, <3>6
        <4> QED
          BY ONLY Zenon, <4>1 DEF Serving
      <3>7. CASE d # c
        <4>1. m_sock'[d] = m_sock[d] /\ stage'[d] = stage[d]
          BY Zenon, <3>3, <3>7
        <4>2. /\ stage[d] \in Serving \cup {"return"} => m_sock[d] \in Fds /\ kernel[m_sock[d]] = d
              /\ stage[d] \in Serving \ {"init"} => users_[m_sock[d]].conn = d
          BY Zenon, <3>5 DEF ConnInv
        <4>3. ASSUME stage[d] \in Serving \cup {"return"}
              PROVE  kernel'[m_sock[d]] = kernel[m_sock[d]]
          <5>1. m_sock[d] \in Fds
            BY Zenon, <4>2, <4>3
          <5>2. d \in Clients \ {c}
            BY Zenon, <3>7
          <5>3. m_sock[d] # m_sock[c]
            BY Zenon, <3>2, <4>3, <5>2
          <5> QED
            BY Zenon, <3>3, <5>1, <5>3
        <4> QED
          BY ONLY Zenon, <4>1, <4>2, <4>3, <3>4
      <3> QED
        BY Zenon, <3>6, <3>7
    <2>3. ListenInv' /\ OtherInv'
      BY <1>13, <2>1 DEF SocketDestroyed, ClosedAll, ListenInv, OtherInv
    <2> QED
      BY Zenon, <2>2, <2>3 DEF NumbersInv
  <1> QED
    BY Zenon, Cases, <1>2, <1>3, <1>4, <1>5, <1>6, <1>7, <1>8, <1>9, <1>10, <1>11, <1>12, <1>13

-----------------------------------------------------------------------------
\* The invariant holds from the constructor on.
THEOREM ServerInvariance == ServerSpec => []ServerInv
  <1>1. ServerInit => ServerInv
    <2> SUFFICES ASSUME ServerInit PROVE ServerInv
      BY Zenon
    <2> USE ServerAssumption DEF ServerInit
    <2>1. Shape
      BY Zenon DEF Shape, Serving
    <2>2. ClientInv /\ ClosedInv
      BY Zenon DEF ClientInv, ClosedInv
    <2>3. NumbersInv
      BY Zenon DEF NumbersInv, ConnInv, ListenInv, OtherInv, Serving
    <2> QED
      BY Zenon, <2>1, <2>2, <2>3 DEF ServerInv
  <1>2. ServerInv /\ [ServerNext]_serverVars => ServerInv'
    BY Zenon, ShapeStep, ClientStep, ClosedStep, NumbersStep DEF ServerInv
  <1> QED
    BY <1>1, <1>2, PTL DEF ServerSpec

\* Until a read fails no close of a Socket, of bind after a failed address or of stop
\* takes a number from a connection, a listening socket or the rest of the process.
THEOREM NumbersCorrect == ServerSpec => []NumbersKept
  <1>1. ServerInv => NumbersKept
    BY Zenon DEF ServerInv, NumbersInv, ConnInv, ListenInv, OtherInv, NumbersKept, OwnFd, Serving
  <1> QED
    BY ServerInvariance, <1>1, PTL
=============================================================================
