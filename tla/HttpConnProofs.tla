--------------------------- MODULE HttpConnProofs ---------------------------
(***************************************************************************)
(* Buffer and HttpConn.  A Buffer is a queue of bytes, for any bytes,      *)
(* strings and sizes: what each operation does to the bytes between the    *)
(* indices, and the refinement of ByteQueue that follows.  Those lemmas    *)
(* are about vectors of any elements B, as HttpConn puts items in its      *)
(* buffer and not bytes.  Then the invariant ConnInv of HttpConn, handler  *)
(* by handler, and what follows from it for any number of handlers,        *)
(* requests, files and changes of them.                                    *)
(***************************************************************************)
EXTENDS HttpConn, SequenceTheorems, TLAPS

LEMMA ContentsSeq ==
    ASSUME NEW B, Zero \in B, NEW c, ShapeOf(c, B)
    PROVE  /\ ReadableBytes(c) \in Nat
           /\ Contents(c) \in Seq(B)
           /\ Len(Contents(c)) = ReadableBytes(c)
           /\ \A k \in 1..ReadableBytes(c) : Contents(c)[k] = c.buffer_[c.readPos_ + k - 1]
  <1>1. ReadableBytes(c) \in Nat
    BY DEF ShapeOf, ReadableBytes
  <1>2. \A k \in 1..ReadableBytes(c) : c.buffer_[c.readPos_ + k - 1] \in B
    <2> TAKE k \in 1..ReadableBytes(c)
    <2>1. c.readPos_ + k - 1 \in 0..(c.size - 1)
      BY SMTT(30) DEF ShapeOf, ReadableBytes
    <2> QED
      BY Zenon, <2>1 DEF ShapeOf
  <1> QED
    BY <1>1, <1>2 DEF Contents

\* Two buffers with the same bytes between their indices.
LEMMA SameContents ==
    ASSUME NEW B, NEW c, NEW d, ShapeOf(c, B), ShapeOf(d, B), ReadableBytes(d) = ReadableBytes(c),
           \A k \in 0..(ReadableBytes(c) - 1) :
             d.buffer_[d.readPos_ + k] = c.buffer_[c.readPos_ + k]
    PROVE  Contents(d) = Contents(c)
  <1>1. \A k \in 1..ReadableBytes(c) :
          d.buffer_[d.readPos_ + k - 1] = c.buffer_[c.readPos_ + k - 1]
    <2> TAKE k \in 1..ReadableBytes(c)
    <2>1. k - 1 \in 0..(ReadableBytes(c) - 1)
      BY DEF ShapeOf, ReadableBytes
    <2>2. d.readPos_ + (k - 1) = d.readPos_ + k - 1 /\ c.readPos_ + (k - 1) = c.readPos_ + k - 1
      BY Zenon DEF ShapeOf, ReadableBytes
    <2> QED
      BY Zenon, <2>1, <2>2
  <1> QED
    BY Zenon, <1>1 DEF Contents

\* resize to something larger.
LEMMA ResizeFacts ==
    ASSUME NEW B, Zero \in B, NEW c, ShapeOf(c, B), NEW n \in Nat, c.size <= n
    PROVE  /\ ShapeOf(resize(c, n), B)
           /\ resize(c, n).size = n /\ resize(c, n).writePos_ = c.writePos_
           /\ Contents(resize(c, n)) = Contents(c)
  <1> DEFINE d == resize(c, n)
  <1>1. /\ d.size = n /\ d.readPos_ = c.readPos_ /\ d.writePos_ = c.writePos_
        /\ d.buffer_ = [k \in 0..(n - 1) |-> IF k < c.size THEN c.buffer_[k] ELSE Zero]
    BY Zenon DEF resize, Vector
  <1>2. d.buffer_ \in [0..(n - 1) -> B]
    <2>1. ASSUME NEW k \in 0..(n - 1), k < c.size
          PROVE  c.buffer_[k] \in B
      <3>1. k \in 0..(c.size - 1)
        BY <2>1 DEF ShapeOf
      <3> QED
        BY Zenon, <3>1 DEF ShapeOf
    <2> QED
      BY Zenon, <1>1, <2>1, BufferAssumption
  <1>3. ShapeOf(d, B)
    BY <1>1, <1>2 DEF ShapeOf
  <1>4. \A k \in 0..(ReadableBytes(c) - 1) : d.buffer_[d.readPos_ + k] = c.buffer_[c.readPos_ + k]
    BY SMTT(30), <1>1 DEF ShapeOf, ReadableBytes
  <1>5. ReadableBytes(d) = ReadableBytes(c)
    BY Zenon, <1>1 DEF ReadableBytes
  <1>6. Contents(d) = Contents(c)
    BY Zenon, <1>3, <1>4, <1>5, SameContents
  <1> QED
    BY Zenon, <1>1, <1>3, <1>6

LEMMA MovedFacts ==
    ASSUME NEW B, Zero \in B, NEW c, ShapeOf(c, B)
    PROVE  /\ ShapeOf(Moved(c), B)
           /\ WritableBytes(Moved(c)) = WritableBytes(c) + PrependableBytes(c)
           /\ Contents(Moved(c)) = Contents(c)
  <1> DEFINE d == Moved(c)
  <1>1. /\ d.size = c.size /\ d.readPos_ = 0 /\ d.writePos_ = ReadableBytes(c)
        /\ d.buffer_ = [k \in 0..(c.size - 1) |->
                          IF k < ReadableBytes(c) THEN c.buffer_[c.readPos_ + k] ELSE c.buffer_[k]]
    BY Zenon DEF Moved, Vector
  <1>2. d.buffer_ \in [0..(c.size - 1) -> B]
    <2>1. ASSUME NEW k \in 0..(c.size - 1), k < ReadableBytes(c)
          PROVE  c.buffer_[c.readPos_ + k] \in B
      <3>1. /\ c.size \in Nat /\ c.readPos_ \in Nat /\ c.writePos_ \in Nat /\ k \in Nat
            /\ c.writePos_ <= c.size /\ k < c.writePos_ - c.readPos_
        BY <2>1 DEF ShapeOf, ReadableBytes
      <3>2. c.readPos_ + k \in 0..(c.size - 1)
        BY <3>1
      <3> QED
        BY Zenon, <3>2 DEF ShapeOf
    <2>2. \A k \in 0..(c.size - 1) : c.buffer_[k] \in B
      BY Zenon DEF ShapeOf
    <2> QED
      BY Zenon, <1>1, <2>1, <2>2
  <1>3. ShapeOf(d, B)
    BY <1>1, <1>2 DEF ShapeOf, ReadableBytes
  <1>4. \A k \in 0..(ReadableBytes(c) - 1) : d.buffer_[d.readPos_ + k] = c.buffer_[c.readPos_ + k]
    BY SMTT(30), <1>1 DEF ShapeOf, ReadableBytes
  <1>5. ReadableBytes(d) = ReadableBytes(c)
    BY <1>1 DEF ShapeOf, ReadableBytes
  <1>6. WritableBytes(d) = WritableBytes(c) + PrependableBytes(c)
    BY <1>1 DEF ShapeOf, ReadableBytes, WritableBytes, PrependableBytes
  <1>7. Contents(d) = Contents(c)
    BY Zenon, <1>3, <1>4, <1>5, SameContents
  <1> QED
    BY Zenon, <1>3, <1>6, <1>7

\* The assertion in EnsureWriteable: there is room now, and the content is what it was.
LEMMA EnsureFacts ==
    ASSUME NEW B, Zero \in B, NEW c, ShapeOf(c, B), NEW len \in Nat
    PROVE  /\ ShapeOf(EnsureWriteable(c, len), B)
           /\ len <= WritableBytes(EnsureWriteable(c, len))
           /\ Contents(EnsureWriteable(c, len)) = Contents(c)
  <1>1. CASE len <= WritableBytes(c)
    BY <1>1 DEF EnsureWriteable, WritableBytes, ShapeOf
  <1>2. CASE ~(len <= WritableBytes(c)) /\ WritableBytes(c) + PrependableBytes(c) < len
    <2>1. EnsureWriteable(c, len) = resize(c, c.writePos_ + len + 1)
      BY <1>2 DEF EnsureWriteable, MakeSpace_, WritableBytes, PrependableBytes, ShapeOf
    <2>2. c.writePos_ + len + 1 \in Nat /\ c.size <= c.writePos_ + len + 1
      BY <1>2 DEF WritableBytes, PrependableBytes, ShapeOf
    <2>3. /\ ShapeOf(resize(c, c.writePos_ + len + 1), B)
          /\ resize(c, c.writePos_ + len + 1).size = c.writePos_ + len + 1
          /\ resize(c, c.writePos_ + len + 1).writePos_ = c.writePos_
          /\ Contents(resize(c, c.writePos_ + len + 1)) = Contents(c)
      BY <2>2, ResizeFacts
    <2>4. len <= WritableBytes(resize(c, c.writePos_ + len + 1))
      BY <2>3 DEF WritableBytes, ShapeOf
    <2> QED
      BY Zenon, <2>1, <2>3, <2>4
  <1>3. CASE ~(len <= WritableBytes(c)) /\ ~(WritableBytes(c) + PrependableBytes(c) < len)
    <2>1. EnsureWriteable(c, len) = Moved(c)
      BY <1>3 DEF EnsureWriteable, MakeSpace_, WritableBytes, PrependableBytes, ShapeOf
    <2>2. len <= WritableBytes(Moved(c))
      BY <1>3, MovedFacts DEF WritableBytes, PrependableBytes, ShapeOf
    <2> QED
      BY Zenon, <2>1, <2>2, MovedFacts
  <1> QED
    BY Zenon, <1>1, <1>2, <1>3

LEMMA PutFacts ==
    ASSUME NEW B, Zero \in B, NEW c, ShapeOf(c, B), NEW s \in Seq(B), Len(s) <= WritableBytes(c)
    PROVE  /\ ShapeOf(Put(c, s), B)
           /\ Contents(Put(c, s)) = Contents(c) \o s
  <1> DEFINE d == Put(c, s)
  <1>1. /\ d.size = c.size /\ d.readPos_ = c.readPos_ /\ d.writePos_ = c.writePos_ + Len(s)
        /\ d.buffer_ = [k \in 0..(c.size - 1) |->
                          IF k >= c.writePos_ /\ k < c.writePos_ + Len(s)
                          THEN s[k - c.writePos_ + 1] ELSE c.buffer_[k]]
    BY Zenon DEF Put, Vector
  <1>2. Len(s) \in Nat /\ \A i \in 1..Len(s) : s[i] \in B
    BY Zenon, ElementOfSeq, LenProperties
  <1>3. d.buffer_ \in [0..(c.size - 1) -> B]
    <2>1. ASSUME NEW k \in 0..(c.size - 1), k >= c.writePos_, k < c.writePos_ + Len(s)
          PROVE  s[k - c.writePos_ + 1] \in B
      <3>1. k - c.writePos_ + 1 \in 1..Len(s)
        BY SMTT(30), <1>2, <2>1 DEF ShapeOf
      <3> QED
        BY Zenon, <1>2, <3>1
    <2>2. \A k \in 0..(c.size - 1) : c.buffer_[k] \in B
      BY Zenon DEF ShapeOf
    <2> QED
      BY Zenon, <1>1, <2>1, <2>2
  <1>4. ShapeOf(d, B)
    BY SMTT(30), <1>1, <1>2, <1>3 DEF ShapeOf, WritableBytes
  <1>5. ReadableBytes(d) = ReadableBytes(c) + Len(s)
    BY <1>1, <1>2 DEF ReadableBytes, ShapeOf
  <1> DEFINE t == Contents(c) \o s
  <1>6. /\ t \in Seq(B) /\ Len(t) = ReadableBytes(c) + Len(s)
        /\ \A i \in 1..(ReadableBytes(c) + Len(s)) :
             t[i] = IF i <= ReadableBytes(c) THEN Contents(c)[i] ELSE s[i - ReadableBytes(c)]
    <2>1. Contents(c) \in Seq(B) /\ Len(Contents(c)) = ReadableBytes(c)
      BY Zenon, ContentsSeq
    <2>2. /\ t \in Seq(B) /\ Len(t) = Len(Contents(c)) + Len(s)
          /\ \A i \in 1..(Len(Contents(c)) + Len(s)) :
               t[i] = IF i <= Len(Contents(c)) THEN Contents(c)[i] ELSE s[i - Len(Contents(c))]
      BY <2>1, ConcatProperties, Zenon
    <2> QED
      BY <2>1, <2>2, Zenon
  <1>7. /\ Contents(d) \in Seq(B) /\ Len(Contents(d)) = ReadableBytes(d)
        /\ \A k \in 1..ReadableBytes(d) : Contents(d)[k] = d.buffer_[d.readPos_ + k - 1]
    BY Zenon, <1>4, ContentsSeq
  <1>8. ASSUME NEW i \in 1..(ReadableBytes(c) + Len(s))
        PROVE  Contents(d)[i] = t[i]
    <2>1. /\ c.readPos_ + i - 1 \in 0..(c.size - 1)
          /\ Contents(d)[i] = d.buffer_[c.readPos_ + i - 1]
      <3>1. c.readPos_ + i - 1 \in 0..(c.size - 1)
        BY SMTT(30), <1>2, <1>8 DEF ShapeOf, ReadableBytes, WritableBytes
      <3>2. i \in 1..ReadableBytes(d)
        BY Zenon, <1>5, <1>8
      <3> HIDE DEF d
      <3> QED
        BY Zenon, <1>1, <1>7, <3>1, <3>2
    <2>2. CASE i <= ReadableBytes(c)
      <3>1. c.readPos_ + i - 1 < c.writePos_
        BY <2>2, <1>2 DEF ShapeOf, ReadableBytes
      <3>2. d.buffer_[c.readPos_ + i - 1] = c.buffer_[c.readPos_ + i - 1]
        BY <1>1, <2>1, <3>1 DEF ShapeOf
      <3>3. Contents(c)[i] = c.buffer_[c.readPos_ + i - 1]
        BY <2>2, <1>8, <1>2, ContentsSeq
      <3> QED
        BY Zenon, <1>6, <1>8, <2>1, <2>2, <3>2, <3>3
    <2>3. CASE ~(i <= ReadableBytes(c))
      <3>1. /\ c.readPos_ + i - 1 >= c.writePos_ /\ c.readPos_ + i - 1 < c.writePos_ + Len(s)
            /\ (c.readPos_ + i - 1) - c.writePos_ + 1 = i - ReadableBytes(c)
        BY SMTT(30), <1>2, <1>8, <2>3 DEF ShapeOf, ReadableBytes
      <3>2. d.buffer_[c.readPos_ + i - 1] = s[i - ReadableBytes(c)]
        BY Zenon, <1>1, <2>1, <3>1
      <3> QED
        BY Zenon, <1>6, <1>8, <2>1, <2>3, <3>2
    <2> QED
      BY Zenon, <2>2, <2>3
  <1>9. Contents(d) = t
    BY Zenon, <1>5, <1>6, <1>7, <1>8, SeqEqual
  <1> QED
    BY Zenon, <1>4, <1>9

LEMMA AppendedFacts ==
    ASSUME NEW B, Zero \in B, NEW c, ShapeOf(c, B), NEW s \in Seq(B)
    PROVE  /\ ShapeOf(Appended(c, s), B)
           /\ Contents(Appended(c, s)) = Contents(c) \o s
  <1> DEFINE e == EnsureWriteable(c, Len(s))
  <1>1. Len(s) \in Nat
    BY Zenon, LenProperties
  <1>2. ShapeOf(e, B) /\ Len(s) <= WritableBytes(e) /\ Contents(e) = Contents(c)
    BY Zenon, <1>1, EnsureFacts
  <1> HIDE DEF e
  <1>3. ShapeOf(Put(e, s), B) /\ Contents(Put(e, s)) = Contents(e) \o s
    BY Zenon, <1>2, PutFacts
  <1> QED
    BY Zenon, <1>2, <1>3 DEF Appended, e

\* Two areas filled by one readv, the second one appended.
LEMMA ReceivedFacts ==
    ASSUME NEW B, Zero \in B, NEW c, ShapeOf(c, B), NEW s \in Seq(B)
    PROVE  /\ ShapeOf(Received(c, s), B)
           /\ Contents(Received(c, s)) = Contents(c) \o s
  <1>1. CASE Len(s) <= WritableBytes(c)
    BY Zenon, <1>1, PutFacts DEF Received
  <1>2. CASE ~(Len(s) <= WritableBytes(c))
    <2> DEFINE w == WritableBytes(c)
               s1 == SubSeq(s, 1, w)
               s2 == SubSeq(s, w + 1, Len(s))
    <2>1. w \in Nat /\ Len(s) \in Nat /\ w < Len(s) /\ \A i \in 1..Len(s) : s[i] \in B
      BY <1>2, LenProperties, ElementOfSeq DEF WritableBytes, ShapeOf
    <2> HIDE DEF w
    <2>2. s1 \in Seq(B) /\ Len(s1) = w
      <3>1. \A i \in 1..w : s[i] \in B
        BY <2>1
      <3>2. s1 \in Seq(B) /\ Len(s1) = IF 1 <= w THEN w - 1 + 1 ELSE 0
        BY <2>1, <3>1, SubSeqProperties
      <3> QED
        BY <2>1, <3>2
    <2>3. s2 \in Seq(B)
      <3>1. \A i \in (w + 1)..Len(s) : s[i] \in B
        BY <2>1
      <3> QED
        BY <2>1, <3>1, SubSeqProperties
    <2>4. s1 \o s2 = s
      <3>1. /\ 1 \in 1..(Len(s) + 1) /\ w \in (1 - 1)..Len(s) /\ Len(s) \in w..Len(s)
        BY <2>1
      <3>2. s1 \o s2 = SubSeq(s, 1, Len(s))
        BY Zenon, <3>1, ConcatAdjacentSubSeq
      <3> QED
        BY Zenon, <3>2, SubSeqFull
    <2> HIDE DEF s1, s2
    <2>5. Len(s1) <= WritableBytes(c)
      BY <2>1, <2>2 DEF w
    <2>6. ShapeOf(Put(c, s1), B) /\ Contents(Put(c, s1)) = Contents(c) \o s1
      BY Zenon, <2>2, <2>5, PutFacts
    <2>7. /\ ShapeOf(Appended(Put(c, s1), s2), B)
          /\ Contents(Appended(Put(c, s1), s2)) = (Contents(c) \o s1) \o s2
      BY Zenon, <2>3, <2>6, AppendedFacts
    <2>8. (Contents(c) \o s1) \o s2 = Contents(c) \o s
      <3>1. Contents(c) \in Seq(B)
        BY Zenon, ContentsSeq
      <3>2. (Contents(c) \o s1) \o s2 = Contents(c) \o (s1 \o s2)
        BY SMTT(30), <3>1, <2>2, <2>3, ConcatAssociative
      <3> QED
        BY Zenon, <3>2, <2>4
    <2> QED
      BY Zenon, <1>2, <2>7, <2>8 DEF Received, s1, s2, w
  <1> QED
    BY Zenon, <1>1, <1>2

LEMMA RetrievedFacts ==
    ASSUME NEW B, Zero \in B, NEW c, ShapeOf(c, B), NEW n \in Nat, n <= ReadableBytes(c)
    PROVE  /\ ShapeOf(Retrieved(c, n), B)
           /\ Contents(Retrieved(c, n)) = SubSeq(Contents(c), n + 1, Len(Contents(c)))
  <1> DEFINE d == Retrieved(c, n)
             q == Contents(c)
  <1>1. /\ d.size = c.size /\ d.readPos_ = c.readPos_ + n /\ d.writePos_ = c.writePos_
        /\ d.buffer_ = c.buffer_
    BY Zenon DEF Retrieved, Vector
  <1>2. ShapeOf(d, B)
    BY <1>1 DEF ShapeOf, ReadableBytes
  <1>3. ReadableBytes(d) = ReadableBytes(c) - n
    BY <1>1 DEF ReadableBytes, ShapeOf
  <1>4. /\ ReadableBytes(c) \in Nat /\ q \in Seq(B) /\ Len(q) = ReadableBytes(c)
        /\ \A k \in 1..ReadableBytes(c) : q[k] = c.buffer_[c.readPos_ + k - 1]
    BY Zenon, ContentsSeq
  <1>5. /\ Contents(d) \in Seq(B) /\ Len(Contents(d)) = ReadableBytes(d)
        /\ \A k \in 1..ReadableBytes(d) : Contents(d)[k] = d.buffer_[d.readPos_ + k - 1]
    BY Zenon, <1>2, ContentsSeq
  <1> HIDE DEF d, q
  <1> DEFINE t == SubSeq(q, n + 1, Len(q))
  <1>6. /\ t \in Seq(B) /\ Len(t) = Len(q) - n
        /\ \A i \in 1..(Len(q) - n) : t[i] = q[n + i]
    <2>1. \A i \in (n + 1)..Len(q) : q[i] \in B
      BY <1>4, ElementOfSeq
    <2>2. /\ t \in Seq(B)
          /\ Len(t) = IF n + 1 <= Len(q) THEN Len(q) - (n + 1) + 1 ELSE 0
          /\ \A i \in 1..(Len(q) - (n + 1) + 1) : t[i] = q[(n + 1) + i - 1]
      BY <1>4, <2>1, SubSeqProperties
    <2> HIDE DEF t
    <2>3. Len(t) = Len(q) - n
      BY <1>4, <2>2
    <2>4. ASSUME NEW i \in 1..(Len(q) - n)
          PROVE  t[i] = q[n + i]
      <3>1. i \in 1..(Len(q) - (n + 1) + 1) /\ (n + 1) + i - 1 = n + i
        BY <1>4, <2>4
      <3> QED
        BY Zenon, <2>2, <3>1
    <2> QED
      BY Zenon, <2>2, <2>3, <2>4
  <1> HIDE DEF t
  <1>7. ASSUME NEW i \in 1..ReadableBytes(d)
        PROVE  Contents(d)[i] = t[i]
    <2>1. i \in 1..(Len(q) - n) /\ n + i \in 1..ReadableBytes(c)
      BY <1>3, <1>4
    <2>2. d.readPos_ + i - 1 = c.readPos_ + (n + i) - 1
      BY <1>1, <1>4 DEF ShapeOf
    <2>3. t[i] = c.buffer_[c.readPos_ + (n + i) - 1]
      BY Zenon, <1>4, <1>6, <2>1
    <2> QED
      BY Zenon, <1>1, <1>5, <2>2, <2>3
  <1>8. Contents(d) = t
    BY Zenon, <1>3, <1>4, <1>5, <1>6, <1>7, SeqEqual
  <1> QED
    BY Zenon, <1>2, <1>8 DEF d, q, t

LEMMA ClearedFacts ==
    ASSUME NEW B, Zero \in B, NEW c, ShapeOf(c, B)
    PROVE  ShapeOf(Cleared(c), B) /\ Contents(Cleared(c)) = <<>>
  <1> DEFINE d == Cleared(c)
  <1>1. /\ d.size = c.size /\ d.readPos_ = 0 /\ d.writePos_ = 0
        /\ d.buffer_ = [k \in 0..(c.size - 1) |-> Zero]
    BY Zenon DEF Cleared, Vector
  <1>2. ShapeOf(d, B)
    BY <1>1, BufferAssumption DEF ShapeOf
  <1>3. ReadableBytes(d) = 0
    BY <1>1 DEF ReadableBytes
  <1>4. Contents(d) \in Seq(B) /\ Len(Contents(d)) = 0
    BY Zenon, <1>2, <1>3, ContentsSeq
  <1> QED
    BY Zenon, <1>2, <1>4, EmptySeq

-----------------------------------------------------------------------------
\* What a step does to the queue.
QueueStep == Queue!Push \/ Queue!Pop

LEMMA BufferStep ==
    ASSUME Shape(b), [Next]_vars
    PROVE  Shape(b)' /\ [QueueStep]_<<Contents(b), in, out>>
  <1>1. ASSUME NEW s \in Strings, AppendStr(s) \/ ReadFd(s)
        PROVE  Shape(b)' /\ QueueStep
    <2>1. s \in Seq(Byte) /\ in' = s /\ out' = <<>>
      BY Zenon, <1>1, BufferAssumption DEF AppendStr, ReadFd
    <2>2. b' = Appended(b, s) \/ b' = Received(b, s)
      BY Zenon, <1>1 DEF AppendStr, ReadFd
    <2>3. Shape(b') /\ Contents(b') = Contents(b) \o s
      BY Zenon, <2>1, <2>2, AppendedFacts, ReceivedFacts, BufferAssumption DEF Shape
    <2>4. Queue!Push
      BY Zenon, <2>1, <2>3 DEF Queue!Push
    <2> QED
      BY Zenon, <2>3, <2>4 DEF QueueStep
  <1>2. ASSUME NEW n \in 0..b.size, Retrieve(n)
        PROVE  Shape(b)' /\ QueueStep
    <2>1. n \in Nat /\ n <= ReadableBytes(b)
      BY <1>2 DEF Retrieve, Shape, ShapeOf
    <2>2. Shape(b') /\ Contents(b') = SubSeq(Contents(b), n + 1, Len(Contents(b)))
      BY Zenon, <1>2, <2>1, RetrievedFacts, BufferAssumption DEF Retrieve, Shape
    <2>3. n \in 0..Len(Contents(b))
      BY <2>1, ContentsSeq, BufferAssumption DEF Shape
    <2>4. Queue!Pop
      BY Zenon, <1>2, <2>2, <2>3 DEF Queue!Pop, Retrieve
    <2> QED
      BY Zenon, <2>2, <2>4 DEF QueueStep
  <1>3. CASE RetrieveAll
    <2> DEFINE n == Len(Contents(b))
    <2>1. n \in Nat /\ Contents(b) \in Seq(Byte)
      BY Zenon, ContentsSeq, BufferAssumption DEF Shape
    <2>2. Shape(b') /\ Contents(b') = <<>>
      BY Zenon, <1>3, ClearedFacts, BufferAssumption DEF RetrieveAll, Shape
    <2>3. SubSeq(Contents(b), 1, n) = Contents(b)
      BY Zenon, <2>1, SubSeqFull
    <2>4. SubSeq(Contents(b), n + 1, n) = <<>>
      BY <2>1, SubSeqEmpty
    <2>5. in' = <<>> /\ out' = Contents(b)
      BY Zenon, <1>3 DEF RetrieveAll
    <2>6. /\ n \in 0..Len(Contents(b))
          /\ out' = SubSeq(Contents(b), 1, n)
          /\ Contents(b') = SubSeq(Contents(b), n + 1, Len(Contents(b)))
      BY <2>1, <2>2, <2>3, <2>4, <2>5
    <2> HIDE DEF n
    <2>7. Queue!Pop
      BY <2>5, <2>6, Zenon DEF Queue!Pop
    <2> QED
      BY Zenon, <2>2, <2>7 DEF QueueStep
  <1>4. CASE UNCHANGED vars
    BY Zenon, <1>4 DEF vars, Shape, ShapeOf, Contents, ReadableBytes
  <1> QED
    BY Zenon, <1>1, <1>2, <1>3, <1>4 DEF Next

LEMMA BufferInit == Init => Shape(b) /\ Queue!Init
  <1> SUFFICES ASSUME Init
               PROVE  Shape(b) /\ Queue!Init
    BY Zenon
  <1>1. /\ b.size = initBuffSize /\ b.readPos_ = 0 /\ b.writePos_ = 0
        /\ b.buffer_ = [k \in 0..(initBuffSize - 1) |-> Zero]
    BY Zenon DEF Init, NewBuffer, Vector
  <1>2. Shape(b)
    BY <1>1, BufferAssumption DEF Shape, ShapeOf
  <1>3. Contents(b) \in Seq(Byte) /\ Len(Contents(b)) = 0
    BY <1>1, <1>2, ContentsSeq, BufferAssumption DEF ReadableBytes, Shape
  <1>4. Contents(b) = <<>>
    BY Zenon, <1>3, EmptySeq
  <1> QED
    BY Zenon, <1>2, <1>4 DEF Init, Queue!Init

\* The indices stay in order and inside the vector.
THEOREM IndicesCorrect == Spec => []Shape(b)
  <1>1. Shape(b) /\ [Next]_vars => Shape(b)'
    BY Zenon, BufferStep
  <1> QED
    BY BufferInit, <1>1, PTL DEF Spec

\* The assertion at the end of EnsureWriteable never fails, and what was in the buffer
\* is still there after the move or the growth, whatever the length asked for.
THEOREM EnsureCorrect == Spec => []EnsureEnough
  <1>1. Shape(b) => EnsureEnough
    BY EnsureFacts, BufferAssumption DEF EnsureEnough, Shape
  <1> QED
    BY IndicesCorrect, <1>1, PTL

\* Every Buffer is a queue of bytes: Append, ReadFd into two areas, MakeSpace_ and the
\* Retrieve operations lose no byte and keep the order.
THEOREM QueueCorrect == Spec => IsQueue
  <1>1. Shape(b) /\ [Next]_vars => [QueueStep]_<<Contents(b), in, out>>
    BY Zenon, BufferStep
  <1> QED
    BY BufferInit, IndicesCorrect, <1>1, PTL DEF Spec, IsQueue, Queue!Spec, QueueStep

-----------------------------------------------------------------------------
\* What a response is made of: the items of its head, and the bytes of a file.
Items ==
    {Zero, "keep-alive", "max=6", "close", "text/html", "text/plain", "error", "page", "hole"}
      \cup {ToString(n) : n \in Int} \cup {Length(n) : n \in Nat}
      \cup {"byte" \o ToString(n) : n \in Int}

Stages ==
    {"idle", "read", "process", "verify", "select", "insert", "stat", "error", "content", "write"}
Area == [base : Nat, len : Nat]

IsRequest(r) == r = [path_ |-> r.path_, keep |-> r.keep, verify |-> r.verify]
IsResponse(r) ==
    /\ r = [code_ |-> r.code_, isKeepAlive_ |-> r.isKeepAlive_, path_ |-> r.path_,
            mmFile_ |-> r.mmFile_, mmFileStat_ |-> r.mmFileStat_]
    /\ r.code_ \in Int
    /\ r.mmFile_ \in [len : Nat, size : Nat]
    /\ r.mmFileStat_.size \in Nat

\* HttpResponse::Init: a response with no file, after the unmapping of all of the old one's.
LEMMA NewResponseFacts ==
    ASSUME NEW code \in Int, NEW keep, NEW path, NEW r,
           r = [code_ |-> code, isKeepAlive_ |-> keep, path_ |-> path,
                mmFile_ |-> NoFile, mmFileStat_ |-> NoStat]
    PROVE  IsResponse(r) /\ r.mmFile_ = NoFile
  BY Zenon DEF IsResponse, NoFile, NoStat

LEMMA RequestFacts ==
    ASSUME NEW path, NEW keep, NEW verify, NEW r,
           r = [path_ |-> path, keep |-> keep, verify |-> verify]
    PROVE  IsRequest(r) /\ r.verify = verify
  BY DEF IsRequest

LEMMA ClosedResponseFacts ==
    ASSUME NEW r, IsResponse(r), NEW q, q = [r EXCEPT !.mmFile_ = NoFile]
    PROVE  IsResponse(q) /\ q.mmFile_ = NoFile
  BY Zenon DEF IsResponse, NoFile

LEMMA UnmappedAll ==
    ASSUME NEW r, IsResponse(r), NEW n, n = r.mmFile_.len,
           r.mmFile_ # NoFile => r.mmFileStat_.size = r.mmFile_.len
    PROVE  Unmapped(n, r) = 0
  <1>1. n \in Nat
    BY Zenon DEF IsResponse
  <1>2. CASE r.mmFile_ = NoFile
    BY ONLY <1>2, n = r.mmFile_.len DEF Unmapped, NoFile
  <1>3. CASE r.mmFile_ # NoFile
    <2>1. Unmapped(n, r) = n - n
      BY Zenon, <1>3 DEF Unmapped
    <2> QED
      BY ONLY <1>1, <2>1
  <1> QED
    BY Zenon, <1>2, <1>3

LEMMA IsFacts ==
    ASSUME NEW v, DOMAIN v = Handlers, NEW h \in Handlers, NEW x
    PROVE  /\ DOMAIN Is(v, h, x) = Handlers
           /\ Is(v, h, x)[h] = x
           /\ \A g \in Handlers \ {h} : Is(v, h, x)[g] = v[g]
  BY Zenon DEF Is

\* stat fills in a size.
LEMMA StatType ==
    ASSUME files \in [Paths -> Stats], NEW p, NEW old, old.size \in Nat
    PROVE  StatOf(p).size \in Nat /\ Filled(old, p).size \in Nat
  <1>1. \A s \in Stats : s.size \in Nat
    BY ConnAssumption DEF Stats, Absent, Directory
  <1>2. Directory \in Stats /\ Absent \in Stats
    BY Zenon DEF Stats
  <1>3. StatOf(p) \in Stats
    BY Zenon, <1>2 DEF StatOf
  <1> QED
    BY Zenon, <1>1, <1>3 DEF Filled

\* The head of a response, and the two ways to go on from it.
LEMMA HeadedFacts ==
    ASSUME NEW c, ShapeOf(c, Items), NEW r, IsResponse(r)
    PROVE  ShapeOf(Headed(c, r), Items)
  <1> DEFINE keep == IF r.isKeepAlive_ THEN <<"keep-alive", "max=6">> ELSE <<"close">>
             c1 == Appended(c, <<ToString(r.code_)>>)
             c2 == Appended(c1, keep)
             c3 == Appended(c2, <<GetFileType_(r.path_)>>)
  <1>1. /\ <<ToString(r.code_)>> \in Seq(Items) /\ keep \in Seq(Items)
        /\ <<GetFileType_(r.path_)>> \in Seq(Items) /\ Zero \in Items
    <2>1. ToString(r.code_) \in Items
      BY Zenon DEF Items, IsResponse
    <2>2. {"keep-alive", "max=6", "close", "text/html", "text/plain", Zero} \subseteq Items
      BY Zenon DEF Items
    <2>3. GetFileType_(r.path_) \in Items
      BY Zenon, <2>2 DEF GetFileType_
    <2> QED
      BY <2>1, <2>2, <2>3
  <1> HIDE DEF keep
  <1>2. ShapeOf(c1, Items)
    BY Zenon, <1>1, AppendedFacts
  <1> HIDE DEF c1
  <1>3. ShapeOf(c2, Items)
    BY Zenon, <1>1, <1>2, AppendedFacts
  <1> HIDE DEF c2
  <1>4. ShapeOf(c3, Items)
    BY Zenon, <1>1, <1>3, AppendedFacts
  <1> QED
    BY Zenon, <1>4 DEF c1, c2, c3, keep, Headed, AddHeader_, AddStateLine_

LEMMA LengthFacts ==
    ASSUME NEW c, ShapeOf(c, Items), NEW n \in Nat
    PROVE  /\ ShapeOf(ContentLength(c, n), Items)
           /\ Contents(ContentLength(c, n)) = Contents(c) \o <<Length(n)>>
  <1>1. <<Length(n)>> \in Seq(Items) /\ Zero \in Items
    BY DEF Items
  <1> QED
    BY Zenon, <1>1, AppendedFacts DEF ContentLength

LEMMA ErrorFacts ==
    ASSUME NEW c, ShapeOf(c, Items)
    PROVE  /\ ShapeOf(ErrorContent(c), Items)
           /\ Contents(ErrorContent(c)) = (Contents(c) \o <<Length(2)>>) \o ErrorPage
  <1>1. ErrorPage \in Seq(Items) /\ Len(ErrorPage) = 2 /\ Zero \in Items
    BY DEF Items, ErrorPage
  <1>2. /\ ShapeOf(ContentLength(c, 2), Items)
        /\ Contents(ContentLength(c, 2)) = Contents(c) \o <<Length(2)>>
    BY Zenon, LengthFacts
  <1>3. ErrorContent(c) = Appended(ContentLength(c, 2), ErrorPage)
    BY Zenon, <1>1 DEF ErrorContent
  <1> HIDE DEF ErrorPage
  <1> QED
    BY Zenon, <1>1, <1>2, <1>3, AppendedFacts

\* The bytes of a file.
LEMMA FileFacts ==
    ASSUME NEW r, NEW from \in Nat, NEW n \in Nat
    PROVE  /\ FileBytes(r, from, n) \in Seq(Items) /\ Len(FileBytes(r, from, n)) = n
           /\ \A k \in 1..n : FileBytes(r, from, n)[k] = FileByte(r, from + k - 1)
  <1>1. \A k \in Int : FileByte(r, k) \in Items
    BY Zenon DEF Items, FileByte
  <1> QED
    BY <1>1 DEF FileBytes

-----------------------------------------------------------------------------
(* The areas of writev.                                                    *)

\* The bytes that are left in areas v when cnt of them are used.
Left(v, cnt) == v[1].len + IF cnt = 2 THEN v[2].len ELSE 0

LEMMA LeftType ==
    ASSUME NEW v \in Area \X Area, NEW cnt \in {1, 2}
    PROVE  Left(v, cnt) \in Nat
  BY DEF Left, Area

LEMMA NoFileFacts ==
    /\ NoFile.len = 0
    /\ \A r : r.mmFile_ = NoFile => ~UseFile(r)
  BY Zenon DEF NoFile, UseFile

\* A line with the length is an item of its own.
LEMMA LengthItem ==
    ASSUME NEW n \in Nat
    PROVE  <<Length(n)>> \in Seq(Items)
  <1>1. Length(n) \in Items
    BY Zenon DEF Items
  <1> QED
    BY <1>1

LEMMA NoneAndRest ==
    ASSUME NEW n \in Nat
    PROVE  Len(<<>>) + n = n
  OBVIOUS

\* The first area is what the buffer holds, unless nothing is left of it.
AreaOf(c, v) == v[1].len > 0 => v[1].base = c.readPos_ /\ v[1].len = ReadableBytes(c)

\* The bytes of the areas, one by one.
GatheredIs(c, r, v, n) ==
    /\ Gathered(c, r, v, n) \in Seq(Items) /\ Len(Gathered(c, r, v, n)) = n
    /\ \A j \in 1..n :
         Gathered(c, r, v, n)[j] = IF j <= v[1].len THEN c.buffer_[v[1].base + j - 1]
                                   ELSE FileByte(r, v[2].base + (j - v[1].len) - 1)

LEMMA GatheredFacts ==
    ASSUME NEW c, ShapeOf(c, Items), NEW r, NEW v \in Area \X Area, AreaOf(c, v), NEW n \in Nat
    PROVE  GatheredIs(c, r, v, n)
  <1> DEFINE base == v[1].base
             l == v[1].len
             from == v[2].base
             k == IF n < l THEN n ELSE l
             s == [i \in 1..k |-> c.buffer_[base + i - 1]]
             m == n - k
             t == FileBytes(r, from, m)
  <1>1. base \in Nat /\ l \in Nat /\ from \in Nat
    BY Zenon DEF Area
  <1>2. l > 0 => base = c.readPos_ /\ l = ReadableBytes(c)
    BY Zenon DEF AreaOf
  <1>3. Gathered(c, r, v, n) = s \o t
    BY Zenon DEF Gathered
  <1> HIDE DEF base, l, from
  <1>4. k \in Nat /\ m \in Nat /\ m = n - k /\ k <= l /\ (k < n => k = l)
    BY <1>1
  <1> HIDE DEF k, m
  <1>5. \A i \in 1..k : c.buffer_[base + i - 1] \in Items
    <2> TAKE i \in 1..k
    <2>1. base = c.readPos_ /\ l = ReadableBytes(c) /\ i \in Nat /\ 1 <= i /\ i <= l
      BY <1>1, <1>2, <1>4
    <2>2. base + i - 1 \in 0..(c.size - 1)
      BY SMTT(30), <1>1, <2>1 DEF ShapeOf, ReadableBytes
    <2> QED
      BY Zenon, <2>2 DEF ShapeOf
  <1>6. s \in Seq(Items) /\ Len(s) = k /\ \A i \in 1..k : s[i] = c.buffer_[base + i - 1]
    BY <1>4, <1>5
  <1>7. /\ t \in Seq(Items) /\ Len(t) = m
        /\ \A i \in 1..m : t[i] = FileByte(r, from + i - 1)
    <2>1. from \in Nat /\ m \in Nat
      BY Zenon, <1>1, <1>4
    <2> HIDE DEF s
    <2> QED
      BY ONLY <2>1, FileFacts
  <1> HIDE DEF s, t
  <1>8. /\ s \o t \in Seq(Items) /\ Len(s \o t) = Len(s) + Len(t)
        /\ \A j \in 1..(Len(s) + Len(t)) : (s \o t)[j] = IF j <= Len(s) THEN s[j] ELSE t[j - Len(s)]
    BY Zenon, <1>6, <1>7, ConcatProperties
  <1>9. Len(s) + Len(t) = n
    BY <1>4, <1>6, <1>7
  <1>10. ASSUME NEW j \in 1..n
         PROVE  (s \o t)[j] = IF j <= l THEN c.buffer_[base + j - 1]
                              ELSE FileByte(r, from + (j - l) - 1)
    <2>1. CASE j <= k
      <3>1. (s \o t)[j] = s[j]
        BY Zenon, <1>6, <1>8, <1>9, <2>1
      <3>2. j \in 1..k /\ j <= l
        BY <1>1, <1>4, <2>1
      <3> QED
        BY Zenon, <1>6, <3>1, <3>2
    <2>2. CASE ~(j <= k)
      <3>1. k = l /\ j - k \in 1..m /\ ~(j <= l)
        BY <1>1, <1>4, <2>2
      <3>2. (s \o t)[j] = t[j - k]
        BY Zenon, <1>6, <1>8, <1>9, <2>2
      <3> QED
        BY Zenon, <1>7, <3>1, <3>2
    <2> QED
      BY Zenon, <2>1, <2>2
  <1> QED
    BY Zenon, <1>3, <1>8, <1>9, <1>10 DEF base, l, from, GatheredIs

\* The buffer after len bytes of the areas were taken.
Consumed(c, v, len) ==
    IF len <= v[1].len THEN Retrieved(c, len) ELSE IF v[1].len > 0 THEN Cleared(c) ELSE c

\* writev can take len bytes of the cnt areas v, the first one in buffer c.
Takes(c, v, cnt, len) ==
    /\ ShapeOf(c, Items) /\ v \in Area \X Area /\ AreaOf(c, v)
    /\ cnt \in {1, 2} /\ len \in 1..Left(v, cnt)

\* What len bytes less than all leave: the rest of the bytes, in the areas Advanced makes.
LEMMA AdvancedFacts ==
    ASSUME NEW c, NEW r, NEW v, NEW cnt, NEW len, Takes(c, v, cnt, len)
    PROVE  /\ ShapeOf(Consumed(c, v, len), Items) /\ Advanced(v, len) \in Area \X Area
           /\ AreaOf(Consumed(c, v, len), Advanced(v, len))
           /\ Left(Advanced(v, len), cnt) = Left(v, cnt) - len
           /\ Gathered(c, r, v, Left(v, cnt))
                = Gathered(c, r, v, len)
                    \o Gathered(Consumed(c, v, len), r, Advanced(v, len), Left(Advanced(v, len), cnt))
  <1>t. /\ ShapeOf(c, Items) /\ v \in Area \X Area /\ AreaOf(c, v)
        /\ cnt \in {1, 2} /\ len \in 1..Left(v, cnt)
    BY Zenon DEF Takes
  <1> USE <1>t
  <1> DEFINE d == Consumed(c, v, len)
             w == Advanced(v, len)
             all == Left(v, cnt)
  <1>1. /\ v[1].base \in Nat /\ v[1].len \in Nat /\ v[2].base \in Nat /\ v[2].len \in Nat
        /\ v = <<v[1], v[2]>> /\ v[1] \in Area /\ v[2] \in Area
    BY DEF Area
  <1>2. all \in Nat /\ len \in Nat /\ len <= all /\ all - len \in Nat
    BY <1>1 DEF Left
  <1>3. ShapeOf(d, Items)
    <2>1. CASE len <= v[1].len
      <3>1. len <= ReadableBytes(c)
        BY <1>1, <2>1 DEF AreaOf
      <3> QED
        BY Zenon, <1>2, <2>1, <3>1, RetrievedFacts DEF Items, Consumed
    <2>2. CASE ~(len <= v[1].len)
      BY Zenon, <2>2, ClearedFacts DEF Items, Consumed
    <2> QED
      BY Zenon, <2>1, <2>2
  \* Byte j of the areas in a buffer, and where it is afterwards.
  <1> DEFINE At(e, u, j) == IF j <= u[1].len THEN e.buffer_[u[1].base + j - 1]
                            ELSE FileByte(r, u[2].base + (j - u[1].len) - 1)
  <1>4. /\ w \in Area \X Area /\ Left(w, cnt) = all - len /\ AreaOf(d, w)
        /\ \A j \in (len + 1)..all : At(d, w, j - len) = At(c, v, j)
    <2>1. CASE len <= v[1].len
      <3>1. w = <<[base |-> v[1].base + len, len |-> v[1].len - len], v[2]>>
        BY <1>1, <1>2, <2>1 DEF Advanced
      <3>2. w \in Area \X Area /\ Left(w, cnt) = all - len
        BY <1>1, <1>2, <2>1, <3>1 DEF Area, Left
      <3>3. w[1].len = v[1].len - len /\ w[1].base = v[1].base + len /\ w[2].base = v[2].base
        BY <3>1
      <3>4. d.buffer_ = c.buffer_ /\ d.readPos_ = c.readPos_ + len /\ d.writePos_ = c.writePos_
        BY Zenon, <2>1 DEF Consumed, Retrieved, Vector
      <3>5. AreaOf(d, w)
        <4>1. v[1].base = c.readPos_ /\ v[1].len = ReadableBytes(c)
          BY <1>1, <1>2, <2>1 DEF AreaOf
        <4>2. c.readPos_ \in Nat /\ c.writePos_ \in Nat
          BY Zenon DEF ShapeOf
        <4>3. w[1].base = d.readPos_ /\ w[1].len = ReadableBytes(d)
          BY <1>1, <1>2, <3>3, <3>4, <4>1, <4>2 DEF ReadableBytes
        <4> QED
          BY Zenon, <4>3 DEF AreaOf
      <3>6. ASSUME NEW j \in (len + 1)..all
            PROVE  At(d, w, j - len) = At(c, v, j)
        <4>1. /\ w[1].base + (j - len) - 1 = v[1].base + j - 1
              /\ w[2].base + ((j - len) - w[1].len) - 1 = v[2].base + (j - v[1].len) - 1
              /\ (j - len <= w[1].len) <=> (j <= v[1].len)
          BY <1>1, <1>2, <3>3
        <4> QED
          BY Zenon, <3>4, <4>1
      <3> QED
        BY Zenon, <3>2, <3>5, <3>6
    <2>2. CASE ~(len <= v[1].len)
      <3>1. /\ cnt = 2 /\ len > v[1].len
            /\ w = <<[base |-> v[1].base, len |-> 0],
                     [base |-> v[2].base + len - v[1].len, len |-> v[2].len - (len - v[1].len)]>>
        BY <1>1, <1>2, <2>2 DEF Advanced, Left
      <3>2. w \in Area \X Area /\ Left(w, cnt) = all - len
        BY <1>1, <1>2, <2>2, <3>1 DEF Area, Left
      <3>3. w[1].len = 0 /\ w[2].base = v[2].base + len - v[1].len
        BY <3>1
      <3>4. AreaOf(d, w)
        BY <3>3 DEF AreaOf
      <3>5. ASSUME NEW j \in (len + 1)..all
            PROVE  At(d, w, j - len) = At(c, v, j)
        <4>1. /\ w[2].base + ((j - len) - w[1].len) - 1 = v[2].base + (j - v[1].len) - 1
              /\ ~(j - len <= w[1].len) /\ ~(j <= v[1].len)
          BY <1>1, <1>2, <3>1, <3>3
        <4> QED
          BY Zenon, <4>1
      <3> QED
        BY Zenon, <3>2, <3>4, <3>5
    <2> QED
      BY Zenon, <2>1, <2>2
  <1> DEFINE g == Gathered(c, r, v, all)
             g1 == Gathered(c, r, v, len)
             m == all - len
             g2 == Gathered(d, r, w, m)
  <1>5. /\ g \in Seq(Items) /\ Len(g) = all /\ \A j \in 1..all : g[j] = At(c, v, j)
        /\ g1 \in Seq(Items) /\ Len(g1) = len /\ \A j \in 1..len : g1[j] = At(c, v, j)
    <2>1. GatheredIs(c, r, v, all) /\ GatheredIs(c, r, v, len)
      BY Zenon, <1>1, <1>2, GatheredFacts
    <2> QED
      BY ONLY Zenon, <2>1 DEF GatheredIs
  <1>m. m \in Nat /\ m = all - len
    BY Zenon, <1>2
  <1> HIDE DEF d, w, all, m
  <1>6. /\ g2 \in Seq(Items) /\ Len(g2) = m
        /\ \A j \in 1..m : g2[j] = At(d, w, j)
    <2>1. GatheredIs(d, r, w, m)
      BY Zenon, <1>m, <1>3, <1>4, GatheredFacts
    <2> QED
      BY ONLY Zenon, <2>1 DEF GatheredIs
  <1> HIDE DEF g, g1, g2, At
  <1>7. ASSUME NEW j \in 1..all
        PROVE  g[j] = IF j <= len THEN g1[j] ELSE g2[j - len]
    <2>1. CASE j <= len
      BY <1>2, <1>5, <2>1
    <2>2. CASE ~(j <= len)
      <3>1. j - len \in 1..m /\ j \in (len + 1)..all
        BY <1>2, <1>m, <2>2
      <3> QED
        BY <1>4, <1>5, <1>6, <2>2, <3>1
    <2> QED
      BY Zenon, <2>1, <2>2
  <1>8. g = g1 \o g2
    <2>1. /\ g1 \o g2 \in Seq(Items) /\ Len(g1 \o g2) = Len(g1) + Len(g2)
          /\ \A j \in 1..(Len(g1) + Len(g2)) :
               (g1 \o g2)[j] = IF j <= Len(g1) THEN g1[j] ELSE g2[j - Len(g1)]
      BY Zenon, <1>5, <1>6, ConcatProperties
    <2>2. Len(g1) + Len(g2) = all
      BY <1>2, <1>m, <1>5, <1>6
    <2>3. Len(g1 \o g2) = all /\ \A j \in 1..all : (g1 \o g2)[j] = g[j]
      BY Zenon, <1>5, <1>7, <2>1, <2>2
    <2> QED
      BY Zenon, <1>5, <2>1, <2>3, SeqEqual
  <1> QED
    BY Zenon, <1>3, <1>4, <1>8 DEF g, g1, g2, d, w, all, m

-----------------------------------------------------------------------------
(* The invariant.                                                          *)

\* Every handler has its own part of each variable.
OfHandler(h) ==
    <<pc[h], writeBuff_[h], request_[h], response_[h], iov_[h], iovCnt_[h], sent[h], whole[h],
      mapped[h], failed[h], returned[h]>>

Domains ==
    /\ DOMAIN pc = Handlers /\ DOMAIN writeBuff_ = Handlers /\ DOMAIN request_ = Handlers
    /\ DOMAIN response_ = Handlers /\ DOMAIN iov_ = Handlers /\ DOMAIN iovCnt_ = Handlers
    /\ DOMAIN sent = Handlers /\ DOMAIN whole = Handlers /\ DOMAIN mapped = Handlers
    /\ DOMAIN failed = Handlers /\ DOMAIN returned = Handlers
    /\ files \in [Paths -> Stats]
    /\ \A row \in table : row = [name |-> row.name, pwd |-> row.pwd]

Typed(h) ==
    /\ pc[h] \in Stages /\ ShapeOf(writeBuff_[h], Items)
    /\ IsRequest(request_[h]) /\ IsResponse(response_[h])
    /\ iov_[h] \in Area \X Area /\ iovCnt_[h] \in {1, 2}
    /\ sent[h] \in Seq(Items) /\ whole[h] \in Seq(Items)

\* MappingExact, and no file is mapped while the next response is made.
Maps(h) ==
    /\ mapped[h] = response_[h].mmFile_.len
    /\ response_[h].mmFile_ # NoFile => response_[h].mmFileStat_.size = response_[h].mmFile_.len
    /\ pc[h] \in {"stat", "error", "content"} => response_[h].mmFile_ = NoFile

Backed(h) ==
    pc[h] = "stat" /\ request_[h].verify # <<>> /\ request_[h].path_ = Page("/welcome") =>
      [name |-> request_[h].verify.name, pwd |-> request_[h].verify.pwd] \in table \/ failed[h]

Announced(h) ==
    whole[h] # <<>> => \E i \in DOMAIN whole[h] : whole[h][i] = Length(Len(whole[h]) - i)

Begins(s, t) == Len(s) <= Len(t) /\ s = SubSeq(t, 1, Len(s))

\* ResponseSent, and while it is sent: what was taken and what is left make up the response.
Sends(h) ==
    /\ pc[h] # "idle" => returned[h] = "none"
    /\ pc[h] \notin {"idle", "write"} => sent[h] = <<>>
    /\ pc[h] = "write" =>
         /\ AreaOf(writeBuff_[h], iov_[h])
         /\ whole[h] = sent[h] \o Gathered(writeBuff_[h], response_[h], iov_[h],
                                           Left(iov_[h], iovCnt_[h]))
    /\ returned[h] # "none" => Begins(sent[h], whole[h])
    /\ returned[h] = "ok" /\ iov_[h][1].len + iov_[h][2].len < IntLimit => sent[h] = whole[h]

Handled(h) == Typed(h) /\ Maps(h) /\ Backed(h) /\ Announced(h) /\ Sends(h)

ConnInv == Domains /\ \A h \in Handlers : Handled(h)

LEMMA EmptyGathered ==
    ASSUME NEW c, ShapeOf(c, Items), NEW r, NEW v \in Area \X Area, AreaOf(c, v)
    PROVE  Gathered(c, r, v, 0) = <<>>
  <1>1. 0 \in Nat
    BY Zenon
  <1>2. GatheredIs(c, r, v, 0)
    BY Zenon, <1>1, GatheredFacts
  <1>3. Gathered(c, r, v, 0) \in Seq(Items) /\ Len(Gathered(c, r, v, 0)) = 0
    BY ONLY Zenon, <1>2 DEF GatheredIs
  <1> QED
    BY Zenon, <1>3, EmptySeq

LEMMA ConnInvInit == ConnInit => ConnInv
  <1> SUFFICES ASSUME ConnInit
               PROVE  ConnInv
    BY Zenon
  <1>1. Domains
    BY Zenon, ConnAssumption DEF ConnInit, Domains
  <1>2. ASSUME NEW h \in Handlers
        PROVE  Handled(h)
    <2>1. /\ pc[h] = "idle" /\ writeBuff_[h] = NewBuffer /\ request_[h] = NoRequest
          /\ response_[h] = NewResponse /\ iovCnt_[h] = 1 /\ mapped[h] = 0
          /\ sent[h] = <<>> /\ whole[h] = <<>> /\ returned[h] = "none"
      BY Zenon DEF ConnInit
    <2>2. iov_[h] \in Area \X Area
      BY ConnAssumption DEF ConnInit, Area
    <2>3. ShapeOf(NewBuffer, Items)
      BY BufferAssumption DEF NewBuffer, Vector, ShapeOf, Items
    <2>4. IsRequest(NoRequest) /\ IsResponse(NewResponse)
      BY DEF IsRequest, IsResponse, NoRequest, NewResponse, NoFile, NoStat
    <2>5. <<>> \in Seq(Items)
      OBVIOUS
    <2>6. Typed(h)
      BY Zenon, <2>1, <2>2, <2>3, <2>4, <2>5 DEF Typed, Stages
    <2>7. Maps(h)
      BY <2>1 DEF Maps, NewResponse, NoFile, NoStat
    <2> QED
      BY Zenon, <2>1, <2>6, <2>7 DEF Handled, Backed, Announced, Sends
  <1> QED
    BY Zenon, <1>1, <1>2 DEF ConnInv

\* A handler leaves the others alone.
LEMMA OthersSame ==
    ASSUME Domains, NEW h \in Handlers, Handle(h)
    PROVE  /\ Domains' /\ table \subseteq table'
           /\ \A g \in Handlers \ {h} : UNCHANGED OfHandler(g)
  <1> DEFINE Fine == /\ Domains' /\ table \subseteq table'
                     /\ \A g \in Handlers \ {h} : UNCHANGED OfHandler(g)
  <1> USE DEF Is, Goto, Domains, OfHandler
  <1>1. CASE init(h)
    BY Zenon, <1>1 DEF init
  <1>2. CASE read(h)
    BY Zenon, <1>2 DEF read, ioVars
  <1>3. CASE process(h)
    BY SMTT(30), <1>3 DEF process, Parsed, ResponseInit, ioVars
  <1>4. CASE GetConnection(h)
    BY <1>4 DEF GetConnection, Verified, ResponseInit, ioVars
  <1>5. CASE Select(h)
    BY <1>5 DEF Select, Verified, ResponseInit, ioVars
  <1>6. CASE Insert(h)
    BY <1>6 DEF Insert, Verified, ResponseInit, ioVars
  <1>7. CASE MakeResponse(h)
    BY Zenon, <1>7 DEF MakeResponse, ioVars
  <1>8. CASE ErrorHtml_(h)
    BY Zenon, <1>8 DEF ErrorHtml_, ioVars
  <1>9. CASE AddContent_(h)
    <2>1. PICK c, r : Ready(h, c, r)
      BY Zenon, <1>9 DEF AddContent_
    <2>2. /\ UNCHANGED <<request_, files, table, failed>>
          /\ DOMAIN mapped' = Handlers /\ \A g \in Handlers \ {h} : mapped'[g] = mapped[g]
      BY Zenon, <1>9 DEF AddContent_
    <2> QED
      BY Zenon, <2>1, <2>2 DEF Ready
  <1>10. CASE write(h)
    BY SMTT(30), <1>10 DEF write
  <1> QED
    BY Zenon, <1>1, <1>2, <1>3, <1>4, <1>5, <1>6, <1>7, <1>8, <1>9, <1>10 DEF Handle

-----------------------------------------------------------------------------
(* The steps.                                                              *)

\* HttpResponse::Init leaves nothing mapped.
LEMMA ResponseInitFacts ==
    ASSUME Domains, NEW h \in Handlers, Typed(h), Maps(h),
           NEW path, NEW keep, NEW code \in Int, ResponseInit(h, response_[h], path, keep, code)
    PROVE  /\ mapped'[h] = 0 /\ IsResponse(response_'[h]) /\ response_'[h].mmFile_ = NoFile
  <1>1. mapped'[h] = Unmapped(mapped[h], response_[h])
    BY Zenon DEF ResponseInit, Domains, Is
  <1>2. response_'[h] = [code_ |-> code, isKeepAlive_ |-> keep, path_ |-> path,
                         mmFile_ |-> NoFile, mmFileStat_ |-> NoStat]
    BY Zenon DEF ResponseInit, Domains, Is
  <1>3. Unmapped(mapped[h], response_[h]) = 0
    BY Zenon, UnmappedAll DEF Maps, Typed
  <1> QED
    BY ONLY Zenon, <1>1, <1>2, <1>3, code \in Int, NewResponseFacts

LEMMA InitHandled ==
    ASSUME Domains, NEW h \in Handlers, Handled(h), init(h)
    PROVE  Handled(h)'
  <1>1. /\ pc'[h] = "read" /\ writeBuff_'[h] = Cleared(writeBuff_[h]) /\ returned'[h] = "none"
        /\ sent'[h] = <<>> /\ whole'[h] = <<>>
        /\ UNCHANGED <<request_, response_, mapped, iov_, iovCnt_>>
    BY Zenon DEF init, Is, Goto, Domains
  <1>2. ShapeOf(writeBuff_'[h], Items) /\ <<>> \in Seq(Items)
    <2>1. Zero \in Items
      BY Zenon DEF Items
    <2>2. ShapeOf(writeBuff_[h], Items)
      BY Zenon DEF Handled, Typed
    <2> QED
      BY SMTT(30), <1>1, <2>1, <2>2, ClearedFacts
  <1>3. Typed(h)'
    BY Zenon, <1>1, <1>2 DEF Handled, Typed, Stages
  <1> QED
    BY Zenon, <1>1, <1>3 DEF Handled, Maps, Backed, Announced, Sends

\* A step that sends nothing and makes no response.
LEMMA QuietHandled ==
    ASSUME NEW h \in Handlers, Handled(h), Typed(h)', Maps(h)', Backed(h)',
           pc'[h] # "write", pc[h] \notin {"idle", "write"},
           UNCHANGED <<iov_, sent, whole, returned>>
    PROVE  Handled(h)'
  BY Zenon DEF Handled, Announced, Sends

LEMMA ReadHandled ==
    ASSUME Domains, NEW h \in Handlers, Handled(h), read(h)
    PROVE  Handled(h)'
  <1>1. /\ pc[h] = "read" /\ UNCHANGED <<writeBuff_, request_, iov_, iovCnt_, sent, whole, returned>>
        /\ pc'[h] \in {"idle", "process"}
    BY Zenon DEF read, Is, Goto, Domains, ioVars
  <1>2. Typed(h)' /\ Maps(h)'
    <2>1. CASE UNCHANGED <<response_, mapped>>
      BY Zenon, <1>1, <2>1 DEF Handled, Typed, Maps, Stages
    <2>2. CASE /\ mapped' = Is(mapped, h, Unmapped(mapped[h], response_[h]))
               /\ response_' = [response_ EXCEPT ![h].mmFile_ = NoFile]
      <3>1. mapped'[h] = Unmapped(mapped[h], response_[h])
        BY Zenon, <2>2 DEF Domains, Is
      <3>2. response_'[h] = [response_[h] EXCEPT !.mmFile_ = NoFile]
        BY Zenon, <2>2 DEF Domains
      <3>4. IsResponse(response_[h]) /\ Maps(h)
        BY Zenon DEF Handled, Typed
      <3>5. IsResponse(response_'[h]) /\ response_'[h].mmFile_ = NoFile
        BY Zenon, <3>2, <3>4, ClosedResponseFacts
      <3>6. mapped'[h] = 0
        BY Zenon, <3>1, <3>4, UnmappedAll DEF Maps
      <3>7. Typed(h)'
        BY Zenon, <1>1, <3>5 DEF Handled, Typed, Stages
      <3>8. NoFile.len = 0
        BY Zenon DEF NoFile
      <3>9. Maps(h)'
        BY Zenon, <3>5, <3>6, <3>8 DEF Maps
      <3> QED
        BY Zenon, <3>7, <3>9
    <2> QED
      BY Zenon, <2>1, <2>2 DEF read
  <1>3. Backed(h)'
    BY Zenon, <1>1 DEF Backed
  <1> QED
    BY Zenon, <1>1, <1>2, <1>3, QuietHandled

LEMMA ProcessHandled ==
    ASSUME Domains, NEW h \in Handlers, Handled(h), process(h)
    PROVE  Handled(h)'
  <1>1. /\ pc[h] = "process" /\ UNCHANGED <<writeBuff_, iov_, iovCnt_, sent, whole, returned>>
    BY Zenon DEF process, ioVars
  <1>2. CASE readBuff_[h] = <<>>
    <2>1. pc'[h] = "idle" /\ request_'[h] = NoRequest /\ UNCHANGED <<response_, mapped>>
      BY Zenon, <1>2 DEF process, Domains, Is, Goto
    <2>2. Typed(h)' /\ Maps(h)' /\ Backed(h)'
      BY Zenon, <1>1, <2>1 DEF Handled, Typed, Maps, Backed, Stages, IsRequest, NoRequest
    <2> QED
      BY Zenon, <1>1, <2>1, <2>2, QuietHandled
  <1>3. CASE readBuff_[h] # <<>>
    <2> DEFINE p == parse(readBuff_[h])
               keep == p.ok /\ IsKeepAlive(p.request)
    <2>1. Parsed(h, p, keep)
      BY Zenon, <1>3 DEF process
    <2> HIDE DEF p, keep
    <2>2. request_'[h] = [path_ |-> p.request.path_, keep |-> keep, verify |-> p.request.verify]
      BY Zenon, <2>1 DEF Parsed, Domains, Is
    <2>3. IsRequest(request_'[h])
      BY Zenon, <2>2, RequestFacts
    <2>4. CASE p.request.verify # <<>>
      <3>1. pc'[h] = "verify" /\ UNCHANGED <<response_, mapped>>
        BY Zenon, <2>1, <2>4 DEF Parsed, Domains, Is, Goto
      <3>2. Typed(h)' /\ Maps(h)' /\ Backed(h)'
        BY Zenon, <1>1, <2>3, <3>1 DEF Handled, Typed, Maps, Backed, Stages
      <3> QED
        BY Zenon, <1>1, <3>1, <3>2, QuietHandled
    <2>5. CASE p.request.verify = <<>>
      <3> DEFINE code == IF p.ok THEN 200 ELSE 400
      <3>1. pc'[h] = "stat" /\ ResponseInit(h, response_[h], p.request.path_, keep, code)
        BY Zenon, <2>1, <2>5 DEF Parsed, Domains, Is, Goto
      <3>2. code \in Int
        OBVIOUS
      <3>3. Typed(h) /\ Maps(h)
        BY Zenon DEF Handled
      <3> HIDE DEF code
      <3>4. mapped'[h] = 0 /\ IsResponse(response_'[h]) /\ response_'[h].mmFile_ = NoFile
        BY Zenon, <3>1, <3>2, <3>3, ResponseInitFacts
      <3>5. NoFile.len = 0
        BY Zenon DEF NoFile
      <3>6. Typed(h)' /\ Maps(h)'
        <4>1. Typed(h)'
          BY Zenon, <1>1, <2>3, <3>1, <3>3, <3>4 DEF Typed, Stages
        <4>2. Maps(h)'
          BY Zenon, <3>4, <3>5 DEF Maps
        <4> QED
          BY Zenon, <4>1, <4>2
      <3>7. request_'[h].verify = <<>>
        <4>1. request_'[h].verify = p.request.verify
          BY ONLY <2>2
        <4> QED
          BY ONLY Zenon, <4>1, <2>5
      <3>8. Backed(h)'
        BY ONLY Zenon, <3>7 DEF Backed
      <3> QED
        BY Zenon, <1>1, <3>1, <3>6, <3>8, QuietHandled
    <2> QED
      BY Zenon, <2>4, <2>5
  <1> QED
    BY Zenon, <1>2, <1>3

\* The end of UserVerify: the account has to be there for the welcome page.
LEMMA VerifiedHandled ==
    ASSUME Domains, NEW h \in Handlers, Handled(h), NEW flag, Verified(h, flag),
           pc[h] \in {"verify", "select", "insert"},
           UNCHANGED <<writeBuff_, iov_, iovCnt_, sent, whole, returned>>,
           flag => \/ [name |-> request_[h].verify.name, pwd |-> request_[h].verify.pwd] \in table'
                   \/ failed'[h]
    PROVE  Handled(h)'
  <1> DEFINE path == Page(IF flag THEN "/welcome" ELSE "/error")
  <1>1. request_[h] = [path_ |-> request_[h].path_, keep |-> request_[h].keep,
                       verify |-> request_[h].verify]
    BY Zenon DEF Handled, Typed, IsRequest
  <1>2. request_'[h] = [request_[h] EXCEPT !.path_ = path] /\ pc'[h] = "stat"
    BY Zenon DEF Verified, Domains, Is, Goto
  <1>3. ResponseInit(h, response_[h], [request_[h] EXCEPT !.path_ = path].path_,
                     [request_[h] EXCEPT !.path_ = path].keep, 200)
    BY Zenon DEF Verified
  <1> HIDE DEF path
  <1>4. request_'[h] = [path_ |-> path, keep |-> request_[h].keep, verify |-> request_[h].verify]
    BY Zenon, <1>1, <1>2
  <1>5. IsRequest(request_'[h])
    BY Zenon, <1>4 DEF IsRequest
  <1>6. mapped'[h] = 0 /\ IsResponse(response_'[h]) /\ response_'[h].mmFile_ = NoFile
    BY <1>3, ResponseInitFacts DEF Handled
  <1>7. Typed(h)' /\ Maps(h)'
    BY <1>2, <1>5, <1>6 DEF Handled, Typed, Maps, Stages, NoFile
  <1>8. path = Page("/welcome") => flag
    BY Zenon DEF path, Page
  <1>9. Backed(h)'
    BY <1>4, <1>8 DEF Backed
  <1> QED
    BY Zenon, <1>2, <1>7, <1>9, QuietHandled

LEMMA DatabaseHandled ==
    ASSUME Domains, NEW h \in Handlers, Handled(h), GetConnection(h) \/ Select(h) \/ Insert(h)
    PROVE  Handled(h)'
  <1> DEFINE v == request_[h].verify
  <1>1. /\ pc[h] \in {"verify", "select", "insert"}
        /\ UNCHANGED <<writeBuff_, iov_, iovCnt_, sent, whole, returned>>
    BY Zenon DEF GetConnection, Select, Insert, ioVars
  <1>2. ASSUME NEW p \in {"select", "insert"}, Goto(h, p), UNCHANGED <<request_, response_, mapped>>
        PROVE  Handled(h)'
    <2>1. pc'[h] = p
      BY Zenon, <1>2 DEF Goto, Is, Domains
    <2>2. Typed(h)' /\ Maps(h)' /\ Backed(h)'
      BY Zenon, <1>1, <1>2, <2>1 DEF Handled, Typed, Maps, Backed, Stages
    <2> QED
      BY Zenon, <1>1, <2>1, <2>2, QuietHandled
  <1>3. CASE GetConnection(h)
    BY Zenon, <1>1, <1>2, <1>3, VerifiedHandled DEF GetConnection
  <1>4. CASE Select(h)
    <2>1. CASE Verified(h, FALSE)
      BY Zenon, <1>1, <2>1, VerifiedHandled
    <2>2. ASSUME NEW row \in IF RowsOf(v.name) = {} THEN {<<>>} ELSE RowsOf(v.name),
                 Verified(h, Flag(v, row)), ~(~v.isLogin /\ Flag(v, row)), UNCHANGED table
          PROVE  Handled(h)'
      <3>1. ASSUME Flag(v, row)
            PROVE  [name |-> v.name, pwd |-> v.pwd] \in table
        <4>1. row # <<>> /\ row.pwd = v.pwd
          BY Zenon, <2>2, <3>1 DEF Flag
        <4>2. row \in table /\ row.name = v.name
          BY Zenon, <4>1 DEF RowsOf
        <4> QED
          BY Zenon, <4>1, <4>2 DEF Domains
      <3> QED
        BY Zenon, <1>1, <2>2, <3>1, VerifiedHandled
    <2> QED
      BY Zenon, <1>2, <1>4, <2>1, <2>2 DEF Select
  <1>5. CASE Insert(h)
    <2>1. [name |-> v.name, pwd |-> v.pwd] \in table' \/ failed'[h]
      BY Zenon, <1>5 DEF Insert, Domains, Is
    <2>2. Verified(h, TRUE)
      BY Zenon, <1>5 DEF Insert
    <2> QED
      BY Zenon, <1>1, <2>1, <2>2, VerifiedHandled
  <1> QED
    BY Zenon, <1>3, <1>4, <1>5

\* Changing the code, the path or what stat said does not touch the mapping.
LEMMA CodeChanged ==
    ASSUME NEW r, IsResponse(r), NEW code \in Int, NEW st, st.size \in Nat
    PROVE  /\ IsResponse([r EXCEPT !.code_ = code, !.mmFileStat_ = st])
           /\ [r EXCEPT !.code_ = code, !.mmFileStat_ = st].mmFile_ = r.mmFile_
  <1>1. /\ r = [code_ |-> r.code_, isKeepAlive_ |-> r.isKeepAlive_, path_ |-> r.path_,
                mmFile_ |-> r.mmFile_, mmFileStat_ |-> r.mmFileStat_]
        /\ r.mmFile_ \in [len : Nat, size : Nat]
    BY Zenon DEF IsResponse
  <1>2. ASSUME NEW q, q = [r EXCEPT !.code_ = code, !.mmFileStat_ = st]
        PROVE  q = [code_ |-> code, isKeepAlive_ |-> r.isKeepAlive_, path_ |-> r.path_,
                    mmFile_ |-> r.mmFile_, mmFileStat_ |-> st]
    BY Zenon, <1>1, <1>2
  <1> QED
    BY Zenon, <1>1, <1>2 DEF IsResponse

LEMMA PathChanged ==
    ASSUME NEW r, IsResponse(r), NEW path, NEW st, st.size \in Nat
    PROVE  /\ IsResponse([r EXCEPT !.path_ = path, !.mmFileStat_ = st])
           /\ [r EXCEPT !.path_ = path, !.mmFileStat_ = st].mmFile_ = r.mmFile_
  <1>1. /\ r = [code_ |-> r.code_, isKeepAlive_ |-> r.isKeepAlive_, path_ |-> r.path_,
                mmFile_ |-> r.mmFile_, mmFileStat_ |-> r.mmFileStat_]
        /\ r.code_ \in Int /\ r.mmFile_ \in [len : Nat, size : Nat]
    BY Zenon DEF IsResponse
  <1>2. ASSUME NEW q, q = [r EXCEPT !.path_ = path, !.mmFileStat_ = st]
        PROVE  q = [code_ |-> r.code_, isKeepAlive_ |-> r.isKeepAlive_, path_ |-> path,
                    mmFile_ |-> r.mmFile_, mmFileStat_ |-> st]
    BY Zenon, <1>1, <1>2
  <1> QED
    BY Zenon, <1>1, <1>2 DEF IsResponse

LEMMA MakeResponseHandled ==
    ASSUME Domains, NEW h \in Handlers, Handled(h), MakeResponse(h)
    PROVE  Handled(h)'
  <1> DEFINE old == response_[h]
             st == Filled(old.mmFileStat_, old.path_)
             code == IF StatOf(old.path_) = Absent \/ st.is = "dir" THEN 404
                     ELSE IF st.is = "secret" THEN 403
                     ELSE IF old.code_ = -1 THEN 200 ELSE old.code_
             r == [old EXCEPT !.code_ = code, !.mmFileStat_ = st]
  <1>1. /\ pc[h] = "stat" /\ UNCHANGED <<mapped, iov_, iovCnt_, sent, whole, returned>>
        /\ response_' = Is(response_, h, r) /\ request_' = Is(request_, h, NoRequest)
        /\ \/ Goto(h, "error") /\ UNCHANGED writeBuff_
           \/ Goto(h, "content") /\ writeBuff_' = Is(writeBuff_, h, Headed(writeBuff_[h], r))
    BY Zenon DEF MakeResponse, ioVars
  <1>2. st.size \in Nat /\ code \in Int /\ IsResponse(old)
    <2>1. IsResponse(old)
      BY Zenon DEF Handled, Typed
    <2>2. old.mmFileStat_.size \in Nat /\ old.code_ \in Int
      BY Zenon, <2>1 DEF IsResponse
    <2> QED
      BY SMTT(30), <2>1, <2>2, StatType DEF Domains
  <1>3. IsResponse(r) /\ r.mmFile_ = old.mmFile_
    <2> HIDE DEF st, code, old
    <2> QED
      BY Zenon, <1>2, CodeChanged
  <1> HIDE DEF r
  <1>4. /\ response_'[h] = r /\ request_'[h] = NoRequest /\ pc'[h] \in {"error", "content"}
        /\ writeBuff_'[h] \in {writeBuff_[h], Headed(writeBuff_[h], r)}
    BY Zenon, <1>1 DEF Is, Goto, Domains
  <1>5. ShapeOf(writeBuff_'[h], Items) /\ IsRequest(request_'[h])
    BY Zenon, <1>3, <1>4, HeadedFacts DEF Handled, Typed, IsRequest, NoRequest
  <1>6. Typed(h)'
    BY Zenon, <1>1, <1>3, <1>4, <1>5 DEF Handled, Typed, Stages
  <1>7. Maps(h)'
    BY Zenon, <1>1, <1>3, <1>4 DEF Handled, Maps
  <1>8. Backed(h)'
    BY Zenon, <1>4 DEF Backed
  <1> QED
    BY Zenon, <1>1, <1>4, <1>6, <1>7, <1>8, QuietHandled

LEMMA ErrorHtmlHandled ==
    ASSUME Domains, NEW h \in Handlers, Handled(h), ErrorHtml_(h)
    PROVE  Handled(h)'
  <1> DEFINE old == response_[h]
             path == CODE_PATH[old.code_]
             st == Filled(old.mmFileStat_, path)
             r == [old EXCEPT !.path_ = path, !.mmFileStat_ = st]
  <1>1. /\ pc[h] = "error" /\ UNCHANGED <<request_, mapped, iov_, iovCnt_, sent, whole, returned>>
        /\ response_' = Is(response_, h, r)
        /\ Goto(h, "content") /\ writeBuff_' = Is(writeBuff_, h, Headed(writeBuff_[h], r))
    BY Zenon DEF ErrorHtml_, ioVars
  <1>2. st.size \in Nat /\ IsResponse(old)
    <2>1. IsResponse(old)
      BY Zenon DEF Handled, Typed
    <2>2. old.mmFileStat_.size \in Nat
      BY Zenon, <2>1 DEF IsResponse
    <2> QED
      BY Zenon, <2>1, <2>2, StatType DEF Domains
  <1>3. IsResponse(r) /\ r.mmFile_ = old.mmFile_
    <2> HIDE DEF st, path, old
    <2> QED
      BY Zenon, <1>2, PathChanged
  <1> HIDE DEF r
  <1>4. /\ response_'[h] = r /\ pc'[h] = "content"
        /\ writeBuff_'[h] = Headed(writeBuff_[h], r)
    BY Zenon, <1>1 DEF Is, Goto, Domains
  <1>5. ShapeOf(writeBuff_'[h], Items)
    BY Zenon, <1>3, <1>4, HeadedFacts DEF Handled, Typed
  <1>6. Typed(h)'
    BY Zenon, <1>1, <1>3, <1>4, <1>5 DEF Handled, Typed, Stages
  <1>7. Maps(h)'
    BY Zenon, <1>1, <1>3, <1>4 DEF Handled, Maps
  <1>8. Backed(h)'
    BY Zenon, <1>4 DEF Backed
  <1> QED
    BY Zenon, <1>1, <1>4, <1>6, <1>7, <1>8, QuietHandled

-----------------------------------------------------------------------------
(* What is sent.                                                           *)

LEMMA PrefixFacts ==
    ASSUME NEW s \in Seq(Items), NEW t \in Seq(Items)
    PROVE  Begins(s, s \o t)
  <1> DEFINE u == s \o t
             p == SubSeq(u, 1, Len(s))
  <1>1. /\ u \in Seq(Items) /\ Len(u) = Len(s) + Len(t)
        /\ \A i \in 1..(Len(s) + Len(t)) : u[i] = IF i <= Len(s) THEN s[i] ELSE t[i - Len(s)]
    BY Zenon, ConcatProperties
  <1>2. Len(s) \in Nat /\ Len(t) \in Nat
    BY Zenon, LenProperties
  <1> HIDE DEF u
  <1>3. \A i \in 1..Len(s) : u[i] = s[i] /\ u[i] \in Items
    BY <1>1, <1>2, ElementOfSeq
  <1>4. /\ p \in Seq(Items) /\ Len(p) = Len(s) /\ \A i \in 1..Len(s) : p[i] = u[i]
    BY <1>1, <1>2, <1>3
  <1>5. p = s
    BY Zenon, <1>2, <1>3, <1>4, SeqEqual
  <1> QED
    BY <1>1, <1>2, <1>5 DEF Begins, u

\* The line that announces as many items as follow it.
Announces(w) == \E i \in DOMAIN w : w[i] = Length(Len(w) - i)

LEMMA AnnouncedFacts ==
    ASSUME NEW s \in Seq(Items), NEW t \in Seq(Items), NEW w, w = (s \o <<Length(Len(t))>>) \o t
    PROVE  Announces(w)
  <1> DEFINE x == Length(Len(t))
             u == s \o <<x>>
  <1>1. Len(s) \in Nat /\ Len(t) \in Nat
    BY Zenon, LenProperties
  <1>2. x \in Items
    BY Zenon, <1>1 DEF Items
  <1> HIDE DEF x
  <1>3. u \in Seq(Items) /\ Len(u) = Len(s) + 1 /\ u[Len(s) + 1] = x
    BY <1>1, <1>2
  <1> HIDE DEF u
  <1>4. /\ u \o t \in Seq(Items) /\ Len(u \o t) = Len(u) + Len(t)
        /\ \A i \in 1..(Len(u) + Len(t)) : (u \o t)[i] = IF i <= Len(u) THEN u[i] ELSE t[i - Len(u)]
    BY Zenon, <1>3, ConcatProperties
  <1>5. w = u \o t
    BY Zenon DEF u, x
  <1>6. /\ Len(s) + 1 \in 1..(Len(u) + Len(t)) /\ Len(s) + 1 <= Len(u)
        /\ Len(w) - (Len(s) + 1) = Len(t)
    BY <1>1, <1>3, <1>4, <1>5
  <1>7. w[Len(s) + 1] = x
    BY Zenon, <1>3, <1>4, <1>5, <1>6
  <1>8. DOMAIN w = 1..(Len(u) + Len(t))
    BY <1>1, <1>3, <1>4, <1>5
  <1>9. w[Len(s) + 1] = Length(Len(w) - (Len(s) + 1))
    BY Zenon, <1>6, <1>7 DEF x
  <1> QED
    BY Zenon, <1>3, <1>6, <1>8, <1>9 DEF Announces

\* The items of a whole response are what the first writev would gather: those of
\* the buffer and then those of the file.
OfFile(file, r, from) == \A k \in 1..Len(file) : file[k] = FileByte(r, from + k - 1)

IsGathered(w, c, r, v, n) == w \in Seq(Items) /\ w = Gathered(c, r, v, n)

LEMMA WholeGathered ==
    ASSUME NEW c, ShapeOf(c, Items), NEW r, NEW v \in Area \X Area, AreaOf(c, v),
           v[1].base = c.readPos_, v[1].len = ReadableBytes(c),
           NEW file \in Seq(Items), OfFile(file, r, v[2].base),
           NEW n \in Nat, n = ReadableBytes(c) + Len(file)
    PROVE  IsGathered(Contents(c) \o file, c, r, v, n)
  <1> DEFINE w == Contents(c) \o file
             g == Gathered(c, r, v, n)
             l == ReadableBytes(c)
             from == v[2].base
  <1>1. Zero \in Items
    BY Zenon DEF Items
  <1>2. /\ Contents(c) \in Seq(Items) /\ Len(Contents(c)) = l /\ l \in Nat
        /\ \A k \in 1..l : Contents(c)[k] = c.buffer_[c.readPos_ + k - 1]
    BY ONLY Zenon, <1>1, ShapeOf(c, Items), ContentsSeq
  <1>3. c.readPos_ \in Nat /\ from \in Nat /\ Len(file) \in Nat
    BY Zenon, LenProperties DEF ShapeOf, Area
  <1>4. /\ w \in Seq(Items) /\ Len(w) = l + Len(file)
        /\ \A j \in 1..(l + Len(file)) : w[j] = IF j <= l THEN Contents(c)[j] ELSE file[j - l]
    <2> DEFINE u == Contents(c)
    <2>1. u \in Seq(Items) /\ file \in Seq(Items) /\ Len(u) = l
      BY ONLY Zenon, <1>2, file \in Seq(Items)
    <2> HIDE DEF u
    <2>2. /\ u \o file \in Seq(Items) /\ Len(u \o file) = Len(u) + Len(file)
          /\ \A j \in 1..(Len(u) + Len(file)) :
                (u \o file)[j] = IF j <= Len(u) THEN u[j] ELSE file[j - Len(u)]
      BY ONLY Zenon, <2>1, ConcatProperties
    <2> HIDE DEF l
    <2> QED
      BY Zenon, <2>1, <2>2 DEF u
  <1>5. /\ g \in Seq(Items) /\ Len(g) = n
        /\ \A j \in 1..n : g[j] = IF j <= v[1].len THEN c.buffer_[v[1].base + j - 1]
                                  ELSE FileByte(r, v[2].base + (j - v[1].len) - 1)
    <2>1. GatheredIs(c, r, v, n)
      BY Zenon, GatheredFacts
    <2> QED
      BY ONLY Zenon, <2>1 DEF GatheredIs
  <1> HIDE DEF w, g, l, from
  <1>6. v[1].len = l /\ v[1].base = c.readPos_ /\ v[2].base = from
        /\ n = l + Len(file) /\ \A k \in 1..Len(file) : file[k] = FileByte(r, from + k - 1)
    BY Zenon DEF l, from, OfFile
  <1>7. ASSUME NEW j \in 1..n
        PROVE  w[j] = g[j]
    <2>1. CASE j <= l
      <3>1. j \in 1..l
        BY ONLY <1>2, <2>1, j \in 1..n, n \in Nat
      <3>2. w[j] = Contents(c)[j]
        BY ONLY Zenon, <1>2, <1>3, <1>4, <1>6, <2>1, j \in 1..n
      <3>3. g[j] = c.buffer_[c.readPos_ + j - 1]
        BY ONLY SMTT(30), <1>5, <1>6, <2>1, j \in 1..n
      <3> QED
        BY ONLY Zenon, <1>2, <3>1, <3>2, <3>3
    <2>2. CASE ~(j <= l)
      <3>1. j - l \in 1..Len(file) /\ from + (j - l) - 1 = from + (j - l - 1)
        BY ONLY <1>2, <1>3, <1>6, <2>2, j \in 1..n, n \in Nat
      <3>2. w[j] = file[j - l]
        BY ONLY Zenon, <1>2, <1>3, <1>4, <1>6, <2>2, j \in 1..n
      <3>3. g[j] = FileByte(r, from + (j - l) - 1)
        BY ONLY Zenon, <1>5, <1>6, <2>2, j \in 1..n
      <3> DEFINE k == j - l
      <3> HIDE DEF k
      <3>4. k \in 1..Len(file) /\ w[j] = file[k] /\ g[j] = FileByte(r, from + k - 1)
        BY ONLY Zenon, <3>1, <3>2, <3>3 DEF k
      <3> QED
        BY ONLY Zenon, <1>6, <3>4
    <2> QED
      BY ONLY Zenon, <2>1, <2>2
  <1>8. Len(w) = n
    BY ONLY Zenon, <1>4, <1>6
  <1>9. w = g
    BY ONLY Zenon, <1>4, <1>5, <1>7, <1>8, SeqEqual
  <1> QED
    BY ONLY Zenon, <1>4, <1>9 DEF w, g, IsGathered

\* The rest of process, when the line for the n bytes that follow is in the buffer.
LEMMA ReadyHandled ==
    ASSUME Domains, NEW h \in Handlers, Handled(h), pc[h] = "content",
           NEW c, ShapeOf(c, Items), NEW r, IsResponse(r), Ready(h, c, r), UNCHANGED request_,
           mapped'[h] = r.mmFile_.len, r.mmFile_ # NoFile => r.mmFileStat_.size = r.mmFile_.len,
           NEW s \in Seq(Items), NEW t \in Seq(Items), Contents(c) = (s \o <<Length(
             Len(t) + IF UseFile(r) THEN r.mmFileStat_.size ELSE 0)>>) \o t,
           UseFile(r) => t = <<>>
    PROVE  Handled(h)'
  <1> DEFINE size == r.mmFileStat_.size
             l == ReadableBytes(c)
             file == IF UseFile(r) THEN FileBytes(r, 0, size) ELSE <<>>
             second == IF UseFile(r) THEN [base |-> 0, len |-> size] ELSE iov_[h][2]
             v == <<[base |-> c.readPos_, len |-> l], second>>
             cnt == IF UseFile(r) THEN 2 ELSE 1
             w == Contents(c) \o file
  <1>1. /\ pc'[h] = "write" /\ writeBuff_'[h] = c /\ response_'[h] = r /\ iov_'[h] = v
        /\ iovCnt_'[h] = cnt /\ whole'[h] = w /\ UNCHANGED <<sent, returned>>
    BY Zenon DEF Ready, Domains, Is, Goto
  <1>2. size \in Nat /\ c.readPos_ \in Nat /\ l \in Nat
    BY ONLY IsResponse(r), ShapeOf(c, Items) DEF IsResponse, ShapeOf, ReadableBytes
  <1>3. /\ file \in Seq(Items) /\ Len(file) = IF UseFile(r) THEN size ELSE 0
        /\ UseFile(r) => \A k \in 1..size : file[k] = FileByte(r, 0 + k - 1)
    <2>1. 0 \in Nat
      BY Zenon
    <2>2. CASE UseFile(r)
      <3>1. /\ FileBytes(r, 0, size) \in Seq(Items) /\ Len(FileBytes(r, 0, size)) = size
            /\ \A k \in 1..size : FileBytes(r, 0, size)[k] = FileByte(r, 0 + k - 1)
        BY Zenon, <1>2, <2>1, FileFacts
      <3> QED
        BY ONLY Zenon, <2>2, <3>1
    <2>3. CASE ~UseFile(r)
      BY ONLY <2>3
    <2> QED
      BY ONLY Zenon, <2>2, <2>3
  <1>4. second \in Area /\ v \in Area \X Area /\ v[1].len = l /\ v[1].base = c.readPos_
        /\ v[2] = second /\ (UseFile(r) => v[2].base = 0 /\ v[2].len = size)
    <2>1. iov_[h][2] \in Area
      BY Zenon DEF Handled, Typed
    <2> QED
      BY ONLY Zenon, <1>2, <2>1 DEF Area
  <1>5. AreaOf(c, v)
    BY ONLY Zenon, <1>4 DEF AreaOf
  <1> HIDE DEF v, second, file, l, size
  <1>6. /\ Left(v, cnt) \in Nat /\ Left(v, cnt) = l + Len(file)
        /\ \A k \in 1..Len(file) : file[k] = FileByte(r, v[2].base + k - 1)
    <2>1. CASE UseFile(r)
      BY ONLY <1>2, <1>3, <1>4, <2>1 DEF Left
    <2>2. CASE ~UseFile(r)
      BY ONLY <1>2, <1>3, <1>4, <2>2 DEF Left
    <2> QED
      BY ONLY Zenon, <2>1, <2>2
  <1>7. w \in Seq(Items) /\ w = Gathered(c, r, v, Left(v, cnt))
    <2> DEFINE n == Left(v, cnt)
    <2>1. n \in Nat /\ n = ReadableBytes(c) + Len(file) /\ v[1].len = ReadableBytes(c)
      BY ONLY Zenon, <1>4, <1>6 DEF l
    <2> HIDE DEF n
    <2>2. /\ file \in Seq(Items) /\ OfFile(file, r, v[2].base)
          /\ v \in Area \X Area /\ v[1].base = c.readPos_
      BY ONLY Zenon, <1>3, <1>4, <1>6 DEF OfFile
    <2>3. IsGathered(w, c, r, v, n)
      BY ONLY Zenon, ShapeOf(c, Items), <1>5, <2>1, <2>2, WholeGathered
    <2> QED
      BY ONLY Zenon, <2>3 DEF n, IsGathered
  <1>8. cnt \in {1, 2}
    BY Zenon
  <1>9. Announces(w)
    <2> DEFINE items(n) == s \o <<Length(n)>>
    <2>1. Len(t) \in Nat /\ \A n \in Nat : items(n) \in Seq(Items)
      <3>1. Len(t) \in Nat
        BY ONLY Zenon, t \in Seq(Items), LenProperties
      <3>2. \A n \in Nat : <<Length(n)>> \in Seq(Items)
        BY ONLY TRUE DEF Items
      <3>3. \A n \in Nat : items(n) \in Seq(Items)
        BY Zenon, <3>2, ConcatProperties
      <3> QED
        BY ONLY Zenon, <3>1, <3>3
    <2>2. CASE UseFile(r)
      <3>1. Len(file) = size /\ t = <<>> /\ Len(t) = 0
        BY Zenon, <1>3, <2>2
      <3>2. Len(t) + size = Len(file) /\ Len(file) \in Nat
        BY ONLY <1>2, <3>1
      <3>3. Contents(c) = items(Len(file)) \o t
        BY Zenon, <2>2, <3>2 DEF size
      <3>4. items(Len(file)) \in Seq(Items)
        BY ONLY Zenon, <2>1, <3>2
      <3>5. Contents(c) = items(Len(file))
        BY ONLY Zenon, <3>1, <3>3, <3>4, ConcatEmptySeq
      <3>6. w = (s \o <<Length(Len(file))>>) \o file
        BY ONLY Zenon, <3>5
      <3>7. file \in Seq(Items)
        BY ONLY Zenon, <1>3
      <3> HIDE DEF w
      <3> QED
        BY ONLY Zenon, <3>6, <3>7, s \in Seq(Items), AnnouncedFacts
    <2>3. CASE ~UseFile(r)
      <3>1. file = <<>>
        BY Zenon, <2>3 DEF file
      <3>2. Len(t) + 0 = Len(t)
        BY ONLY <2>1
      <3>3. Contents(c) = items(Len(t)) \o t
        BY Zenon, <2>3, <3>2
      <3>4. Contents(c) \in Seq(Items)
        BY ONLY Zenon, <2>1, <3>3, t \in Seq(Items), ConcatProperties
      <3>5. w = Contents(c)
        BY ONLY Zenon, <3>1, <3>4, ConcatEmptySeq
      <3>6. w = items(Len(t)) \o t
        BY ONLY Zenon, <3>3, <3>5
      <3> HIDE DEF w
      <3> QED
        BY ONLY Zenon, <3>6, s \in Seq(Items), t \in Seq(Items), AnnouncedFacts
    <2> QED
      BY ONLY Zenon, <2>2, <2>3
  <1>10. sent[h] = <<>> /\ returned[h] = "none"
    BY Zenon DEF Handled, Sends
  <1>11. Typed(h)'
    <2> HIDE DEF v, cnt, w
    <2> QED
      BY Zenon, <1>1, <1>4, <1>7, <1>8 DEF Handled, Typed, Stages
  <1>12. Maps(h)'
    BY Zenon, <1>1 DEF Maps
  <1>13. Backed(h)'
    BY Zenon, <1>1 DEF Backed
  <1>14. Announced(h)'
    <2> HIDE DEF v, cnt, w
    <2> QED
      BY Zenon, <1>1, <1>9 DEF Announced, Announces
  <1>15. Sends(h)'
    <2>1. w = <<>> \o w
      BY Zenon, <1>7, ConcatEmptySeq
    <2> HIDE DEF v, cnt, w
    <2> QED
      BY Zenon, <1>1, <1>5, <1>7, <1>10, <2>1 DEF Sends
  <1> QED
    BY Zenon, <1>11, <1>12, <1>13, <1>14, <1>15 DEF Handled

LEMMA AddContentHandled ==
    ASSUME Domains, NEW h \in Handlers, Handled(h), AddContent_(h)
    PROVE  Handled(h)'
  <1> DEFINE r == response_[h]
             c == writeBuff_[h]
             now == StatOf(r.path_)
             size == r.mmFileStat_.size
  <1>1. pc[h] = "content" /\ UNCHANGED request_
    BY Zenon DEF AddContent_
  <1>2. /\ IsResponse(r) /\ ShapeOf(c, Items) /\ r.mmFile_ = NoFile /\ mapped[h] = 0 /\ size \in Nat
        /\ r = [code_ |-> r.code_, isKeepAlive_ |-> r.isKeepAlive_, path_ |-> r.path_,
                mmFile_ |-> r.mmFile_, mmFileStat_ |-> r.mmFileStat_]
    <2>1. IsResponse(r) /\ ShapeOf(c, Items) /\ Maps(h)
      BY ONLY Zenon, Handled(h) DEF Handled, Typed
    <2>2. r.mmFile_ = NoFile /\ mapped[h] = 0
      BY ONLY Zenon, <1>1, <2>1, NoFileFacts DEF Maps
    <2> QED
      BY ONLY Zenon, <2>1, <2>2 DEF IsResponse
  <1>3. Contents(c) \in Seq(Items) /\ <<>> \in Seq(Items) /\ now.size \in Nat
    <2>1. Zero \in Items
      BY Zenon DEF Items
    <2>2. Contents(c) \in Seq(Items)
      BY Zenon, <1>2, <2>1, ContentsSeq
    <2> QED
      BY SMTT(30), <1>2, <2>2, StatType DEF Domains
  <1>4. CASE Ready(h, ErrorContent(c), r) /\ UNCHANGED mapped
    <2>1. ~UseFile(r) /\ mapped'[h] = r.mmFile_.len
      BY Zenon, <1>2, <1>4, NoFileFacts
    <2>2. ErrorPage \in Seq(Items) /\ Len(ErrorPage) = 2
      BY DEF Items, ErrorPage
    <2>3. ShapeOf(ErrorContent(c), Items)
      BY Zenon, <1>2, ErrorFacts
    <2>4. Contents(ErrorContent(c)) = (Contents(c) \o <<Length(
             Len(ErrorPage) + IF UseFile(r) THEN r.mmFileStat_.size ELSE 0)>>) \o ErrorPage
      <3>1. Len(ErrorPage) + (IF UseFile(r) THEN r.mmFileStat_.size ELSE 0) = 2
        BY <2>1, <2>2
      <3> QED
        BY Zenon, <1>2, <3>1, ErrorFacts
    <2> HIDE DEF r, c
    <2> QED
      BY Zenon, <1>1, <1>2, <1>3, <1>4, <2>1, <2>2, <2>3, <2>4, ReadyHandled
  <1>5. ASSUME NEW q, IsResponse(q), NEW n \in Nat, Ready(h, ContentLength(c, n), q),
               mapped'[h] = q.mmFile_.len, q.mmFile_ # NoFile => q.mmFileStat_.size = q.mmFile_.len,
               n = IF UseFile(q) THEN q.mmFileStat_.size ELSE 0
        PROVE  Handled(h)'
    <2>1. ShapeOf(ContentLength(c, n), Items)
      BY Zenon, <1>2, LengthFacts
    <2>2. Contents(ContentLength(c, n)) = (Contents(c) \o <<Length(
             Len(<<>>) + IF UseFile(q) THEN q.mmFileStat_.size ELSE 0)>>) \o <<>>
      <3>1. Len(<<>>) + (IF UseFile(q) THEN q.mmFileStat_.size ELSE 0) = n
        BY Zenon, <1>5, NoneAndRest
      <3>2. Contents(c) \o <<Length(n)>> \in Seq(Items)
        BY Zenon, <1>3, <1>5, LengthItem, ConcatProperties
      <3>3. (Contents(c) \o <<Length(n)>>) \o <<>> = Contents(c) \o <<Length(n)>>
        BY Zenon, <3>2, ConcatEmptySeq
      <3> QED
        BY Zenon, <1>2, <3>1, <3>3, LengthFacts
    <2> HIDE DEF c
    <2> QED
      BY Zenon, <1>1, <1>3, <1>5, <2>1, <2>2, ReadyHandled
  <1>6. CASE /\ size = 0 /\ Ready(h, ContentLength(c, 0), [r EXCEPT !.mmFile_ = NoFile])
             /\ UNCHANGED mapped
    <2>1. [r EXCEPT !.mmFile_ = NoFile] = r
      BY Zenon, <1>2
    <2>2. ~UseFile(r) /\ mapped'[h] = r.mmFile_.len
      BY Zenon, <1>2, <1>6, NoFileFacts
    <2> QED
      BY Zenon, <1>2, <1>5, <1>6, <2>1, <2>2
  <1>7. CASE /\ size > 0
             /\ Ready(h, ContentLength(c, size), [r EXCEPT !.mmFile_ = [len |-> size, size |-> now.size]])
             /\ mapped' = Is(mapped, h, mapped[h] + size)
    <2> DEFINE m == [len |-> size, size |-> now.size]
               q == [r EXCEPT !.mmFile_ = m]
    <2>1. q = [code_ |-> r.code_, isKeepAlive_ |-> r.isKeepAlive_, path_ |-> r.path_,
               mmFile_ |-> m, mmFileStat_ |-> r.mmFileStat_]
      <3>1. ASSUME NEW x, x = [r EXCEPT !.mmFile_ = m]
            PROVE  x = [code_ |-> r.code_, isKeepAlive_ |-> r.isKeepAlive_, path_ |-> r.path_,
                        mmFile_ |-> m, mmFileStat_ |-> r.mmFileStat_]
        <4> HIDE DEF m, r
        <4> QED
          BY Zenon, <1>2, <3>1
      <3> QED
        BY Zenon, <3>1
    <2>2. m \in [len : Nat, size : Nat] /\ m # NoFile /\ m.len = size
      BY <1>2, <1>3, <1>7 DEF NoFile
    <2> HIDE DEF m
    <2>3. IsResponse(q) /\ q.mmFile_ = m /\ q.mmFileStat_.size = size
      BY Zenon, <1>2, <2>1, <2>2 DEF IsResponse
    <2>4. mapped'[h] = size
      BY <1>2, <1>7 DEF Domains, Is
    <2>5. UseFile(q)
      BY Zenon, <1>7, <2>2, <2>3 DEF UseFile
    <2>6. Ready(h, ContentLength(c, size), q)
      BY Zenon, <1>7 DEF m
    <2> HIDE DEF q
    <2> QED
      BY Zenon, <1>2, <1>5, <2>2, <2>3, <2>4, <2>5, <2>6
  <1> QED
    BY Zenon, <1>4, <1>6, <1>7 DEF AddContent_

\* int remainLen: what fits an int is what it is.
LEMMA ToIntFits ==
    ASSUME NEW n \in Nat, n < IntLimit
    PROVE  ToInt(n) = n
  <1>1. n % (2 * IntLimit) = n
    BY ConnAssumption
  <1> QED
    BY Zenon, <1>1 DEF ToInt

LEMMA WriteHandled ==
    ASSUME Domains, NEW h \in Handlers, Handled(h), write(h)
    PROVE  Handled(h)'
  <1> DEFINE v == iov_[h]
             c == writeBuff_[h]
             r == response_[h]
             cnt == iovCnt_[h]
             all == Left(v, cnt)
  <1>1. /\ pc[h] = "write" /\ UNCHANGED <<request_, response_, mapped, iovCnt_, whole>>
    BY Zenon DEF write
  <1>2. /\ ShapeOf(c, Items) /\ v \in Area \X Area /\ cnt \in {1, 2} /\ AreaOf(c, v)
        /\ sent[h] \in Seq(Items) /\ whole[h] \in Seq(Items)
        /\ whole[h] = sent[h] \o Gathered(c, r, v, all) /\ returned[h] = "none"
    BY Zenon, <1>1 DEF Handled, Typed, Sends
  <1>3. all \in Nat /\ Gathered(c, r, v, all) \in Seq(Items)
    <2>1. all \in Nat
      BY Zenon, <1>2, LeftType
    <2>2. GatheredIs(c, r, v, all)
      BY Zenon, <1>2, <2>1, GatheredFacts
    <2> QED
      BY ONLY Zenon, <2>1, <2>2 DEF GatheredIs
  <1>4. Backed(h)' /\ Announced(h)'
    BY SMTT(30), <1>1 DEF write, Handled, Backed, Announced, Goto, Is, Domains
  <1>5. ASSUME NEW how \in {"ok", "error"}, pc'[h] = "idle", returned'[h] = how,
               UNCHANGED <<iov_, sent, writeBuff_>>, how = "ok" => all = 0
        PROVE  Handled(h)'
    <2>1. Typed(h)' /\ Maps(h)'
      BY Zenon, <1>1, <1>5 DEF Handled, Typed, Maps, Stages
    <2>2. Begins(sent[h], whole[h])
      BY Zenon, <1>2, <1>3, PrefixFacts
    <2>3. all = 0 => sent[h] = whole[h]
      <3>1. all = 0 => Gathered(c, r, v, all) = <<>>
        BY Zenon, <1>2, EmptyGathered
      <3> QED
        BY Zenon, <1>2, <3>1, ConcatEmptySeq
    <2>4. Sends(h)'
      BY Zenon, <1>1, <1>5, <2>2, <2>3 DEF Sends
    <2> QED
      BY Zenon, <1>4, <2>1, <2>4 DEF Handled
  <1>6. ASSUME NEW len \in 1..all,
               sent' = Is(sent, h, sent[h] \o Gathered(c, r, v, len)),
               iov_' = Is(iov_, h, Advanced(v, len)),
               writeBuff_' = Is(writeBuff_, h,
                  IF len <= v[1].len THEN Retrieved(c, len)
                  ELSE IF v[1].len > 0 THEN Cleared(c) ELSE c),
               IF ToInt(iov_'[h][1].len + iov_'[h][2].len) > 0
               THEN UNCHANGED <<pc, returned>> ELSE pc'[h] = "idle" /\ returned'[h] = "ok"
        PROVE  Handled(h)'
    <2> DEFINE d == Consumed(c, v, len)
               w == Advanced(v, len)
               rest == Left(w, cnt)
    <2>1. /\ sent'[h] = sent[h] \o Gathered(c, r, v, len) /\ iov_'[h] = w /\ writeBuff_'[h] = d
      BY Zenon, <1>6 DEF Is, Domains, Consumed
    <2>2. /\ ShapeOf(d, Items) /\ w \in Area \X Area /\ AreaOf(d, w) /\ rest = all - len
          /\ Gathered(c, r, v, all) = Gathered(c, r, v, len) \o Gathered(d, r, w, rest)
      <3>1. Takes(c, v, cnt, len)
        BY Zenon, <1>2, <1>6 DEF Takes
      <3> HIDE DEF c, v, cnt, r
      <3> QED
        BY ONLY <3>1, AdvancedFacts DEF d, w, rest, all
    <2> HIDE DEF d, w, rest, all
    <2>3. rest \in Nat /\ len \in Nat
      <3>1. all \in Nat /\ rest = all - len /\ len \in 1..all
        BY Zenon, <1>3, <2>2
      <3> QED
        BY ONLY <3>1
    <2>4. Gathered(c, r, v, len) \in Seq(Items) /\ Gathered(d, r, w, rest) \in Seq(Items)
      BY Zenon, <1>2, <2>2, <2>3, GatheredFacts DEF GatheredIs
    <2>5. sent'[h] \in Seq(Items) /\ whole[h] = sent'[h] \o Gathered(d, r, w, rest)
      <3> DEFINE a == sent[h]
                 p == Gathered(c, r, v, len)
                 q == Gathered(d, r, w, rest)
      <3>1. a \in Seq(Items) /\ p \in Seq(Items) /\ q \in Seq(Items)
        BY Zenon, <1>2, <2>4
      <3>2. whole[h] = a \o (p \o q) /\ sent'[h] = a \o p
        BY Zenon, <1>2, <2>1, <2>2
      <3> HIDE DEF a, p, q
      <3>3. a \o p \in Seq(Items) /\ (a \o p) \o q = a \o (p \o q)
        BY ONLY SMTT(30), <3>1, ConcatProperties, ConcatAssociative
      <3> QED
        BY ONLY Zenon, <3>2, <3>3 DEF q
    <2>6. pc'[h] \in {"idle", "write"}
      BY Zenon, <1>1, <1>6
    <2>7. Typed(h)' /\ Maps(h)'
      BY Zenon, <1>1, <2>1, <2>2, <2>5, <2>6 DEF Handled, Typed, Maps, Stages
    <2>8. Begins(sent'[h], whole[h])
      BY Zenon, <2>4, <2>5, PrefixFacts
    <2>9. CASE ToInt(w[1].len + w[2].len) > 0
      <3>1. pc'[h] = "write" /\ returned'[h] = "none"
        BY Zenon, <1>1, <1>2, <1>6, <2>1, <2>9
      <3>2. Sends(h)'
        BY ZenonT(60), <1>1, <2>1, <2>2, <2>5, <3>1 DEF Sends, rest
      <3> QED
        BY Zenon, <1>4, <2>7, <3>2 DEF Handled
    <2>10. CASE ~(ToInt(w[1].len + w[2].len) > 0)
      <3>1. pc'[h] = "idle" /\ returned'[h] = "ok"
        BY Zenon, <1>6, <2>1, <2>10
      <3>2. ASSUME w[1].len + w[2].len < IntLimit
            PROVE  sent'[h] = whole[h]
        <4>1. w[1].len \in Nat /\ w[2].len \in Nat /\ w[1].len + w[2].len \in Nat
          BY <2>2 DEF Area
        <4>2. ToInt(w[1].len + w[2].len) = w[1].len + w[2].len
          BY Zenon, <3>2, <4>1, ToIntFits
        <4>3. rest = 0
          BY <2>10, <4>1, <4>2 DEF rest, Left
        <4>4. Gathered(d, r, w, rest) = <<>>
          BY Zenon, <2>2, <4>3, EmptyGathered
        <4> QED
          BY Zenon, <2>5, <4>4, ConcatEmptySeq
      <3>3. Sends(h)'
        BY Zenon, <1>1, <2>1, <2>8, <3>1, <3>2 DEF Sends
      <3> QED
        BY Zenon, <1>4, <2>7, <3>3 DEF Handled
    <2> QED
      BY Zenon, <2>9, <2>10
  <1>7. all = v[1].len + IF cnt = 2 THEN v[2].len ELSE 0
    BY Zenon DEF Left
  <1>8. CASE /\ all > 0 /\ Goto(h, "idle") /\ returned' = Is(returned, h, "error")
             /\ UNCHANGED <<iov_, sent, writeBuff_>>
    BY Zenon, <1>5, <1>8 DEF Goto, Is, Domains
  <1>9. CASE /\ all = 0 /\ Goto(h, "idle") /\ returned' = Is(returned, h, "ok")
             /\ UNCHANGED <<iov_, sent, writeBuff_>>
    BY Zenon, <1>5, <1>9 DEF Goto, Is, Domains
  <1>10. ASSUME NEW len \in 1..all,
               sent' = Is(sent, h, sent[h] \o Gathered(c, r, v, len)),
               iov_' = Is(iov_, h, Advanced(v, len)),
               writeBuff_' = Is(writeBuff_, h,
                  IF len <= v[1].len THEN Retrieved(c, len)
                  ELSE IF v[1].len > 0 THEN Cleared(c) ELSE c),
               IF ToInt(iov_'[h][1].len + iov_'[h][2].len) > 0
               THEN UNCHANGED <<pc, returned>>
               ELSE Goto(h, "idle") /\ returned' = Is(returned, h, "ok")
         PROVE  Handled(h)'
    <2>1. IF ToInt(iov_'[h][1].len + iov_'[h][2].len) > 0
          THEN UNCHANGED <<pc, returned>> ELSE pc'[h] = "idle" /\ returned'[h] = "ok"
      BY Zenon, <1>10 DEF Goto, Is, Domains
    <2> QED
      BY Zenon, <1>6, <1>10, <2>1
  <1> HIDE DEF all
  <1> QED
    BY ONLY Zenon, write(h), <1>7, <1>8, <1>9, <1>10 DEF write

LEMMA ConnInvNext == ConnInv /\ [ConnNext]_connVars => ConnInv'
  <1> SUFFICES ASSUME ConnInv, [ConnNext]_connVars
               PROVE  ConnInv'
    BY Zenon
  <1>1. ASSUME NEW g \in Handlers, UNCHANGED OfHandler(g), table \subseteq table'
        PROVE  Handled(g)'
    <2>1. /\ pc'[g] = pc[g] /\ writeBuff_'[g] = writeBuff_[g] /\ request_'[g] = request_[g]
          /\ response_'[g] = response_[g] /\ iov_'[g] = iov_[g] /\ iovCnt_'[g] = iovCnt_[g]
          /\ sent'[g] = sent[g] /\ whole'[g] = whole[g] /\ mapped'[g] = mapped[g]
          /\ failed'[g] = failed[g] /\ returned'[g] = returned[g]
      BY Zenon, <1>1 DEF OfHandler
    <2>2. Handled(g)
      BY Zenon DEF ConnInv
    <2>3. Typed(g)' /\ Maps(g)' /\ Announced(g)' /\ Sends(g)'
      BY Zenon, <2>1, <2>2 DEF Handled, Typed, Maps, Announced, Sends
    <2>4. Backed(g)'
      BY Zenon, <1>1, <2>1, <2>2 DEF Handled, Backed
    <2> QED
      BY Zenon, <2>3, <2>4 DEF Handled
  <1>2. ASSUME NEW h \in Handlers, Handle(h)
        PROVE  ConnInv'
    <2>1. Handled(h)'
      BY <1>2, InitHandled, ReadHandled, ProcessHandled, DatabaseHandled, MakeResponseHandled,
         ErrorHtmlHandled, AddContentHandled, WriteHandled DEF ConnInv, Handle
    <2>2. /\ Domains' /\ table \subseteq table'
          /\ \A g \in Handlers \ {h} : UNCHANGED OfHandler(g)
      BY Zenon, <1>2, OthersSame DEF ConnInv
    <2> QED
      BY Zenon, <1>1, <2>1, <2>2 DEF ConnInv
  <1>3. CASE FileChange
    <2>1. /\ UNCHANGED <<pc, writeBuff_, request_, response_, table, mapped, failed, ioVars>>
          /\ \E p \in Paths, s \in Stats : files' = [files EXCEPT ![p] = s]
      BY Zenon, <1>3 DEF FileChange
    <2>2. Domains'
      BY Zenon, <2>1 DEF ConnInv, Domains, ioVars
    <2>3. \A g \in Handlers : UNCHANGED OfHandler(g)
      BY Zenon, <2>1 DEF OfHandler, ioVars
    <2> QED
      BY Zenon, <1>1, <2>1, <2>2, <2>3 DEF ConnInv
  <1>4. CASE UNCHANGED connVars
    BY ZenonT(60), <1>4 DEF connVars, ioVars, ConnInv, Domains, Handled, Typed, Maps, Backed, Announced, Sends
  <1> QED
    BY Zenon, <1>2, <1>3, <1>4 DEF ConnNext, AllServed

LEMMA ConnInvariance == ConnSpec => []ConnInv
  BY ConnInvInit, ConnInvNext, PTL DEF ConnSpec

\* A file that is mapped for a response is unmapped with the length it was mapped with, and
\* no connection has two, over any number of connections that use the same object, and
\* whatever becomes of the files between stat and mmap.
THEOREM MappingsExact == ConnSpec => []MappingExact
  <1>1. ConnInv => MappingExact
    BY Zenon DEF ConnInv, Handled, Maps, MappingExact
  <1> QED
    BY ConnInvariance, <1>1, PTL

\* The welcome page is only for an account that is in the table, or whose INSERT failed,
\* for any number of handlers that log in and register at once.
THEOREM AccountsBacked == ConnSpec => []AccountBacked
  <1>1. ConnInv => AccountBacked
    BY Zenon DEF ConnInv, Handled, Backed, AccountBacked
  <1> QED
    BY ConnInvariance, <1>1, PTL

\* Content-length is true of every response, for files of any size that may change, vanish
\* or become unreadable at any point while the response is made.
THEOREM LengthsTrue == ConnSpec => []LengthTrue
  <1>1. ConnInv => LengthTrue
    BY Zenon DEF ConnInv, Handled, Announced, LengthTrue
  <1> QED
    BY ConnInvariance, <1>1, PTL

\* However writev splits it, the response arrives in order and, when write reports
\* success and what is left fits an int, as a whole.
THEOREM ResponsesSent == ConnSpec => []ResponseSent
  <1>1. ASSUME ConnInv, NEW h \in Handlers
        PROVE  pc[h] = "write" \/ returned[h] # "none" => Begins(sent[h], whole[h])
    <2>1. Typed(h) /\ Sends(h)
      BY Zenon, <1>1 DEF ConnInv, Handled
    <2>2. ASSUME pc[h] = "write"
          PROVE  Begins(sent[h], whole[h])
      <3> DEFINE n == Left(iov_[h], iovCnt_[h])
      <3>1. n \in Nat
        BY <2>1 DEF Typed, Area, Left
      <3> HIDE DEF n
      <3>2. Gathered(writeBuff_[h], response_[h], iov_[h], n) \in Seq(Items)
        BY Zenon, <2>1, <2>2, <3>1, GatheredFacts DEF Typed, Sends, GatheredIs
      <3> QED
        BY Zenon, <2>1, <2>2, <3>2, PrefixFacts DEF Typed, Sends, n
    <2> QED
      BY Zenon, <2>1, <2>2 DEF Sends
  <1>2. ConnInv => ResponseSent
    BY Zenon, <1>1 DEF ConnInv, Handled, Sends, ResponseSent, Begins
  <1> QED
    BY ConnInvariance, <1>2, PTL
=============================================================================
