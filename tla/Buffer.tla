------------------------------- MODULE Buffer -------------------------------
(***************************************************************************)
(* The Buffer of a connection (buffer.h, buffer.cpp): a vector of bytes    *)
(* with a read and a write index.  A buffer is a record b; the operations  *)
(* are functions of it, since ReadFd calls Append, which calls             *)
(* EnsureWriteable, which calls MakeSpace_.  One thread uses a buffer.     *)
(***************************************************************************)
EXTENDS Integers, Sequences

CONSTANTS
    Byte,
    Zero,         \* the byte that bzero and resize write
    Strings,      \* what is appended, or arrives on the socket
    initBuffSize,
    StackSize,    \* of the second area that ReadFd reads into
    MaxSize       \* bound: the largest vector

ASSUME BufferAssumption ==
    /\ Zero \in Byte
    /\ Strings \subseteq Seq(Byte)
    /\ initBuffSize \in Nat /\ StackSize \in Nat /\ MaxSize \in Nat

VARIABLES
    b,     \* buffer_ and its size, readPos_, writePos_
    in,    \* history: the bytes that the last operation was given
    out    \* the bytes that the last operation gave to the caller or the socket

vars == <<b, in, out>>

Vector(n, data, r, w) == [size |-> n, buffer_ |-> data, readPos_ |-> r, writePos_ |-> w]

NewBuffer == Vector(initBuffSize, [k \in 0..(initBuffSize - 1) |-> Zero], 0, 0)

Init ==
    /\ b = NewBuffer
    /\ in = <<>> /\ out = <<>>

WritableBytes(c) == c.size - c.writePos_
ReadableBytes(c) == c.writePos_ - c.readPos_
PrependableBytes(c) == c.readPos_

\* The bytes between the indices.
Contents(c) == [k \in 1..ReadableBytes(c) |-> c.buffer_[c.readPos_ + k - 1]]

-----------------------------------------------------------------------------
resize(c, n) ==
    Vector(n, [k \in 0..(n - 1) |-> IF k < c.size THEN c.buffer_[k] ELSE Zero],
           c.readPos_, c.writePos_)

\* The data moved to the front.
Moved(c) ==
    Vector(c.size, [k \in 0..(c.size - 1) |->
                      IF k < ReadableBytes(c) THEN c.buffer_[c.readPos_ + k] ELSE c.buffer_[k]],
           0, ReadableBytes(c))

\* Mutant: the indices move and the data does not.
MakeSpaceNoCopy(c, len) ==
    IF WritableBytes(c) + PrependableBytes(c) < len THEN resize(c, c.writePos_ + len + 1)
    ELSE [c EXCEPT !.readPos_ = 0, !.writePos_ = ReadableBytes(c)]

MakeSpace_(c, len) ==
    IF WritableBytes(c) + PrependableBytes(c) < len THEN resize(c, c.writePos_ + len + 1)
    ELSE Moved(c)

EnsureWriteable(c, len) == IF len > WritableBytes(c) THEN MakeSpace_(c, len) ELSE c

\* std::copy to the write index, and HasWritten.
Put(c, s) ==
    Vector(c.size, [k \in 0..(c.size - 1) |->
                      IF k >= c.writePos_ /\ k < c.writePos_ + Len(s)
                      THEN s[k - c.writePos_ + 1] ELSE c.buffer_[k]],
           c.readPos_, c.writePos_ + Len(s))

Appended(c, s) == Put(EnsureWriteable(c, Len(s)), s)

\* ReadFd: readv fills the room in the vector, then the stack area.
Received(c, s) ==
    IF Len(s) <= WritableBytes(c) THEN Put(c, s)
    ELSE Appended(Put(c, SubSeq(s, 1, WritableBytes(c))),
                  SubSeq(s, WritableBytes(c) + 1, Len(s)))

\* Retrieve: the read index moves; RetrieveAll: both go back and the bytes are cleared.
Retrieved(c, n) == Vector(c.size, c.buffer_, c.readPos_ + n, c.writePos_)
Cleared(c) == Vector(c.size, [k \in 0..(c.size - 1) |-> Zero], 0, 0)

-----------------------------------------------------------------------------
AppendStr(s) ==
    /\ b' = Appended(b, s)
    /\ b'.size <= MaxSize
    /\ in' = s /\ out' = <<>>

\* A failed readv leaves the buffer alone: a stuttering step.
ReadFd(s) ==
    /\ Len(s) <= WritableBytes(b) + StackSize
    /\ b' = Received(b, s)
    /\ b'.size <= MaxSize
    /\ in' = s /\ out' = <<>>

\* Retrieve, RetrieveUntil and WriteFd: n bytes from Peek() on are used, and the
\* index moves.  parse and HttpConn::write never ask for more than there is.
Retrieve(n) ==
    /\ n <= ReadableBytes(b)
    /\ in' = <<>> /\ out' = SubSeq(Contents(b), 1, n)
    /\ b' = Retrieved(b, n)

\* RetrieveAll and RetrieveAllToStr.
RetrieveAll ==
    /\ in' = <<>> /\ out' = Contents(b)
    /\ b' = Cleared(b)

Next ==
    \/ \E s \in Strings : AppendStr(s) \/ ReadFd(s)
    \/ \E n \in 0..b.size : Retrieve(n)
    \/ RetrieveAll

Spec == Init /\ [][Next]_vars

-----------------------------------------------------------------------------
\* The indices are in order and inside the vector: what every pointer that Peek,
\* BeginWrite and readv work with relies on.  Its elements are in B.
ShapeOf(c, B) ==
    /\ c.size \in Nat /\ c.readPos_ \in Nat /\ c.writePos_ \in Nat
    /\ c.readPos_ <= c.writePos_ /\ c.writePos_ <= c.size
    /\ c.buffer_ \in [0..(c.size - 1) -> B]

Shape(c) == ShapeOf(c, Byte)

\* The assertion of EnsureWriteable: whatever the state of the buffer, and for any
\* length, there is room after it; and the content is what it was.
EnsureEnough ==
    \A len \in 0..MaxSize :
        /\ len <= WritableBytes(EnsureWriteable(b, len))
        /\ Contents(EnsureWriteable(b, len)) = Contents(b)

Queue == INSTANCE ByteQueue WITH q <- Contents(b)

\* A Buffer is a queue of bytes: moving the data, growing, and reading into two areas
\* at once lose nothing and keep the order.
IsQueue == Queue!Spec
=============================================================================
