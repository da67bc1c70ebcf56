----------------------------- MODULE ByteQueue ------------------------------
(***************************************************************************)
(* What Buffer promises its users: a queue of bytes.  Bytes come out in the*)
(* order they went in, none lost, none twice.                              *)
(***************************************************************************)
EXTENDS Naturals, Sequences

CONSTANT Byte

VARIABLES
    q,    \* the bytes inside
    in,   \* the bytes that the last operation was given
    out   \* the bytes that the last operation took out

Init == q = <<>> /\ in = <<>> /\ out = <<>>

Push ==
    /\ in' \in Seq(Byte)
    /\ q' = q \o in'
    /\ out' = <<>>

Pop ==
    \E n \in 0..Len(q) :
        /\ in' = <<>>
        /\ out' = SubSeq(q, 1, n)
        /\ q' = SubSeq(q, n + 1, Len(q))

Spec == Init /\ [][Push \/ Pop]_<<q, in, out>>
=============================================================================
