----------------------------- MODULE ByteQueue -----------------------------
(***************************************************************************)
(* What a buffer of libmpaxos promises: the bytes come out in the order in *)
(* which they were put in, none lost, none invented.                       *)
(***************************************************************************)
EXTENDS Naturals, SequencesExt

CONSTANTS Byte,    \* the bytes
          MaxData  \* bound: bytes put in by one call

VARIABLES q,    \* the bytes in the queue, the oldest first
          out   \* the bytes the last call took out

vars == <<q, out>>

Init == q = <<>> /\ out = <<>>

Put == /\ \E data \in BoundedSeq(Byte, MaxData) : q' = q \o data
       /\ out' = <<>>

Take == \E k \in 0 .. Len(q) : /\ out' = SubSeq(q, 1, k)
                               /\ q' = SubSeq(q, k + 1, Len(q))

Next == Put \/ Take

Spec == Init /\ [][Next]_vars
=============================================================================
