----------------------------- MODULE ByteStream -----------------------------
(***************************************************************************)
(* What a pairwise ring of mpi/shmcomm.cpp promises the halo exchange: a   *)
(* bounded first-in first-out stream of bytes.  Byte k of the stream is    *)
(* represented by its position k.                                          *)
(***************************************************************************)
EXTENDS Naturals, Sequences

CONSTANTS
  Cap,    \* bytes that may be in flight
  Total   \* bound: bytes offered to the stream

VARIABLES
  sent,  \* bytes accepted from the sender
  got    \* the bytes delivered to the receiver, in order

Init == sent = 0 /\ got = <<>>

\* The sender's next n bytes are accepted.
Push(n) ==
  /\ sent + n <= Total
  /\ sent + n <= Len(got) + Cap
  /\ sent' = sent + n
  /\ got' = got

\* The next n bytes in flight are delivered.
Pop(n) ==
  /\ Len(got) + n <= sent
  /\ got' = got \o [k \in 1 .. n |-> Len(got) + k]
  /\ sent' = sent

Next == \E n \in 1 .. Cap : Push(n) \/ Pop(n)

Spec == Init /\ [][Next]_<<sent, got>>
=============================================================================
