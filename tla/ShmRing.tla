------------------------------ MODULE ShmRing -------------------------------
(***************************************************************************)
(* One pairwise ring of mpi/shmcomm.cpp: ring_push run by the sending rank *)
(* and ring_pop run by the receiving rank, concurrently and without locks. *)
(* A copy moves one byte per step, so the two memcpy's of one side         *)
(* interleave with everything the other side does.                         *)
(*                                                                         *)
(* head and tail only ever grow in the code, as 64-bit counters; they are  *)
(* counters modulo CtrMod here.  Byte k of the stream is represented by    *)
(* its position k, and 0 is what a cell holds before any byte was stored.  *)
(***************************************************************************)
EXTENDS Integers, Sequences

CONSTANTS
  Cap,     \* ring_cap, a power of two
  CtrMod,  \* the modulus of the counters, 2^64 in the code
  Total    \* bound: bytes the sender has to send

ASSUME CapAssumption == Cap \in Nat \ {0}
ASSUME CtrAssumption == CtrMod \in Nat /\ CtrMod > Cap /\ CtrMod % Cap = 0
ASSUME TotalAssumption == Total \in Nat

VARIABLES
  head, tail,  \* RingHdr
  buf,         \* the bytes behind the header
  sent,        \* bytes the sender's calls have been told were accepted
  got,         \* bytes the receiver's calls have delivered
  w,           \* ring_push: pc, loaded counter, length and copied bytes
  r            \* ring_pop: pc, loaded counter, length and the caller's buffer

vars == <<head, tail, buf, sent, got, w, r>>

Cell == 0 .. Cap - 1
Ctr == 0 .. CtrMod - 1

\* Neither side is inside its call.
Idle == [pc |-> "idle", at |-> 0, n |-> 0, i |-> 0]
IdlePop == [pc |-> "idle", at |-> 0, n |-> 0, p |-> <<>>]

Init ==
  /\ head = 0 /\ tail = 0
  /\ buf = [c \in Cell |-> 0]
  /\ sent = 0 /\ got = <<>>
  /\ w = Idle
  /\ r = IdlePop

Least(a, b) == IF a < b THEN a ELSE b

\* The counter of a stream position, and the cell its next byte goes to.
Counter(x) == x % CtrMod
CellOf(x) == x % Cap

\* h - t in unsigned arithmetic.
Used(h, t) == Counter(h - t)

\* Where byte i of a copy that starts at counter c lives: the first part of
\* the copy runs to the end of the buffer, the second starts at its base.
Place(c, i) ==
  LET off == CellOf(c)
      first == Cap - off
  IN IF i < first THEN off + i ELSE i - first

-----------------------------------------------------------------------------
\* Mutant: one byte more than there is room for.
PushLoadOver(n) ==
  /\ w.pc = "idle"
  /\ LET space == Cap - Used(head, tail)
     IN w' = [pc |-> "copy", at |-> head, n |-> Least(n, space + 1), i |-> 0]
  /\ UNCHANGED <<head, tail, buf, sent, got, r>>

\* ring_push: load both counters, give up on a full ring, trim the length.
PushLoad(n) ==
  /\ w.pc = "idle"
  /\ LET space == Cap - Used(head, tail)
     IN /\ space # 0
        /\ w' = [pc |-> "copy", at |-> head, n |-> Least(n, space), i |-> 0]
  /\ UNCHANGED <<head, tail, buf, sent, got, r>>

PushCopy ==
  /\ w.pc = "copy"
  /\ buf' = [buf EXCEPT ![Place(w.at, w.i)] = sent + w.i + 1]
  /\ w' = [pc |-> IF w.i + 1 = w.n THEN "publish" ELSE "copy",
           at |-> w.at, n |-> w.n, i |-> w.i + 1]
  /\ UNCHANGED <<head, tail, sent, got, r>>

PushPublish ==
  /\ w.pc = "publish"
  /\ head' = Counter(w.at + w.n)
  /\ sent' = sent + w.n
  /\ w' = Idle
  /\ UNCHANGED <<tail, buf, got, r>>

\* ring_pop: load both counters, give up on an empty ring, trim the length.
PopLoad(n) ==
  /\ r.pc = "idle"
  /\ LET avail == Used(head, tail)
     IN /\ avail # 0
        /\ r' = [pc |-> "copy", at |-> tail, n |-> Least(n, avail), p |-> <<>>]
  /\ UNCHANGED <<head, tail, buf, sent, got, w>>

PopCopy ==
  /\ r.pc = "copy"
  /\ r' = [pc |-> IF Len(r.p) + 1 = r.n THEN "publish" ELSE "copy",
           at |-> r.at, n |-> r.n, p |-> Append(r.p, buf[Place(r.at, Len(r.p))])]
  /\ UNCHANGED <<head, tail, buf, sent, got, w>>

\* Mutant: the receiver publishes where the sender is, not where it read to.
PopPublishHead ==
  /\ r.pc = "publish"
  /\ tail' = head
  /\ got' = got \o r.p
  /\ r' = IdlePop
  /\ UNCHANGED <<head, buf, sent, w>>

PopPublish ==
  /\ r.pc = "publish"
  /\ tail' = Counter(r.at + r.n)
  /\ got' = got \o r.p
  /\ r' = IdlePop
  /\ UNCHANGED <<head, buf, sent, w>>

\* The callers: a side asks for what is left of its current message.
PushStep ==
  \/ \E n \in 1 .. Total - sent : PushLoad(n)
  \/ PushCopy
  \/ PushPublish

PopStep ==
  \/ \E n \in 1 .. Total - Len(got) : PopLoad(n)
  \/ PopCopy
  \/ PopPublish

Next == PushStep \/ PopStep

Spec == Init /\ [][Next]_vars

\* Both ranks keep calling while bytes are missing: exchange's progress loop.
FairSpec == Spec /\ WF_vars(PushStep) /\ WF_vars(PopStep)

-----------------------------------------------------------------------------
\* Type correctness of the header, the buffer and the two calls.
TypeOK ==
  /\ head \in Ctr /\ tail \in Ctr
  /\ buf \in [Cell -> 0 .. Total]
  /\ sent \in 0 .. Total
  /\ got \in Seq(0 .. Total)
  /\ w \in [pc : {"idle", "copy", "publish"}, at : Ctr, n : 0 .. Cap, i : 0 .. Cap]
  /\ r \in [pc : {"idle", "copy", "publish"}, at : Ctr, n : 0 .. Cap,
            p : Seq(0 .. Total)]

\* The receiver gets the sender's bytes in order, each once: pairwise FIFO
\* order is what replaces MPI's tag matching in exchange().
Fifo == \A k \in 1 .. Len(got) : got[k] = k

\* The byte a reader is about to copy is not one a concurrent push is about
\* to overwrite: the two memcpy's of ring_push and ring_pop never touch the
\* same cell while both are in progress.
CopiesDisjoint ==
  \A i \in w.i .. w.n - 1, j \in Len(r.p) .. r.n - 1 :
    (w.pc = "copy" /\ r.pc = "copy") => Place(w.at, i) # Place(r.at, j)

\* The inductive invariant behind these.  The counters are the positions of
\* the stream modulo CtrMod, at most Cap bytes are in flight, and a cell holds
\* the byte of every position between the receiver and the last byte copied.
Position ==
  /\ head = Counter(sent) /\ tail = Counter(Len(got))
  /\ Len(got) <= sent /\ sent <= Len(got) + Cap

PushInv ==
  w.pc # "idle" =>
    /\ w.at = head
    /\ w.n >= 1 /\ sent + w.n <= Len(got) + Cap /\ sent + w.n <= Total
    /\ IF w.pc = "copy" THEN w.i < w.n ELSE w.i = w.n

PopInv ==
  r.pc # "idle" =>
    /\ r.at = tail
    /\ r.n >= 1 /\ Len(got) + r.n <= sent
    /\ IF r.pc = "copy" THEN Len(r.p) < r.n ELSE Len(r.p) = r.n
    /\ \A k \in 1 .. Len(r.p) : r.p[k] = Len(got) + k

Copied == IF w.pc = "idle" THEN sent ELSE sent + w.i

Contents == \A k \in Len(got) + 1 .. Copied : buf[CellOf(k - 1)] = k

IInv == TypeOK /\ Position /\ PushInv /\ PopInv /\ Contents /\ Fifo

\* The ring is a bounded FIFO byte stream: a push becomes visible with the
\* store of head, a pop with the store of tail.
Stream == INSTANCE ByteStream
ImplementsStream == Stream!Spec

\* Every byte the sender has reaches the receiver.
AllDelivered == <>(Len(got) = Total)
=============================================================================
