--------------------------- MODULE ShmHaloProofs ----------------------------
(***************************************************************************)
(* Proofs about the halo exchange over the rings, for every number of      *)
(* ranks, every capacity of the rings and every set of well-formed plans:  *)
(* although the rings carry no framing and are shared by all exchanges, a  *)
(* rank receives in each exchange the bytes of that exchange, all of them. *)
(***************************************************************************)
EXTENDS ShmHalo, NaturalsInduction, SequenceTheorems, WellFoundedInduction, TLAPS

-----------------------------------------------------------------------------
(* A ring as a segment of the stream of all bytes of all exchanges *)

\* How many bytes each exchange moves.
LengthMap == [Nat -> Nat]

\* The order of the stream: by exchange, then by offset.
Before(x, y) == x.ex < y.ex \/ (x.ex = y.ex /\ x.off < y.off)

\* Byte x has left a sender that has sent a bytes of exchange c, and has not
\* reached a receiver that has received g bytes of exchange b.
InFlight(x, c, a, b, g) ==
  /\ x.ex < c \/ (x.ex = c /\ x.off <= a)
  /\ x.ex > b \/ (x.ex = b /\ x.off > g)

\* A receiver is never further than its sender: when it has entered a later
\* exchange, there was nothing left to send in the exchanges before.
NotAhead(len, c, a, b, g) ==
  /\ b = c => g <= a
  /\ b > c => a = len[c] /\ g = 0 /\ \A e \in c + 1 .. b - 1 : len[e] = 0

\* R holds exactly the bytes in flight, in order, where exchange e moves
\* len[e] bytes.
Segment(R, len, c, a, b, g) ==
  /\ a <= len[c] /\ NotAhead(len, c, a, b, g)
  /\ \A i \in 1 .. Len(R) :
       /\ R[i].ex >= 1 /\ R[i].off \in 1 .. len[R[i].ex]
       /\ InFlight(R[i], c, a, b, g)
  /\ \A e \in 1 .. c : \A k \in 1 .. len[e] :
       InFlight([ex |-> e, off |-> k], c, a, b, g) => \E i \in 1 .. Len(R) : R[i] = [ex |-> e, off |-> k]
  /\ \A i, j \in 1 .. Len(R) : i < j => Before(R[i], R[j])

-----------------------------------------------------------------------------
(* Lemmas about segments *)

\* A set of numbers with a member has a smallest one.
LEMMA SmallestOf ==
  ASSUME NEW S \in SUBSET Nat, S # {}
  PROVE  \E i \in S : \A j \in S : i <= j
<1> DEFINE P == {ss \in Nat \X Nat : ss[1] < ss[2]}
<1>1. IsWellFoundedOn(P, Nat)
  BY NatLessThanWellFounded, ZenonT(60) DEF OpToRel
<1>2. \A i, j \in Nat : ~(<<j, i>> \in P) => i <= j
  OBVIOUS
<1> HIDE DEF P
<1>3. PICK i \in S : \A j \in S : ~(<<j, i>> \in P)
  BY <1>1, WFMin, ZenonT(60)
<1>4. QED
  BY <1>2, <1>3, ZenonT(60)

\* The parts of a byte are numbers, and it is given by its parts.
LEMMA ByteParts ==
  ASSUME NEW x \in Byte
  PROVE  x.ex \in Nat /\ x.off \in Nat /\ x = [ex |-> x.ex, off |-> x.off]
BY ZenonT(60) DEF Byte

\* A length is a number.
LEMMA LengthNat ==
  ASSUME NEW len \in LengthMap, NEW e \in Nat
  PROVE  len[e] \in Nat
BY ZenonT(60) DEF LengthMap

\* What a segment says of the byte at one place.
LEMMA SegmentAt ==
  ASSUME NEW R \in Seq(Byte), NEW len \in LengthMap, NEW c \in Nat, NEW a \in Nat,
         NEW b \in Nat, NEW g \in Nat, Segment(R, len, c, a, b, g),
         NEW i \in 1 .. Len(R)
  PROVE  /\ R[i] \in Byte /\ R[i].ex \in 1 .. c /\ R[i].off \in 1 .. len[R[i].ex]
         /\ InFlight(R[i], c, a, b, g)
<1>1. R[i] \in Byte /\ R[i].ex >= 1 /\ R[i].off \in 1 .. len[R[i].ex] /\ InFlight(R[i], c, a, b, g)
  BY SMTT(60) DEF Segment
<1>2. R[i].ex \in Nat /\ R[i].off \in Nat
  BY <1>1, ByteParts, ZenonT(60)
<1>3. R[i].ex <= c
  BY <1>1, <1>2, SMTT(60) DEF InFlight
<1>4. QED
  BY <1>1, <1>2, <1>3, SMTT(60)

\* When the receiver is as far as the sender, nothing is in flight.
LEMMA SegmentEmpty ==
  ASSUME NEW R \in Seq(Byte), NEW len \in LengthMap, NEW c \in Nat, NEW a \in Nat,
         NEW b \in Nat, NEW g \in Nat, Segment(R, len, c, a, b, g),
         c < b \/ (c = b /\ a <= g)
  PROVE  R = <<>>
<1>1. SUFFICES ASSUME Len(R) >= 1 PROVE FALSE
  OBVIOUS
<1>2. R[1] \in Byte /\ InFlight(R[1], c, a, b, g)
  BY <1>1, SegmentAt
<1>3. QED
  BY <1>2, ByteParts, SMTT(60) DEF InFlight

\* An empty ring between two ends that have not moved.
LEMMA SegmentInit ==
  ASSUME NEW len \in LengthMap
  PROVE  Segment(<<>>, len, 0, 0, 0, 0)
<1>1. 0 <= len[0]
  BY LengthNat
<1>2. QED
  BY <1>1 DEF Segment, NotAhead

\* A segment looks at the lengths of the exchanges the sender has entered.
LEMMA SegmentLengths ==
  ASSUME NEW R \in Seq(Byte), NEW len \in LengthMap, NEW c \in Nat, NEW a \in Nat,
         NEW b \in Nat, NEW g \in Nat, Segment(R, len, c, a, b, g),
         NEW len2 \in LengthMap, \A e \in Nat : e <= c \/ e <= b => len2[e] = len[e]
  PROVE  Segment(R, len2, c, a, b, g)
<1>1. ASSUME NEW i \in 1 .. Len(R)
      PROVE  /\ R[i].ex >= 1 /\ R[i].off \in 1 .. len2[R[i].ex]
             /\ InFlight(R[i], c, a, b, g)
  <2>1. R[i] \in Byte /\ R[i].ex \in 1 .. c /\ R[i].off \in 1 .. len[R[i].ex] /\ InFlight(R[i], c, a, b, g)
    BY SegmentAt, ZenonT(60)
  <2>2. QED
    BY <2>1, SMTT(60)
<1>2. ASSUME NEW e \in 1 .. c, NEW k \in 1 .. len2[e], InFlight([ex |-> e, off |-> k], c, a, b, g)
      PROVE  \E i \in 1 .. Len(R) : R[i] = [ex |-> e, off |-> k]
  BY <1>2, SMTT(60) DEF Segment
<1>3. \A i, j \in 1 .. Len(R) : i < j => Before(R[i], R[j])
  BY ZenonT(60) DEF Segment
<1>4. a <= len2[c] /\ NotAhead(len2, c, a, b, g)
  BY LengthNat, SMTT(60) DEF Segment, NotAhead
<1>5. QED
  BY <1>1, <1>2, <1>3, <1>4, ZenonT(60) DEF Segment

\* The sender, done with exchange c, enters the next one.
LEMMA SegmentNextSend ==
  ASSUME NEW R \in Seq(Byte), NEW len \in LengthMap, NEW c \in Nat, NEW a \in Nat,
         NEW b \in Nat, NEW g \in Nat, Segment(R, len, c, a, b, g),
         len[c] = a
  PROVE  Segment(R, len, c + 1, 0, b, g)
<1>1. ASSUME NEW i \in 1 .. Len(R)
      PROVE  /\ R[i].ex >= 1 /\ R[i].off \in 1 .. len[R[i].ex]
             /\ InFlight(R[i], c + 1, 0, b, g)
  <2>1. /\ R[i] \in Byte /\ R[i].ex \in 1 .. c /\ R[i].off \in 1 .. len[R[i].ex]
        /\ InFlight(R[i], c, a, b, g)
    BY SegmentAt, ZenonT(60)
  <2>2. QED
    BY <2>1, ByteParts, SMTT(60) DEF InFlight
<1>2. ASSUME NEW e \in 1 .. c + 1, NEW k \in 1 .. len[e],
             InFlight([ex |-> e, off |-> k], c + 1, 0, b, g)
      PROVE  \E i \in 1 .. Len(R) : R[i] = [ex |-> e, off |-> k]
  <2>1. e \in 1 .. c /\ InFlight([ex |-> e, off |-> k], c, a, b, g)
    BY <1>2, LengthNat DEF InFlight
  <2>2. QED
    BY <2>1, ZenonT(60) DEF Segment
<1>3. \A i, j \in 1 .. Len(R) : i < j => Before(R[i], R[j])
  BY ZenonT(60) DEF Segment
<1>4. 0 <= len[c + 1] /\ NotAhead(len, c + 1, 0, b, g)
  BY LengthNat DEF Segment, NotAhead
<1>5. QED
  BY <1>1, <1>2, <1>3, <1>4, ZenonT(60) DEF Segment

\* The receiver, done with exchange b, enters the next one.
LEMMA SegmentNextRecv ==
  ASSUME NEW R \in Seq(Byte), NEW len \in LengthMap, NEW c \in Nat, NEW a \in Nat,
         NEW b \in Nat, NEW g \in Nat, Segment(R, len, c, a, b, g),
         len[b] = g
  PROVE  Segment(R, len, c, a, b + 1, 0)
<1>1. ASSUME NEW i \in 1 .. Len(R)
      PROVE  /\ R[i].ex >= 1 /\ R[i].off \in 1 .. len[R[i].ex]
             /\ InFlight(R[i], c, a, b + 1, 0)
  <2>1. /\ R[i] \in Byte /\ R[i].ex \in 1 .. c /\ R[i].off \in 1 .. len[R[i].ex]
        /\ InFlight(R[i], c, a, b, g)
    BY SegmentAt, ZenonT(60)
  <2>2. R[i].ex # b
    BY <2>1, ByteParts, SMTT(60) DEF InFlight
  <2>3. QED
    BY <2>1, <2>2, ByteParts, SMTT(60) DEF InFlight
<1>2. ASSUME NEW e \in 1 .. c, NEW k \in 1 .. len[e],
             InFlight([ex |-> e, off |-> k], c, a, b + 1, 0)
      PROVE  \E i \in 1 .. Len(R) : R[i] = [ex |-> e, off |-> k]
  <2>1. InFlight([ex |-> e, off |-> k], c, a, b, g)
    BY <1>2, LengthNat DEF InFlight
  <2>2. QED
    BY <2>1, ZenonT(60) DEF Segment
<1>3. \A i, j \in 1 .. Len(R) : i < j => Before(R[i], R[j])
  BY ZenonT(60) DEF Segment
<1>4. a <= len[c] /\ NotAhead(len, c, a, b + 1, 0)
  BY LengthNat, SMTT(60) DEF Segment, NotAhead
<1>5. QED
  BY <1>1, <1>2, <1>3, <1>4, ZenonT(60) DEF Segment

\* P is ring R after a push of n bytes, the first at offset a + 1 of exchange c.
AfterPush(P, R, c, a, n) ==
  /\ P \in Seq(Byte) /\ Len(P) = Len(R) + n
  /\ \A i \in 1 .. Len(R) : P[i] = R[i]
  /\ \A k \in 1 .. n : P[Len(R) + k] = [ex |-> c, off |-> a + k]

\* What a ring holds after a send of n bytes.
LEMMA PushedBytes ==
  ASSUME NEW R \in Seq(Byte), NEW c \in Nat, NEW a \in Nat, NEW n \in Nat
  PROVE  AfterPush(R \o [k \in 1 .. n |-> [ex |-> c, off |-> a + k]], R, c, a, n)
<1>1. \A k \in 1 .. n : [ex |-> c, off |-> a + k] \in Byte
  BY DEF Byte
<1>2. PICK Q : Q = [k \in 1 .. n |-> [ex |-> c, off |-> a + k]]
  BY ZenonT(60)
<1>3. Q \in [1 .. n -> Byte] /\ \A k \in 1 .. n : Q[k] = [ex |-> c, off |-> a + k]
  BY <1>1, <1>2, ZenonT(60)
<1>4. Q \in Seq(Byte) /\ Len(Q) = n
  BY <1>3
<1>5. R \o Q \in Seq(Byte) /\ Len(R \o Q) = Len(R) + n
  BY <1>4, ConcatProperties, ZenonT(60)
<1>6. \A i \in 1 .. Len(R) : (R \o Q)[i] = R[i]
  BY <1>4
<1>7. \A k \in 1 .. n : (R \o Q)[Len(R) + k] = Q[k]
  BY <1>4
<1>8. AfterPush(R \o Q, R, c, a, n)
  BY <1>3, <1>5, <1>6, <1>7, ZenonT(60) DEF AfterPush
<1>9. QED
  BY <1>2, <1>8, ZenonT(60)

\* The sender pushes n more bytes of exchange c.
LEMMA SegmentPush ==
  ASSUME NEW R \in Seq(Byte), NEW len \in LengthMap, NEW c \in Nat \ {0}, NEW a \in Nat,
         NEW b \in Nat, NEW g \in Nat, Segment(R, len, c, a, b, g),
         NEW n \in Nat \ {0}, a + n <= len[c],
         NEW P, AfterPush(P, R, c, a, n)
  PROVE  Segment(P, len, c, a + n, b, g)
<1>0. len[c] \in Nat /\ NotAhead(len, c, a, b, g)
  BY LengthNat, ZenonT(60) DEF Segment
<1>a. b < c \/ (b = c /\ g <= a)
  BY <1>0, SMTT(60) DEF NotAhead
<1>1. /\ P \in Seq(Byte) /\ Len(P) = Len(R) + n
      /\ \A i \in 1 .. Len(R) : P[i] = R[i]
      /\ \A k \in 1 .. n : P[Len(R) + k] = [ex |-> c, off |-> a + k]
  BY ZenonT(60) DEF AfterPush
<1>2. ASSUME NEW i \in 1 .. Len(P)
      PROVE  \/ i \in 1 .. Len(R) /\ P[i] = R[i]
             \/ \E k \in 1 .. n : i = Len(R) + k /\ P[i] = [ex |-> c, off |-> a + k]
  <2>1. CASE i \in 1 .. Len(R)
    BY <1>1, <2>1, ZenonT(60)
  <2>2. CASE i > Len(R)
    <3>1. i - Len(R) \in 1 .. n /\ i = Len(R) + (i - Len(R))
      BY <1>1, <2>2, SMTT(60)
    <3>2. QED
      BY <1>1, <3>1, ZenonT(60)
  <2>3. QED
    BY <1>1, <2>1, <2>2
<1>3. ASSUME NEW i \in 1 .. Len(P)
      PROVE  /\ P[i].ex >= 1 /\ P[i].off \in 1 .. len[P[i].ex]
             /\ InFlight(P[i], c, a + n, b, g)
  <2>1. CASE i \in 1 .. Len(R) /\ P[i] = R[i]
    <3>1. /\ R[i] \in Byte /\ R[i].ex \in 1 .. c /\ R[i].off \in 1 .. len[R[i].ex]
          /\ InFlight(R[i], c, a, b, g)
      BY <2>1, SegmentAt, ZenonT(60)
    <3>2. InFlight(R[i], c, a + n, b, g)
      BY <3>1, ByteParts, SMTT(60) DEF InFlight
    <3>3. QED
      BY <2>1, <3>1, <3>2, SMTT(60)
  <2>2. ASSUME NEW k \in 1 .. n, P[i] = [ex |-> c, off |-> a + k]
        PROVE  /\ P[i].ex >= 1 /\ P[i].off \in 1 .. len[P[i].ex]
               /\ InFlight(P[i], c, a + n, b, g)
    <3>1. P[i].ex = c /\ P[i].off = a + k /\ len[c] \in Nat
      BY <2>2, LengthNat
    <3>2. QED
      BY <1>a, <3>1, SMTT(60) DEF InFlight
  <2>3. QED
    BY <1>2, <2>1, <2>2, ZenonT(60)
<1>4. ASSUME NEW e \in 1 .. c, NEW k \in 1 .. len[e],
             InFlight([ex |-> e, off |-> k], c, a + n, b, g)
      PROVE  \E i \in 1 .. Len(P) : P[i] = [ex |-> e, off |-> k]
  <2>1. CASE InFlight([ex |-> e, off |-> k], c, a, b, g)
    <3>1. PICK i \in 1 .. Len(R) : R[i] = [ex |-> e, off |-> k]
      BY <2>1, ZenonT(60) DEF Segment
    <3>2. i \in 1 .. Len(P) /\ P[i] = R[i]
      BY <1>1, <3>1, SMTT(60)
    <3>3. QED
      BY <3>1, <3>2, ZenonT(60)
  <2>2. CASE ~InFlight([ex |-> e, off |-> k], c, a, b, g)
    <3>1. k \in Nat /\ e = c /\ k - a \in 1 .. n
      BY <1>4, <2>2, LengthNat DEF InFlight
    <3>2. P[Len(R) + (k - a)] = [ex |-> e, off |-> k] /\ Len(R) + (k - a) \in 1 .. Len(P)
      BY <1>1, <3>1, SMTT(60)
    <3>3. QED
      BY <3>2, ZenonT(60)
  <2>3. QED
    BY <2>1, <2>2, ZenonT(60)
<1>5. ASSUME NEW i \in 1 .. Len(P), NEW j \in 1 .. Len(P), i < j
      PROVE  Before(P[i], P[j])
  <2>1. CASE j \in 1 .. Len(R)
    <3>1. i \in 1 .. Len(R) /\ P[i] = R[i] /\ P[j] = R[j]
      BY <1>1, <1>5, <2>1, SMTT(60)
    <3>2. QED
      BY <1>5, <2>1, <3>1, ZenonT(60) DEF Segment
  <2>2. ASSUME NEW k \in 1 .. n, j = Len(R) + k, P[j] = [ex |-> c, off |-> a + k]
        PROVE  Before(P[i], P[j])
    <3>1. P[j].ex = c /\ P[j].off = a + k
      BY <2>2, SMTT(60)
    <3>2. CASE i \in 1 .. Len(R) /\ P[i] = R[i]
      <4>1. R[i] \in Byte /\ InFlight(R[i], c, a, b, g)
        BY <3>2, SegmentAt, ZenonT(60)
      <4>2. P[i].ex \in Nat /\ P[i].off \in Nat /\ InFlight(P[i], c, a, b, g)
        BY <3>2, <4>1, ByteParts, ZenonT(60)
      <4>3. QED
        BY <3>1, <4>2, SMTT(60) DEF InFlight, Before
    <3>3. ASSUME NEW m \in 1 .. n, i = Len(R) + m, P[i] = [ex |-> c, off |-> a + m]
          PROVE  Before(P[i], P[j])
      <4>1. P[i].ex = c /\ P[i].off = a + m /\ m < k
        BY <1>5, <2>2, <3>3, SMTT(60)
      <4>2. QED
        BY <3>1, <4>1 DEF Before
    <3>4. QED
      BY <1>2, <3>2, <3>3, ZenonT(60)
  <2>3. QED
    BY <1>2, <2>1, <2>2, ZenonT(60)
<1>6. a + n <= len[c] /\ NotAhead(len, c, a + n, b, g)
  BY <1>0, <1>a DEF NotAhead
<1>7. QED
  BY <1>3, <1>4, <1>5, <1>6, ZenonT(60) DEF Segment

\* P is ring R after a pop of n bytes.
AfterPop(P, R, n) ==
  /\ P \in Seq(Byte) /\ Len(P) = Len(R) - n
  /\ \A i \in 1 .. Len(P) : P[i] = R[n + i]

\* What a ring holds after a receive of n bytes.
LEMMA PoppedBytes ==
  ASSUME NEW R \in Seq(Byte), NEW n \in 0 .. Len(R)
  PROVE  AfterPop(SubSeq(R, n + 1, Len(R)), R, n)
<1>1. PICK m \in Nat : m = Len(R)
  OBVIOUS
<1>2. SubSeq(R, n + 1, m) \in Seq(Byte) /\ Len(SubSeq(R, n + 1, m)) = m - n
  BY <1>1, SubSeqProperties, SMTT(60)
<1>3. \A i \in 1 .. m - n : SubSeq(R, n + 1, m)[i] = R[n + i]
  BY <1>1, SubSeqProperties
<1>4. \A i \in 1 .. Len(SubSeq(R, n + 1, m)) : SubSeq(R, n + 1, m)[i] = R[n + i]
  BY <1>2, <1>3, ZenonT(60)
<1>5. QED
  BY <1>1, <1>2, <1>4, ZenonT(60) DEF AfterPop

\* The first n bytes of ring R are bytes g + 1 to g + n of exchange b.
Front(R, b, g, n) == \A j \in 1 .. n : R[j] = [ex |-> b, off |-> g + j]

\* The first bytes of a segment, as far as the receiver's exchange goes, are
\* the next bytes of that exchange.
LEMMA SegmentFront ==
  ASSUME NEW R \in Seq(Byte), NEW len \in LengthMap, NEW c \in Nat, NEW a \in Nat,
         NEW b \in Nat \ {0}, NEW g \in Nat, Segment(R, len, c, a, b, g),
         NEW n \in 0 .. Len(R), g + n <= len[b]
  PROVE  Front(R, b, g, n)
<1> DEFINE Wrong == {j \in 1 .. n : R[j] # [ex |-> b, off |-> g + j]}
<1>1. SUFFICES ASSUME Wrong # {} PROVE FALSE
  BY ZenonT(60) DEF Front
<1>2. PICK m \in Wrong : \A j \in Wrong : m <= j
  <2>1. Wrong \in SUBSET Nat
    BY SMTT(60)
  <2> HIDE DEF Wrong
  <2>2. QED
    BY <1>1, <2>1, SmallestOf, ZenonT(60)
<1>3. m \in 1 .. n /\ m \in 1 .. Len(R) /\ R[m] # [ex |-> b, off |-> g + m]
  BY <1>2
<1>4. \A j \in 1 .. n : j < m => R[j] = [ex |-> b, off |-> g + j]
  BY <1>2, <1>3, SMTT(60)
<1> HIDE DEF Wrong
<1>5. /\ R[m] \in Byte /\ R[m].ex \in 1 .. c /\ R[m].off \in 1 .. len[R[m].ex]
      /\ InFlight(R[m], c, a, b, g)
  BY <1>3, SegmentAt, ZenonT(60)
<1>6. R[m].ex \in Nat /\ R[m].off \in Nat /\ len[b] \in Nat
  BY <1>5, ByteParts, LengthNat, ZenonT(60)
<1>7. R[m].ex > b \/ (R[m].ex = b /\ R[m].off >= g + m)
  <2>1. CASE m = 1
    BY <1>5, <1>6, <2>1, SMTT(60) DEF InFlight
  <2>2. CASE m > 1
    <3>1. m - 1 \in 1 .. Len(R) /\ m - 1 \in 1 .. n /\ m - 1 < m
      BY <1>3, <2>2, SMTT(60)
    <3>2. R[m - 1] = [ex |-> b, off |-> g + (m - 1)] /\ Before(R[m - 1], R[m])
      BY <1>3, <1>4, <3>1, ZenonT(60) DEF Segment
    <3>3. R[m - 1].ex = b /\ R[m - 1].off = g + (m - 1)
      BY <3>2, SMTT(60)
    <3>4. QED
      BY <1>3, <1>6, <3>2, <3>3, SMTT(60) DEF Before
  <2>3. QED
    BY <1>3, <2>1, <2>2, SMTT(60)
<1>8. b \in 1 .. c /\ g + m \in 1 .. len[b] /\ InFlight([ex |-> b, off |-> g + m], c, a, b, g)
  <2>1. m \in Nat /\ m >= 1 /\ m <= n
    BY <1>3, SMTT(60)
  <2>2. b < c \/ (b = c /\ g + m <= a)
    BY <1>5, <1>6, <1>7, <2>1, SMTT(60) DEF InFlight
  <2>3. b \in 1 .. c /\ g + m \in 1 .. len[b]
    BY <1>6, <2>1, <2>2, SMTT(60)
  <2>4. QED
    BY <2>1, <2>2, <2>3, SMTT(60) DEF InFlight
<1>9. PICK i \in 1 .. Len(R) : R[i] = [ex |-> b, off |-> g + m]
  BY <1>8, ZenonT(60) DEF Segment
<1>10. R[i].ex = b /\ R[i].off = g + m
  BY <1>9, SMTT(60)
<1>11. CASE i < m
  <2>1. i \in 1 .. n /\ R[i] = [ex |-> b, off |-> g + i]
    BY <1>3, <1>4, <1>11, SMTT(60)
  <2>2. R[i].off = g + i
    BY <2>1, SMTT(60)
  <2>3. QED
    BY <1>3, <1>10, <1>11, <2>2, SMTT(60)
<1>12. CASE i > m
  <2>1. Before(R[m], R[i])
    BY <1>3, <1>12, ZenonT(60) DEF Segment
  <2>2. QED
    BY <1>3, <1>6, <1>7, <1>10, <2>1, SMTT(60) DEF Before
<1>13. QED
  BY <1>3, <1>9, <1>11, <1>12, SMTT(60)

\* The receiver pops n bytes of its exchange b.
LEMMA SegmentPop ==
  ASSUME NEW R \in Seq(Byte), NEW len \in LengthMap, NEW c \in Nat, NEW a \in Nat,
         NEW b \in Nat \ {0}, NEW g \in Nat, Segment(R, len, c, a, b, g),
         NEW n \in 1 .. Len(R), g + n <= len[b],
         NEW P, AfterPop(P, R, n)
  PROVE  Segment(P, len, c, a, b, g + n)
<1>1. /\ P \in Seq(Byte) /\ Len(P) = Len(R) - n
      /\ \A i \in 1 .. Len(P) : P[i] = R[n + i]
  BY ZenonT(60) DEF AfterPop
<1>2. \A j \in 1 .. n : R[j] = [ex |-> b, off |-> g + j]
  <2>1. n \in 0 .. Len(R)
    OBVIOUS
  <2>2. Front(R, b, g, n)
    BY <2>1, SegmentFront, ZenonT(60)
  <2>3. QED
    BY <2>2, ZenonT(60) DEF Front
<1>3. n \in 1 .. n /\ R[n] = [ex |-> b, off |-> g + n]
  BY <1>2, SMTT(60)
<1>4. R[n].ex = b /\ R[n].off = g + n
  BY <1>3
<1>5. InFlight(R[n], c, a, b, g)
  BY SegmentAt, ZenonT(60)
<1>6. a <= len[c] /\ NotAhead(len, c, a, b, g + n)
  BY <1>4, <1>5, SMTT(60) DEF Segment, NotAhead, InFlight
<1>7. ASSUME NEW i \in 1 .. Len(P)
      PROVE  /\ P[i].ex >= 1 /\ P[i].off \in 1 .. len[P[i].ex]
             /\ InFlight(P[i], c, a, b, g + n)
  <2>1. n + i \in 1 .. Len(R) /\ P[i] = R[n + i] /\ n < n + i
    BY <1>1, SMTT(60)
  <2>2. /\ P[i] \in Byte /\ P[i].ex \in 1 .. c /\ P[i].off \in 1 .. len[P[i].ex]
        /\ InFlight(P[i], c, a, b, g)
    BY <2>1, SegmentAt, ZenonT(60)
  <2>3. Before(R[n], P[i])
    BY <2>1, ZenonT(60) DEF Segment
  <2>4. QED
    BY <1>4, <2>2, <2>3, ByteParts, SMTT(60) DEF Before, InFlight
<1>8. ASSUME NEW e \in 1 .. c, NEW k \in 1 .. len[e],
             InFlight([ex |-> e, off |-> k], c, a, b, g + n)
      PROVE  \E i \in 1 .. Len(P) : P[i] = [ex |-> e, off |-> k]
  <2>1. k \in Nat /\ InFlight([ex |-> e, off |-> k], c, a, b, g)
    BY <1>8, LengthNat DEF InFlight
  <2>2. PICK i \in 1 .. Len(R) : R[i] = [ex |-> e, off |-> k]
    BY <2>1, ZenonT(60) DEF Segment
  <2>3. CASE i > n
    <3>0. PICK m \in Nat : m = Len(R) /\ m - n = Len(P) /\ i <= m
      BY <1>1, SMTT(60)
    <3>1. PICK h \in Nat : h = i - n
      BY <2>3
    <3>a. h \in 1 .. m - n /\ n + h = i
      BY <2>3, <3>0, <3>1, SMTT(60)
    <3>2. h \in 1 .. Len(P) /\ n + h = i
      BY <3>0, <3>a, ZenonT(60)
    <3>3. P[h] = R[n + h]
      BY <1>1, <3>2, SMTT(60)
    <3>4. QED
      BY <2>2, <3>2, <3>3, SMTT(60)
  <2>4. CASE i <= n
    <3>1. [ex |-> e, off |-> k] = [ex |-> b, off |-> g + i]
      BY <1>2, <2>2, <2>4, SMTT(60)
    <3>2. e = b /\ k = g + i
      BY <3>1, SMTT(60)
    <3>3. QED
      BY <1>8, <2>4, <3>2 DEF InFlight
  <2>5. QED
    BY <2>3, <2>4, SMTT(60)
<1>9. ASSUME NEW i \in 1 .. Len(P), NEW j \in 1 .. Len(P), i < j
      PROVE  Before(P[i], P[j])
  <2>1. /\ n + i \in 1 .. Len(R) /\ P[i] = R[n + i]
        /\ n + j \in 1 .. Len(R) /\ P[j] = R[n + j] /\ n + i < n + j
    BY <1>1, <1>9, SMTT(60)
  <2>2. QED
    BY <2>1, SMTT(60) DEF Segment
<1>10. QED
  BY <1>6, <1>7, <1>8, <1>9, ZenonT(60) DEF Segment

-----------------------------------------------------------------------------
(* The inductive invariant *)

\* The bytes of the exchanges so far from s to d; none in the others.
LengthsOf(run, s, d) ==
  [e \in Nat |-> IF e \in 1 .. Len(run) THEN LenTo(SendPlan(run[e], s), d) ELSE 0]
Lengths(s, d) == LengthsOf(script, s, d)

\* A pending list of rank r for the blocks of a plan.
ListFor(list, blocks, r) ==
  /\ Len(list) = Len(blocks)
  /\ \A i \in 1 .. Len(list) :
       /\ list[i].proc = blocks[i].proc /\ list[i].len = blocks[i].len
       /\ list[i].left <= list[i].len
       /\ list[i].proc = r => list[i].left = 0

\* The lists of a rank are those of the exchange it is in, and empty of
\* pending entries once it has left it.
ListsInv(r) ==
  /\ cnt[r] \in 0 .. Len(script)
  /\ IF cnt[r] = 0 THEN sends[r] = <<>> /\ recvs[r] = <<>>
     ELSE /\ ListFor(sends[r], SendPlan(script[cnt[r]], r), r)
          /\ ListFor(recvs[r], RecvPlan(script[cnt[r]], r), r)
  /\ pc[r] = "idle" => Moved(sends[r]) /\ Moved(recvs[r])

\* The bytes moved for rank q, of the entry of a list for q if there is one.
MovedFor(list, q) ==
  LET for == {i \in 1 .. Len(list) : list[i].proc = q}
      i == CHOOSE i \in for : TRUE
  IN IF for = {} THEN 0 ELSE list[i].len - list[i].left

\* Between two ranks, the ring holds what the sender has sent and the receiver
\* has not received, and what the receiver has received in its exchange is in
\* its inbox.
StreamInv(s, d) ==
  /\ Segment(ring[s][d], Lengths(s, d), cnt[s], MovedFor(sends[s], d),
             cnt[d], MovedFor(recvs[d], s))
  /\ Len(inbox[d][s]) = MovedFor(recvs[d], s)

IInv ==
  /\ TypeOK
  /\ \A r \in Rank : ListsInv(r) /\ ring[r][r] = <<>> /\ inbox[r][r] = <<>>
  /\ \A s, d \in Rank : s # d => StreamInv(s, d)
  /\ InboxOfThisExchange

-----------------------------------------------------------------------------
(* Lemmas about plans and pending lists *)

\* At most one block of a plan, or entry of a list, for each rank.
OneEach(list) ==
  \A i, j \in 1 .. Len(list) : list[i].proc = list[j].proc => i = j

\* The two sides of an exchange, run forward or in reverse, agree.
LEMMA PlanFacts ==
  ASSUME NEW x \in Exchanges, NEW r \in Rank, NEW q \in Rank
  PROVE  /\ SendPlan(x, r) \in Seq(Block) /\ OneEach(SendPlan(x, r))
         /\ RecvPlan(x, r) \in Seq(Block) /\ OneEach(RecvPlan(x, r))
         /\ LenTo(SendPlan(x, r), q) = LenTo(RecvPlan(x, q), r)
<1>1. /\ x.to[r] \in Seq(Block) /\ x.from[r] \in Seq(Block)
      /\ x.rev \in BOOLEAN
  BY ExchangeAssumption DEF Exchange
<1>2. OneEach(x.to[r]) /\ OneEach(x.from[r])
  BY ExchangeAssumption DEF WellFormed, OneEach
<1>3. /\ LenTo(x.to[r], q) = LenTo(x.from[q], r)
      /\ LenTo(x.to[q], r) = LenTo(x.from[r], q)
  BY ExchangeAssumption DEF WellFormed
<1>4. QED
  BY <1>1, <1>2, <1>3 DEF SendPlan, RecvPlan

\* The length of a block is found by its rank.
LEMMA LenToAt ==
  ASSUME NEW blocks, OneEach(blocks), NEW i \in 1 .. Len(blocks)
  PROVE  LenTo(blocks, blocks[i].proc) = blocks[i].len
<1> DEFINE for == {j \in 1 .. Len(blocks) : blocks[j].proc = blocks[i].proc}
<1>1. i \in for
  BY ZenonT(60)
<1>2. (CHOOSE j \in for : TRUE) \in for
  BY <1>1, ZenonT(60)
<1>3. (CHOOSE j \in for : TRUE) = i
  BY <1>2, ZenonT(60) DEF OneEach
<1>4. QED
  BY <1>1, <1>3, ZenonT(60) DEF LenTo

\* A plan without a block for q has no byte for q.
LEMMA LenToNone ==
  ASSUME NEW blocks, NEW q, \A i \in 1 .. Len(blocks) : blocks[i].proc # q
  PROVE  LenTo(blocks, q) = 0
BY ZenonT(60) DEF LenTo

\* A plan has a number of bytes for q.
LEMMA LenToNat ==
  ASSUME NEW blocks \in Seq(Block), OneEach(blocks), NEW q
  PROVE  LenTo(blocks, q) \in Nat
<1>1. CASE \E i \in 1 .. Len(blocks) : blocks[i].proc = q
  <2>1. PICK i \in 1 .. Len(blocks) : blocks[i].proc = q
    BY <1>1, ZenonT(60)
  <2>2. blocks[i] \in Block
    BY SMTT(60)
  <2>3. QED
    BY <2>1, <2>2, LenToAt, SMTT(60) DEF Block
<1>2. CASE \A i \in 1 .. Len(blocks) : blocks[i].proc # q
  BY <1>2, LenToNone, SMTT(60)
<1>3. QED
  BY <1>1, <1>2, SMTT(60)

\* What has been moved for a rank is found the same way.
LEMMA MovedForAt ==
  ASSUME NEW list, OneEach(list), NEW i \in 1 .. Len(list)
  PROVE  MovedFor(list, list[i].proc) = list[i].len - list[i].left
<1> DEFINE for == {j \in 1 .. Len(list) : list[j].proc = list[i].proc}
<1>1. i \in for
  OBVIOUS
<1>2. (CHOOSE j \in for : TRUE) \in for
  BY <1>1, SMTT(60)
<1>3. (CHOOSE j \in for : TRUE) = i
  BY <1>2 DEF OneEach
<1>4. QED
  BY <1>1, <1>3, ZenonT(60) DEF MovedFor

\* A list without an entry for q has moved nothing for q.
LEMMA MovedForNone ==
  ASSUME NEW list, NEW q, \A i \in 1 .. Len(list) : list[i].proc # q
  PROVE  MovedFor(list, q) = 0
BY ZenonT(60) DEF MovedFor

\* A list has the ranks of its plan.
LEMMA ListOneEach ==
  ASSUME NEW list, NEW blocks, NEW r, ListFor(list, blocks, r), OneEach(blocks)
  PROVE  OneEach(list)
BY ZenonT(60) DEF ListFor, OneEach

\* What has been moved for a rank is part of its block.
LEMMA MovedForRange ==
  ASSUME NEW list \in Seq(Entry), NEW blocks \in Seq(Block), NEW r,
         ListFor(list, blocks, r), OneEach(blocks), NEW q
  PROVE  MovedFor(list, q) \in Nat /\ MovedFor(list, q) <= LenTo(blocks, q)
<1>1. CASE \E i \in 1 .. Len(list) : list[i].proc = q
  <2>1. PICK i \in 1 .. Len(list) : list[i].proc = q
    BY <1>1, ZenonT(60)
  <2>2. list[i] \in Entry /\ i \in 1 .. Len(blocks)
    BY SMTT(60) DEF ListFor
  <2>3. MovedFor(list, q) = list[i].len - list[i].left
    BY <2>1, ListOneEach, MovedForAt, SMTT(60)
  <2>4. LenTo(blocks, q) = blocks[i].len
    BY <2>1, <2>2, LenToAt, SMTT(60) DEF ListFor
  <2>5. list[i].len = blocks[i].len /\ list[i].left <= list[i].len
    BY ZenonT(60) DEF ListFor
  <2>6. list[i].len \in Nat /\ list[i].left \in Nat
    BY <2>2, ZenonT(60) DEF Entry
  <2>7. QED
    BY <2>3, <2>4, <2>5, <2>6, SMTT(60)
<1>2. CASE \A i \in 1 .. Len(list) : list[i].proc # q
  <2>1. MovedFor(list, q) = 0 /\ LenTo(blocks, q) = 0
    BY <1>2, MovedForNone, LenToNone, SMTT(60) DEF ListFor
  <2>2. QED
    BY <2>1, SMTT(60)
<1>3. QED
  BY <1>1, <1>2, ZenonT(60)

\* A list with nothing left has moved all of it.
LEMMA MovedForAll ==
  ASSUME NEW list \in Seq(Entry), NEW blocks \in Seq(Block), NEW r,
         ListFor(list, blocks, r), OneEach(blocks), Moved(list), NEW q
  PROVE  MovedFor(list, q) = LenTo(blocks, q)
<1>1. CASE \E i \in 1 .. Len(list) : list[i].proc = q
  <2>1. PICK i \in 1 .. Len(list) : list[i].proc = q
    BY <1>1, SMTT(60)
  <2>2. list[i] \in Entry /\ i \in 1 .. Len(blocks)
    BY SMTT(60) DEF ListFor
  <2>3. MovedFor(list, q) = list[i].len - list[i].left
    BY <2>1, ListOneEach, MovedForAt, SMTT(60)
  <2>4. LenTo(blocks, q) = blocks[i].len
    BY <2>1, <2>2, LenToAt, SMTT(60) DEF ListFor
  <2>5. list[i].len = blocks[i].len /\ list[i].left = 0
    BY DEF ListFor, Moved
  <2>6. list[i].len \in Nat
    BY <2>2, SMTT(60) DEF Entry
  <2>7. QED
    BY <2>3, <2>4, <2>5, <2>6, SMTT(60)
<1>2. CASE \A i \in 1 .. Len(list) : list[i].proc # q
  BY <1>2, MovedForNone, LenToNone, SMTT(60) DEF ListFor
<1>3. QED
  BY <1>1, <1>2, ZenonT(60)

\* The list an exchange starts with.
LEMMA PendingFor ==
  ASSUME NEW r \in Rank, NEW blocks \in Seq(Block), OneEach(blocks)
  PROVE  /\ Pending(r, blocks) \in Seq(Entry)
         /\ ListFor(Pending(r, blocks), blocks, r)
         /\ \A q \in Rank \ {r} : MovedFor(Pending(r, blocks), q) = 0
<1>1. \A i \in 1 .. Len(blocks) : blocks[i] \in Block
  OBVIOUS
<1>2. \A i \in 1 .. Len(blocks) : blocks[i].proc \in Rank /\ blocks[i].len \in Nat
  BY <1>1, ZenonT(60) DEF Block
<1>3. PICK list : list = Pending(r, blocks)
  BY ZenonT(60)
<1>4. /\ list \in [1 .. Len(blocks) -> Entry]
      /\ \A i \in 1 .. Len(blocks) :
           /\ list[i].proc = blocks[i].proc /\ list[i].len = blocks[i].len
           /\ list[i].left = IF blocks[i].proc = r THEN 0 ELSE blocks[i].len
  BY <1>2, <1>3, SMTT(60) DEF Pending, Entry
<1>5. list \in Seq(Entry) /\ Len(list) = Len(blocks)
  BY <1>4, SMTT(60)
<1>6. ListFor(list, blocks, r)
  BY <1>2, <1>4, <1>5, SMTT(60) DEF ListFor
<1>7. ASSUME NEW q \in Rank \ {r} PROVE MovedFor(list, q) = 0
  <2>1. CASE \E i \in 1 .. Len(list) : list[i].proc = q
    <3>1. PICK i \in 1 .. Len(list) : list[i].proc = q
      BY <2>1, SMTT(60)
    <3>2. MovedFor(list, q) = list[i].len - list[i].left
      BY <1>6, <3>1, ListOneEach, MovedForAt, SMTT(60)
    <3>3. list[i].len \in Nat /\ list[i].left = list[i].len
      BY <1>2, <1>4, <1>5, <3>1, SMTT(60)
    <3>4. QED
      BY <3>2, <3>3, SMTT(60)
  <2>2. CASE \A i \in 1 .. Len(list) : list[i].proc # q
    BY <2>2, MovedForNone, SMTT(60)
  <2>3. QED
    BY <2>1, <2>2, SMTT(60)
<1>8. QED
  BY <1>3, <1>5, <1>6, <1>7, SMTT(60)

\* n more bytes are moved for entry i of a list.
AfterMove(new, list, i, n) ==
  /\ new \in Seq(Entry) /\ Len(new) = Len(list)
  /\ \A j \in 1 .. Len(list) :
       /\ new[j].proc = list[j].proc /\ new[j].len = list[j].len
       /\ new[j].left = IF j = i THEN list[j].left - n ELSE list[j].left

\* A transfer of n bytes for entry i of a plan.
LEMMA MoveStep ==
  ASSUME NEW list \in Seq(Entry), NEW i \in 1 .. Len(list), NEW n \in Nat,
         n <= list[i].left
  PROVE  AfterMove([list EXCEPT ![i].left = @ - n], list, i, n)
<1>1. \A j \in 1 .. Len(list) : list[j] \in Entry
  OBVIOUS
<1>2. \A j \in 1 .. Len(list) :
        list[j].proc \in Rank /\ list[j].len \in Nat /\ list[j].left \in Nat
  BY <1>1, ZenonT(60) DEF Entry
<1>3. list \in [1 .. Len(list) -> Entry]
  OBVIOUS
<1>4. PICK new : new = [list EXCEPT ![i].left = @ - n]
  BY ZenonT(60)
<1>5. [list[i] EXCEPT !.left = list[i].left - n] \in Entry
  BY <1>1, <1>2, SMTT(60) DEF Entry
<1>6. /\ new \in [1 .. Len(list) -> Entry]
      /\ \A j \in 1 .. Len(list) :
           new[j] = IF j = i THEN [list[i] EXCEPT !.left = list[i].left - n] ELSE list[j]
  BY <1>3, <1>4, <1>5
<1>7. new \in Seq(Entry) /\ Len(new) = Len(list)
  BY <1>6
<1>8. ASSUME NEW j \in 1 .. Len(list)
      PROVE  /\ new[j].proc = list[j].proc /\ new[j].len = list[j].len
             /\ new[j].left = IF j = i THEN list[j].left - n ELSE list[j].left
  <2>1. list[i] \in Entry
    BY <1>1
  <2>2. CASE j = i
    <3>1. new[i] = [list[i] EXCEPT !.left = list[i].left - n]
      BY <1>6, SMTT(60)
    <3>2. QED
      BY <2>1, <2>2, <3>1 DEF Entry
  <2>3. CASE j # i
    BY <1>6, <2>3, SMTT(60)
  <2>4. QED
    BY <2>2, <2>3, ZenonT(60)
<1>9. QED
  BY <1>4, <1>7, <1>8, SMTT(60) DEF AfterMove

\* The bytes moved for a peer after such a transfer.
LEMMA MovedForMove ==
  ASSUME NEW r, NEW list \in Seq(Entry), NEW blocks \in Seq(Block), OneEach(blocks),
         ListFor(list, blocks, r), NEW i \in 1 .. Len(list), NEW n \in Nat \ {0},
         n <= list[i].left, NEW new, AfterMove(new, list, i, n)
  PROVE  /\ ListFor(new, blocks, r) /\ list[i].proc # r
         /\ MovedFor(new, list[i].proc) = MovedFor(list, list[i].proc) + n
         /\ \A q : q # list[i].proc => MovedFor(new, q) = MovedFor(list, q)
<1>1. \A j \in 1 .. Len(list) : list[j] \in Entry
  BY SMTT(60)
<1>2. \A j \in 1 .. Len(list) : list[j].len \in Nat /\ list[j].left \in Nat
  BY <1>1, SMTT(60) DEF Entry
<1>3. ListFor(new, blocks, r) /\ list[i].proc # r
  <2>1. list[i].proc # r
    BY <1>2 DEF ListFor
  <2>2. Len(new) = Len(list) /\ Len(list) = Len(blocks)
    BY ZenonT(60) DEF ListFor, AfterMove
  <2>3. ASSUME NEW j \in 1 .. Len(list)
        PROVE  /\ new[j].proc = blocks[j].proc /\ new[j].len = blocks[j].len
               /\ new[j].left <= new[j].len
               /\ new[j].proc = r => new[j].left = 0
    <3>1. /\ new[j].proc = list[j].proc /\ new[j].len = list[j].len
          /\ new[j].left = IF j = i THEN list[j].left - n ELSE list[j].left
      BY ZenonT(60) DEF AfterMove
    <3>2. /\ list[j].proc = blocks[j].proc /\ list[j].len = blocks[j].len
          /\ list[j].left <= list[j].len
          /\ list[j].proc = r => list[j].left = 0
      BY ZenonT(60) DEF ListFor
    <3>3. CASE j = i
      BY <1>2, <2>1, <3>1, <3>2, <3>3, SMTT(60)
    <3>4. CASE j # i
      BY <3>1, <3>2, <3>4, SMTT(60)
    <3>5. QED
      BY <3>3, <3>4, SMTT(60)
  <2>4. QED
    BY <2>1, <2>2, <2>3 DEF ListFor
<1>4. OneEach(list) /\ OneEach(new)
  BY <1>3, ListOneEach, SMTT(60)
<1>5. MovedFor(new, list[i].proc) = MovedFor(list, list[i].proc) + n
  <2>1. MovedFor(list, list[i].proc) = list[i].len - list[i].left
    BY <1>4, MovedForAt, SMTT(60)
  <2>2. MovedFor(new, new[i].proc) = new[i].len - new[i].left
    BY <1>4, MovedForAt, SMTT(60) DEF AfterMove
  <2>3. new[i].proc = list[i].proc /\ new[i].len = list[i].len /\ new[i].left = list[i].left - n
    BY SMTT(60) DEF AfterMove
  <2>4. QED
    BY <1>2, <2>1, <2>2, <2>3, SMTT(60)
<1>6. ASSUME NEW q, q # list[i].proc PROVE MovedFor(new, q) = MovedFor(list, q)
  <2>1. CASE \E j \in 1 .. Len(list) : list[j].proc = q
    <3>1. PICK j \in 1 .. Len(list) : list[j].proc = q
      BY <2>1, SMTT(60)
    <3>2. MovedFor(list, q) = list[j].len - list[j].left
      BY <1>4, <3>1, MovedForAt, SMTT(60)
    <3>3. j \in 1 .. Len(new) /\ new[j].proc = q /\ new[j].len = list[j].len /\ new[j].left = list[j].left
      BY <1>6, <3>1, SMTT(60) DEF AfterMove
    <3>4. MovedFor(new, q) = new[j].len - new[j].left
      BY <1>4, <3>3, MovedForAt, SMTT(60)
    <3>5. QED
      BY <3>2, <3>3, <3>4, SMTT(60)
  <2>2. CASE \A j \in 1 .. Len(list) : list[j].proc # q
    BY <2>2, MovedForNone, SMTT(60) DEF AfterMove
  <2>3. QED
    BY <2>1, <2>2, SMTT(60)
<1>7. QED
  BY <1>3, <1>5, <1>6, SMTT(60)

-----------------------------------------------------------------------------
(* What the invariant says of one pair of ranks *)

\* The lengths of a run of exchanges between two ranks are numbers.
LEMMA LengthsType ==
  ASSUME NEW run \in Seq(Exchanges), NEW s \in Rank, NEW d \in Rank
  PROVE  LengthsOf(run, s, d) \in LengthMap
<1>1. ASSUME NEW e \in 1 .. Len(run) PROVE LenTo(SendPlan(run[e], s), d) \in Nat
  <2>1. run[e] \in Exchanges
    OBVIOUS
  <2>2. QED
    BY <2>1, PlanFacts, LenToNat, ZenonT(60)
<1>2. QED
  BY <1>1, ZenonT(60) DEF LengthsOf, LengthMap

\* The exchanges so far keep their lengths when more are run.
LEMMA LengthsGrow ==
  ASSUME NEW run, NEW more, NEW s, NEW d, Len(run) \in Nat, Len(more) \in Nat,
         Len(run) <= Len(more), \A e \in 1 .. Len(run) : more[e] = run[e]
  PROVE  \A e \in Nat : e <= Len(run) => LengthsOf(more, s, d)[e] = LengthsOf(run, s, d)[e]
<1>1. ASSUME NEW e \in Nat, e <= Len(run)
      PROVE  LengthsOf(more, s, d)[e] = LengthsOf(run, s, d)[e]
  <2>1. CASE e = 0
    BY <2>1, SMTT(60) DEF LengthsOf
  <2>2. CASE e # 0
    <3>1. e \in 1 .. Len(run) /\ e \in 1 .. Len(more) /\ more[e] = run[e]
      BY <1>1, <2>2, SMTT(60)
    <3>2. QED
      BY <3>1, SMTT(60) DEF LengthsOf
  <2>3. QED
    BY <2>1, <2>2, SMTT(60)
<1>2. QED
  BY <1>1

\* The exchange a rank is in, and the plans of it.
LEMMA RankFacts ==
  ASSUME IInv, NEW r \in Rank
  PROVE  /\ cnt[r] \in Nat /\ cnt[r] <= Len(script) /\ Len(script) \in Nat
         /\ sends[r] \in Seq(Entry) /\ recvs[r] \in Seq(Entry)
         /\ cnt[r] # 0 =>
              /\ script[cnt[r]] \in Exchanges
              /\ ListFor(sends[r], SendPlan(script[cnt[r]], r), r)
              /\ ListFor(recvs[r], RecvPlan(script[cnt[r]], r), r)
         /\ cnt[r] = 0 => sends[r] = <<>> /\ recvs[r] = <<>>
         /\ pc[r] = "idle" => Moved(sends[r]) /\ Moved(recvs[r])
<1>1. ListsInv(r) /\ script \in Seq(Exchanges)
  BY SMTT(60) DEF IInv, TypeOK
<1>2. sends[r] \in Seq(Entry) /\ recvs[r] \in Seq(Entry)
  BY SMTT(60) DEF IInv, TypeOK
<1>3. QED
  BY <1>1, <1>2, SMTT(60) DEF ListsInv

\* The lengths of an exchange from both ends.
LEMMA LengthsAt ==
  ASSUME IInv, NEW r \in Rank, NEW q \in Rank
  PROVE  /\ cnt[r] # 0 =>
              /\ Lengths(r, q)[cnt[r]] = LenTo(SendPlan(script[cnt[r]], r), q)
              /\ Lengths(q, r)[cnt[r]] = LenTo(RecvPlan(script[cnt[r]], r), q)
         /\ cnt[r] = 0 => Lengths(r, q)[cnt[r]] = 0 /\ Lengths(q, r)[cnt[r]] = 0
<1>1. /\ cnt[r] \in Nat /\ cnt[r] <= Len(script) /\ Len(script) \in Nat
      /\ cnt[r] # 0 => script[cnt[r]] \in Exchanges
  BY RankFacts, SMTT(60)
<1>2. CASE cnt[r] = 0
  BY <1>1, <1>2, SMTT(60) DEF Lengths, LengthsOf
<1>3. CASE cnt[r] # 0
  <2>1. /\ Lengths(r, q)[cnt[r]] = LenTo(SendPlan(script[cnt[r]], r), q)
        /\ Lengths(q, r)[cnt[r]] = LenTo(SendPlan(script[cnt[r]], q), r)
    BY <1>1, <1>3, SMTT(60) DEF Lengths, LengthsOf
  <2>2. LenTo(SendPlan(script[cnt[r]], q), r) = LenTo(RecvPlan(script[cnt[r]], r), q)
    BY <1>1, <1>3, PlanFacts, SMTT(60)
  <2>3. QED
    BY <1>3, <2>1, <2>2, SMTT(60)
<1>4. QED
  BY <1>2, <1>3, SMTT(60)

\* What a rank has moved in its exchange is part of the exchange.
LEMMA RankMoved ==
  ASSUME IInv, NEW r \in Rank, NEW q \in Rank
  PROVE  /\ MovedFor(sends[r], q) \in Nat /\ MovedFor(sends[r], q) <= Lengths(r, q)[cnt[r]]
         /\ MovedFor(recvs[r], q) \in Nat /\ MovedFor(recvs[r], q) <= Lengths(q, r)[cnt[r]]
<1>1. CASE cnt[r] = 0
  <2>1. sends[r] = <<>> /\ recvs[r] = <<>>
    BY <1>1, RankFacts, SMTT(60)
  <2>2. MovedFor(sends[r], q) = 0 /\ MovedFor(recvs[r], q) = 0
    BY <2>1, MovedForNone, SMTT(60)
  <2>3. QED
    BY <1>1, <2>2, LengthsAt, SMTT(60)
<1>2. CASE cnt[r] # 0
  <2>1. /\ sends[r] \in Seq(Entry) /\ recvs[r] \in Seq(Entry)
        /\ script[cnt[r]] \in Exchanges
        /\ ListFor(sends[r], SendPlan(script[cnt[r]], r), r)
        /\ ListFor(recvs[r], RecvPlan(script[cnt[r]], r), r)
    BY <1>2, RankFacts, SMTT(60)
  <2>2. /\ SendPlan(script[cnt[r]], r) \in Seq(Block) /\ OneEach(SendPlan(script[cnt[r]], r))
        /\ RecvPlan(script[cnt[r]], r) \in Seq(Block) /\ OneEach(RecvPlan(script[cnt[r]], r))
    BY <2>1, PlanFacts, SMTT(60)
  <2>3. /\ MovedFor(sends[r], q) \in Nat
        /\ MovedFor(sends[r], q) <= LenTo(SendPlan(script[cnt[r]], r), q)
    BY <2>1, <2>2, MovedForRange, SMTT(60)
  <2>4. /\ MovedFor(recvs[r], q) \in Nat
        /\ MovedFor(recvs[r], q) <= LenTo(RecvPlan(script[cnt[r]], r), q)
    BY <2>1, <2>2, MovedForRange, SMTT(60)
  <2>5. QED
    BY <1>2, <2>3, <2>4, LengthsAt, SMTT(60)
<1>3. QED
  BY <1>1, <1>2, SMTT(60)

\* A rank that has left its exchange has moved all of it.
LEMMA RankDone ==
  ASSUME IInv, NEW r \in Rank, NEW q \in Rank, pc[r] = "idle"
  PROVE  /\ MovedFor(sends[r], q) = Lengths(r, q)[cnt[r]]
         /\ MovedFor(recvs[r], q) = Lengths(q, r)[cnt[r]]
<1>1. CASE cnt[r] = 0
  <2>1. sends[r] = <<>> /\ recvs[r] = <<>>
    BY <1>1, RankFacts, SMTT(60)
  <2>2. MovedFor(sends[r], q) = 0 /\ MovedFor(recvs[r], q) = 0
    BY <2>1, MovedForNone, SMTT(60)
  <2>3. QED
    BY <1>1, <2>2, LengthsAt, SMTT(60)
<1>2. CASE cnt[r] # 0
  <2>1. /\ sends[r] \in Seq(Entry) /\ recvs[r] \in Seq(Entry)
        /\ script[cnt[r]] \in Exchanges
        /\ ListFor(sends[r], SendPlan(script[cnt[r]], r), r)
        /\ ListFor(recvs[r], RecvPlan(script[cnt[r]], r), r)
        /\ Moved(sends[r]) /\ Moved(recvs[r])
    BY <1>2, RankFacts, SMTT(60)
  <2>2. /\ SendPlan(script[cnt[r]], r) \in Seq(Block) /\ OneEach(SendPlan(script[cnt[r]], r))
        /\ RecvPlan(script[cnt[r]], r) \in Seq(Block) /\ OneEach(RecvPlan(script[cnt[r]], r))
    BY <2>1, PlanFacts, SMTT(60)
  <2>3. MovedFor(sends[r], q) = LenTo(SendPlan(script[cnt[r]], r), q)
    BY <2>1, <2>2, MovedForAll, SMTT(60)
  <2>4. MovedFor(recvs[r], q) = LenTo(RecvPlan(script[cnt[r]], r), q)
    BY <2>1, <2>2, MovedForAll, SMTT(60)
  <2>5. QED
    BY <1>2, <2>3, <2>4, LengthsAt, SMTT(60)
<1>3. QED
  BY <1>1, <1>2, SMTT(60)

\* The invariant holds no less than what exchange() promises.
LEMMA ExactFromInv ==
  ASSUME IInv
  PROVE  ExchangeExact
<1>1. TypeOK /\ InboxOfThisExchange
  BY SMTT(60) DEF IInv
<1>2. ASSUME NEW r \in Rank, pc[r] = "idle", cnt[r] > 0, NEW s \in Rank \ {r}
      PROVE  Len(inbox[r][s]) = LenTo(RecvPlan(script[cnt[r]], r), s)
  <2>1. Len(inbox[r][s]) = MovedFor(recvs[r], s)
    BY ZenonT(60) DEF IInv, StreamInv
  <2>2. cnt[r] # 0
    BY <1>2, RankFacts, SMTT(60)
  <2>3. QED
    BY <1>2, <2>1, <2>2, RankDone, LengthsAt, SMTT(60)
<1>3. ASSUME \A r \in Rank : pc[r] = "idle" /\ cnt[r] = Len(script),
             NEW s \in Rank, NEW d \in Rank
      PROVE  ring[s][d] = <<>>
  <2>1. CASE s = d
    BY <2>1, ZenonT(60) DEF IInv
  <2>2. CASE s # d
    <3>1. cnt[s] = cnt[d] /\ cnt[s] \in Nat
      BY <1>3, RankFacts, ZenonT(60)
    <3>2. PICK a \in Nat : a = MovedFor(sends[s], d) /\ a = MovedFor(recvs[d], s)
      BY <1>3, <3>1, RankDone, RankMoved, SMTT(60)
    <3>3. Segment(ring[s][d], Lengths(s, d), cnt[s], a, cnt[s], a)
      BY <2>2, <3>1, <3>2, ZenonT(60) DEF IInv, StreamInv
    <3>4. ring[s][d] \in Seq(Byte) /\ Lengths(s, d) \in LengthMap
      BY LengthsType, ZenonT(60) DEF IInv, TypeOK, Lengths
    <3>5. QED
      BY <3>1, <3>3, <3>4, SegmentEmpty, SMTT(60)
  <2>3. QED
    BY <2>1, <2>2, ZenonT(60)
<1>4. QED
  BY <1>1, <1>2, <1>3, SMTT(60) DEF ExchangeExact, CompleteOnReturn

-----------------------------------------------------------------------------
(* The invariant is inductive *)

\* Before the first exchange the rings are empty.
LEMMA InitInv ==
  ASSUME Init
  PROVE  IInv
<1>1. TypeOK
  BY RankAssumption, CapAssumption, BoundAssumption, SMTT(60) DEF Init, TypeOK
<1>2. ASSUME NEW r \in Rank
      PROVE  ListsInv(r) /\ ring[r][r] = <<>> /\ inbox[r][r] = <<>>
  BY DEF Init, ListsInv, Moved
<1>3. ASSUME NEW s \in Rank, NEW d \in Rank
      PROVE  StreamInv(s, d)
  <2>1. /\ cnt[s] = 0 /\ cnt[d] = 0 /\ sends[s] = <<>> /\ recvs[d] = <<>>
        /\ ring[s][d] = <<>> /\ inbox[d][s] = <<>>
    BY ZenonT(60) DEF Init
  <2>2. MovedFor(sends[s], d) = 0 /\ MovedFor(recvs[d], s) = 0
    BY <2>1, MovedForNone, SMTT(60)
  <2>3. Segment(<<>>, Lengths(s, d), 0, 0, 0, 0)
    BY <1>1, LengthsType, SegmentInit, ZenonT(60) DEF TypeOK, Lengths
  <2>4. QED
    BY <2>1, <2>2, <2>3, ZenonT(60) DEF StreamInv
<1>4. InboxOfThisExchange
  BY DEF Init, InboxOfThisExchange
<1>5. QED
  BY <1>1, <1>2, <1>3, <1>4, ZenonT(60) DEF IInv

\* Steps that move no byte and enter no exchange: they change nothing that the
\* invariant is about, if a rank they let out of the loop has nothing pending.
LEMMA QuietStep ==
  ASSUME IInv, TypeOK', UNCHANGED <<script, cnt, sends, recvs, ring, inbox>>,
         \A r \in Rank : pc'[r] = "idle" => pc[r] = "idle" \/ (Moved(sends[r]) /\ Moved(recvs[r]))
  PROVE  IInv'
<1>1. ASSUME NEW r \in Rank
      PROVE  ListsInv(r)' /\ (ring[r][r] = <<>>)' /\ (inbox[r][r] = <<>>)'
  <2>1. ListsInv(r) /\ ring[r][r] = <<>> /\ inbox[r][r] = <<>>
    BY ZenonT(60) DEF IInv
  <2>2. QED
    BY <2>1, ZenonT(60) DEF ListsInv, Moved
<1>2. ASSUME NEW s \in Rank, NEW d \in Rank, s # d
      PROVE  StreamInv(s, d)'
  <2>1. StreamInv(s, d)
    BY <1>2, ZenonT(60) DEF IInv
  <2>2. Lengths(s, d)' = Lengths(s, d)
    BY ZenonT(60) DEF Lengths, LengthsOf
  <2>3. QED
    BY <2>1, <2>2, ZenonT(60) DEF StreamInv
<1>3. InboxOfThisExchange'
  BY DEF IInv, InboxOfThisExchange
<1>4. QED
  BY <1>1, <1>2, <1>3, ZenonT(60) DEF IInv

\* The exchanges a rank enters are those the ranks before it have entered.
LEMMA BeginScript ==
  ASSUME IInv, NEW r \in Rank, NEW x \in Exchanges, Begin(r, x)
  PROVE  /\ script' \in Seq(Exchanges) /\ Len(script') \in Nat
         /\ Len(script) <= Len(script') /\ cnt[r] + 1 <= Len(script')
         /\ \A e \in 1 .. Len(script) : script'[e] = script[e]
         /\ script'[cnt[r] + 1] = x
<1>1. script \in Seq(Exchanges) /\ cnt[r] \in Nat /\ cnt[r] <= Len(script) /\ Len(script) \in Nat
  BY RankFacts, ZenonT(60) DEF IInv, TypeOK
<1>2. CASE cnt[r] < Len(script)
  BY <1>1, <1>2, SMTT(60) DEF Begin
<1>3. CASE ~(cnt[r] < Len(script))
  <2>1. script' = Append(script, x) /\ cnt[r] = Len(script)
    BY <1>1, <1>3, SMTT(60) DEF Begin
  <2>2. /\ script' \in Seq(Exchanges) /\ Len(script') = Len(script) + 1
        /\ \A e \in 1 .. Len(script) : script'[e] = script[e]
        /\ script'[Len(script) + 1] = x
    BY <1>1, <2>1, AppendProperties, SMTT(60)
  <2>3. QED
    BY <1>1, <2>1, <2>2, SMTT(60)
<1>4. QED
  BY <1>2, <1>3, ZenonT(60)

\* A rank that begins an exchange has well-formed plans.
LEMMA BeginType ==
  ASSUME IInv, NEW r \in Rank, NEW x \in Exchanges, Begin(r, x)
  PROVE  TypeOK'
<1>1. TypeOK
  BY ZenonT(60) DEF IInv
<1>2. /\ SendPlan(x, r) \in Seq(Block) /\ OneEach(SendPlan(x, r))
      /\ RecvPlan(x, r) \in Seq(Block) /\ OneEach(RecvPlan(x, r))
  BY PlanFacts, ZenonT(60)
<1>3. Pending(r, SendPlan(x, r)) \in Seq(Entry) /\ Pending(r, RecvPlan(x, r)) \in Seq(Entry)
  BY <1>2, PendingFor, ZenonT(60)
<1>4. script' \in Seq(Exchanges)
  BY BeginScript, ZenonT(60)
<1>5. timed' \in BOOLEAN /\ moved' \in [Rank -> BOOLEAN] /\ stalled' \in [Rank -> BOOLEAN]
  BY <1>1, ZenonT(60) DEF Begin, TypeOK
<1>6. pc' \in [Rank -> {"idle", "loop", "aborted"}] /\ cnt' \in [Rank -> 0 .. MaxExchanges]
  BY <1>1, BoundAssumption, SMTT(60) DEF Begin, TypeOK
<1>7. sends' \in [Rank -> Seq(Entry)] /\ recvs' \in [Rank -> Seq(Entry)]
  BY <1>1, <1>3, ZenonT(60) DEF Begin, TypeOK
<1>8. at' \in [Rank -> Nat]
  BY <1>1, ZenonT(60) DEF Begin, TypeOK
<1>9. ASSUME NEW q \in Rank PROVE at'[q] \in 1 .. Len(sends'[q]) + Len(recvs'[q]) + 1
  <2>1. CASE q = r
    <3>1. at'[r] = 1 /\ sends'[r] \in Seq(Entry) /\ recvs'[r] \in Seq(Entry)
      BY <1>1, <1>7, ZenonT(60) DEF Begin, TypeOK
    <3>2. PICK m, n \in Nat : m = Len(sends'[r]) /\ n = Len(recvs'[r])
      BY <3>1, LenProperties, ZenonT(60)
    <3>3. 1 \in 1 .. m + n + 1
      OBVIOUS
    <3>4. QED
      BY <2>1, <3>1, <3>2, <3>3, ZenonT(60)
  <2>2. CASE q # r
    BY <1>1, <2>2, ZenonT(60) DEF Begin, TypeOK
  <2>3. QED
    BY <2>1, <2>2, ZenonT(60)
<1>10. /\ ring' \in [Rank -> [Rank -> Seq(Byte)]]
       /\ \A s, d \in Rank : Len(ring'[s][d]) <= Cap
  BY <1>1, ZenonT(60) DEF Begin, TypeOK
<1>11. inbox' \in [Rank -> [Rank -> Seq(Byte)]]
  BY <1>1, SMTT(60) DEF Begin, TypeOK
<1>12. QED
  BY <1>4, <1>5, <1>6, <1>7, <1>8, <1>9, <1>10, <1>11, ZenonT(60) DEF TypeOK

\* A rank begins an exchange.
LEMMA BeginStep ==
  ASSUME IInv, NEW r \in Rank, NEW x \in Exchanges, Begin(r, x)
  PROVE  IInv'
<1>1. TypeOK /\ TypeOK' /\ pc[r] = "idle" /\ pc'[r] = "loop"
  BY BeginType, ZenonT(60) DEF IInv, TypeOK, Begin
<1>2. /\ script' \in Seq(Exchanges) /\ Len(script') \in Nat
      /\ Len(script) <= Len(script') /\ cnt[r] + 1 <= Len(script')
      /\ \A e \in 1 .. Len(script) : script'[e] = script[e]
      /\ script'[cnt[r] + 1] = x
  BY BeginScript, SMTT(60)
<1>3. /\ SendPlan(x, r) \in Seq(Block) /\ OneEach(SendPlan(x, r))
      /\ RecvPlan(x, r) \in Seq(Block) /\ OneEach(RecvPlan(x, r))
  BY PlanFacts
<1>4. /\ ListFor(Pending(r, SendPlan(x, r)), SendPlan(x, r), r)
      /\ ListFor(Pending(r, RecvPlan(x, r)), RecvPlan(x, r), r)
      /\ \A q \in Rank \ {r} : /\ MovedFor(Pending(r, SendPlan(x, r)), q) = 0
                                /\ MovedFor(Pending(r, RecvPlan(x, r)), q) = 0
  BY <1>3, PendingFor, ZenonT(60)
<1>5. /\ cnt'[r] = cnt[r] + 1 /\ cnt[r] \in Nat
      /\ sends'[r] = Pending(r, SendPlan(x, r)) /\ recvs'[r] = Pending(r, RecvPlan(x, r))
      /\ inbox'[r] = [s \in Rank |-> <<>>] /\ ring' = ring
  BY <1>1, RankFacts, SMTT(60) DEF Begin, TypeOK
<1>6. \A q \in Rank \ {r} : /\ cnt'[q] = cnt[q] /\ sends'[q] = sends[q] /\ recvs'[q] = recvs[q]
                             /\ inbox'[q] = inbox[q] /\ pc'[q] = pc[q]
  BY <1>1, SMTT(60) DEF Begin, TypeOK
<1>7. Len(script) \in Nat /\ \A q \in Rank : cnt[q] \in Nat /\ cnt[q] <= Len(script)
  BY RankFacts, ZenonT(60)
<1>8. ASSUME NEW q \in Rank
      PROVE  ListsInv(q)' /\ (ring[q][q] = <<>>)' /\ (inbox[q][q] = <<>>)'
  <2>1. ListsInv(q) /\ ring[q][q] = <<>> /\ inbox[q][q] = <<>>
    BY ZenonT(60) DEF IInv
  <2>2. CASE q = r
    <3>0. PICK m, c \in Nat : m = Len(script') /\ c = cnt[r] /\ c + 1 <= m
      BY <1>2, <1>5, ZenonT(60)
    <3>1. c + 1 \in 0 .. m /\ c + 1 # 0
      BY <3>0, SMTT(60)
    <3>2. cnt'[r] \in 0 .. Len(script') /\ cnt'[r] # 0 /\ script'[cnt'[r]] = x
      BY <1>2, <1>5, <3>0, <3>1, ZenonT(60)
    <3>3. ListsInv(r)'
      BY <1>1, <1>4, <1>5, <3>2, ZenonT(60) DEF ListsInv
    <3>4. QED
      BY <1>5, <2>1, <2>2, <3>3, SMTT(60)
  <2>3. CASE q # r
    <3>1. cnt[q] # 0 => script'[cnt[q]] = script[cnt[q]]
      BY <1>2, <1>7, SMTT(60)
    <3>2. cnt[q] \in 0 .. Len(script')
      BY <1>2, <1>7, SMTT(60)
    <3>3. /\ cnt'[q] = cnt[q] /\ sends'[q] = sends[q] /\ recvs'[q] = recvs[q]
          /\ inbox'[q] = inbox[q] /\ pc'[q] = pc[q] /\ ring' = ring
      BY <1>5, <1>6, <2>3, ZenonT(60)
    <3>4. ListsInv(q)'
      BY <2>1, <3>1, <3>2, <3>3, ZenonT(60) DEF ListsInv
    <3>5. QED
      BY <2>1, <3>3, <3>4, ZenonT(60)
  <2>4. QED
    BY <2>2, <2>3, ZenonT(60)
<1>9. ASSUME NEW s \in Rank, NEW d \in Rank, s # d
      PROVE  StreamInv(s, d)'
  <2>1. PICK a \in Nat : a = MovedFor(sends[s], d)
    BY RankMoved, ZenonT(60)
  <2>2. PICK g \in Nat : g = MovedFor(recvs[d], s)
    BY RankMoved, ZenonT(60)
  <2>3. /\ ring[s][d] \in Seq(Byte) /\ cnt[s] \in Nat /\ cnt[d] \in Nat
        /\ Segment(ring[s][d], Lengths(s, d), cnt[s], a, cnt[d], g)
        /\ Len(inbox[d][s]) = g
    BY <1>1, <1>7, <1>9, <2>1, <2>2, ZenonT(60) DEF IInv, StreamInv, TypeOK
  <2>4. Lengths(s, d) \in LengthMap /\ Lengths(s, d)' \in LengthMap
    BY <1>1, <1>2, LengthsType, ZenonT(60) DEF TypeOK, Lengths
  <2>5. \A e \in Nat : e <= Len(script) => Lengths(s, d)'[e] = Lengths(s, d)[e]
    BY <1>2, <1>7, LengthsGrow, SMTT(60) DEF Lengths
  <2>6. PICK len \in LengthMap : len = Lengths(s, d)'
    BY <2>4, ZenonT(60)
  <2>7. Segment(ring[s][d], len, cnt[s], a, cnt[d], g)
    <3>1. \A e \in Nat : e <= cnt[s] \/ e <= cnt[d] => len[e] = Lengths(s, d)[e]
      <4>1. \A e \in Nat : e <= cnt[s] \/ e <= cnt[d] => e <= Len(script)
        BY <1>7, SMTT(60)
      <4>2. QED
        BY <2>5, <2>6, <4>1, ZenonT(60)
    <3>2. QED
      BY <2>3, <2>4, <3>1, SegmentLengths, ZenonT(60)
  <2>8. CASE s = r
    <3>1. a = len[cnt[r]]
      BY <1>1, <1>7, <2>1, <2>5, <2>6, <2>8, RankDone, ZenonT(60)
    <3>2. Segment(ring[r][d], len, cnt[r] + 1, 0, cnt[d], g)
      BY <2>3, <2>7, <2>8, <3>1, SegmentNextSend, SMTT(60)
    <3>3. MovedFor(sends'[r], d) = 0 /\ MovedFor(recvs'[d], r) = g
      <4>1. d \in Rank \ {r}
        BY <1>9, <2>8, ZenonT(60)
      <4>2. QED
        BY <1>4, <1>5, <1>6, <2>2, <2>8, <4>1, ZenonT(60)
    <3>4. QED
      BY <1>5, <1>6, <1>9, <2>3, <2>6, <2>8, <3>2, <3>3, ZenonT(60) DEF StreamInv
  <2>9. CASE d = r
    <3>1. g = len[cnt[r]]
      BY <1>1, <1>7, <2>2, <2>5, <2>6, <2>9, RankDone, ZenonT(60)
    <3>2. Segment(ring[s][r], len, cnt[s], a, cnt[r] + 1, 0)
      BY <2>3, <2>7, <2>9, <3>1, SegmentNextRecv, ZenonT(60)
    <3>3. MovedFor(sends'[s], r) = a /\ MovedFor(recvs'[r], s) = 0 /\ Len(inbox'[r][s]) = 0
      <4>1. s \in Rank \ {r}
        BY <1>9, <2>9, ZenonT(60)
      <4>2. MovedFor(sends'[s], r) = a /\ MovedFor(recvs'[r], s) = 0
        BY <1>4, <1>5, <1>6, <2>1, <2>9, <4>1, ZenonT(60)
      <4>3. Len(inbox'[r][s]) = 0
        BY <1>5, SMTT(60)
      <4>4. QED
        BY <4>2, <4>3, ZenonT(60)
    <3>4. QED
      BY <1>5, <1>6, <1>9, <2>6, <2>9, <3>2, <3>3, SMTT(60) DEF StreamInv
  <2>10. CASE s # r /\ d # r
    <3>1. /\ MovedFor(sends'[s], d) = a /\ MovedFor(recvs'[d], s) = g
          /\ Len(inbox'[d][s]) = g /\ cnt'[s] = cnt[s] /\ cnt'[d] = cnt[d]
      BY <1>6, <2>1, <2>2, <2>3, <2>10, ZenonT(60)
    <3>2. QED
      BY <1>5, <2>6, <2>7, <3>1, ZenonT(60) DEF StreamInv
  <2>11. QED
    BY <2>8, <2>9, <2>10, ZenonT(60)
<1>10. InboxOfThisExchange'
  <2>1. ASSUME NEW d \in Rank, NEW s \in Rank, NEW k \in 1 .. Len(inbox'[d][s])
        PROVE  inbox'[d][s][k] = [ex |-> cnt'[d], off |-> k]
    <3>1. CASE d = r
      BY <1>5, <3>1, SMTT(60)
    <3>2. CASE d # r
      BY <1>6, <3>2, SMTT(60) DEF IInv, InboxOfThisExchange
    <3>3. QED
      BY <3>1, <3>2, ZenonT(60)
  <2>2. QED
    BY <2>1, ZenonT(60) DEF InboxOfThisExchange
<1>11. QED
  BY <1>1, <1>8, <1>9, <1>10, ZenonT(60) DEF IInv

\* What a push does: entry i of the sends, for rank p, has moved n more bytes,
\* which the ring to p has taken.
Pushed(r, i, p, n) ==
  /\ sends[r][i].proc = p /\ cnt[r] # 0 /\ n <= sends[r][i].left
  /\ AfterMove(sends'[r], sends[r], i, n)
  /\ AfterPush(ring'[r][p], ring[r][p], cnt[r], MovedFor(sends[r], p), n)
  /\ Len(ring[r][p]) + n <= Cap
  /\ \A q \in Rank \ {r} : sends'[q] = sends[q]
  /\ \A s, d \in Rank : s # r \/ d # p => ring'[s][d] = ring[s][d]

\* Every push is one.
LEMMA PushFacts ==
  ASSUME IInv, NEW r \in Rank, NEW n \in 1 .. Cap, Push(r, n)
  PROVE  \E i \in 1 .. Len(sends[r]) : \E p \in Rank \ {r} : Pushed(r, i, p, n)
<1>1. TypeOK /\ n \in Nat /\ n >= 1
  BY CapAssumption DEF IInv
<1>2. PICK i : i = at[r]
  BY ZenonT(60)
<1>3. sends[r] \in Seq(Entry) /\ i \in Nat /\ i >= 1 /\ i <= Len(sends[r])
  <2>1. sends[r] \in Seq(Entry)
    BY RankFacts, ZenonT(60)
  <2>2. at[r] \in Nat /\ at[r] >= 1
    BY <1>1, SMTT(60) DEF TypeOK
  <2>3. at[r] <= Len(sends[r])
    BY ZenonT(60) DEF Push, AtSend
  <2>4. QED
    BY <1>2, <2>1, <2>2, <2>3, ZenonT(60)
<1>4. i \in 1 .. Len(sends[r]) /\ sends[r][i] \in Entry
  BY <1>3, SMTT(60)
<1>5. PICK p : p = sends[r][i].proc
  BY ZenonT(60)
<1>6. p \in Rank /\ sends[r][i].len \in Nat /\ sends[r][i].left \in Nat
  BY <1>4, <1>5, ZenonT(60) DEF Entry
<1>7. n <= sends[r][i].left /\ Len(ring[r][p]) + n <= Cap
  BY <1>2, <1>5, ZenonT(60) DEF Push
<1>8. cnt[r] # 0 /\ cnt[r] \in Nat
  BY <1>3, RankFacts, SMTT(60)
<1>9. /\ script[cnt[r]] \in Exchanges
      /\ ListFor(sends[r], SendPlan(script[cnt[r]], r), r)
  BY <1>8, RankFacts, ZenonT(60)
<1>10. OneEach(sends[r])
  BY <1>9, PlanFacts, ListOneEach, ZenonT(60)
<1>11. p # r /\ sends[r][i].left <= sends[r][i].len
  BY <1>1, <1>4, <1>5, <1>6, <1>7, <1>9, SMTT(60) DEF ListFor
<1>12. PICK a \in Nat : a = MovedFor(sends[r], p) /\ a = sends[r][i].len - sends[r][i].left
  BY <1>4, <1>5, <1>6, <1>10, <1>11, MovedForAt, SMTT(60)
<1>13. /\ sends' = [sends EXCEPT ![r] = [sends[r] EXCEPT ![i].left = @ - n]]
       /\ ring' = [ring EXCEPT ![r] = [ring[r] EXCEPT ![p] =
                     ring[r][p] \o [k \in 1 .. n |-> [ex |-> cnt[r], off |-> a + k]]]]
  BY <1>2, <1>5, <1>12, ZenonT(60) DEF Push
<1>14. AfterMove([sends[r] EXCEPT ![i].left = @ - n], sends[r], i, n)
  BY <1>1, <1>3, <1>4, <1>7, MoveStep, ZenonT(60)
<1>15. AfterPush(ring[r][p] \o [k \in 1 .. n |-> [ex |-> cnt[r], off |-> a + k]],
                 ring[r][p], cnt[r], a, n)
  BY <1>1, <1>6, <1>8, <1>12, PushedBytes, ZenonT(60) DEF TypeOK
<1>16. /\ sends'[r] = [sends[r] EXCEPT ![i].left = @ - n]
       /\ \A q \in Rank \ {r} : sends'[q] = sends[q]
  BY <1>1, <1>13, ZenonT(60) DEF TypeOK
<1>17. /\ ring'[r][p] = ring[r][p] \o [k \in 1 .. n |-> [ex |-> cnt[r], off |-> a + k]]
       /\ \A s, d \in Rank : s # r \/ d # p => ring'[s][d] = ring[s][d]
  BY <1>1, <1>6, <1>13, ZenonT(60) DEF TypeOK
<1>18. AfterMove(sends'[r], sends[r], i, n)
  BY <1>14, <1>16, ZenonT(60)
<1>19. AfterPush(ring'[r][p], ring[r][p], cnt[r], MovedFor(sends[r], p), n)
  BY <1>12, <1>15, <1>17, ZenonT(60)
<1>20. p \in Rank \ {r}
  BY <1>6, <1>11, ZenonT(60)
<1>21. QED
  BY <1>4, <1>5, <1>7, <1>8, <1>16, <1>17, <1>18, <1>19, <1>20, ZenonT(60) DEF Pushed

\* The positions of a pass when entries keep their places.
LEMMA AdvanceType ==
  ASSUME TypeOK, NEW r \in Rank, Advance(r), at[r] <= Len(sends[r]) + Len(recvs[r]),
         \A q \in Rank : Len(sends'[q]) = Len(sends[q]) /\ Len(recvs'[q]) = Len(recvs[q])
  PROVE  /\ at' \in [Rank -> Nat]
         /\ \A q \in Rank : at'[q] \in 1 .. Len(sends'[q]) + Len(recvs'[q]) + 1
<1>1. at \in [Rank -> Nat] /\ at' = [at EXCEPT ![r] = at[r] + 1]
  BY ZenonT(60) DEF TypeOK, Advance
<1>2. ASSUME NEW q \in Rank PROVE at'[q] \in 1 .. Len(sends'[q]) + Len(recvs'[q]) + 1
  <2>1. PICK m \in Nat : m = Len(sends[q])
    BY SMTT(60) DEF TypeOK
  <2>2. PICK n \in Nat : n = Len(recvs[q])
    BY DEF TypeOK
  <2>3. at[q] \in 1 .. m + n + 1
    BY <2>1, <2>2, ZenonT(60) DEF TypeOK
  <2>4. at'[q] \in 1 .. m + n + 1
    <3>1. CASE q = r
      <4>1. at[q] <= m + n /\ at'[q] = at[q] + 1
        BY <1>1, <2>1, <2>2, <3>1, ZenonT(60)
      <4>2. QED
        BY <2>3, <4>1, SMTT(60)
    <3>2. CASE q # r
      BY <1>1, <2>3, <3>2, ZenonT(60)
    <3>3. QED
      BY <3>1, <3>2, ZenonT(60)
  <2>5. QED
    BY <2>1, <2>2, <2>4, ZenonT(60)
<1>3. at' \in [Rank -> Nat]
  BY <1>1, SMTT(60)
<1>4. QED
  BY <1>2, <1>3, ZenonT(60)

\* A push keeps the types, and the bytes of a ring within its capacity.
LEMMA PushType ==
  ASSUME IInv, NEW r \in Rank, NEW n \in 1 .. Cap, Push(r, n)
  PROVE  TypeOK'
<1>1. TypeOK /\ n \in Nat
  BY CapAssumption, SMTT(60) DEF IInv
<1>2. PICK i \in 1 .. Len(sends[r]), p \in Rank \ {r} : Pushed(r, i, p, n)
  BY PushFacts, ZenonT(60)
<1>a. sends[r][i].proc = p /\ cnt[r] # 0 /\ n <= sends[r][i].left
  BY <1>2, ZenonT(60) DEF Pushed
<1>b. AfterMove(sends'[r], sends[r], i, n)
  BY <1>2, ZenonT(60) DEF Pushed
<1>c. /\ AfterPush(ring'[r][p], ring[r][p], cnt[r], MovedFor(sends[r], p), n)
      /\ Len(ring[r][p]) + n <= Cap
  BY <1>2, ZenonT(60) DEF Pushed
<1>d. \A q \in Rank \ {r} : sends'[q] = sends[q]
  BY <1>2, ZenonT(60) DEF Pushed
<1>e. \A s, d \in Rank : s # r \/ d # p => ring'[s][d] = ring[s][d]
  BY <1>2, ZenonT(60) DEF Pushed
<1>3. /\ timed' \in BOOLEAN /\ pc' \in [Rank -> {"idle", "loop", "aborted"}]
      /\ script' \in Seq(Exchanges) /\ cnt' \in [Rank -> 0 .. MaxExchanges]
      /\ recvs' \in [Rank -> Seq(Entry)] /\ inbox' \in [Rank -> [Rank -> Seq(Byte)]]
  BY <1>1, ZenonT(60) DEF Push, TypeOK
<1>4. moved' \in [Rank -> BOOLEAN] /\ stalled' \in [Rank -> BOOLEAN]
  BY <1>1, ZenonT(60) DEF Push, TypeOK
<1>5. /\ sends'[r] \in Seq(Entry) /\ Len(sends'[r]) = Len(sends[r])
      /\ ring'[r][p] \in Seq(Byte) /\ Len(ring'[r][p]) = Len(ring[r][p]) + n
  BY <1>b, <1>c, ZenonT(60) DEF AfterMove, AfterPush
<1>6. sends' \in [Rank -> Seq(Entry)]
  <2>1. \A q \in Rank : sends'[q] \in Seq(Entry)
    BY <1>1, <1>d, <1>5, ZenonT(60) DEF TypeOK
  <2>2. sends' = [q \in Rank |-> sends'[q]]
    BY <1>1, ZenonT(60) DEF Push, TypeOK
  <2>3. QED
    BY <2>1, <2>2, ZenonT(60)
<1>7. /\ at' \in [Rank -> Nat]
      /\ \A q \in Rank : at'[q] \in 1 .. Len(sends'[q]) + Len(recvs'[q]) + 1
  <2>1. Advance(r) /\ recvs' = recvs
    BY ZenonT(60) DEF Push
  <2>2. at[r] <= Len(sends[r]) + Len(recvs[r])
    <3>1. at[r] \in Nat /\ at[r] <= Len(sends[r])
      BY <1>1, ZenonT(60) DEF Push, AtSend, TypeOK
    <3>2. PICK m, k \in Nat : m = Len(sends[r]) /\ k = Len(recvs[r])
      BY RankFacts, LenProperties, ZenonT(60)
    <3>3. PICK j \in Nat : j = at[r] /\ j <= m
      BY <3>1, <3>2, ZenonT(60)
    <3>4. j <= m + k
      BY <3>3, SMTT(60)
    <3>5. QED
      BY <3>2, <3>3, <3>4, ZenonT(60)
  <2>3. \A q \in Rank : Len(sends'[q]) = Len(sends[q])
    BY <1>d, <1>5, ZenonT(60)
  <2>4. QED
    BY <1>1, <2>1, <2>2, <2>3, AdvanceType, ZenonT(60)
<1>8. \A s, d \in Rank : ring'[s][d] \in Seq(Byte) /\ Len(ring'[s][d]) <= Cap
  <2>1. ASSUME NEW s \in Rank, NEW d \in Rank
        PROVE  ring'[s][d] \in Seq(Byte) /\ Len(ring'[s][d]) <= Cap
    <3>1. CASE s = r /\ d = p
      BY <1>c, <1>5, <3>1, ZenonT(60)
    <3>2. CASE s # r \/ d # p
      <4>1. ring'[s][d] = ring[s][d]
        BY <1>e, <3>2, ZenonT(60)
      <4>2. QED
        BY <1>1, <4>1, SMTT(60) DEF TypeOK
    <3>3. QED
      BY <3>1, <3>2, ZenonT(60)
  <2>2. QED
    BY <2>1, ZenonT(60)
<1>9. ring' \in [Rank -> [Rank -> Seq(Byte)]]
  <2>1. ring' = [s \in Rank |-> [d \in Rank |-> ring'[s][d]]]
    BY <1>1, ZenonT(60) DEF Push, TypeOK
  <2>2. QED
    BY <1>8, <2>1, ZenonT(60)
<1>10. QED
  BY <1>3, <1>4, <1>6, <1>7, <1>8, <1>9, ZenonT(60) DEF TypeOK

\* A push keeps the ring a segment of the stream.
LEMMA PushStep ==
  ASSUME IInv, NEW r \in Rank, NEW n \in 1 .. Cap, Push(r, n)
  PROVE  IInv'
<1>1. TypeOK /\ TypeOK' /\ n \in Nat \ {0}
  BY CapAssumption, PushType, SMTT(60) DEF IInv
<1>2. PICK i \in 1 .. Len(sends[r]), p \in Rank \ {r} : Pushed(r, i, p, n)
  BY PushFacts, SMTT(60)
<1>a. sends[r][i].proc = p /\ cnt[r] # 0 /\ n <= sends[r][i].left
  BY <1>2, SMTT(60) DEF Pushed
<1>b. AfterMove(sends'[r], sends[r], i, n)
  BY <1>2, SMTT(60) DEF Pushed
<1>c. /\ AfterPush(ring'[r][p], ring[r][p], cnt[r], MovedFor(sends[r], p), n)
      /\ Len(ring[r][p]) + n <= Cap
  BY <1>2, SMTT(60) DEF Pushed
<1>d. \A q \in Rank \ {r} : sends'[q] = sends[q]
  BY <1>2, SMTT(60) DEF Pushed
<1>e. \A s, d \in Rank : s # r \/ d # p => ring'[s][d] = ring[s][d]
  BY <1>2, SMTT(60) DEF Pushed
<1>3. UNCHANGED <<pc, script, cnt, recvs, inbox>> /\ pc[r] = "loop"
  BY ZenonT(60) DEF Push, AtSend
<1>4. /\ sends[r] \in Seq(Entry) /\ script[cnt[r]] \in Exchanges
      /\ ListFor(sends[r], SendPlan(script[cnt[r]], r), r)
      /\ SendPlan(script[cnt[r]], r) \in Seq(Block) /\ OneEach(SendPlan(script[cnt[r]], r))
  BY <1>a, RankFacts, PlanFacts, ZenonT(60)
<1>5. /\ ListFor(sends'[r], SendPlan(script[cnt[r]], r), r)
      /\ MovedFor(sends'[r], p) = MovedFor(sends[r], p) + n
      /\ \A q : q # p => MovedFor(sends'[r], q) = MovedFor(sends[r], q)
  <2>1. PICK list, blocks, new : list = sends[r] /\ new = sends'[r] /\ blocks = SendPlan(script[cnt[r]], r)
    BY ZenonT(60)
  <2>2. /\ list \in Seq(Entry) /\ blocks \in Seq(Block) /\ OneEach(blocks)
        /\ ListFor(list, blocks, r) /\ i \in 1 .. Len(list) /\ n <= list[i].left
        /\ AfterMove(new, list, i, n)
    BY <1>a, <1>b, <1>4, <2>1, ZenonT(60)
  <2>3. /\ ListFor(new, blocks, r)
        /\ MovedFor(new, list[i].proc) = MovedFor(list, list[i].proc) + n
        /\ \A q : q # list[i].proc => MovedFor(new, q) = MovedFor(list, q)
    BY <1>1, <2>2, MovedForMove, SMTT(60)
  <2>4. QED
    BY <1>a, <2>1, <2>3, ZenonT(60)
<1>6. ASSUME NEW q \in Rank
      PROVE  ListsInv(q)' /\ (ring[q][q] = <<>>)' /\ (inbox[q][q] = <<>>)'
  <2>1. ListsInv(q) /\ ring[q][q] = <<>> /\ inbox[q][q] = <<>>
    BY ZenonT(60) DEF IInv
  <2>2. ring'[q][q] = <<>> /\ inbox'[q][q] = <<>>
    BY <1>3, <1>e, <2>1, ZenonT(60)
  <2>3. CASE q = r
    BY <1>a, <1>3, <1>5, <2>1, <2>2, <2>3, ZenonT(60) DEF ListsInv
  <2>4. CASE q # r
    BY <1>d, <1>3, <2>1, <2>2, <2>4, ZenonT(60) DEF ListsInv, Moved
  <2>5. QED
    BY <2>3, <2>4, ZenonT(60)
<1>7. ASSUME NEW s \in Rank, NEW d \in Rank, s # d
      PROVE  StreamInv(s, d)'
  <2>1. StreamInv(s, d)
    BY <1>7, ZenonT(60) DEF IInv
  <2>2. Lengths(s, d)' = Lengths(s, d)
    BY <1>3, ZenonT(60) DEF Lengths, LengthsOf
  <2>3. CASE s = r /\ d = p
    <3>1. PICK a \in Nat : a = MovedFor(sends[r], p)
      BY RankMoved, ZenonT(60)
    <3>2. PICK g \in Nat : g = MovedFor(recvs[p], r)
      BY RankMoved, ZenonT(60)
    <3>3. PICK len \in LengthMap : len = Lengths(r, p)
      BY <1>1, LengthsType, ZenonT(60) DEF TypeOK, Lengths
    <3>4. /\ ring[r][p] \in Seq(Byte) /\ cnt[r] \in Nat \ {0} /\ cnt[p] \in Nat
          /\ Segment(ring[r][p], len, cnt[r], a, cnt[p], g)
      <4>1. ring[r][p] \in Seq(Byte)
        BY <1>1, SMTT(60) DEF TypeOK
      <4>2. cnt[r] \in Nat /\ cnt[p] \in Nat
        BY RankFacts, ZenonT(60)
      <4>3. Segment(ring[r][p], len, cnt[r], a, cnt[p], g)
        BY <2>1, <2>3, <3>1, <3>2, <3>3, ZenonT(60) DEF StreamInv
      <4>4. QED
        BY <1>a, <4>1, <4>2, <4>3, ZenonT(60)
    <3>5. a + n <= len[cnt[r]]
      <4>1. MovedFor(sends'[r], p) <= LenTo(SendPlan(script[cnt[r]], r), p)
        BY <1>1, <1>4, <1>5, MovedForRange, ZenonT(60) DEF TypeOK
      <4>2. QED
        BY <1>a, <1>5, <3>1, <3>3, <4>1, LengthsAt, ZenonT(60)
    <3>6. AfterPush(ring'[r][p], ring[r][p], cnt[r], a, n)
      BY <1>c, <3>1, ZenonT(60)
    <3>7. Segment(ring'[r][p], len, cnt[r], a + n, cnt[p], g)
      BY <1>1, <3>4, <3>5, <3>6, SegmentPush, ZenonT(60)
    <3>8. MovedFor(sends'[r], p) = a + n
      BY <1>5, <3>1, ZenonT(60)
    <3>9. QED
      BY <1>3, <2>1, <2>2, <2>3, <3>2, <3>3, <3>7, <3>8, ZenonT(60) DEF StreamInv
  <2>4. CASE s # r \/ d # p
    <3>1. MovedFor(sends'[s], d) = MovedFor(sends[s], d) /\ ring'[s][d] = ring[s][d]
      BY <1>d, <1>e, <1>5, <2>4, ZenonT(60)
    <3>2. QED
      BY <1>3, <2>1, <2>2, <3>1, ZenonT(60) DEF StreamInv
  <2>5. QED
    BY <2>3, <2>4, ZenonT(60)
<1>8. InboxOfThisExchange'
  BY <1>3, ZenonT(60) DEF IInv, InboxOfThisExchange
<1>9. QED
  BY <1>1, <1>6, <1>7, <1>8, ZenonT(60) DEF IInv

\* An inbox after a pop of the first n bytes of ring R.
AfterTake(new, old, R, n) ==
  /\ new \in Seq(Byte) /\ Len(new) = Len(old) + n
  /\ \A k \in 1 .. Len(old) : new[k] = old[k]
  /\ \A k \in 1 .. n : new[Len(old) + k] = R[k]

\* What a pop appends to the inbox.
LEMMA TakenBytes ==
  ASSUME NEW old \in Seq(Byte), NEW R \in Seq(Byte), NEW n \in 0 .. Len(R)
  PROVE  AfterTake(old \o SubSeq(R, 1, n), old, R, n)
<1>1. PICK m \in Nat : m = Len(R)
  OBVIOUS
<1>2. PICK Q : Q = SubSeq(R, 1, n)
  BY ZenonT(60)
<1>3. Q \in Seq(Byte) /\ Len(Q) = n /\ \A k \in 1 .. n : Q[k] = R[k]
  BY <1>1, <1>2, SubSeqProperties, SMTT(60)
<1>4. old \o Q \in Seq(Byte) /\ Len(old \o Q) = Len(old) + n
  BY <1>3, ConcatProperties, ZenonT(60)
<1>5. \A k \in 1 .. Len(old) : (old \o Q)[k] = old[k]
  BY <1>3, SMTT(60)
<1>6. \A k \in 1 .. n : (old \o Q)[Len(old) + k] = Q[k]
  BY <1>3, SMTT(60)
<1>7. AfterTake(old \o Q, old, R, n)
  BY <1>3, <1>4, <1>5, <1>6, ZenonT(60) DEF AfterTake
<1>8. QED
  BY <1>2, <1>7, ZenonT(60)

\* What a pop does: entry i of the receives, for rank p, has moved n more bytes,
\* which have gone from the ring of p to the inbox.
Popped(r, i, p, n) ==
  /\ recvs[r][i].proc = p /\ cnt[r] # 0 /\ n <= recvs[r][i].left
  /\ n <= Len(ring[p][r])
  /\ AfterMove(recvs'[r], recvs[r], i, n)
  /\ AfterPop(ring'[p][r], ring[p][r], n)
  /\ AfterTake(inbox'[r][p], inbox[r][p], ring[p][r], n)
  /\ \A q \in Rank \ {r} : recvs'[q] = recvs[q]
  /\ \A s, d \in Rank : s # p \/ d # r =>
       ring'[s][d] = ring[s][d] /\ inbox'[d][s] = inbox[d][s]

\* Every pop is one.
LEMMA PopFacts ==
  ASSUME IInv, NEW r \in Rank, NEW n \in 1 .. Cap, Pop(r, n)
  PROVE  \E i \in 1 .. Len(recvs[r]) : \E p \in Rank \ {r} : Popped(r, i, p, n)
<1>1. TypeOK /\ n \in Nat /\ n >= 1
  BY CapAssumption DEF IInv
<1>2. PICK i : i = at[r] - Len(sends[r])
  BY ZenonT(60)
<1>3. PICK m, h \in Nat : m = Len(sends[r]) /\ h = Len(recvs[r])
  BY RankFacts, LenProperties, ZenonT(60)
<1>4. recvs[r] \in Seq(Entry) /\ at[r] \in Nat /\ at[r] > m /\ at[r] <= m + h
  BY <1>1, <1>3, RankFacts, ZenonT(60) DEF Pop, AtRecv, TypeOK
<1>5. i = at[r] - m
  BY <1>2, <1>3, ZenonT(60)
<1>6. i \in 1 .. h
  BY <1>4, <1>5, SMTT(60)
<1>7. i \in 1 .. Len(recvs[r]) /\ recvs[r][i] \in Entry
  BY <1>3, <1>4, <1>6, SMTT(60)
<1>8. PICK p : p = recvs[r][i].proc
  BY ZenonT(60)
<1>9. p \in Rank /\ recvs[r][i].len \in Nat /\ recvs[r][i].left \in Nat
  BY <1>7, <1>8, ZenonT(60) DEF Entry
<1>10. n <= recvs[r][i].left /\ n <= Len(ring[p][r])
  BY <1>2, <1>8, ZenonT(60) DEF Pop
<1>11. cnt[r] # 0 /\ cnt[r] \in Nat
  BY <1>7, RankFacts, SMTT(60)
<1>12. ListFor(recvs[r], RecvPlan(script[cnt[r]], r), r)
  BY <1>11, RankFacts, ZenonT(60)
<1>13. p # r
  BY <1>1, <1>7, <1>8, <1>9, <1>10, <1>12, SMTT(60) DEF ListFor
<1>14. /\ recvs' = [recvs EXCEPT ![r] = [recvs[r] EXCEPT ![i].left = @ - n]]
       /\ ring' = [ring EXCEPT ![p] = [ring[p] EXCEPT ![r] =
                     SubSeq(ring[p][r], n + 1, Len(ring[p][r]))]]
       /\ inbox' = [inbox EXCEPT ![r] = [inbox[r] EXCEPT ![p] =
                     inbox[r][p] \o SubSeq(ring[p][r], 1, n)]]
  BY <1>2, <1>8, ZenonT(60) DEF Pop
<1>15. AfterMove([recvs[r] EXCEPT ![i].left = @ - n], recvs[r], i, n)
  BY <1>1, <1>4, <1>7, <1>10, MoveStep, ZenonT(60)
<1>16. ring[p][r] \in Seq(Byte) /\ inbox[r][p] \in Seq(Byte) /\ n \in 0 .. Len(ring[p][r])
  BY <1>1, <1>9, <1>10, SMTT(60) DEF TypeOK
<1>17. /\ AfterPop(SubSeq(ring[p][r], n + 1, Len(ring[p][r])), ring[p][r], n)
       /\ AfterTake(inbox[r][p] \o SubSeq(ring[p][r], 1, n), inbox[r][p], ring[p][r], n)
  BY <1>16, PoppedBytes, TakenBytes, ZenonT(60)
<1>18. /\ recvs'[r] = [recvs[r] EXCEPT ![i].left = @ - n]
       /\ \A q \in Rank \ {r} : recvs'[q] = recvs[q]
  BY <1>1, <1>14, ZenonT(60) DEF TypeOK
<1>19. /\ ring'[p][r] = SubSeq(ring[p][r], n + 1, Len(ring[p][r]))
       /\ \A s, d \in Rank : s # p \/ d # r => ring'[s][d] = ring[s][d]
  BY <1>1, <1>9, <1>14, ZenonT(60) DEF TypeOK
<1>20. /\ inbox'[r][p] = inbox[r][p] \o SubSeq(ring[p][r], 1, n)
       /\ \A s, d \in Rank : s # p \/ d # r => inbox'[d][s] = inbox[d][s]
  BY <1>1, <1>9, <1>14, ZenonT(60) DEF TypeOK
<1>21. /\ AfterMove(recvs'[r], recvs[r], i, n) /\ AfterPop(ring'[p][r], ring[p][r], n)
       /\ AfterTake(inbox'[r][p], inbox[r][p], ring[p][r], n)
  BY <1>15, <1>17, <1>18, <1>19, <1>20, ZenonT(60)
<1>22. p \in Rank \ {r}
  BY <1>9, <1>13, ZenonT(60)
<1>23. \A s, d \in Rank : s # p \/ d # r =>
         ring'[s][d] = ring[s][d] /\ inbox'[d][s] = inbox[d][s]
  BY <1>19, <1>20, ZenonT(60)
<1>24. \A q \in Rank \ {r} : recvs'[q] = recvs[q]
  BY <1>18, ZenonT(60)
<1>25. QED
  BY <1>7, <1>8, <1>10, <1>11, <1>21, <1>22, <1>23, <1>24, ZenonT(60) DEF Popped

\* A pop keeps the types.
LEMMA PopType ==
  ASSUME IInv, NEW r \in Rank, NEW n \in 1 .. Cap, Pop(r, n)
  PROVE  TypeOK'
<1>1. TypeOK /\ n \in Nat
  BY CapAssumption DEF IInv
<1>2. PICK i \in 1 .. Len(recvs[r]), p \in Rank \ {r} : Popped(r, i, p, n)
  BY PopFacts
<1>a. /\ recvs[r][i].proc = p /\ cnt[r] # 0 /\ n <= recvs[r][i].left
      /\ n <= Len(ring[p][r])
  BY <1>2, ZenonT(60) DEF Popped
<1>b. AfterMove(recvs'[r], recvs[r], i, n)
  BY <1>2, ZenonT(60) DEF Popped
<1>c. /\ AfterPop(ring'[p][r], ring[p][r], n)
      /\ AfterTake(inbox'[r][p], inbox[r][p], ring[p][r], n)
  BY <1>2, ZenonT(60) DEF Popped
<1>d. \A q \in Rank \ {r} : recvs'[q] = recvs[q]
  BY <1>2, ZenonT(60) DEF Popped
<1>e. \A s, d \in Rank : s # p \/ d # r =>
        ring'[s][d] = ring[s][d] /\ inbox'[d][s] = inbox[d][s]
  BY <1>2, ZenonT(60) DEF Popped
<1>3. /\ timed' \in BOOLEAN /\ pc' \in [Rank -> {"idle", "loop", "aborted"}]
      /\ script' \in Seq(Exchanges) /\ cnt' \in [Rank -> 0 .. MaxExchanges]
      /\ sends' \in [Rank -> Seq(Entry)]
  BY <1>1, ZenonT(60) DEF Pop, TypeOK
<1>4. moved' \in [Rank -> BOOLEAN] /\ stalled' \in [Rank -> BOOLEAN]
  BY <1>1, ZenonT(60) DEF Pop, TypeOK
<1>5. /\ recvs'[r] \in Seq(Entry) /\ Len(recvs'[r]) = Len(recvs[r])
      /\ ring'[p][r] \in Seq(Byte) /\ Len(ring'[p][r]) = Len(ring[p][r]) - n
      /\ inbox'[r][p] \in Seq(Byte)
  BY <1>b, <1>c, SMTT(60) DEF AfterMove, AfterPop, AfterTake
<1>6. recvs' \in [Rank -> Seq(Entry)]
  <2>1. \A q \in Rank : recvs'[q] \in Seq(Entry)
    BY <1>1, <1>d, <1>5, ZenonT(60) DEF TypeOK
  <2>2. recvs' = [q \in Rank |-> recvs'[q]]
    BY <1>1, ZenonT(60) DEF Pop, TypeOK
  <2>3. QED
    BY <2>1, <2>2, SMTT(60)
<1>7. /\ at' \in [Rank -> Nat]
      /\ \A q \in Rank : at'[q] \in 1 .. Len(sends'[q]) + Len(recvs'[q]) + 1
  <2>1. Advance(r) /\ sends' = sends
    BY ZenonT(60) DEF Pop
  <2>2. at[r] <= Len(sends[r]) + Len(recvs[r])
    BY ZenonT(60) DEF Pop, AtRecv
  <2>3. \A q \in Rank : Len(recvs'[q]) = Len(recvs[q])
    BY <1>d, <1>5, ZenonT(60)
  <2>4. QED
    BY <1>1, <2>1, <2>2, <2>3, AdvanceType, ZenonT(60)
<1>8. \A s, d \in Rank : /\ ring'[s][d] \in Seq(Byte) /\ Len(ring'[s][d]) <= Cap
                          /\ inbox'[d][s] \in Seq(Byte)
  <2>1. ASSUME NEW s \in Rank, NEW d \in Rank
        PROVE  /\ ring'[s][d] \in Seq(Byte) /\ Len(ring'[s][d]) <= Cap
               /\ inbox'[d][s] \in Seq(Byte)
    <3>1. CASE s = p /\ d = r
      <4>1. PICK k \in Nat : k = Len(ring[p][r]) /\ k <= Cap
        BY <1>1, SMTT(60) DEF TypeOK
      <4>2. k - n <= Cap
        BY <1>1, <4>1, CapAssumption, SMTT(60)
      <4>3. QED
        BY <1>5, <3>1, <4>1, <4>2, ZenonT(60)
    <3>2. CASE s # p \/ d # r
      <4>1. ring'[s][d] = ring[s][d] /\ inbox'[d][s] = inbox[d][s]
        BY <1>e, <3>2, ZenonT(60)
      <4>2. QED
        BY <1>1, <4>1, SMTT(60) DEF TypeOK
    <3>3. QED
      BY <3>1, <3>2, ZenonT(60)
  <2>2. QED
    BY <2>1, ZenonT(60)
<1>9. /\ ring' \in [Rank -> [Rank -> Seq(Byte)]]
      /\ inbox' \in [Rank -> [Rank -> Seq(Byte)]]
  <2>1. ring' = [s \in Rank |-> [d \in Rank |-> ring'[s][d]]]
    <3>1. PICK k, z : ring' = [ring EXCEPT ![k][r] = z]
      BY ZenonT(60) DEF Pop
    <3>2. ring \in [Rank -> [Rank -> Seq(Byte)]]
      BY <1>1, ZenonT(60) DEF TypeOK
    <3>3. QED
      BY <3>1, <3>2, ZenonT(60)
  <2>2. inbox' = [d \in Rank |-> [s \in Rank |-> inbox'[d][s]]]
    BY <1>1, ZenonT(60) DEF Pop, TypeOK
  <2>3. ring' \in [Rank -> [Rank -> Seq(Byte)]]
    BY <1>8, <2>1, ZenonT(60)
  <2>4. inbox' \in [Rank -> [Rank -> Seq(Byte)]]
    BY <1>8, <2>2, ZenonT(60)
  <2>5. QED
    BY <2>3, <2>4, ZenonT(60)
<1>10. QED
  BY <1>3, <1>4, <1>6, <1>7, <1>8, <1>9, ZenonT(60) DEF TypeOK

\* A pop takes bytes of the receiver's exchange, in order.
LEMMA PopStep ==
  ASSUME IInv, NEW r \in Rank, NEW n \in 1 .. Cap, Pop(r, n)
  PROVE  IInv'
<1>1. TypeOK /\ TypeOK' /\ n \in Nat \ {0}
  BY CapAssumption, PopType DEF IInv
<1>2. PICK i \in 1 .. Len(recvs[r]), p \in Rank \ {r} : Popped(r, i, p, n)
  BY PopFacts
<1>a. /\ recvs[r][i].proc = p /\ cnt[r] # 0 /\ n <= recvs[r][i].left
      /\ n <= Len(ring[p][r])
  BY <1>2, SMTT(60) DEF Popped
<1>b. AfterMove(recvs'[r], recvs[r], i, n)
  BY <1>2, SMTT(60) DEF Popped
<1>c. /\ AfterPop(ring'[p][r], ring[p][r], n)
      /\ AfterTake(inbox'[r][p], inbox[r][p], ring[p][r], n)
  BY <1>2, SMTT(60) DEF Popped
<1>d. \A q \in Rank \ {r} : recvs'[q] = recvs[q]
  BY <1>2, SMTT(60) DEF Popped
<1>e. \A s, d \in Rank : s # p \/ d # r =>
        ring'[s][d] = ring[s][d] /\ inbox'[d][s] = inbox[d][s]
  BY <1>2, SMTT(60) DEF Popped
<1>3. UNCHANGED <<pc, script, cnt, sends>> /\ pc[r] = "loop"
  BY ZenonT(60) DEF Pop, AtRecv
<1>4. /\ recvs[r] \in Seq(Entry) /\ script[cnt[r]] \in Exchanges
      /\ ListFor(recvs[r], RecvPlan(script[cnt[r]], r), r)
      /\ RecvPlan(script[cnt[r]], r) \in Seq(Block) /\ OneEach(RecvPlan(script[cnt[r]], r))
  BY <1>a, RankFacts, PlanFacts, ZenonT(60)
<1>5. /\ ListFor(recvs'[r], RecvPlan(script[cnt[r]], r), r)
      /\ MovedFor(recvs'[r], p) = MovedFor(recvs[r], p) + n
      /\ \A q : q # p => MovedFor(recvs'[r], q) = MovedFor(recvs[r], q)
  <2>1. PICK list, blocks, new : list = recvs[r] /\ new = recvs'[r] /\ blocks = RecvPlan(script[cnt[r]], r)
    BY SMTT(60)
  <2>2. /\ list \in Seq(Entry) /\ blocks \in Seq(Block) /\ OneEach(blocks)
        /\ ListFor(list, blocks, r) /\ i \in 1 .. Len(list) /\ n <= list[i].left
        /\ AfterMove(new, list, i, n)
    BY <1>a, <1>b, <1>4, <2>1, ZenonT(60)
  <2>3. /\ ListFor(new, blocks, r)
        /\ MovedFor(new, list[i].proc) = MovedFor(list, list[i].proc) + n
        /\ \A q : q # list[i].proc => MovedFor(new, q) = MovedFor(list, q)
    BY <1>1, <2>2, MovedForMove, SMTT(60)
  <2>4. QED
    BY <1>a, <2>1, <2>3, ZenonT(60)
<1>6. ASSUME NEW q \in Rank
      PROVE  ListsInv(q)' /\ (ring[q][q] = <<>>)' /\ (inbox[q][q] = <<>>)'
  <2>1. ListsInv(q) /\ ring[q][q] = <<>> /\ inbox[q][q] = <<>>
    BY SMTT(60) DEF IInv
  <2>2. ring'[q][q] = <<>> /\ inbox'[q][q] = <<>>
    BY <1>e, <2>1, ZenonT(60)
  <2>3. CASE q = r
    BY <1>a, <1>3, <1>5, <2>1, <2>2, <2>3, ZenonT(60) DEF ListsInv
  <2>4. CASE q # r
    BY <1>d, <1>3, <2>1, <2>2, <2>4, ZenonT(60) DEF ListsInv, Moved
  <2>5. QED
    BY <2>3, <2>4, SMTT(60)
<1>7. PICK a \in Nat : a = MovedFor(sends[p], r)
  BY RankMoved, ZenonT(60)
<1>8. PICK g \in Nat : g = MovedFor(recvs[r], p)
  BY RankMoved, ZenonT(60)
<1>9. PICK len \in LengthMap : len = Lengths(p, r)
  BY <1>1, LengthsType, ZenonT(60) DEF TypeOK, Lengths
<1>10. StreamInv(p, r)
  BY <1>2, ZenonT(60) DEF IInv
<1>11. /\ ring[p][r] \in Seq(Byte) /\ cnt[r] \in Nat \ {0} /\ cnt[p] \in Nat
       /\ Segment(ring[p][r], len, cnt[p], a, cnt[r], g)
       /\ Len(inbox[r][p]) = g /\ inbox[r][p] \in Seq(Byte)
  <2>1. ring[p][r] \in Seq(Byte) /\ inbox[r][p] \in Seq(Byte)
    BY <1>1, SMTT(60) DEF TypeOK
  <2>2. cnt[r] \in Nat /\ cnt[p] \in Nat
    BY RankFacts, ZenonT(60)
  <2>3. /\ Segment(ring[p][r], len, cnt[p], a, cnt[r], g)
        /\ Len(inbox[r][p]) = g
    BY <1>7, <1>8, <1>9, <1>10, ZenonT(60) DEF StreamInv
  <2>4. QED
    BY <1>a, <2>1, <2>2, <2>3, ZenonT(60)
<1>12. g + n <= len[cnt[r]]
  <2>1. MovedFor(recvs'[r], p) <= LenTo(RecvPlan(script[cnt[r]], r), p)
    BY <1>1, <1>4, <1>5, MovedForRange, ZenonT(60) DEF TypeOK
  <2>2. QED
    BY <1>a, <1>5, <1>8, <1>9, <2>1, LengthsAt, ZenonT(60)
<1>13. n \in 1 .. Len(ring[p][r]) /\ n \in 0 .. Len(ring[p][r])
  <2>1. PICK m \in Nat : m = Len(ring[p][r]) /\ n <= m
    BY <1>11, <1>a, LenProperties, ZenonT(60)
  <2>2. n \in 1 .. m /\ n \in 0 .. m
    BY <1>1, <2>1, SMTT(60)
  <2>3. QED
    BY <2>1, <2>2, ZenonT(60)
<1>14. ASSUME NEW s \in Rank, NEW d \in Rank, s # d
       PROVE  StreamInv(s, d)'
  <2>1. StreamInv(s, d)
    BY <1>14, ZenonT(60) DEF IInv
  <2>2. Lengths(s, d)' = Lengths(s, d)
    BY <1>3, ZenonT(60) DEF Lengths, LengthsOf
  <2>3. CASE s = p /\ d = r
    <3>1. Segment(ring'[p][r], len, cnt[p], a, cnt[r], g + n)
      BY <1>c, <1>11, <1>12, <1>13, SegmentPop, ZenonT(60)
    <3>2. MovedFor(recvs'[r], p) = g + n
      BY <1>5, <1>8, ZenonT(60)
    <3>3. Len(inbox'[r][p]) = g + n
      BY <1>c, <1>11, ZenonT(60) DEF AfterTake
    <3>4. QED
      BY <1>3, <1>7, <1>9, <2>2, <2>3, <3>1, <3>2, <3>3, SMTT(60) DEF StreamInv
  <2>4. CASE s # p \/ d # r
    <3>1. /\ MovedFor(recvs'[d], s) = MovedFor(recvs[d], s) /\ ring'[s][d] = ring[s][d]
          /\ inbox'[d][s] = inbox[d][s]
      BY <1>d, <1>e, <1>5, <2>4, ZenonT(60)
    <3>2. QED
      BY <1>3, <2>1, <2>2, <3>1, ZenonT(60) DEF StreamInv
  <2>5. QED
    BY <2>3, <2>4, ZenonT(60)
<1>15. Front(ring[p][r], cnt[r], g, n)
  BY <1>11, <1>12, <1>13, SegmentFront, ZenonT(60)
<1>16. InboxOfThisExchange'
  <2>1. ASSUME NEW d \in Rank, NEW s \in Rank, NEW k \in 1 .. Len(inbox'[d][s])
        PROVE  inbox'[d][s][k] = [ex |-> cnt[d], off |-> k]
    <3>1. CASE s = p /\ d = r
      <4>1. k \in Nat /\ k >= 1 /\ k <= g + n
        BY <1>c, <1>11, <3>1, SMTT(60) DEF AfterTake
      <4>2. CASE k <= g
        <5>1. k \in 1 .. Len(inbox[r][p])
          BY <1>11, <4>1, <4>2, SMTT(60)
        <5>2. inbox'[r][p][k] = inbox[r][p][k]
          BY <1>c, <5>1, ZenonT(60) DEF AfterTake
        <5>3. QED
          BY <3>1, <5>1, <5>2, SMTT(60) DEF IInv, InboxOfThisExchange
      <4>3. CASE k > g
        <5>1. PICK j \in 1 .. n : k = g + j
          <6>1. k - g \in 1 .. n /\ k = g + (k - g)
            BY <4>1, <4>3, SMTT(60)
          <6>2. QED
            BY <6>1, ZenonT(60)
        <5>2. inbox'[r][p][g + j] = ring[p][r][j]
          BY <1>c, <1>11, ZenonT(60) DEF AfterTake
        <5>3. ring[p][r][j] = [ex |-> cnt[r], off |-> g + j]
          BY <1>15, ZenonT(60) DEF Front
        <5>4. QED
          BY <3>1, <5>1, <5>2, <5>3, ZenonT(60)
      <4>4. QED
        BY <4>1, <4>2, <4>3, SMTT(60)
    <3>2. CASE s # p \/ d # r
      <4>1. inbox'[d][s] = inbox[d][s]
        BY <1>e, <3>2, ZenonT(60)
      <4>2. k \in 1 .. Len(inbox[d][s])
        BY <4>1, ZenonT(60)
      <4>3. inbox[d][s][k] = [ex |-> cnt[d], off |-> k]
        BY <4>2, ZenonT(60) DEF IInv, InboxOfThisExchange
      <4>4. QED
        BY <4>1, <4>3, ZenonT(60)
    <3>3. QED
      BY <3>1, <3>2, ZenonT(60)
  <2>2. QED
    BY <1>3, <2>1, SMTT(60) DEF InboxOfThisExchange
<1>17. QED
  BY <1>1, <1>6, <1>14, <1>16, SMTT(60) DEF IInv

\* The steps that move no byte keep the types.
LEMMA QuietType ==
  ASSUME IInv, NEW r \in Rank,
         PushNothing(r) \/ PopNothing(r) \/ EndPass(r) \/ StallTimeout(r) \/ Killed(r)
  PROVE  TypeOK'
<1>1. TypeOK
  BY ZenonT(60) DEF IInv
<1>2. PICK m, h \in Nat : m = Len(sends[r]) /\ h = Len(recvs[r])
  BY RankFacts, LenProperties, ZenonT(60)
<1>3. /\ timed' \in BOOLEAN /\ script' \in Seq(Exchanges) /\ cnt' \in [Rank -> 0 .. MaxExchanges]
      /\ sends' \in [Rank -> Seq(Entry)] /\ recvs' \in [Rank -> Seq(Entry)]
      /\ ring' \in [Rank -> [Rank -> Seq(Byte)]] /\ inbox' \in [Rank -> [Rank -> Seq(Byte)]]
      /\ \A s, d \in Rank : Len(ring'[s][d]) <= Cap
      /\ sends' = sends /\ recvs' = recvs
  BY <1>1, ZenonT(60) DEF PushNothing, PopNothing, EndPass, StallTimeout, Killed, TypeOK
<1>4. pc' \in [Rank -> {"idle", "loop", "aborted"}]
  BY <1>1, ZenonT(60) DEF PushNothing, PopNothing, EndPass, StallTimeout, Killed, TypeOK
<1>5. moved' \in [Rank -> BOOLEAN] /\ stalled' \in [Rank -> BOOLEAN]
  BY <1>1, ZenonT(60) DEF PushNothing, PopNothing, EndPass, StallTimeout, Killed, TypeOK
<1>6. /\ at' \in [Rank -> Nat]
      /\ \A q \in Rank : at'[q] \in 1 .. Len(sends'[q]) + Len(recvs'[q]) + 1
  <2>1. CASE PushNothing(r) \/ PopNothing(r)
    <3>1. Advance(r)
      BY <2>1, ZenonT(60) DEF PushNothing, PopNothing
    <3>2. PICK j \in Nat : j = at[r]
      BY <1>1, ZenonT(60) DEF TypeOK
    <3>3. j <= m \/ j <= m + h
      BY <1>2, <2>1, <3>2, ZenonT(60) DEF PushNothing, PopNothing, AtSend, AtRecv
    <3>4. j <= m + h
      BY <3>3, SMTT(60)
    <3>5. at[r] <= Len(sends[r]) + Len(recvs[r])
      BY <1>2, <3>2, <3>4, ZenonT(60)
    <3>6. QED
      BY <1>1, <1>3, <3>1, <3>5, AdvanceType, ZenonT(60)
  <2>2. CASE EndPass(r)
    <3>1. at' = [at EXCEPT ![r] = 1]
      BY <2>2, ZenonT(60) DEF EndPass
    <3>2. at' \in [Rank -> Nat]
      BY <1>1, <3>1, ZenonT(60) DEF TypeOK
    <3>3. ASSUME NEW q \in Rank PROVE at'[q] \in 1 .. Len(sends'[q]) + Len(recvs'[q]) + 1
      <4>1. CASE q = r
        <5>1. 1 \in 1 .. m + h + 1
          BY SMTT(60)
        <5>2. at'[q] = 1
          BY <1>1, <3>1, <4>1, ZenonT(60) DEF TypeOK
        <5>3. QED
          BY <1>2, <1>3, <4>1, <5>1, <5>2, ZenonT(60)
      <4>2. CASE q # r
        BY <1>1, <1>3, <3>1, <4>2, ZenonT(60) DEF TypeOK
      <4>3. QED
        BY <4>1, <4>2, ZenonT(60)
    <3>4. QED
      BY <3>2, <3>3, ZenonT(60)
  <2>3. CASE StallTimeout(r) \/ Killed(r)
    <3>1. at' = at
      BY <2>3, ZenonT(60) DEF StallTimeout, Killed
    <3>2. QED
      BY <1>1, <1>3, <3>1, ZenonT(60) DEF TypeOK
  <2>4. QED
    BY <2>1, <2>2, <2>3, ZenonT(60)
<1>7. QED
  BY <1>3, <1>4, <1>5, <1>6, ZenonT(60) DEF TypeOK

\* Every step of every rank keeps the invariant.
LEMMA NextInv ==
  ASSUME IInv, [Next]_vars
  PROVE  IInv'
<1>1. ASSUME NEW r \in Rank, NEW x \in Exchanges, Begin(r, x)
      PROVE  IInv'
  BY <1>1, BeginStep, ZenonT(60)
<1>2. ASSUME NEW r \in Rank, NEW n \in 1 .. Cap, Push(r, n)
      PROVE  IInv'
  BY <1>2, PushStep, ZenonT(60)
<1>3. ASSUME NEW r \in Rank, NEW n \in 1 .. Cap, Pop(r, n)
      PROVE  IInv'
  BY <1>3, PopStep, ZenonT(60)
<1>4. ASSUME NEW r \in Rank, PushNothing(r) \/ PopNothing(r)
      PROVE  IInv'
  <2>1. TypeOK'
    BY <1>4, QuietType, ZenonT(60)
  <2>2. UNCHANGED <<pc, script, cnt, sends, recvs, ring, inbox>>
    BY <1>4, ZenonT(60) DEF PushNothing, PopNothing
  <2>3. QED
    BY <2>1, <2>2, QuietStep, ZenonT(60)
<1>5. ASSUME NEW r \in Rank, EndPass(r)
      PROVE  IInv'
  <2>1. TypeOK' /\ TypeOK
    BY <1>5, QuietType, ZenonT(60) DEF IInv
  <2>2. UNCHANGED <<script, cnt, sends, recvs, ring, inbox>>
    BY <1>5, ZenonT(60) DEF EndPass
  <2>3. \A q \in Rank : pc'[q] = "idle" =>
          pc[q] = "idle" \/ (Moved(sends[q]) /\ Moved(recvs[q]))
    BY <1>5, <2>1, ZenonT(60) DEF EndPass, TypeOK
  <2>4. QED
    BY <2>1, <2>2, <2>3, QuietStep, ZenonT(60)
<1>6. ASSUME NEW r \in Rank, StallTimeout(r) \/ Killed(r)
      PROVE  IInv'
  <2>1. TypeOK' /\ TypeOK
    BY <1>6, QuietType, ZenonT(60) DEF IInv
  <2>2. UNCHANGED <<script, cnt, sends, recvs, ring, inbox>>
    BY <1>6, ZenonT(60) DEF StallTimeout, Killed
  <2>3. \A q \in Rank : pc'[q] = "idle" => pc[q] = "idle"
    BY <1>6, <2>1, ZenonT(60) DEF StallTimeout, Killed, TypeOK
  <2>4. QED
    BY <2>1, <2>2, <2>3, QuietStep, ZenonT(60)
<1>7. CASE UNCHANGED vars
  <2>1. TypeOK' /\ UNCHANGED <<pc, script, cnt, sends, recvs, ring, inbox>>
    BY <1>7, ZenonT(60) DEF IInv, TypeOK, vars
  <2>2. QED
    BY <2>1, QuietStep, ZenonT(60)
<1>8. QED
  BY <1>1, <1>2, <1>3, <1>4, <1>5, <1>6, <1>7, ZenonT(60) DEF Next, LoopStep

-----------------------------------------------------------------------------
(* Theorems *)

\* In every behaviour of the progress loops, a ring holds exactly the bytes its
\* sender has sent and its receiver has not received, in order.
THEOREM HaloInvariant == Spec => []IInv
<1>1. Init => IInv
  BY InitInv, ZenonT(60)
<1>2. IInv /\ [Next]_vars => IInv'
  BY NextInv, ZenonT(60)
<1>3. QED
  BY <1>1, <1>2, PTL DEF Spec

\* exchange() needs no framing: for any number of ranks, ring capacity and
\* well-formed plans, run forward or in reverse, one rank any number of
\* exchanges ahead of another, a rank receives the bytes of its own exchange,
\* in order and all of them before it returns, and leaves none behind.
THEOREM ExchangeIsExact == Spec => []ExchangeExact
<1>1. IInv => ExchangeExact
  BY ExactFromInv, ZenonT(60)
<1>2. QED
  BY <1>1, HaloInvariant, PTL
=============================================================================
