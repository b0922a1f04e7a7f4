--------------------------- MODULE ShmRingProofs ----------------------------
(***************************************************************************)
(* Proofs about one pairwise ring, for every capacity, every modulus of    *)
(* the counters that is a proper multiple of it, and every amount of data. *)
(***************************************************************************)
EXTENDS ShmRing, SequenceTheorems, TLAPS

-----------------------------------------------------------------------------
(* Arithmetic modulo m *)

\* Division with remainder.
LEMMA DivMod ==
  ASSUME NEW a \in Int, NEW m \in Nat \ {0}
  PROVE  /\ a \div m \in Int
         /\ a % m \in 0 .. m - 1
         /\ a = (m * (a \div m)) + (a % m)
OBVIOUS

\* Quotient and remainder are unique.
LEMMA DivModUnique ==
  ASSUME NEW m \in Nat \ {0}, NEW q \in Int, NEW p \in Int,
         NEW a \in 0 .. m - 1, NEW b \in 0 .. m - 1, (m * q) + a = (m * p) + b
  PROVE  a = b
<1>1. m * (q - p) = b - a
  OBVIOUS
<1>2. CASE q - p >= 1
  <2>1. m * (q - p) >= m
    BY <1>2
  <2>2. QED BY <2>1, <1>1
<1>3. CASE q - p <= -1
  <2>1. m * (q - p) <= -m
    BY <1>3
  <2>2. QED BY <2>1, <1>1
<1>4. CASE q = p
  BY <1>4
<1>5. QED BY <1>2, <1>3, <1>4

\* x divided by m is q with remainder a.
Divided(x, m, q, a) == q \in Int /\ a \in 0 .. m - 1 /\ x = (m * q) + a

\* The remainder of a number given as quotient and remainder.
LEMMA ModOf ==
  ASSUME NEW m \in Nat \ {0}, NEW x \in Int, NEW q, NEW a, Divided(x, m, q, a)
  PROVE  x % m = a
<1>1. /\ x \div m \in Int
      /\ x % m \in 0 .. m - 1
      /\ x = (m * (x \div m)) + (x % m)
  BY DivMod, ZenonT(60)
<1>2. QED BY <1>1, DivModUnique, ZenonT(60) DEF Divided

\* A remainder can be taken again.
LEMMA ModOnce ==
  ASSUME NEW m \in Nat \ {0}, NEW a \in 0 .. m - 1
  PROVE  a % m = a
<1>1. Divided(a, m, 0, a)
  BY DEF Divided
<1>2. QED BY <1>1, ModOf

\* The distance of two counters is that of the positions they stand for.
LEMMA ModDistance ==
  ASSUME NEW m \in Nat \ {0}, NEW x \in Nat, NEW y \in Nat, y <= x, x - y < m
  PROVE  ((x % m) - (y % m)) % m = x - y
<1> DEFINE qx == x \div m  rx == x % m
           qy == y \div m  ry == y % m
<1>1. qx \in Int /\ rx \in 0 .. m - 1 /\ x = (m * qx) + rx
  BY DivMod
<1>2. qy \in Int /\ ry \in 0 .. m - 1 /\ y = (m * qy) + ry
  BY DivMod
<1> HIDE DEF qx, rx, qy, ry
<1>3. Divided(rx - ry, m, qy - qx, x - y)
  BY <1>1, <1>2 DEF Divided
<1>4. rx - ry \in Int
  BY <1>1, <1>2
<1>5. (rx - ry) % m = x - y
  BY <1>3, <1>4, ModOf, ZenonT(60)
<1>6. QED BY <1>5, ZenonT(60) DEF rx, ry

\* Positions less than m apart have different remainders.
LEMMA ModInjective ==
  ASSUME NEW m \in Nat \ {0}, NEW x \in Nat, NEW y \in Nat, y < x, x - y < m
  PROVE  x % m # y % m
<1> SUFFICES ASSUME x % m = y % m PROVE FALSE
  BY ZenonT(60)
<1>1. ((x % m) - (y % m)) % m = x - y
  <2>1. y <= x
    OBVIOUS
  <2>2. QED BY <2>1, ModDistance, ZenonT(60)
<1>2. x % m \in Int /\ y % m \in Int
  BY DivMod
<1>3. 0 % m = 0
  BY ModOnce
<1>4. QED BY <1>1, <1>2, <1>3

\* Advancing a counter advances the position.
LEMMA ModAdd ==
  ASSUME NEW m \in Nat \ {0}, NEW x \in Nat, NEW n \in Nat
  PROVE  ((x % m) + n) % m = (x + n) % m
<1> DEFINE q == x \div m  a == x % m
           p == (a + n) \div m  b == (a + n) % m
<1>1. q \in Int /\ a \in 0 .. m - 1 /\ x = (m * q) + a
  BY DivMod
<1>2. p \in Int /\ b \in 0 .. m - 1 /\ a + n = (m * p) + b
  <2>1. a + n \in Int
    BY <1>1
  <2>2. QED BY <2>1, DivMod, ZenonT(60)
<1> HIDE DEF q, a, p
<1>3. Divided(x + n, m, q + p, b)
  <2> HIDE DEF b
  <2>1. QED BY <1>1, <1>2 DEF Divided
<1>4. (x + n) % m = b
  <2> HIDE DEF b
  <2>1. QED BY <1>3, ModOf
<1>5. QED BY <1>4, ZenonT(60) DEF a

\* The counters' modulus is a multiple of the capacity, so the offset of a
\* counter is that of the position.
LEMMA ModCap ==
  ASSUME NEW x \in Nat
  PROVE  (x % CtrMod) % Cap = x % Cap
<1>1. Cap \in Nat \ {0} /\ CtrMod \in Nat \ {0}
  BY CapAssumption, CtrAssumption
<1> DEFINE k == CtrMod \div Cap
           q == x \div CtrMod  a == x % CtrMod
           p == a \div Cap  b == a % Cap
<1>2. k \in Int /\ CtrMod = Cap * k
  <2>1. k \in Int /\ CtrMod = (Cap * k) + (CtrMod % Cap)
    BY <1>1, DivMod
  <2>2. QED BY <1>1, <2>1, CtrAssumption
<1>3. q \in Int /\ a \in 0 .. CtrMod - 1 /\ x = (CtrMod * q) + a
  BY <1>1, DivMod
<1>4. p \in Int /\ b \in 0 .. Cap - 1 /\ a = (Cap * p) + b
  <2>1. a \in Int
    BY <1>1, <1>3
  <2>2. QED BY <2>1, <1>1, DivMod, ZenonT(60)
<1> HIDE DEF k, q, a, p
<1>5. x = (Cap * ((k * q) + p)) + b
  <2> HIDE DEF b
  <2>1. x = ((Cap * k) * q) + ((Cap * p) + b)
    BY <1>2, <1>3, <1>4, ZenonT(60)
  <2>2. (Cap * k) * q = Cap * (k * q)
    BY <1>1, <1>2, <1>3
  <2>3. QED BY <1>1, <1>2, <1>3, <1>4, <2>1, <2>2
<1>6. x % Cap = b
  <2> HIDE DEF b
  <2>1. Divided(x, Cap, (k * q) + p, b)
    BY <1>2, <1>3, <1>4, <1>5 DEF Divided
  <2>2. QED BY <1>1, <2>1, ModOf
<1>7. QED BY <1>6, ZenonT(60) DEF a

\* Byte i of a copy that starts at position x lands in the cell of position
\* x + i, whether or not the copy wraps.
LEMMA PlaceCell ==
  ASSUME NEW x \in Nat, NEW i \in 0 .. Cap - 1
  PROVE  Place(Counter(x), i) = CellOf(x + i)
<1>1. Cap \in Nat \ {0}
  BY CapAssumption, ZenonT(60)
<1> DEFINE off == x % Cap
<1>2. off \in 0 .. Cap - 1
  BY <1>1, DivMod
<1>3. (off + i) % Cap = (x + i) % Cap
  <2>1. i \in Nat
    BY <1>1
  <2>2. QED BY <1>1, <2>1, ModAdd, ZenonT(60)
<1>4. (x % CtrMod) % Cap = off
  BY ModCap, ZenonT(60)
<1> HIDE DEF off
<1>5. CASE i < Cap - off
  <2>1. (off + i) % Cap = off + i
    BY <1>1, <1>2, <1>5, ModOnce
  <2>2. QED BY <1>1, <1>2, <1>3, <1>4, <1>5, <2>1, ZenonT(60) DEF Place, Counter, CellOf
<1>6. CASE ~(i < Cap - off)
  <2>1. Divided(off + i, Cap, 1, i - (Cap - off))
    BY <1>1, <1>2, <1>6 DEF Divided
  <2>2. (off + i) % Cap = i - (Cap - off)
    <3>1. off + i \in Int
      BY <1>1, <1>2
    <3>2. QED BY <1>1, <2>1, <3>1, ModOf, ZenonT(60)
  <2>3. QED BY <1>1, <1>2, <1>3, <1>4, <1>6, <2>2, ZenonT(60) DEF Place, Counter, CellOf
<1>7. QED BY <1>5, <1>6, ZenonT(60)


\* The constants, without the divisibility of the modulus.
LEMMA ConstantTypes ==
  Cap \in Nat \ {0} /\ CtrMod \in Nat \ {0} /\ Cap < CtrMod /\ Total \in Nat
BY CapAssumption, CtrAssumption, TotalAssumption

\* Counters and cells are in range, and advancing a counter advances the
\* position it stands for.
LEMMA CounterFacts ==
  ASSUME NEW x \in Nat
  PROVE  /\ Counter(x) \in Ctr
         /\ CellOf(x) \in Cell
         /\ \A n \in Nat : Counter(Counter(x) + n) = Counter(x + n)
<1>1. x % CtrMod \in Ctr /\ x % Cap \in Cell
  BY ConstantTypes, DivMod DEF Ctr, Cell
<1>2. \A n \in Nat : ((x % CtrMod) + n) % CtrMod = (x + n) % CtrMod
  BY ConstantTypes, ModAdd, ZenonT(60)
<1>3. QED BY <1>1, <1>2, ZenonT(60) DEF Counter, CellOf

\* Positions less than a ring apart have cells of their own.
LEMMA CellInjective ==
  ASSUME NEW x \in Nat, NEW y \in Nat, y < x, x - y < Cap
  PROVE  CellOf(x) # CellOf(y)
BY ConstantTypes, ModInjective, ZenonT(60) DEF CellOf

-----------------------------------------------------------------------------
(* The inductive invariant *)

\* In unsigned arithmetic the two counters are exactly as far apart as the
\* sender and the receiver are in the stream.
LEMMA UsedIsInFlight ==
  ASSUME TypeOK, Position
  PROVE  Used(head, tail) = sent - Len(got)
<1>1. sent \in Nat /\ Len(got) \in Nat /\ Len(got) <= sent /\ sent - Len(got) < CtrMod
  BY ConstantTypes DEF TypeOK, Position
<1>2. QED BY <1>1, ConstantTypes, ModDistance, ZenonT(60) DEF Used, Counter, Position

\* A ring as it is created.
LEMMA InitIInv == Init => IInv
<1> SUFFICES ASSUME Init PROVE IInv
  BY ZenonT(60)
<1> USE ConstantTypes
<1>1. TypeOK
  BY DEF Init, Idle, IdlePop, TypeOK, Cell, Ctr
<1>2. Counter(0) = 0
  BY ModOnce DEF Counter
<1>3. Position /\ PushInv /\ PopInv /\ Contents /\ Fifo
  BY <1>2 DEF Init, Idle, IdlePop, Position, PushInv, PopInv, Contents, Copied, Fifo
<1>4. QED BY <1>1, <1>3, ZenonT(60) DEF IInv

\* The sender starts a push: it trims the length to the room there is.
LEMMA PushLoadInv ==
  ASSUME IInv, NEW n \in 1 .. Total - sent, PushLoad(n)
  PROVE  IInv'
<1> USE ConstantTypes
<1>1. TypeOK /\ Position /\ PopInv /\ Contents /\ Fifo
  BY ZenonT(60) DEF IInv
<1> DEFINE len == Least(n, Cap - (sent - Len(got)))
<1>2. /\ w.pc = "idle"
      /\ Cap - (sent - Len(got)) # 0
      /\ w' = [pc |-> "copy", at |-> head, n |-> len, i |-> 0]
      /\ UNCHANGED <<head, tail, buf, sent, got, r>>
  BY <1>1, UsedIsInFlight, ZenonT(60) DEF PushLoad
<1>3. len \in 1 .. Cap /\ sent + len <= Len(got) + Cap /\ sent + len <= Total
  <2>1. /\ sent \in Nat /\ sent <= Total /\ Len(got) \in Nat
        /\ Len(got) <= sent /\ sent <= Len(got) + Cap
    BY <1>1 DEF TypeOK, Position
  <2>2. n \in Nat /\ 1 <= n /\ sent + n <= Total
    BY <2>1
  <2>3. QED BY <1>2, <2>1, <2>2 DEF Least
<1> HIDE DEF len
<1>4. TypeOK'
  <2>1. w' \in [pc : {"idle", "copy", "publish"}, at : Ctr, n : 0 .. Cap, i : 0 .. Cap]
    <3>1. head \in Ctr /\ len \in 0 .. Cap /\ 0 \in 0 .. Cap
      BY <1>1, <1>3 DEF TypeOK
    <3>2. QED BY <1>2, <3>1, ZenonT(60)
  <2>2. QED BY <1>1, <1>2, <2>1, ZenonT(60) DEF TypeOK
<1>5. Position' /\ PopInv' /\ Fifo'
  BY <1>1, <1>2, ZenonT(60) DEF Position, PopInv, Fifo
<1>6. PushInv'
  BY <1>1, <1>2, <1>3 DEF PushInv, TypeOK
<1>7. Contents'
  <2>1. Copied' = Copied
    BY <1>1, <1>2 DEF Copied, TypeOK
  <2>2. QED BY <1>1, <1>2, <2>1, ZenonT(60) DEF Contents
<1>8. QED BY <1>4, <1>5, <1>6, <1>7, ZenonT(60) DEF IInv

\* The sender copies one byte: it lands in a cell that holds no byte the
\* receiver has still to read.
LEMMA PushCopyInv ==
  ASSUME IInv, PushCopy
  PROVE  IInv'
<1> USE ConstantTypes
<1>1. TypeOK /\ Position /\ PushInv /\ PopInv /\ Contents /\ Fifo
  BY ZenonT(60) DEF IInv
<1>2. /\ w.pc = "copy" /\ w.at = head /\ w.i < w.n
      /\ w.n >= 1 /\ sent + w.n <= Len(got) + Cap /\ sent + w.n <= Total
      /\ w.i \in Nat /\ w.n \in 0 .. Cap /\ sent \in Nat /\ Len(got) \in Nat
  BY <1>1 DEF PushCopy, PushInv, TypeOK
<1> DEFINE c == CellOf(sent + w.i)
<1>3. c \in Cell /\ Place(w.at, w.i) = c
  <2>1. w.i \in 0 .. Cap - 1 /\ sent + w.i \in Nat /\ w.at = Counter(sent)
    BY <1>1, <1>2, SMTT(60) DEF Position
  <2>2. QED BY <1>2, <2>1, PlaceCell, CounterFacts, ZenonT(60)
<1>4. /\ buf' = [buf EXCEPT ![c] = sent + w.i + 1]
      /\ w' = [pc |-> IF w.i + 1 = w.n THEN "publish" ELSE "copy",
               at |-> w.at, n |-> w.n, i |-> w.i + 1]
      /\ UNCHANGED <<head, tail, sent, got, r>>
  BY <1>3, ZenonT(60) DEF PushCopy
<1>5. TypeOK'
  <2> HIDE DEF c
  <2>1. sent + w.i + 1 \in 0 .. Total
    BY <1>2, SMTT(60)
  <2>2. buf' \in [Cell -> 0 .. Total]
    BY <1>1, <1>3, <1>4, <2>1, ZenonT(60) DEF TypeOK
  <2>3. w' \in [pc : {"idle", "copy", "publish"}, at : Ctr, n : 0 .. Cap, i : 0 .. Cap]
    BY <1>1, <1>2, <1>4, SMTT(60) DEF TypeOK
  <2>4. QED BY <1>1, <1>4, <2>2, <2>3, ZenonT(60) DEF TypeOK
<1>6. Position' /\ PopInv' /\ Fifo'
  BY <1>1, <1>4, ZenonT(60) DEF Position, PopInv, Fifo
<1>7. PushInv'
  BY <1>1, <1>2, <1>4, SMTT(60) DEF PushInv, TypeOK
<1>8. Contents'
  <2>1. Copied = sent + w.i /\ Copied' = sent + w.i + 1
    BY <1>1, <1>2, <1>4, SMTT(60) DEF Copied, TypeOK
  <2>2. SUFFICES ASSUME NEW k \in Len(got) + 1 .. sent + w.i + 1
                 PROVE  buf'[CellOf(k - 1)] = k
    BY <1>4, <2>1, ZenonT(60) DEF Contents
  <2>3. k - 1 \in Nat /\ CellOf(k - 1) \in Cell
    <3>1. k - 1 \in Nat
      BY <1>2
    <3>2. QED BY <3>1, CounterFacts, ZenonT(60)
  <2>4. CASE k = sent + w.i + 1
    <3>1. CellOf(k - 1) = c
      BY <1>2, <2>4, SMTT(60)
    <3> HIDE DEF c
    <3>2. QED BY <1>1, <1>3, <1>4, <2>4, <3>1, ZenonT(60) DEF TypeOK
  <2>5. CASE k # sent + w.i + 1
    <3>1. k - 1 \in Nat /\ k - 1 < sent + w.i /\ (sent + w.i) - (k - 1) < Cap
      <4>1. k \in Int /\ Len(got) + 1 <= k /\ k < sent + w.i + 1
        BY <1>2, <2>5, SMTT(60)
      <4>2. sent + w.i < Len(got) + Cap
        BY <1>2, SMTT(60)
      <4>3. QED BY <1>2, <4>1, <4>2, SMTT(60)
    <3>2. CellOf(k - 1) # c
      <4>1. sent + w.i \in Nat
        BY <1>2, SMTT(60)
      <4>2. QED BY <3>1, <4>1, CellInjective, ZenonT(60)
    <3>3. buf[CellOf(k - 1)] = k
      BY <1>1, <1>2, <2>1, <2>5, SMTT(60) DEF Contents
    <3> HIDE DEF c
    <3>4. QED BY <1>1, <1>3, <1>4, <2>3, <3>2, <3>3, ZenonT(60) DEF TypeOK
  <2>6. QED BY <2>4, <2>5, ZenonT(60)
<1>9. QED BY <1>5, <1>6, <1>7, <1>8, ZenonT(60) DEF IInv

\* The sender publishes head: the bytes it copied are now in flight.
LEMMA PushPublishInv ==
  ASSUME IInv, PushPublish
  PROVE  IInv'
<1> USE ConstantTypes
<1>1. TypeOK /\ Position /\ PushInv /\ PopInv /\ Contents /\ Fifo
  BY DEF IInv
<1>2. /\ w.pc = "publish" /\ w.at = head /\ w.i = w.n
      /\ w.n >= 1 /\ sent + w.n <= Len(got) + Cap /\ sent + w.n <= Total
      /\ w.n \in Nat /\ sent \in Nat /\ Len(got) \in Nat
  BY <1>1 DEF PushPublish, PushInv, TypeOK
<1>3. /\ head' = Counter(w.at + w.n)
      /\ sent' = sent + w.n
      /\ w' = [pc |-> "idle", at |-> 0, n |-> 0, i |-> 0]
      /\ UNCHANGED <<tail, buf, got, r>>
  BY ZenonT(60) DEF PushPublish, Idle
<1>4. head' = Counter(sent') /\ head' \in Ctr
  <2>1. Counter(Counter(sent) + w.n) = Counter(sent + w.n)
    BY <1>2, CounterFacts, ZenonT(60)
  <2>2. Counter(sent + w.n) \in Ctr
    <3>1. sent + w.n \in Nat
      BY <1>2
    <3>2. QED BY <3>1, CounterFacts, ZenonT(60)
  <2>3. QED BY <1>1, <1>2, <1>3, <2>1, <2>2, ZenonT(60) DEF Position
<1>5. TypeOK'
  BY <1>1, <1>2, <1>3, <1>4, SMTT(60) DEF TypeOK, Ctr
<1>6. Position' /\ Fifo'
  BY <1>1, <1>2, <1>3, <1>4, SMTT(60) DEF Position, Fifo
<1>7. PushInv'
  BY <1>1, <1>3, ZenonT(60) DEF PushInv, TypeOK
<1>8. PopInv'
  BY <1>1, <1>2, <1>3, SMTT(60) DEF PopInv, TypeOK
<1>9. Contents'
  <2>1. Copied = sent + w.n /\ Copied' = sent + w.n
    BY <1>1, <1>2, <1>3, ZenonT(60) DEF Copied, TypeOK
  <2>2. QED BY <1>1, <1>3, <2>1, ZenonT(60) DEF Contents
<1>10. QED BY <1>5, <1>6, <1>7, <1>8, <1>9, ZenonT(60) DEF IInv

\* The receiver starts a pop: it trims the length to what is in flight.
LEMMA PopLoadInv ==
  ASSUME IInv, NEW n \in 1 .. Total - Len(got), PopLoad(n)
  PROVE  IInv'
<1> USE ConstantTypes
<1>1. TypeOK /\ Position /\ PushInv /\ Contents /\ Fifo
  BY ZenonT(60) DEF IInv
<1> DEFINE len == Least(n, sent - Len(got))
<1>2. /\ r.pc = "idle"
      /\ sent - Len(got) # 0
      /\ r' = [pc |-> "copy", at |-> tail, n |-> len, p |-> <<>>]
      /\ UNCHANGED <<head, tail, buf, sent, got, w>>
  BY <1>1, UsedIsInFlight, ZenonT(60) DEF PopLoad
<1>3. len \in 1 .. Cap /\ Len(got) + len <= sent
  BY <1>1, <1>2, SMTT(60) DEF TypeOK, Position, Least
<1> HIDE DEF len
<1>4. TypeOK'
  BY <1>1, <1>2, <1>3, SMTT(60) DEF TypeOK, Ctr
<1>5. Position' /\ PushInv' /\ Fifo'
  BY <1>1, <1>2, ZenonT(60) DEF Position, PushInv, Fifo
<1>6. PopInv'
  BY <1>1, <1>2, <1>3 DEF PopInv, TypeOK
<1>7. Contents'
  BY <1>1, <1>2, ZenonT(60) DEF Contents, Copied
<1>8. QED BY <1>4, <1>5, <1>6, <1>7, ZenonT(60) DEF IInv

\* The receiver copies one byte: its cell still holds the byte of that
\* position.
LEMMA PopCopyInv ==
  ASSUME IInv, PopCopy
  PROVE  IInv'
<1> USE ConstantTypes
<1>1. TypeOK /\ Position /\ PushInv /\ PopInv /\ Contents /\ Fifo
  BY DEF IInv
<1>2. /\ r.pc = "copy" /\ r.at = tail /\ Len(r.p) < r.n
      /\ r.n >= 1 /\ Len(got) + r.n <= sent
      /\ \A k \in 1 .. Len(r.p) : r.p[k] = Len(got) + k
      /\ Len(r.p) \in Nat /\ r.n \in 0 .. Cap /\ sent \in 0 .. Total /\ Len(got) \in Nat
      /\ r.p \in Seq(0 .. Total)
  BY <1>1, SMTT(60) DEF PopCopy, PopInv, TypeOK
<1> DEFINE b == Len(got) + Len(r.p) + 1
<1>3. buf[Place(r.at, Len(r.p))] = b
  <2>1. Len(r.p) \in 0 .. Cap - 1 /\ r.at = Counter(Len(got))
    BY <1>1, <1>2, SMTT(60) DEF Position
  <2>2. Place(r.at, Len(r.p)) = CellOf(Len(got) + Len(r.p))
    BY <1>2, <2>1, PlaceCell, ZenonT(60)
  <2>3. b \in Len(got) + 1 .. Copied
    BY <1>1, <1>2, SMTT(60) DEF Copied, TypeOK
  <2>4. CellOf(b - 1) = CellOf(Len(got) + Len(r.p))
    BY <1>2
  <2> HIDE DEF b
  <2>5. buf[CellOf(b - 1)] = b
    BY <1>1, <2>3, ZenonT(60) DEF Contents
  <2>6. QED BY <2>2, <2>4, <2>5, ZenonT(60)
<1>4. /\ r' = [pc |-> IF Len(r.p) + 1 = r.n THEN "publish" ELSE "copy",
               at |-> r.at, n |-> r.n, p |-> Append(r.p, b)]
      /\ UNCHANGED <<head, tail, buf, sent, got, w>>
  BY <1>3, ZenonT(60) DEF PopCopy
<1>5. b \in 0 .. Total
  BY <1>2, SMTT(60)
<1>6. /\ Append(r.p, b) \in Seq(0 .. Total)
      /\ Len(Append(r.p, b)) = Len(r.p) + 1
      /\ \A k \in 1 .. Len(r.p) : Append(r.p, b)[k] = r.p[k]
      /\ Append(r.p, b)[Len(r.p) + 1] = b
  <2> HIDE DEF b
  <2>1. QED BY <1>2, <1>5, SMTT(60)
<1>7. TypeOK'
  <2> HIDE DEF b
  <2>1. r' \in [pc : {"idle", "copy", "publish"}, at : Ctr, n : 0 .. Cap,
                p : Seq(0 .. Total)]
    BY <1>1, <1>2, <1>4, <1>6, ZenonT(60) DEF TypeOK
  <2>2. QED BY <1>1, <1>4, <2>1, ZenonT(60) DEF TypeOK
<1>8. Position' /\ PushInv' /\ Fifo'
  BY <1>1, <1>4, ZenonT(60) DEF Position, PushInv, Fifo
<1>9. PopInv'
  <2> DEFINE q == Append(r.p, b)
  <2>1. \A k \in 1 .. Len(r.p) + 1 : q[k] = Len(got) + k
    <3> SUFFICES ASSUME NEW k \in 1 .. Len(r.p) + 1 PROVE q[k] = Len(got) + k
      BY ZenonT(60)
    <3>1. CASE k = Len(r.p) + 1
      BY <1>2, <1>6, <3>1
    <3>2. CASE k # Len(r.p) + 1
      <4> HIDE DEF b
      <4>1. k \in 1 .. Len(r.p)
        BY <1>2, <3>2, SMTT(60)
      <4>2. QED BY <1>2, <1>6, <4>1, ZenonT(60)
    <3>3. QED BY <3>1, <3>2, ZenonT(60)
  <2>2. Len(q) = Len(r.p) + 1
    BY <1>6, ZenonT(60)
  <2>3. r'.p = q /\ r'.n = r.n /\ r'.at = r.at
        /\ r'.pc = IF Len(r.p) + 1 = r.n THEN "publish" ELSE "copy"
    <3> HIDE DEF b
    <3>1. QED BY <1>1, <1>2, <1>4, ZenonT(60) DEF TypeOK
  <2> HIDE DEF q, b
  <2>4. r'.at = tail' /\ r'.n >= 1 /\ Len(got') + r'.n <= sent'
    BY <1>2, <1>4, <2>3, ZenonT(60)
  <2>5. IF r'.pc = "copy" THEN Len(r'.p) < r'.n ELSE Len(r'.p) = r'.n
    <3>1. Len(r.p) \in Nat /\ r.n \in Nat /\ Len(r.p) < r.n
      BY <1>2
    <3>2. Len(r'.p) = Len(r.p) + 1
      BY <2>2, <2>3, ZenonT(60)
    <3>3. CASE Len(r.p) + 1 = r.n
      BY <2>3, <3>2, <3>3, ZenonT(60)
    <3>4. CASE Len(r.p) + 1 # r.n
      BY <2>3, <3>1, <3>2, <3>4
    <3>5. QED BY <3>3, <3>4, ZenonT(60)
  <2>6. \A k \in 1 .. Len(r'.p) : r'.p[k] = Len(got') + k
    BY <1>4, <2>1, <2>2, <2>3, ZenonT(60)
  <2>7. QED BY <2>4, <2>5, <2>6, ZenonT(60) DEF PopInv
<1>10. Contents'
  BY <1>1, <1>4, ZenonT(60) DEF Contents, Copied
<1>11. QED BY <1>7, <1>8, <1>9, <1>10, ZenonT(60) DEF IInv

\* The receiver publishes tail: the bytes it copied leave the ring.
LEMMA PopPublishInv ==
  ASSUME IInv, PopPublish
  PROVE  IInv'
<1> USE ConstantTypes
<1>1. TypeOK /\ Position /\ PushInv /\ PopInv /\ Contents /\ Fifo
  BY DEF IInv
<1>2. /\ r.pc = "publish" /\ r.at = tail /\ Len(r.p) = r.n
      /\ r.n >= 1 /\ Len(got) + r.n <= sent 
      /\ \A k \in 1 .. r.n : r.p[k] = Len(got) + k
      /\ r.n \in Nat /\ sent \in 0 .. Total /\ Len(got) \in Nat
      /\ r.p \in Seq(0 .. Total) /\ got \in Seq(0 .. Total)
  BY <1>1, SMTT(60) DEF PopPublish, PopInv, TypeOK
<1>3. /\ tail' = Counter(r.at + r.n)
      /\ got' = got \o r.p
      /\ r' = [pc |-> "idle", at |-> 0, n |-> 0, p |-> <<>>]
      /\ UNCHANGED <<head, buf, sent, w>>
  BY ZenonT(60) DEF PopPublish, IdlePop
<1>4. /\ got' \in Seq(0 .. Total)
      /\ Len(got') = Len(got) + r.n
      /\ \A k \in 1 .. Len(got) : got'[k] = got[k]
      /\ \A k \in Len(got) + 1 .. Len(got) + r.n : got'[k] = r.p[k - Len(got)]
  <2>1. /\ got' \in Seq(0 .. Total)
        /\ Len(got') = Len(got) + Len(r.p)
        /\ \A k \in 1 .. Len(got) + Len(r.p) :
             got'[k] = IF k <= Len(got) THEN got[k] ELSE r.p[k - Len(got)]
    <3>1. got' = got \o r.p /\ got \in Seq(0 .. Total) /\ r.p \in Seq(0 .. Total)
      BY <1>2, <1>3, ZenonT(60)
    <3>2. QED BY <3>1, ConcatProperties
  <2>2. \A k \in 1 .. Len(got) : k \in 1 .. Len(got) + Len(r.p) /\ k <= Len(got)
    BY <1>2, SMTT(60)
  <2>3. \A k \in Len(got) + 1 .. Len(got) + r.n :
          k \in 1 .. Len(got) + Len(r.p) /\ ~(k <= Len(got))
    BY <1>2
  <2>4. QED BY <1>2, <2>1, <2>2, <2>3, ZenonT(60)
<1>5. tail' = Counter(Len(got')) /\ tail' \in Ctr
  <2>1. Counter(Counter(Len(got)) + r.n) = Counter(Len(got) + r.n)
    BY <1>2, CounterFacts, ZenonT(60)
  <2>2. Counter(Len(got) + r.n) \in Ctr
    <3>1. Len(got) + r.n \in Nat
      BY <1>2, SMTT(60)
    <3>2. QED BY <3>1, CounterFacts, ZenonT(60)
  <2>3. QED BY <1>1, <1>2, <1>3, <1>4, <2>1, <2>2, ZenonT(60) DEF Position
<1>6. TypeOK'
  BY <1>1, <1>2, <1>3, <1>4, <1>5, SMTT(60) DEF TypeOK, Ctr
<1>7. Position'
  BY <1>1, <1>2, <1>3, <1>4, <1>5, SMTT(60) DEF Position
<1>8. PushInv'
  BY <1>1, <1>2, <1>3, <1>4, SMTT(60) DEF PushInv, TypeOK
<1>9. PopInv'
  BY <1>1, <1>3, ZenonT(60) DEF PopInv, TypeOK
<1>10. Fifo'
  <2> SUFFICES ASSUME NEW k \in 1 .. Len(got) + r.n PROVE got'[k] = k
    BY <1>4, ZenonT(60) DEF Fifo
  <2>1. CASE k <= Len(got)
    <3>1. k \in 1 .. Len(got)
      BY <1>2, <2>1
    <3>2. QED BY <1>1, <1>4, <3>1, ZenonT(60) DEF Fifo
  <2>2. CASE k > Len(got)
    <3>1. k \in Len(got) + 1 .. Len(got) + r.n /\ k - Len(got) \in 1 .. r.n
      BY <1>2, <2>2, SMTT(60)
    <3>2. got'[k] = Len(got) + (k - Len(got))
      BY <1>2, <1>4, <3>1, ZenonT(60)
    <3>3. QED BY <1>2, <3>2
  <2>3. QED BY <1>2, <2>1, <2>2
<1>11. Contents'
  BY <1>1, <1>2, <1>3, <1>4, SMTT(60) DEF Contents, Copied, TypeOK
<1>12. QED BY <1>6, <1>7, <1>8, <1>9, <1>10, <1>11, ZenonT(60) DEF IInv

\* Every step of producer and consumer keeps the invariant.
LEMMA NextIInv == IInv /\ [Next]_vars => IInv'
<1> SUFFICES ASSUME IInv, [Next]_vars PROVE IInv'
  BY ZenonT(60)
<1>1. CASE PushStep
  BY <1>1, PushLoadInv, PushCopyInv, PushPublishInv, ZenonT(60) DEF PushStep
<1>2. CASE PopStep
  BY <1>2, PopLoadInv, PopCopyInv, PopPublishInv, ZenonT(60) DEF PopStep
<1>3. CASE UNCHANGED vars
  BY <1>3, ZenonT(60) DEF vars, IInv, TypeOK, Position, PushInv, PopInv, Contents, Copied, Fifo
<1>4. QED BY <1>1, <1>2, <1>3, ZenonT(60) DEF Next

\* The inductive invariant holds in every reachable state of a ring.
THEOREM RingInvariant == Spec => []IInv
<1>1. QED BY InitIInv, NextIInv, PTL DEF Spec

\* Every counter, cell and local of ring_push and ring_pop keeps its type; in
\* particular no copy is longer than the ring.
THEOREM RingTypeCorrect == Spec => []TypeOK
<1>1. IInv => TypeOK
  BY DEF IInv
<1>2. QED BY <1>1, RingInvariant, PTL

\* The receiver gets the sender's bytes in order, each exactly once.
THEOREM FifoHolds == Spec => []Fifo
<1>1. IInv => Fifo
  BY DEF IInv
<1>2. QED BY <1>1, RingInvariant, PTL

\* A push and a pop in progress never touch the same cell.
THEOREM CopiesDisjointHolds == Spec => []CopiesDisjoint
<1>1. IInv => CopiesDisjoint
  <2> SUFFICES ASSUME IInv,
                      NEW i \in w.i .. w.n - 1, NEW j \in Len(r.p) .. r.n - 1,
                      w.pc = "copy", r.pc = "copy"
               PROVE  Place(w.at, i) # Place(r.at, j)
    BY ZenonT(60) DEF CopiesDisjoint
  <2> USE ConstantTypes
  <2>1. TypeOK /\ Position /\ PushInv /\ PopInv
    BY ZenonT(60) DEF IInv
  <2>2. /\ w.i \in Nat /\ w.n \in 0 .. Cap /\ r.n \in 0 .. Cap /\ Len(r.p) \in Nat
        /\ sent \in Nat /\ Len(got) \in Nat
    BY <2>1, SMTT(60) DEF TypeOK
  <2>3. /\ w.at = Counter(sent) /\ r.at = Counter(Len(got))
        /\ sent + w.n <= Len(got) + Cap /\ Len(got) + r.n <= sent
    BY <2>1, ZenonT(60) DEF Position, PushInv, PopInv
  <2>4. i \in 0 .. Cap - 1 /\ j \in 0 .. Cap - 1
    BY <2>2, SMTT(60)
  <2>5. /\ sent + i \in Nat /\ Len(got) + j \in Nat
        /\ Len(got) + j < sent + i /\ (sent + i) - (Len(got) + j) < Cap
    <3>1. i \in Nat /\ j \in Nat /\ j < r.n /\ i < w.n
      BY <2>2, <2>4, SMTT(60)
    <3>2. Len(got) + j < sent
      BY <2>2, <2>3, <3>1, SMTT(60)
    <3>3. sent + i < Len(got) + Cap
      BY <2>2, <2>3, <3>1, SMTT(60)
    <3>4. QED BY <2>2, <3>1, <3>2, <3>3, SMTT(60)
  <2>6. CellOf(sent + i) # CellOf(Len(got) + j)
    BY <2>5, CellInjective, ZenonT(60)
  <2>7. Place(w.at, i) = CellOf(sent + i) /\ Place(r.at, j) = CellOf(Len(got) + j)
    BY <2>2, <2>3, <2>4, PlaceCell, ZenonT(60)
  <2>8. QED BY <2>6, <2>7
<1>2. QED BY <1>1, RingInvariant, PTL

-----------------------------------------------------------------------------
(* The ring implements a bounded FIFO byte stream *)

\* The store of head is the push of the stream.
LEMMA PublishIsPush ==
  ASSUME IInv, PushPublish
  PROVE  w.n \in 1 .. Cap /\ Stream!Push(w.n)
<1>1. TypeOK /\ PushInv
  BY ZenonT(60) DEF IInv
<1>2. /\ w.n \in 0 .. Cap /\ w.n >= 1
      /\ sent + w.n <= Len(got) + Cap /\ sent + w.n <= Total
  BY <1>1, ZenonT(60) DEF PushPublish, PushInv, TypeOK
<1>3. sent' = sent + w.n /\ got' = got
  BY ZenonT(60) DEF PushPublish
<1>4. QED BY <1>2, <1>3, ConstantTypes DEF Stream!Push

\* The store of tail is the pop of the stream.
LEMMA PublishIsPop ==
  ASSUME IInv, PopPublish
  PROVE  r.n \in 1 .. Cap /\ Stream!Pop(r.n)
<1>1. TypeOK /\ PopInv
  BY ZenonT(60) DEF IInv
<1>2. /\ r.n \in 0 .. Cap /\ r.n >= 1 /\ Len(got) + r.n <= sent /\ Len(r.p) = r.n
      /\ \A k \in 1 .. r.n : r.p[k] = Len(got) + k
      /\ r.p \in Seq(0 .. Total)
  BY <1>1, ZenonT(60) DEF PopPublish, PopInv, TypeOK
<1>3. r.p = [k \in 1 .. r.n |-> Len(got) + k]
  <2>1. PICK q \in Seq(0 .. Total) : q = r.p
    BY <1>2, ZenonT(60)
  <2>2. DOMAIN q = 1 .. r.n /\ q = [k \in DOMAIN q |-> q[k]]
    BY <1>2, <2>1
  <2>3. \A k \in 1 .. r.n : q[k] = Len(got) + k
    BY <1>2, <2>1, ZenonT(60)
  <2>4. q = [k \in 1 .. r.n |-> Len(got) + k]
    BY <2>2, <2>3, ZenonT(60)
  <2>5. QED BY <2>1, <2>4, ZenonT(60)
<1>4. sent' = sent /\ got' = got \o r.p
  BY ZenonT(60) DEF PopPublish
<1>5. QED BY <1>2, <1>3, <1>4, ConstantTypes DEF Stream!Pop

\* ring_push and ring_pop implement ByteStream: whatever the interleaving of
\* their loads, copies and stores, the two ranks see a bounded FIFO stream.
THEOREM RingImplementsStream == Spec => ImplementsStream
<1>1. Init => Stream!Init
  BY ZenonT(60) DEF Init, Stream!Init
<1>2. IInv /\ [Next]_vars => [Stream!Next]_<<sent, got>>
  <2> SUFFICES ASSUME IInv, [Next]_vars
               PROVE  Stream!Next \/ (sent' = sent /\ got' = got)
    BY ZenonT(60)
  <2>1. CASE PushPublish
    BY <2>1, PublishIsPush, ZenonT(60) DEF Stream!Next
  <2>2. CASE PopPublish
    BY <2>2, PublishIsPop, ZenonT(60) DEF Stream!Next
  <2>3. CASE ~PushPublish /\ ~PopPublish
    BY <2>3, ZenonT(60) DEF Next, PushStep, PopStep, PushLoad, PushCopy, PopLoad, PopCopy, vars
  <2>4. QED BY <2>1, <2>2, <2>3
<1>3. QED BY <1>1, <1>2, RingInvariant, PTL DEF Spec, ImplementsStream, Stream!Spec
=============================================================================
