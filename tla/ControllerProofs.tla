-------------------------- MODULE ControllerProofs --------------------------
(***************************************************************************)
(* Proofs about the controller for any hosts, config files and bounds on   *)
(* the lists and the requests: the lists keep their types, a node's count  *)
(* of its shards is off by at most one for each request with an unknown    *)
(* id, routes follow the shards they lead to when these migrate, and the   *)
(* two records of who owns a function agree (OwnershipExact).              *)
(***************************************************************************)
EXTENDS Controller, FiniteSetTheorems, SequenceTheorems, WellFoundedInduction,
        TLAPS

-----------------------------------------------------------------------------
\* Writing the count of one node changes that count and no other.
CountWritten(nd, k, v, nd2) ==
    /\ nd2 \in Seq(Node) /\ Len(nd2) = Len(nd)
    /\ \A n \in Nat : Count(nd2, n) = IF n + 1 = k THEN v ELSE Count(nd, n)

\* place_shard's updates of a node's count are of that kind.
LEMMA WriteCount ==
  ASSUME NEW nd \in Seq(Node), NEW k \in 1..Len(nd), NEW v \in Int
  PROVE  CountWritten(nd, k, v, [nd EXCEPT ![k].shards = v])
<1> DEFINE e == [nd[k] EXCEPT !.shards = v]
           nd2 == [nd EXCEPT ![k] = e]
<1>1. nd[k] \in Node
  BY ElementOfSeq, ZenonT(60)
<1>2. e \in Node /\ e.shards = v /\ e.host = nd[k].host
  BY <1>1, ZenonT(60) DEF Node
<1> HIDE DEF e
<1>3. /\ nd2 \in Seq(Node) /\ Len(nd2) = Len(nd)
      /\ \A j \in 1..Len(nd) : nd2[j] = IF j = k THEN e ELSE nd[j]
  BY <1>2, ExceptSeq, SMTT(60)
<1> HIDE DEF nd2
<1>4. \A n \in Nat : Count(nd2, n) = IF n + 1 = k THEN v ELSE Count(nd, n)
  BY <1>2, <1>3, LenProperties, SMTT(60) DEF Count
<1>5. CountWritten(nd, k, v, nd2)
  BY <1>3, <1>4, ZenonT(60) DEF CountWritten
<1>6. QED
  BY <1>5, ZenonT(60) DEF nd2, e

\* A shard that changes its node leaves the set of its old node and enters
\* the set of its new one.
Moved(sh, sh2, old, new, n) ==
    /\ Cardinality(On(sh, n)) \in Nat /\ Cardinality(On(sh2, n)) \in Nat
    /\ Cardinality(On(sh2, n)) =
         Cardinality(On(sh, n)) - (IF old = n THEN 1 ELSE 0) + (IF new = n THEN 1 ELSE 0)

\* Lists that differ in the shard at one place are related like that.
LEMMA MoveOn ==
  ASSUME NEW sh \in Seq(Shard), NEW sh2 \in Seq(Shard), Len(sh2) = Len(sh),
         NEW s \in 1..Len(sh),
         \A i \in 1..Len(sh) : i # s => sh2[i] = sh[i],
         NEW n \in Int
  PROVE  Moved(sh, sh2, sh[s].node, sh2[s].node, n)
<1>1. Len(sh) \in Nat /\ DOMAIN sh = 1..Len(sh) /\ DOMAIN sh2 = 1..Len(sh)
  BY LenProperties, ZenonT(60)
<1>2. IsFiniteSet(1..Len(sh))
  BY <1>1, FS_Interval
<1>3. On(sh, n) \in SUBSET (1..Len(sh)) /\ On(sh2, n) \in SUBSET (1..Len(sh))
  BY <1>1, ZenonT(60) DEF On
<1>4. IsFiniteSet(On(sh, n)) /\ IsFiniteSet(On(sh2, n))
  BY <1>2, <1>3, FS_Subset, ZenonT(60)
<1>5. Cardinality(On(sh, n)) \in Nat /\ Cardinality(On(sh2, n)) \in Nat
  BY <1>4, FS_CardinalityType, ZenonT(60)
<1>6. (s \in On(sh, n) <=> sh[s].node = n) /\ (s \in On(sh2, n) <=> sh2[s].node = n)
  BY <1>1, ZenonT(60) DEF On
<1>7. On(sh2, n) \ {s} = On(sh, n) \ {s}
  BY <1>1, ZenonT(60) DEF On
<1>8. /\ Cardinality(On(sh, n) \ {s}) =
            IF s \in On(sh, n) THEN Cardinality(On(sh, n)) - 1 ELSE Cardinality(On(sh, n))
      /\ Cardinality(On(sh2, n) \ {s}) =
            IF s \in On(sh2, n) THEN Cardinality(On(sh2, n)) - 1 ELSE Cardinality(On(sh2, n))
  BY <1>4, FS_RemoveElement, ZenonT(60)
<1> DEFINE a == Cardinality(On(sh, n))
           b == Cardinality(On(sh2, n))
           c == Cardinality(On(sh, n) \ {s})
<1>9. Cardinality(On(sh2, n) \ {s}) = c
  BY <1>7, ZenonT(60)
<1>10. /\ a \in Nat /\ b \in Nat
       /\ c = IF sh[s].node = n THEN a - 1 ELSE a
       /\ c = IF sh2[s].node = n THEN b - 1 ELSE b
  BY <1>5, <1>6, <1>8, <1>9, ZenonT(60)
<1> HIDE DEF a, b, c
<1>11. b = a - (IF sh[s].node = n THEN 1 ELSE 0) + (IF sh2[s].node = n THEN 1 ELSE 0)
  BY <1>10
<1>12. QED
  BY <1>10, <1>11, ZenonT(60) DEF a, b, Moved

\* A change of other fields of shards moves none of them.
LEMMA SameOn ==
  ASSUME NEW sh \in Seq(Shard), NEW sh2 \in Seq(Shard), Len(sh2) = Len(sh),
         \A i \in 1..Len(sh) : sh2[i].node = sh[i].node,
         NEW n \in Int
  PROVE  On(sh2, n) = On(sh, n)
  BY LenProperties, ZenonT(60) DEF On

\* A Python subscript that does not raise names an entry of the list.
LEMMA Subscript ==
  ASSUME NEW S, NEW list \in Seq(S), NEW i \in Int, InList(list, i)
  PROVE  /\ At(list, i) \in 1..Len(list)
         /\ Known(list, i) <=> At(list, i) = i + 1
         /\ ~Known(list, i) <=> i < 0
  BY LenProperties DEF InList, At, Known

\* Writing one shard.
Written(sh, s, nid, h, sh2) ==
    /\ sh2 \in Seq(Shard) /\ Len(sh2) = Len(sh)
    /\ sh2[s].node = nid /\ sh2[s].host = h /\ sh2[s].functions = sh[s].functions
    /\ \A i \in 1..Len(sh) : i # s => sh2[i] = sh[i]

\* Writing the node of a shard.
LEMMA WriteNode ==
  ASSUME NEW sh \in Seq(Shard), NEW s \in 1..Len(sh), NEW v \in Int
  PROVE  Written(sh, s, v, sh[s].host, [sh EXCEPT ![s].node = v])
<1> DEFINE e == [sh[s] EXCEPT !.node = v]
           sh2 == [sh EXCEPT ![s] = e]
<1>1. sh[s] \in Shard
  BY ElementOfSeq
<1>2. e \in Shard /\ e.node = v /\ e.host = sh[s].host /\ e.functions = sh[s].functions
  BY <1>1, ZenonT(60) DEF Shard
<1> HIDE DEF e
<1>3. /\ sh2 \in Seq(Shard) /\ Len(sh2) = Len(sh)
      /\ \A j \in 1..Len(sh) : sh2[j] = IF j = s THEN e ELSE sh[j]
  BY <1>2, ExceptSeq
<1> HIDE DEF sh2
<1>4. Written(sh, s, v, sh[s].host, sh2)
  BY <1>2, <1>3, ZenonT(60) DEF Written
<1>5. QED
  BY <1>4, ZenonT(60) DEF sh2, e

\* Writing both the node and the host of a shard.
LEMMA WritePlace ==
  ASSUME NEW sh \in Seq(Shard), NEW s \in 1..Len(sh), NEW v \in Int, NEW h \in Hosts
  PROVE  Written(sh, s, v, h, [sh EXCEPT ![s].node = v, ![s].host = h])
<1> DEFINE e == [sh[s] EXCEPT !.node = v, !.host = h]
           sh2 == [sh EXCEPT ![s] = e]
<1>1. sh[s] \in Shard
  BY ElementOfSeq, ZenonT(60)
<1>2. e \in Shard /\ e.node = v /\ e.host = h /\ e.functions = sh[s].functions
  BY <1>1, ZenonT(60) DEF Shard
<1>3. DOMAIN sh = 1..Len(sh)
  BY LenProperties, ZenonT(60)
<1>4. [sh EXCEPT ![s].node = v, ![s].host = h] = sh2
  BY <1>1, <1>3, ZenonT(60) DEF Shard
<1> HIDE DEF e
<1>5. /\ sh2 \in Seq(Shard) /\ Len(sh2) = Len(sh)
      /\ \A j \in 1..Len(sh) : sh2[j] = IF j = s THEN e ELSE sh[j]
  BY <1>2, ExceptSeq, SMTT(60)
<1> HIDE DEF sh2
<1>6. Written(sh, s, v, h, sh2)
  BY <1>2, <1>5, ZenonT(60) DEF Written
<1>7. QED
  BY <1>4, <1>6, ZenonT(60)

-----------------------------------------------------------------------------
\* What place_shard leaves, as far as types and the lengths of the lists go:
\* one shard changes, and it has the host of its node if nothing raised.
\* The drift of a node's count stays as it is when both ids exist, and
\* changes by one at most when the node's does not.
PlacedWell(p, sh, sid, nid) ==
    /\ p.nodes \in Seq(Node) /\ Len(p.nodes) = Len(nodes)
    /\ p.shards \in Seq(Shard) /\ Len(p.shards) = Len(sh)
    /\ \A i \in 1..Len(sh) : i # At(sh, sid) => p.shards[i] = sh[i]
    /\ p.shards[At(sh, sid)].functions = sh[At(sh, sid)].functions
    /\ p.ok \in BOOLEAN
    /\ p.ok => p.shards[At(sh, sid)].host \in Hosts
    /\ Known(nodes, nid) /\ ~p.ok => p.shards = sh /\ p.nodes = nodes
    /\ \A n \in Nat :
          LET d == Drift(p.nodes, p.shards, n) - Drift(nodes, sh, n)
          IN  /\ Known(nodes, nid) => d = 0
              /\ -1 <= d /\ d <= 1

\* place_shard as one step.
LEMMA PlacedFacts ==
  ASSUME nodes \in Seq(Node), NEW sh \in Seq(Shard), NEW sid \in Int, NEW nid \in Int,
         InList(sh, sid)
  PROVE  PlacedWell(Placed(sh, sid, nid), sh, sid, nid)
<1> DEFINE s == At(sh, sid)
           m == sh[s].node
           left == IF m >= 0 THEN [nodes EXCEPT ![m + 1].shards = @ - 1] ELSE nodes
           k == At(nodes, nid)
           p == Placed(sh, sid, nid)
<1>1. s \in 1..Len(sh)
  BY Subscript, ZenonT(60)
<1>2. m \in Int
  <2>1. sh[s] \in Shard
    BY <1>1, ElementOfSeq, ZenonT(60)
  <2>2. QED
    BY <2>1, ZenonT(60) DEF Shard
<1>3. Len(nodes) \in Nat /\ Len(sh) \in Nat
  BY LenProperties, ZenonT(60)
<1>4. \A n \in Nat : Cardinality(On(sh, n)) \in Nat /\ Count(nodes, n) \in Int
  <2> SUFFICES ASSUME NEW n \in Nat
               PROVE  Cardinality(On(sh, n)) \in Nat /\ Count(nodes, n) \in Int
    BY ZenonT(60)
  <2>1. Moved(sh, sh, sh[s].node, sh[s].node, n)
    BY <1>1, MoveOn, SMTT(60)
  <2>2. n < Len(nodes) => nodes[n + 1] \in Node
    BY <1>3, ElementOfSeq, SMTT(60)
  <2>3. QED
    BY <2>1, <2>2, SMTT(60) DEF Count, Node, Moved
<1> HIDE DEF s
<1>5. CASE m >= Len(nodes)
  <2>1. p = [nodes |-> nodes, shards |-> sh, ok |-> FALSE]
    BY <1>5, ZenonT(60) DEF Placed, s
  <2>2. \A n \in Nat : Drift(nodes, sh, n) \in Int
    BY <1>4 DEF Drift
  <2>3. QED
    BY <2>1, <2>2, SMTT(60) DEF PlacedWell
<1>6. CASE m < Len(nodes)
  <2>1. /\ left \in Seq(Node) /\ Len(left) = Len(nodes)
        /\ \A n \in Nat : Count(left, n) = Count(nodes, n) - (IF m = n THEN 1 ELSE 0)
    <3>1. CASE m >= 0
      <4> DEFINE w == nodes[m + 1].shards - 1
      <4>1. m + 1 \in 1..Len(nodes)
        BY <1>2, <1>3, <1>6, <3>1, SMTT(60)
      <4>2. nodes[m + 1] \in Node
        BY <4>1, ElementOfSeq, ZenonT(60)
      <4>3. w \in Int /\ Count(nodes, m) = w + 1
        BY <1>6, <4>2, SMTT(60) DEF Node, Count
      <4>4. left = [nodes EXCEPT ![m + 1].shards = w]
        BY <3>1, ZenonT(60)
      <4> HIDE DEF w, left, m
      <4>5. CountWritten(nodes, m + 1, w, left)
        BY <4>1, <4>3, <4>4, WriteCount, ZenonT(60)
      <4>6. ASSUME NEW n \in Nat
            PROVE  Count(left, n) = Count(nodes, n) - (IF m = n THEN 1 ELSE 0)
        <5>1. Count(left, n) = IF n + 1 = m + 1 THEN w ELSE Count(nodes, n)
          BY <4>5, ZenonT(60) DEF CountWritten
        <5>2. CASE m = n
          BY <4>3, <5>1, <5>2, SMTT(60)
        <5>3. CASE m # n
          <6>1. n + 1 # m + 1 /\ Count(nodes, n) \in Int
            BY <1>2, <1>4, <5>3, SMTT(60)
          <6>2. QED
            BY <5>1, <5>3, <6>1, SMTT(60)
        <5>4. QED
          BY <5>2, <5>3, ZenonT(60)
      <4>7. QED
        BY <4>5, <4>6, ZenonT(60) DEF CountWritten
    <3>2. CASE ~(m >= 0)
      BY <1>2, <1>4, <3>2, SMTT(60)
    <3>3. QED
      BY <3>1, <3>2, ZenonT(60)
  <2> HIDE DEF left
  <2>2. CASE ~InList(nodes, nid)
    <3> DEFINE sh2 == [sh EXCEPT ![s].node = nid]
    <3>1. p = [nodes |-> left, shards |-> sh2, ok |-> FALSE]
      BY <1>2, <1>3, <1>6, <2>2, SMTT(60) DEF Placed, s, left
    <3>2. Written(sh, s, nid, sh[s].host, sh2)
      BY <1>1, WriteNode, ZenonT(60)
    <3> HIDE DEF sh2, p
    <3>3. ~Known(nodes, nid)
      BY <1>3, <2>2, SMTT(60) DEF Known, InList
    <3>4. ASSUME NEW n \in Nat
          PROVE  LET d == Drift(left, sh2, n) - Drift(nodes, sh, n) IN -1 <= d /\ d <= 1
      <4>1. Moved(sh, sh2, m, nid, n)
        <5>1. /\ sh2 \in Seq(Shard) /\ Len(sh2) = Len(sh) /\ sh2[s].node = nid
              /\ \A i \in 1..Len(sh) : i # s => sh2[i] = sh[i]
          BY <3>2, ZenonT(60) DEF Written
        <5>2. s \in 1..Len(sh) /\ n \in Int
          BY <1>1
        <5>3. Moved(sh, sh2, sh[s].node, sh2[s].node, n)
          BY <5>1, <5>2, MoveOn, ZenonT(60)
        <5>4. QED
          BY <5>1, <5>3, ZenonT(60)
      <4> HIDE DEF m
      <4>2. /\ Count(nodes, n) \in Int /\ Cardinality(On(sh, n)) \in Nat
            /\ Count(left, n) = Count(nodes, n) - (IF m = n THEN 1 ELSE 0)
        BY <1>4, <2>1, ZenonT(60)
      <4>3. QED
        BY <4>1, <4>2, SMTT(60) DEF Drift, Moved
    <3>5. PlacedWell(p, sh, sid, nid)
      BY <2>1, <3>1, <3>2, <3>3, <3>4, ZenonT(60) DEF PlacedWell, Written, s
    <3>6. QED
      BY <3>5, ZenonT(60) DEF p
  <2>3. CASE InList(nodes, nid)
    <3> DEFINE h == nodes[k].host
               sh2 == [sh EXCEPT ![s].node = nid, ![s].host = h]
               v == left[k].shards + 1
               nd2 == [left EXCEPT ![k].shards = v]
    <3>1. p = [nodes |-> nd2, shards |-> sh2, ok |-> TRUE]
      BY <1>2, <1>3, <1>6, <2>3, SMTT(60) DEF Placed, s, left
    <3>2. k \in 1..Len(nodes) /\ (Known(nodes, nid) <=> k = nid + 1) /\ (~Known(nodes, nid) <=> nid < 0)
      BY <2>3, Subscript, ZenonT(60)
    <3> HIDE DEF k, p
    <3>3. nodes[k] \in Node /\ left[k] \in Node
      BY <2>1, <3>2, ElementOfSeq, ZenonT(60)
    <3>4. h \in Hosts /\ v \in Int /\ Count(left, k - 1) = v - 1
      <4>1. h \in Hosts /\ left[k].shards \in Int
        BY <3>3, ZenonT(60) DEF Node
      <4>2. k - 1 < Len(left) /\ (k - 1) + 1 = k
        BY <1>3, <2>1, <3>2, SMTT(60)
      <4>3. Count(left, k - 1) = left[k].shards
        BY <4>2, ZenonT(60) DEF Count
      <4>4. QED
        BY <4>1, <4>3, SMTT(60)
    <3> HIDE DEF h, v
    <3>5. Written(sh, s, nid, h, sh2)
      BY <1>1, <3>4, WritePlace, ZenonT(60)
    <3>6. CountWritten(left, k, v, nd2)
      BY <2>1, <3>2, <3>4, WriteCount, ZenonT(60)
    <3> HIDE DEF sh2, nd2
    <3>7. ASSUME NEW n \in Nat
          PROVE  LET d == Drift(nd2, sh2, n) - Drift(nodes, sh, n)
                 IN  (Known(nodes, nid) => d = 0) /\ -1 <= d /\ d <= 1
      <4>1. Moved(sh, sh2, m, nid, n)
        <5>1. /\ sh2 \in Seq(Shard) /\ Len(sh2) = Len(sh) /\ sh2[s].node = nid
              /\ \A i \in 1..Len(sh) : i # s => sh2[i] = sh[i]
          BY <3>5, ZenonT(60) DEF Written
        <5>2. s \in 1..Len(sh) /\ n \in Int
          BY <1>1
        <5>3. Moved(sh, sh2, sh[s].node, sh2[s].node, n)
          BY <5>1, <5>2, MoveOn, ZenonT(60)
        <5>4. QED
          BY <5>1, <5>3, ZenonT(60)
      <4> HIDE DEF m
      <4>2. Count(nd2, n) = Count(left, n) + (IF n + 1 = k THEN 1 ELSE 0)
        <5>1. CASE n + 1 = k
          <6>1. k - 1 = n
            BY <5>1, <3>2, SMTT(60)
          <6>2. QED
            BY <3>4, <3>6, <5>1, <6>1, SMTT(60) DEF CountWritten
        <5>2. CASE n + 1 # k
          <6>1. Count(nodes, n) \in Int /\ Count(left, n) = Count(nodes, n) - (IF m = n THEN 1 ELSE 0)
            BY <1>4, <2>1, ZenonT(60)
          <6>2. Count(nd2, n) = Count(left, n)
            BY <3>6, <5>2, ZenonT(60) DEF CountWritten
          <6>3. QED
            BY <5>2, <6>1, <6>2, SMTT(60)
        <5>3. QED
          BY <5>1, <5>2, ZenonT(60)
      <4>3. /\ Count(nodes, n) \in Int /\ Cardinality(On(sh, n)) \in Nat
            /\ Count(left, n) = Count(nodes, n) - (IF m = n THEN 1 ELSE 0)
        BY <1>4, <2>1
      <4>4. (Known(nodes, nid) => (n + 1 = k <=> nid = n)) /\ (~Known(nodes, nid) => nid # n)
        BY <3>2
      <4> DEFINE a == Count(nodes, n)
                 b == Count(nd2, n)
                 c == Cardinality(On(sh, n))
                 d == Cardinality(On(sh2, n))
      <4>5. /\ a \in Int /\ c \in Nat
            /\ b = a - (IF m = n THEN 1 ELSE 0) + (IF n + 1 = k THEN 1 ELSE 0)
            /\ d = c - (IF m = n THEN 1 ELSE 0) + (IF nid = n THEN 1 ELSE 0)
        BY <4>1, <4>2, <4>3, ZenonT(60) DEF Moved
      <4> HIDE DEF a, b, c, d
      <4>6. /\ Known(nodes, nid) => (b - d) - (a - c) = 0
            /\ -1 <= (b - d) - (a - c) /\ (b - d) - (a - c) <= 1
        BY <4>4, <4>5
      <4>7. QED
        BY <4>6, ZenonT(60) DEF Drift, a, b, c, d
    <3>8. PlacedWell(p, sh, sid, nid)
      BY <2>1, <3>1, <3>4, <3>5, <3>6, <3>7, ZenonT(60) DEF PlacedWell, Written, CountWritten, s
    <3>9. QED
      BY <3>8, SMTT(60) DEF p
  <2>4. QED
    BY <2>2, <2>3, ZenonT(60)
<1>7. QED
  BY <1>2, <1>3, <1>5, <1>6, SMTT(60)

-----------------------------------------------------------------------------
\* No node's count is further off than the number of requests with unknown
\* ids; nodes beyond the list count nothing.
Sound(nd, sh, b) ==
    \A n \in Nat : Drift(nd, sh, n) <= b /\ -Drift(nd, sh, n) <= b

\* Every route to a settled shard names its host.
Led ==
    bad = 0 =>
        \A s \in settled :
            /\ 0 <= s /\ s < Len(shards)
            /\ \A i \in DOMAIN routes : routes[i].to = s => routes[i].host = shards[s + 1].host

IInv ==
    /\ TypeOK
    /\ Sound(nodes, shards, bad)
    /\ Sound(file.topo[1], file.topo[2], bad)
    /\ Led

\* A drift is a number.
LEMMA DriftInt ==
  ASSUME NEW nd \in Seq(Node), NEW sh \in Seq(Shard), NEW n \in Nat
  PROVE  Drift(nd, sh, n) \in Int
<1>1. Len(nd) \in Nat /\ Len(sh) \in Nat /\ DOMAIN sh = 1..Len(sh)
  BY LenProperties, ZenonT(60)
<1>2. n < Len(nd) => nd[n + 1] \in Node
  BY <1>1, ElementOfSeq
<1>3. Count(nd, n) \in Int
  BY <1>2 DEF Count, Node
<1>4. IsFiniteSet(1..Len(sh)) /\ On(sh, n) \in SUBSET (1..Len(sh))
  BY <1>1, FS_Interval, SMTT(60) DEF On
<1>5. Cardinality(On(sh, n)) \in Nat
  BY <1>4, FS_Subset, FS_CardinalityType, ZenonT(60)
<1>6. QED
  BY <1>3, <1>5 DEF Drift

\* Another request with an unknown id leaves a count as wrong as it was.
LEMMA SoundMono ==
  ASSUME NEW nd \in Seq(Node), NEW sh \in Seq(Shard), NEW b \in Nat, NEW c \in Nat, b <= c,
         Sound(nd, sh, b)
  PROVE  Sound(nd, sh, c)
  BY DriftInt, SMTT(60) DEF Sound

\* Counts stay right when no drift changes.
LEMMA SoundSame ==
  ASSUME NEW nd, NEW sh, NEW nd2, NEW sh2, NEW b,
         \A n \in Nat : Drift(nd2, sh2, n) = Drift(nd, sh, n),
         Sound(nd, sh, b)
  PROVE  Sound(nd2, sh2, b)
  BY ZenonT(60) DEF Sound

\* An empty controller counts nothing.
LEMMA SoundEmpty ==
  ASSUME NEW b \in Nat
  PROVE  Sound(<<>>, <<>>, b)
<1>1. \A n \in Nat : Count(<<>>, n) = 0
  BY DEF Count
<1>2. \A n \in Nat : On(<<>>, n) = {}
  BY DEF On
<1>3. Cardinality({}) = 0
  BY FS_EmptySet, ZenonT(60)
<1>4. \A n \in Nat : Drift(<<>>, <<>>, n) = 0
  BY <1>1, <1>2, <1>3, SMTT(60) DEF Drift
<1>5. QED
  BY <1>4 DEF Sound

\* The topologies a controller may start from are counted right.
LEMMA SoundConfig ==
  ASSUME NEW c \in Configs
  PROVE  c \in Topology /\ Sound(c[1], c[2], 0)
<1>1. c \in Topology /\ c[1] \in Seq(Node) /\ c[2] \in Seq(Shard)
  BY ConfigAssumption, ZenonT(60) DEF Topology
<1>2. ASSUME NEW n \in Nat
      PROVE  Drift(c[1], c[2], n) = 0
  <2>1. Len(c[1]) \in Nat
    BY <1>1, LenProperties, ZenonT(60)
  <2>2. CASE n < Len(c[1])
    BY <2>1, <2>2, ConfigAssumption, SMTT(60)
  <2>3. CASE n >= Len(c[1])
    <3>1. \A s \in DOMAIN c[2] : c[2][s].node # n
      BY <2>1, <2>3, ConfigAssumption, SMTT(60)
    <3>2. On(c[2], n) = {}
      BY <3>1, ZenonT(60) DEF On
    <3>3. Count(c[1], n) = 0
      BY <2>1, <2>3, SMTT(60) DEF Count
    <3>4. QED
      BY <3>2, <3>3, FS_EmptySet, SMTT(60) DEF Drift
  <2>4. QED
    BY <2>1, <2>2, <2>3, SMTT(60)
<1>3. QED
  BY <1>1, <1>2 DEF Sound

\* A controller starts empty or from a config file.
LEMMA InitIInv == Init => IInv
<1> SUFFICES ASSUME Init PROVE IInv
  BY ZenonT(60)
<1>1. Empty \in Topology /\ Empty[1] = <<>> /\ Empty[2] = <<>>
  BY EmptySeq, ZenonT(60) DEF Empty, Topology
<1>2. file.topo \in Topology /\ Sound(file.topo[1], file.topo[2], 0)
  <2>1. CASE file = NoFile
    BY <1>1, <2>1, SoundEmpty, ZenonT(60) DEF NoFile
  <2>2. CASE file # NoFile
    BY <2>2, SoundConfig, SMTT(60) DEF Init
  <2>3. QED
    BY <2>1, <2>2, ZenonT(60)
<1>3. file \in [st : {"none", "torn", "whole"}, topo : Topology]
  BY <1>2, SMTT(60) DEF Init, NoFile
<1>4. TypeOK
  BY <1>2, <1>3, ZenonT(60) DEF Init, TypeOK, Topology
<1>5. QED
  BY <1>2, <1>4, ZenonT(60) DEF Init, IInv, Led

\* add_node: the new node counts nothing, as no shard can be on it unless
\* an unknown id has put it there.
LEMMA AddNodeStep == IInv /\ add_node => IInv'
<1> SUFFICES ASSUME IInv, add_node PROVE IInv'
  BY ZenonT(60)
<1> USE DEF IInv
<1>1. /\ UNCHANGED <<shards, functions, routes, settled, file, saving, up, bad>>
      /\ requests' = requests + 1
  BY ZenonT(60) DEF add_node, Serve, Take
<1>2. PICK h \in Hosts : nodes' = Append(nodes, [host |-> h, shards |-> 0])
  BY ZenonT(60) DEF add_node
<1> DEFINE e == [host |-> h, shards |-> 0]
<1>3. e \in Node /\ e.shards = 0
  BY DEF Node
<1> HIDE DEF e
<1>4. nodes \in Seq(Node) /\ Len(nodes) \in Nat
  BY LenProperties, ZenonT(60) DEF TypeOK
<1>5. /\ nodes' \in Seq(Node) /\ Len(nodes') = Len(nodes) + 1
      /\ \A i \in 1..Len(nodes) : nodes'[i] = nodes[i]
      /\ nodes'[Len(nodes) + 1] = e
  BY <1>2, <1>3, <1>4, AppendProperties, SMTT(60) DEF e
<1>6. TypeOK'
  BY <1>1, <1>5, SMTT(60) DEF TypeOK
<1>7. \A n \in Nat : Count(nodes', n) = Count(nodes, n)
  BY <1>3, <1>4, <1>5, SMTT(60) DEF Count
<1>8. Sound(nodes', shards', bad')
  BY <1>1, <1>7, ZenonT(60) DEF Sound, Drift
<1>9. Led'
  BY <1>1, ZenonT(60) DEF Led
<1>10. QED
  BY <1>1, <1>6, <1>8, <1>9, ZenonT(60)

\* add_shard: the new shard is on no node.
LEMMA AddShardStep == IInv /\ add_shard => IInv'
<1> SUFFICES ASSUME IInv, add_shard PROVE IInv'
  OBVIOUS
<1> USE DEF IInv
<1> DEFINE e == [node |-> -1, host |-> NoHost, state |-> "stopped", functions |-> <<>>]
<1>1. /\ UNCHANGED <<nodes, functions, routes, settled, file, saving, up, bad>>
      /\ requests' = requests + 1 /\ shards' = Append(shards, e)
  BY ZenonT(60) DEF add_shard, Serve, Take
<1>2. e \in Shard /\ e.node = -1
  BY EmptySeq, SMTT(60) DEF Shard
<1> HIDE DEF e
<1>3. shards \in Seq(Shard) /\ Len(shards) \in Nat /\ DOMAIN shards = 1..Len(shards)
  BY LenProperties, ZenonT(60) DEF TypeOK
<1>4. /\ shards' \in Seq(Shard) /\ Len(shards') = Len(shards) + 1
      /\ \A i \in 1..Len(shards) : shards'[i] = shards[i]
      /\ shards'[Len(shards) + 1] = e
  BY <1>1, <1>2, <1>3, AppendProperties, SMTT(60)
<1>5. TypeOK'
  BY <1>1, <1>4, SMTT(60) DEF TypeOK
<1>6. DOMAIN shards' = 1..(Len(shards) + 1)
  BY <1>4, LenProperties, ZenonT(60)
<1>7. \A n \in Nat : On(shards', n) = On(shards, n)
  BY <1>2, <1>3, <1>4, <1>6, SMTT(60) DEF On
<1>8. Sound(nodes', shards', bad')
  BY <1>1, <1>7, ZenonT(60) DEF Sound, Drift
<1>9. Led'
  <2>1. settled \in SUBSET Int
    BY ZenonT(60) DEF TypeOK
  <2>2. ASSUME bad' = 0, NEW s \in settled'
        PROVE  /\ 0 <= s /\ s < Len(shards')
               /\ \A i \in DOMAIN routes' : routes'[i].to = s => routes'[i].host = shards'[s + 1].host
    <3>1. /\ s \in Int /\ 0 <= s /\ s < Len(shards)
          /\ \A i \in DOMAIN routes : routes[i].to = s => routes[i].host = shards[s + 1].host
      BY <1>1, <2>1, <2>2, ZenonT(60) DEF Led
    <3>2. s + 1 \in 1..Len(shards)
      BY <1>3, <3>1, SMTT(60)
    <3>3. shards'[s + 1] = shards[s + 1] /\ s < Len(shards')
      BY <1>3, <1>4, <3>1, <3>2, SMTT(60)
    <3>4. QED
      BY <1>1, <3>1, <3>3, ZenonT(60)
  <2>3. QED
    BY <2>2, ZenonT(60) DEF Led
<1>10. QED
  BY <1>1, <1>5, <1>8, <1>9, ZenonT(60)

\* place_shard: the shard's routes are no longer known to lead to its host.
LEMMA PlaceStep ==
  ASSUME IInv, NEW sid \in Int, NEW nid \in Int, place_shard(sid, nid)
  PROVE  IInv'
<1> USE DEF IInv
<1> DEFINE p == Placed(shards, sid, nid)
<1>1. /\ UNCHANGED <<functions, routes, file, saving, up>>
      /\ requests' = requests + 1 /\ settled' = settled \ {sid}
      /\ bad' = IF Known(shards, sid) /\ Known(nodes, nid) THEN bad ELSE bad + 1
  BY ZenonT(60) DEF place_shard, Serve, Take
<1>2. /\ nodes \in Seq(Node) /\ shards \in Seq(Shard) /\ bad \in Nat /\ settled \in SUBSET Int
      /\ Len(shards) \in Nat
      /\ file.topo[1] \in Seq(Node) /\ file.topo[2] \in Seq(Shard)
  BY LenProperties, ZenonT(60) DEF TypeOK, Topology
<1>3. bad' \in Nat /\ bad <= bad'
  BY <1>1, <1>2, SMTT(60)
<1>4. Sound(file.topo[1], file.topo[2], bad)'
  BY <1>1, <1>2, <1>3, SoundMono, ZenonT(60)
<1>5. CASE InList(shards, sid)
  <2>1. nodes' = p.nodes /\ shards' = p.shards
    BY <1>5, ZenonT(60) DEF place_shard
  <2>2. PlacedWell(p, shards, sid, nid)
    BY <1>2, <1>5, PlacedFacts, ZenonT(60)
  <2> HIDE DEF p
  <2>3. TypeOK'
    <3>1. p.nodes \in Seq(Node) /\ p.shards \in Seq(Shard)
      BY <2>2, ZenonT(60) DEF PlacedWell
    <3>2. requests' \in Nat /\ settled' \in SUBSET Int
      BY <1>1, <1>2, SMTT(60) DEF TypeOK
    <3> QED BY <1>1, <1>3, <2>1, <3>1, <3>2, ZenonT(60) DEF TypeOK
  <2>4. Sound(nodes', shards', bad')
    <3> SUFFICES ASSUME NEW n \in Nat
                 PROVE  Drift(nodes', shards', n) <= bad' /\ -Drift(nodes', shards', n) <= bad'
      BY ZenonT(60) DEF Sound
    <3> DEFINE d == Drift(nodes, shards, n)
               d2 == Drift(nodes', shards', n)
    <3>1. d \in Int /\ d2 \in Int
      BY <1>2, <2>3, DriftInt, ZenonT(60) DEF TypeOK
    <3>2. (Known(nodes, nid) => d2 - d = 0) /\ -1 <= d2 - d /\ d2 - d <= 1
      BY <2>1, <2>2, ZenonT(60) DEF PlacedWell
    <3>3. d <= bad /\ -d <= bad
      BY ZenonT(60) DEF Sound
    <3> HIDE DEF d, d2
    <3>4. d2 <= bad' /\ -d2 <= bad'
      BY <1>1, <1>2, <3>1, <3>2, <3>3, SMTT(60)
    <3>5. QED
      BY <3>4, ZenonT(60) DEF d2
  <2>5. Led'
    <3> SUFFICES ASSUME bad' = 0, NEW s \in settled'
                 PROVE  /\ 0 <= s /\ s < Len(shards')
                        /\ \A i \in DOMAIN routes' :
                              routes'[i].to = s => routes'[i].host = shards'[s + 1].host
      BY ZenonT(60) DEF Led
    <3>a. bad + 1 # 0 /\ bad' = 0
      BY <1>2, SMTT(60)
    <3>b. bad = 0 /\ Known(shards, sid)
      BY <1>1, <3>a, ZenonT(60)
    <3>1. bad = 0 /\ Known(shards, sid) /\ s \in settled /\ s # sid /\ s \in Int
      BY <1>1, <1>2, <3>b, ZenonT(60)
    <3>2. At(shards, sid) = sid + 1
      BY <1>2, <1>5, <3>1, Subscript, ZenonT(60)
    <3>3. 0 <= s /\ s < Len(shards)
      BY <3>1, ZenonT(60) DEF Led
    <3>4. shards'[s + 1] = shards[s + 1] /\ Len(shards') = Len(shards)
      BY <1>2, <2>1, <2>2, <3>1, <3>2, <3>3, SMTT(60) DEF PlacedWell
    <3>5. QED
      BY <1>1, <3>1, <3>3, <3>4, ZenonT(60) DEF Led
  <2>6. QED
    BY <1>4, <2>3, <2>4, <2>5, ZenonT(60)
<1>6. CASE ~InList(shards, sid)
  <2>1. UNCHANGED <<nodes, shards>> /\ bad' = bad + 1
    BY <1>1, <1>2, <1>6, SMTT(60) DEF place_shard, InList, Known
  <2>2. TypeOK'
    BY <1>1, <1>2, <1>3, <2>1, SMTT(60) DEF TypeOK
  <2>3. QED
    BY <1>2, <1>3, <1>4, <2>1, <2>2, SoundMono, SMTT(60) DEF Led
<1>7. QED
  BY <1>5, <1>6, ZenonT(60)

\* Two lists of shards on the same nodes with the same hosts.
Alike(sh, sh2) ==
    /\ sh2 \in Seq(Shard) /\ Len(sh2) = Len(sh)
    /\ \A i \in 1..Len(sh) : sh2[i].node = sh[i].node /\ sh2[i].host = sh[i].host

\* Writing the list of functions of a shard changes nothing else.
LEMMA WriteFunctions ==
  ASSUME NEW sh \in Seq(Shard), NEW s \in 1..Len(sh), NEW fs \in Seq(Int)
  PROVE  Alike(sh, [sh EXCEPT ![s].functions = fs])
<1> DEFINE e == [sh[s] EXCEPT !.functions = fs]
           sh2 == [sh EXCEPT ![s] = e]
<1>1. sh[s] \in Shard
  BY ElementOfSeq, ZenonT(60)
<1>2. e \in Shard /\ e.node = sh[s].node /\ e.host = sh[s].host
  BY <1>1, ZenonT(60) DEF Shard
<1> HIDE DEF e
<1>3. /\ sh2 \in Seq(Shard) /\ Len(sh2) = Len(sh)
      /\ \A j \in 1..Len(sh) : sh2[j] = IF j = s THEN e ELSE sh[j]
  BY <1>2, ExceptSeq, SMTT(60)
<1> HIDE DEF sh2
<1>4. Alike(sh, sh2)
  BY <1>2, <1>3, ZenonT(60) DEF Alike
<1>5. QED
  BY <1>4, ZenonT(60) DEF sh2, e

\* So does marking it as migrating.
LEMMA WriteState ==
  ASSUME NEW sh \in Seq(Shard), NEW s \in 1..Len(sh)
  PROVE  Alike(sh, [sh EXCEPT ![s].state = "migrating"])
<1> DEFINE e == [sh[s] EXCEPT !.state = "migrating"]
           sh2 == [sh EXCEPT ![s] = e]
<1>1. sh[s] \in Shard
  BY ElementOfSeq, ZenonT(60)
<1>2. e \in Shard /\ e.node = sh[s].node /\ e.host = sh[s].host
  BY <1>1, ZenonT(60) DEF Shard
<1> HIDE DEF e
<1>3. /\ sh2 \in Seq(Shard) /\ Len(sh2) = Len(sh)
      /\ \A j \in 1..Len(sh) : sh2[j] = IF j = s THEN e ELSE sh[j]
  BY <1>2, ExceptSeq, SMTT(60)
<1> HIDE DEF sh2
<1>4. Alike(sh, sh2)
  BY <1>2, <1>3, ZenonT(60) DEF Alike
<1>5. QED
  BY <1>4, ZenonT(60) DEF sh2, e

\* Such a list drifts like the first one.
LEMMA AlikeDrift ==
  ASSUME NEW nd, NEW sh \in Seq(Shard), NEW sh2, Alike(sh, sh2), NEW n \in Nat
  PROVE  Drift(nd, sh2, n) = Drift(nd, sh, n)
<1>1. On(sh2, n) = On(sh, n)
  BY SameOn, SMTT(60) DEF Alike
<1>2. QED
  BY <1>1, ZenonT(60) DEF Drift

\* A request that changes nothing but lists of functions.
LEMMA RelistStep ==
  ASSUME IInv, Alike(shards, shards'), functions' \in Seq(Int),
         UNCHANGED <<nodes, routes, settled, file, saving, up>>,
         requests' = requests + 1, bad' \in {bad, bad + 1}
  PROVE  IInv'
<1> USE DEF IInv
<1>1. /\ nodes \in Seq(Node) /\ shards \in Seq(Shard) /\ bad \in Nat /\ settled \in SUBSET Int
      /\ file.topo[1] \in Seq(Node) /\ file.topo[2] \in Seq(Shard)
  BY ZenonT(60) DEF TypeOK, Topology
<1>2. bad' \in Nat /\ bad <= bad' /\ (bad' = 0 => bad = 0)
  BY <1>1, SMTT(60)
<1>3. TypeOK'
  BY <1>2, SMTT(60) DEF TypeOK, Alike
<1>4. Sound(file.topo[1], file.topo[2], bad)'
  BY <1>1, <1>2, SoundMono, ZenonT(60)
<1>5. Sound(nodes', shards', bad')
  <2>1. Sound(nodes, shards, bad')
    BY <1>1, <1>2, SoundMono, ZenonT(60)
  <2>2. \A n \in Nat : Drift(nodes, shards', n) = Drift(nodes, shards, n)
    BY <1>1, AlikeDrift, ZenonT(60)
  <2>3. QED
    BY <2>1, <2>2, ZenonT(60) DEF Sound
<1>6. Led'
  <2> SUFFICES ASSUME bad' = 0, NEW s \in settled
               PROVE  /\ 0 <= s /\ s < Len(shards')
                      /\ \A i \in DOMAIN routes :
                            routes[i].to = s => routes[i].host = shards'[s + 1].host
    BY ZenonT(60) DEF Led
  <2>1. /\ 0 <= s /\ s < Len(shards) /\ s \in Int
        /\ \A i \in DOMAIN routes : routes[i].to = s => routes[i].host = shards[s + 1].host
    BY <1>1, <1>2, ZenonT(60) DEF Led
  <2>2. Len(shards) \in Nat
    BY <1>1, LenProperties, ZenonT(60)
  <2>3. s + 1 \in 1..Len(shards)
    BY <2>1, <2>2, SMTT(60)
  <2>4. QED
    BY <2>1, <2>3, ZenonT(60) DEF Alike
<1>7. QED
  BY <1>3, <1>4, <1>5, <1>6, ZenonT(60)

\* add_function: a function is appended to its owner's list, if it has one.
LEMMA AddFunctionStep ==
  ASSUME IInv, NEW owner \in Int, add_function(owner)
  PROVE  IInv'
<1>1. /\ shards \in Seq(Shard) /\ functions \in Seq(Int) /\ Len(functions) \in Nat
  BY LenProperties, ZenonT(60) DEF IInv, TypeOK
<1>2. /\ UNCHANGED <<nodes, routes, settled, file, saving, up>>
      /\ requests' = requests + 1 /\ bad' \in {bad, bad + 1}
      /\ functions' = Append(functions, owner)
  BY ZenonT(60) DEF add_function, Serve, Take
<1>3. functions' \in Seq(Int)
  BY <1>1, <1>2, AppendProperties, ZenonT(60)
<1>4. Alike(shards, shards')
  <2>1. CASE InList(shards, owner)
    <3> DEFINE s == At(shards, owner)
               fs == Append(shards[s].functions, Len(functions))
    <3>1. s \in 1..Len(shards)
      BY <1>1, <2>1, Subscript, ZenonT(60)
    <3>2. shards[s] \in Shard
      BY <1>1, <3>1, ElementOfSeq, ZenonT(60)
    <3>3. shards[s].functions \in Seq(Int)
      BY <3>2, ZenonT(60) DEF Shard
    <3>4. fs \in Seq(Int)
      BY <1>1, <3>3, AppendProperties, SMTT(60)
    <3>5. shards' = [shards EXCEPT ![s].functions = fs]
      BY <2>1, ZenonT(60) DEF add_function
    <3> HIDE DEF s, fs
    <3>6. QED
      BY <1>1, <3>1, <3>4, <3>5, WriteFunctions, ZenonT(60)
  <2>2. CASE ~InList(shards, owner)
    BY <1>1, <2>2, ZenonT(60) DEF add_function, Alike
  <2>3. QED
    BY <2>1, <2>2, ZenonT(60)
<1>5. QED
  BY <1>2, <1>3, <1>4, RelistStep, ZenonT(60)

\* A set of numbers with a member has a smallest one.
LEMMA SmallestOf ==
  ASSUME NEW S \in SUBSET Nat, S # {}
  PROVE  \E i \in S : \A j \in S : i <= j
<1> DEFINE R == {ss \in Nat \X Nat : ss[1] < ss[2]}
<1>1. IsWellFoundedOn(R, Nat)
  BY NatLessThanWellFounded, ZenonT(60) DEF OpToRel
<1>2. \A i, j \in Nat : ~(<<j, i>> \in R) => i <= j
  OBVIOUS
<1> HIDE DEF R
<1>3. PICK i \in S : \A j \in S : ~(<<j, i>> \in R)
  BY <1>1, WFMin, ZenonT(60)
<1>4. QED
  BY <1>2, <1>3, ZenonT(60)

\* A list that has x has a first one.
LEMMA FirstOf ==
  ASSUME NEW list \in Seq(Int), NEW x, \E i \in DOMAIN list : list[i] = x
  PROVE  \E i \in DOMAIN list : list[i] = x /\ \A j \in 1..(i - 1) : list[j] # x
<1> DEFINE at == {i \in DOMAIN list : list[i] = x}
<1>1. at \subseteq Nat /\ at # {} /\ DOMAIN list = 1..Len(list) /\ Len(list) \in Nat
  BY LenProperties
<1>2. \E i \in at : \A j \in at : i <= j
  BY <1>1, SmallestOf, ZenonT(60)
<1>3. PICK i \in at : \A j \in at : i <= j
  BY <1>2, ZenonT(60)
<1>4. i \in DOMAIN list /\ list[i] = x /\ i \in 1..Len(list)
  BY <1>1, ZenonT(60)
<1>5. ASSUME NEW j \in 1..(i - 1) PROVE list[j] # x
  <2>1. j \in DOMAIN list /\ ~(i <= j)
    BY <1>1, <1>4, SMTT(60)
  <2>2. QED
    BY <1>3, <2>1, ZenonT(60)
<1>6. QED
  BY <1>4, <1>5, ZenonT(60)

\* list.remove leaves a list of numbers.
LEMMA WithoutType ==
  ASSUME NEW list \in Seq(Int), NEW x
  PROVE  Without(list, x) \in Seq(Int)
<1>1. CASE \E i \in DOMAIN list : list[i] = x
  <2> DEFINE first(i) == list[i] = x /\ \A j \in 1..(i - 1) : list[j] # x
             k == CHOOSE i \in DOMAIN list : first(i)
  <2>1. \E i \in DOMAIN list : first(i)
    BY <1>1, FirstOf, ZenonT(60)
  <2>2. k \in DOMAIN list
    BY <2>1, ZenonT(60)
  <2>3. DOMAIN list = 1..Len(list) /\ Len(list) \in Nat
    BY LenProperties, ZenonT(60)
  <2>4. Without(list, x) = SubSeq(list, 1, k - 1) \o SubSeq(list, k + 1, Len(list))
    BY <1>1, ZenonT(60) DEF Without
  <2> HIDE DEF k
  <2>5. \A i \in 1..Len(list) : list[i] \in Int
    BY ElementOfSeq, ZenonT(60)
  <2>6. SubSeq(list, 1, k - 1) \in Seq(Int)
    BY <2>2, <2>3, <2>5, SubSeqProperties, SMTT(60)
  <2>7. SubSeq(list, k + 1, Len(list)) \in Seq(Int)
    BY <2>2, <2>3, <2>5, SubSeqProperties, SMTT(60)
  <2>8. QED
    BY <2>4, <2>6, <2>7, ConcatProperties, ZenonT(60)
<1>2. CASE ~\E i \in DOMAIN list : list[i] = x
  BY <1>2, ZenonT(60) DEF Without
<1>3. QED
  BY <1>1, <1>2, ZenonT(60)

\* Lists alike to alike lists are alike.
LEMMA AlikeTrans ==
  ASSUME NEW a \in Seq(Shard), NEW b, NEW c, Alike(a, b), Alike(b, c)
  PROVE  Alike(a, c)
  BY ZenonT(60) DEF Alike

\* move_function: a function leaves one list and enters another.
LEMMA MoveFunctionStep ==
  ASSUME IInv, NEW fid \in Int, NEW sid \in Int, move_function(fid, sid)
  PROVE  IInv'
<1> DEFINE f == At(functions, fid)
           old == functions[f]
           s == At(shards, old)
           t == At(shards, sid)
           fs == Without(shards[s].functions, fid)
           removed == [shards EXCEPT ![s].functions = fs]
           gs == Append(removed[t].functions, fid)
<1>1. shards \in Seq(Shard) /\ functions \in Seq(Int)
  BY ZenonT(60) DEF IInv, TypeOK
<1>2. /\ UNCHANGED <<nodes, routes, settled, file, saving, up>>
      /\ requests' = requests + 1 /\ bad' \in {bad, bad + 1}
  BY ZenonT(60) DEF move_function, Serve, Take
<1>3. CASE InList(functions, fid) /\ InList(shards, old)
  <2>1. f \in 1..Len(functions) /\ old \in Int
    BY <1>1, <1>3, Subscript, ElementOfSeq, ZenonT(60)
  <2>2. functions' = [functions EXCEPT ![f] = sid]
    BY <1>3, ZenonT(60) DEF move_function
  <2>3. shards' = IF InList(shards, sid) THEN [removed EXCEPT ![t].functions = gs] ELSE removed
    BY <1>3, ZenonT(60) DEF move_function
  <2> HIDE DEF f, old
  <2>4. functions' \in Seq(Int)
    BY <1>1, <2>1, <2>2, ExceptSeq, ZenonT(60)
  <2>5. s \in 1..Len(shards)
    BY <1>1, <1>3, <2>1, Subscript, ZenonT(60)
  <2>6. shards[s] \in Shard
    BY <1>1, <2>5, ElementOfSeq, ZenonT(60)
  <2>7. shards[s].functions \in Seq(Int)
    BY <2>6, ZenonT(60) DEF Shard
  <2>8. fs \in Seq(Int)
    BY <2>7, WithoutType, ZenonT(60)
  <2> HIDE DEF s, fs
  <2>9. Alike(shards, removed)
    BY <1>1, <2>5, <2>8, WriteFunctions, ZenonT(60)
  <2> HIDE DEF removed
  <2>10. CASE InList(shards, sid)
    <3>1. t \in 1..Len(shards)
      BY <1>1, <2>10, Subscript, ZenonT(60)
    <3> HIDE DEF t
    <3>2. removed \in Seq(Shard) /\ t \in 1..Len(removed)
      BY <2>9, <3>1, ZenonT(60) DEF Alike
    <3>3. removed[t] \in Shard
      BY <3>2, ElementOfSeq, ZenonT(60)
    <3>4. removed[t].functions \in Seq(Int)
      BY <3>3, ZenonT(60) DEF Shard
    <3>5. gs \in Seq(Int)
      BY <3>4, AppendProperties, ZenonT(60)
    <3> HIDE DEF gs
    <3>6. Alike(removed, shards')
      BY <2>3, <2>10, <3>2, <3>5, WriteFunctions, ZenonT(60)
    <3>7. Alike(shards, shards')
      BY <1>1, <2>9, <3>6, AlikeTrans, ZenonT(60)
    <3>8. QED
      BY <1>2, <2>4, <3>7, RelistStep, ZenonT(60)
  <2>11. CASE ~InList(shards, sid)
    BY <1>2, <2>3, <2>4, <2>9, <2>11, RelistStep, ZenonT(60)
  <2>12. QED
    BY <2>10, <2>11, ZenonT(60)
<1>4. CASE ~(InList(functions, fid) /\ InList(shards, old))
  <2>1. UNCHANGED <<functions, shards>>
    BY <1>4, ZenonT(60) DEF move_function
  <2>2. Alike(shards, shards')
    BY <1>1, <2>1, ZenonT(60) DEF Alike
  <2>3. QED
    BY <1>1, <1>2, <2>1, <2>2, RelistStep, ZenonT(60)
<1>5. QED
  BY <1>3, <1>4, ZenonT(60)

\* Two lists of routes between the same shards.
SameEnds(rt, rt2) ==
    /\ rt2 \in Seq(Route) /\ Len(rt2) = Len(rt)
    /\ \A i \in 1..Len(rt) : rt2[i].to = rt[i].to

\* Writing the host of a route, its host and port, and cutting it.
LEMMA WriteRoute ==
  ASSUME NEW r \in Route, NEW h \in Hosts \cup {NoHost}
  PROVE  /\ [r EXCEPT !.host = h] \in Route
         /\ [r EXCEPT !.host = h].to = r.to /\ [r EXCEPT !.host = h].host = h
         /\ [r EXCEPT !.host = h, !.port = 0] \in Route
         /\ [r EXCEPT !.host = h, !.port = 0].to = r.to
         /\ [r EXCEPT !.host = h, !.port = 0].host = h
         /\ [r EXCEPT !.active = FALSE] \in Route
         /\ [r EXCEPT !.active = FALSE].to = r.to
         /\ [r EXCEPT !.active = FALSE].host = r.host
<1>1. /\ [r EXCEPT !.host = h] \in Route
      /\ [r EXCEPT !.host = h].to = r.to /\ [r EXCEPT !.host = h].host = h
  BY ZenonT(60) DEF Route
<1>2. [r EXCEPT !.host = h, !.port = 0] \in Route
  <2>1. ASSUME NEW q \in Route PROVE [q EXCEPT !.port = 0] \in Route
    <3>1. 0 \in Int
      BY SMTT(60)
    <3>2. QED
      BY <3>1, ZenonT(60) DEF Route
  <2>2. QED
    BY <1>1, <2>1, ZenonT(60)
<1>3. /\ [r EXCEPT !.host = h, !.port = 0].to = r.to
      /\ [r EXCEPT !.host = h, !.port = 0].host = h
  BY ZenonT(60) DEF Route
<1>4. /\ [r EXCEPT !.active = FALSE] \in Route
      /\ [r EXCEPT !.active = FALSE].to = r.to
      /\ [r EXCEPT !.active = FALSE].host = r.host
  BY ZenonT(60) DEF Route
<1>5. QED
  BY <1>1, <1>2, <1>3, <1>4, ZenonT(60)

\* resolve_routes keeps the ends of the routes; the host of a route it does
\* not keep is that of the shard it leads to.
LEMMA ResolvedFacts ==
  ASSUME NEW rt \in Seq(Route), NEW sh \in Seq(Shard), NEW sid \in Int
  PROVE  /\ SameEnds(rt, Resolved(rt, sh, sid))
         /\ \A i \in 1..Len(rt) :
               LET r == Resolved(rt, sh, sid)[i]
               IN  r.host = rt[i].host \/ (rt[i].to >= 0 /\ rt[i].to < Len(sh)
                                             /\ r.host = sh[rt[i].to + 1].host)
<1> DEFINE raises(i) == rt[i].from = sid /\ rt[i].to >= Len(sh)
           reached(i) == \A j \in 1..i : ~raises(j)
           goes(i) == /\ reached(i) /\ rt[i].from = sid /\ rt[i].to >= 0
                      /\ sh[rt[i].to + 1].host # NoHost
           new(i) == [rt[i] EXCEPT !.host = sh[rt[i].to + 1].host, !.port = 0]
           res == [i \in DOMAIN rt |-> IF goes(i) THEN new(i) ELSE rt[i]]
<1>1. Resolved(rt, sh, sid) = res
  BY ZenonT(60) DEF Resolved
<1>2. DOMAIN rt = 1..Len(rt) /\ Len(rt) \in Nat /\ Len(sh) \in Nat
  BY LenProperties, ZenonT(60)
<1>3. ASSUME NEW i \in 1..Len(rt)
      PROVE  /\ res[i] \in Route /\ res[i].to = rt[i].to
             /\ res[i].host = rt[i].host \/ (rt[i].to >= 0 /\ rt[i].to < Len(sh)
                                               /\ res[i].host = sh[rt[i].to + 1].host)
  <2>1. rt[i] \in Route
    BY ElementOfSeq, ZenonT(60)
  <2>2. rt[i].to \in Int
    BY <2>1, ZenonT(60) DEF Route
  <2>3. CASE goes(i)
    <3>1. ~raises(i)
      BY <2>3, SMTT(60)
    <3>2. rt[i].to >= 0 /\ rt[i].to < Len(sh)
      BY <1>2, <2>2, <2>3, <3>1, SMTT(60)
    <3>3. sh[rt[i].to + 1] \in Shard
      BY <1>2, <2>2, <3>2, ElementOfSeq, SMTT(60)
    <3> DEFINE h == sh[rt[i].to + 1].host
               e == [rt[i] EXCEPT !.host = h, !.port = 0]
    <3>4. h \in Hosts \cup {NoHost}
      BY <3>3, ZenonT(60) DEF Shard
    <3>5. res[i] = e
      BY <1>2, <2>3, ZenonT(60)
    <3> HIDE DEF h, res
    <3>6. e \in Route /\ e.to = rt[i].to /\ e.host = h
      BY <2>1, <3>4, WriteRoute, ZenonT(60)
    <3>7. QED
      BY <3>2, <3>5, <3>6, ZenonT(60) DEF h
  <2>4. CASE ~goes(i)
    <3>1. res[i] = rt[i]
      BY <1>2, <2>4, ZenonT(60)
    <3>2. QED
      BY <2>1, <3>1, ZenonT(60)
  <2>5. QED
    BY <2>3, <2>4, ZenonT(60)
<1>4. res = [i \in 1..Len(rt) |-> res[i]]
  BY <1>2, ZenonT(60)
<1> HIDE DEF res
<1>5. res \in Seq(Route) /\ Len(res) = Len(rt)
  <2>1. [i \in 1..Len(rt) |-> res[i]] \in Seq(Route)
    BY <1>2, <1>3, IsASeq, SMTT(60)
  <2>2. DOMAIN res = 1..Len(rt)
    BY <1>4, ZenonT(60)
  <2>3. QED
    BY <1>2, <1>4, <2>1, <2>2, LenProperties, SMTT(60)
<1>6. QED
  BY <1>1, <1>3, <1>5, ZenonT(60) DEF SameEnds

\* add_route: routes to a shard a client adds may name any host.
LEMMA AddRouteStep ==
  ASSUME IInv, NEW from \in Int, NEW to \in Int, NEW h \in Hosts \cup {NoHost},
         add_route(from, to, h, 1)
  PROVE  IInv'
<1> USE DEF IInv
<1> DEFINE e == [from |-> from, to |-> to, host |-> h, port |-> 1, active |-> FALSE]
<1>1. /\ UNCHANGED <<nodes, shards, functions, file, saving, up>>
      /\ requests' = requests + 1 /\ bad' \in {bad, bad + 1}
      /\ routes' = Append(routes, e) /\ settled' = settled \ {to}
  BY ZenonT(60) DEF add_route, Serve, Take
<1>2. /\ nodes \in Seq(Node) /\ shards \in Seq(Shard) /\ bad \in Nat /\ settled \in SUBSET Int
      /\ routes \in Seq(Route) /\ Len(routes) \in Nat /\ DOMAIN routes = 1..Len(routes)
      /\ file.topo[1] \in Seq(Node) /\ file.topo[2] \in Seq(Shard)
  BY LenProperties, ZenonT(60) DEF TypeOK, Topology
<1>3. e \in Route /\ e.to = to
  <2>1. 1 \in Int
    BY SMTT(60)
  <2>2. QED
    BY <2>1, ZenonT(60) DEF Route
<1> HIDE DEF e
<1>4. /\ routes' \in Seq(Route) /\ Len(routes') = Len(routes) + 1
      /\ \A i \in 1..Len(routes) : routes'[i] = routes[i]
      /\ routes'[Len(routes) + 1] = e
  BY <1>1, <1>2, <1>3, AppendProperties, SMTT(60)
<1>5. bad' \in Nat /\ bad <= bad' /\ (bad' = 0 => bad = 0)
  BY <1>1, <1>2, SMTT(60)
<1>6. TypeOK'
  BY <1>1, <1>2, <1>4, <1>5, SMTT(60) DEF TypeOK
<1>7. Sound(nodes', shards', bad') /\ Sound(file.topo[1], file.topo[2], bad)'
  BY <1>1, <1>2, <1>5, SoundMono, ZenonT(60)
<1>8. Led'
  <2>1. DOMAIN routes' = 1..(Len(routes) + 1)
    BY <1>4, LenProperties, ZenonT(60)
  <2> SUFFICES ASSUME bad' = 0, NEW s \in settled', NEW i \in DOMAIN routes', routes'[i].to = s
               PROVE  routes'[i].host = shards'[s + 1].host
    BY <1>1, <1>5, ZenonT(60) DEF Led
  <2>2. s \in settled /\ s # to /\ bad = 0
    BY <1>1, <1>5, ZenonT(60)
  <2>3. i \in 1..Len(routes)
    BY <1>2, <1>3, <1>4, <2>1, <2>2, SMTT(60)
  <2>4. QED
    BY <1>1, <1>2, <1>4, <2>2, <2>3, SMTT(60) DEF Led
<1>9. QED
  BY <1>6, <1>7, <1>8, ZenonT(60)

\* resolve_routes: what it writes is the host of the destination.
LEMMA ResolveStep ==
  ASSUME IInv, NEW sid \in Int, resolve_routes(sid)
  PROVE  IInv'
<1> USE DEF IInv
<1>1. /\ UNCHANGED <<nodes, shards, functions, settled, file, saving, up>>
      /\ requests' = requests + 1 /\ bad' \in {bad, bad + 1}
      /\ routes' = Resolved(routes, shards, sid)
  BY ZenonT(60) DEF resolve_routes, Serve, Take
<1>2. /\ nodes \in Seq(Node) /\ shards \in Seq(Shard) /\ bad \in Nat /\ settled \in SUBSET Int
      /\ routes \in Seq(Route) /\ DOMAIN routes = 1..Len(routes)
      /\ file.topo[1] \in Seq(Node) /\ file.topo[2] \in Seq(Shard)
  BY LenProperties, ZenonT(60) DEF TypeOK, Topology
<1>3. /\ SameEnds(routes, routes')
      /\ \A i \in 1..Len(routes) :
            \/ routes'[i].host = routes[i].host
            \/ routes'[i].host = shards[routes[i].to + 1].host
  BY <1>1, <1>2, ResolvedFacts, ZenonT(60)
<1>4. bad' \in Nat /\ bad <= bad' /\ (bad' = 0 => bad = 0)
  BY <1>1, <1>2, SMTT(60)
<1>5. TypeOK'
  BY <1>1, <1>2, <1>3, <1>4, SMTT(60) DEF TypeOK, SameEnds
<1>6. Sound(nodes', shards', bad') /\ Sound(file.topo[1], file.topo[2], bad)'
  BY <1>1, <1>2, <1>4, SoundMono, ZenonT(60)
<1>7. Led'
  <2>1. DOMAIN routes' = 1..Len(routes)
    BY <1>3, LenProperties, ZenonT(60) DEF SameEnds
  <2> SUFFICES ASSUME bad' = 0, NEW s \in settled', NEW i \in DOMAIN routes', routes'[i].to = s
               PROVE  routes'[i].host = shards'[s + 1].host
    BY <1>1, <1>4, ZenonT(60) DEF Led
  <2>2. i \in 1..Len(routes) /\ routes[i].to = s
    BY <1>3, <2>1, ZenonT(60) DEF SameEnds
  <2>3. routes[i].host = shards[s + 1].host
    BY <1>1, <1>2, <1>4, <2>2, ZenonT(60) DEF Led
  <2>4. QED
    BY <1>1, <1>3, <2>2, <2>3, ZenonT(60)
<1>8. QED
  BY <1>5, <1>6, <1>7, ZenonT(60)

\* A function on 1..n is a sequence.
LEMMA FunctionIsSeq ==
  ASSUME NEW S, NEW n \in Nat, NEW f, f = [i \in 1..n |-> f[i]], \A i \in 1..n : f[i] \in S
  PROVE  f \in Seq(S) /\ Len(f) = n
<1>1. [i \in 1..n |-> f[i]] \in Seq(S)
  BY IsASeq, SMTT(60)
<1>2. f \in Seq(S) /\ DOMAIN f = 1..n
  BY <1>1, ZenonT(60)
<1>3. QED
  BY <1>2, LenProperties, SMTT(60)

\* Disconnecting a shard's routes leaves their hosts alone.
LEMMA CutFacts ==
  ASSUME NEW rt \in Seq(Route), NEW sid \in Int
  PROVE  /\ SameEnds(rt, Disconnected(rt, sid))
         /\ \A i \in 1..Len(rt) : Disconnected(rt, sid)[i].host = rt[i].host
<1> DEFINE cut == Disconnected(rt, sid)
<1>1. DOMAIN rt = 1..Len(rt) /\ Len(rt) \in Nat
  BY LenProperties, ZenonT(60)
<1>2. ASSUME NEW i \in 1..Len(rt)
      PROVE  cut[i] = [rt[i] EXCEPT !.active = FALSE] \/ cut[i] = rt[i]
  BY <1>1, ZenonT(60) DEF Disconnected
<1>3. cut = [i \in 1..Len(rt) |-> cut[i]]
  BY <1>1, ZenonT(60) DEF Disconnected
<1> HIDE DEF cut
<1>4. ASSUME NEW i \in 1..Len(rt)
      PROVE  cut[i] \in Route /\ cut[i].to = rt[i].to /\ cut[i].host = rt[i].host
  <2> DEFINE e == [rt[i] EXCEPT !.active = FALSE]
  <2>1. rt[i] \in Route
    BY ElementOfSeq, ZenonT(60)
  <2>2. e \in Route /\ e.to = rt[i].to /\ e.host = rt[i].host
    BY <2>1, ZenonT(60) DEF Route
  <2> HIDE DEF e
  <2>3. cut[i] = e \/ cut[i] = rt[i]
    BY <1>2, ZenonT(60) DEF e
  <2>4. QED
    BY <2>1, <2>2, <2>3, ZenonT(60)
<1>5. cut \in Seq(Route) /\ Len(cut) = Len(rt)
  BY <1>1, <1>3, <1>4, FunctionIsSeq, ZenonT(60)
<1>6. QED
  BY <1>4, <1>5, ZenonT(60) DEF SameEnds, cut

\* Redirecting the routes to a shard leaves the others alone.
LEMMA RedirectFacts ==
  ASSUME NEW rt \in Seq(Route), NEW sid \in Int, NEW h \in Hosts \cup {NoHost}
  PROVE  /\ SameEnds(rt, Redirected(rt, sid, h))
         /\ \A i \in 1..Len(rt) :
               Redirected(rt, sid, h)[i].host = IF rt[i].to = sid THEN h ELSE rt[i].host
<1> DEFINE led == Redirected(rt, sid, h)
<1>1. DOMAIN rt = 1..Len(rt) /\ Len(rt) \in Nat
  BY LenProperties, ZenonT(60)
<1>2. ASSUME NEW i \in 1..Len(rt)
      PROVE  led[i] = IF rt[i].to = sid THEN [rt[i] EXCEPT !.host = h] ELSE rt[i]
  BY <1>1, ZenonT(60) DEF Redirected
<1>3. led = [i \in 1..Len(rt) |-> led[i]]
  BY <1>1, ZenonT(60) DEF Redirected
<1> HIDE DEF led
<1>4. ASSUME NEW i \in 1..Len(rt)
      PROVE  /\ led[i] \in Route /\ led[i].to = rt[i].to
             /\ led[i].host = IF rt[i].to = sid THEN h ELSE rt[i].host
  <2> DEFINE e == [rt[i] EXCEPT !.host = h]
  <2>1. rt[i] \in Route
    BY ElementOfSeq, ZenonT(60)
  <2>2. e \in Route /\ e.to = rt[i].to /\ e.host = h
    BY <2>1, ZenonT(60) DEF Route
  <2> HIDE DEF e
  <2>3. led[i] = IF rt[i].to = sid THEN e ELSE rt[i]
    BY <1>2, ZenonT(60) DEF e
  <2>4. QED
    BY <2>1, <2>2, <2>3, ZenonT(60)
<1>5. led \in Seq(Route) /\ Len(led) = Len(rt)
  BY <1>1, <1>3, <1>4, FunctionIsSeq, ZenonT(60)
<1>6. QED
  BY <1>4, <1>5, ZenonT(60) DEF SameEnds, led

\* migrate_shard with unknown ids, or of a shard whose node is gone, and
\* with ids that exist.
LEMMA MigrateStep ==
  ASSUME IInv, NEW sid \in Int, NEW nid \in Int, migrate_shard(sid, nid)
  PROVE  IInv'
<1> USE DEF IInv
<1> DEFINE k == At(shards, sid)
           marked == [shards EXCEPT ![k].state = "migrating"]
           cut == Disconnected(routes, sid)
           p == Placed(marked, sid, nid)
           h == p.shards[k].host
           led == Redirected(cut, sid, h)
<1>1. /\ UNCHANGED <<functions, file, saving, up>>
      /\ requests' = requests + 1
      /\ bad' = IF Known(shards, sid) /\ Known(nodes, nid) THEN bad ELSE bad + 1
  BY ZenonT(60) DEF migrate_shard, Serve, Take
<1>2. /\ nodes \in Seq(Node) /\ shards \in Seq(Shard) /\ bad \in Nat /\ settled \in SUBSET Int
      /\ routes \in Seq(Route) /\ DOMAIN routes = 1..Len(routes) /\ Len(shards) \in Nat
      /\ file.topo[1] \in Seq(Node) /\ file.topo[2] \in Seq(Shard)
  BY LenProperties, ZenonT(60) DEF TypeOK, Topology
<1>3. bad' \in Nat /\ bad <= bad'
  BY <1>1, <1>2, SMTT(60)
<1>4. Sound(file.topo[1], file.topo[2], bad)'
  BY <1>1, <1>2, <1>3, SoundMono, ZenonT(60)
<1>5. CASE InList(shards, sid)
  <2>1. /\ nodes' = p.nodes /\ shards' = p.shards
        /\ routes' = IF p.ok THEN Resolved(led, p.shards, sid) ELSE cut
        /\ settled' = IF p.ok THEN settled \cup {sid} ELSE settled \ {sid}
    BY <1>5, ZenonT(60) DEF migrate_shard
  <2>2. k \in 1..Len(shards) /\ (Known(shards, sid) <=> k = sid + 1)
    BY <1>2, <1>5, Subscript, ZenonT(60)
  <2>3. Alike(shards, marked)
    BY <1>2, <2>2, WriteState, ZenonT(60)
  <2> HIDE DEF marked
  <2>4. marked \in Seq(Shard) /\ Len(marked) = Len(shards)
    BY <2>3, ZenonT(60) DEF Alike
  <2>5. InList(marked, sid) /\ At(marked, sid) = k
    BY <1>5, <2>4, ZenonT(60) DEF InList, At
  <2>6. PlacedWell(p, marked, sid, nid)
    BY <1>2, <2>4, <2>5, PlacedFacts, ZenonT(60)
  <2> HIDE DEF p, k
  <2>7. p.nodes \in Seq(Node) /\ p.shards \in Seq(Shard) /\ Len(p.shards) = Len(shards)
    BY <2>4, <2>6, ZenonT(60) DEF PlacedWell
  <2>8. SameEnds(routes, cut) /\ \A i \in 1..Len(routes) : cut[i].host = routes[i].host
    BY <1>2, CutFacts, ZenonT(60)
  <2> HIDE DEF cut
  <2>9. cut \in Seq(Route) /\ Len(cut) = Len(routes)
    BY <2>8, ZenonT(60) DEF SameEnds
  <2>10. h \in Hosts \cup {NoHost}
    <3>1. p.shards[k] \in Shard
      BY <2>2, <2>7, ElementOfSeq, ZenonT(60)
    <3>2. QED
      BY <3>1, ZenonT(60) DEF Shard
  <2> HIDE DEF h
  <2>11. /\ SameEnds(cut, led)
         /\ \A i \in 1..Len(cut) : led[i].host = IF cut[i].to = sid THEN h ELSE cut[i].host
    BY <2>9, <2>10, RedirectFacts, SMTT(60)
  <2> HIDE DEF led
  <2>12. /\ SameEnds(led, Resolved(led, p.shards, sid))
         /\ \A i \in 1..Len(led) :
               \/ Resolved(led, p.shards, sid)[i].host = led[i].host
               \/ Resolved(led, p.shards, sid)[i].host = p.shards[led[i].to + 1].host
    BY <2>7, <2>11, ResolvedFacts, ZenonT(60) DEF SameEnds
  <2>13. routes' \in Seq(Route)
    BY <2>1, <2>8, <2>12, ZenonT(60) DEF SameEnds
  <2>14. TypeOK'
    BY <1>1, <1>2, <1>3, <2>1, <2>7, <2>13, SMTT(60) DEF TypeOK
  <2>15. Sound(nodes', shards', bad')
    <3> SUFFICES ASSUME NEW n \in Nat
                 PROVE  Drift(nodes', shards', n) <= bad' /\ -Drift(nodes', shards', n) <= bad'
      BY DEF Sound
    <3> DEFINE d == Drift(nodes, shards, n)
               d2 == Drift(nodes', shards', n)
    <3>1. d \in Int /\ d2 \in Int
      BY <1>2, <2>14, DriftInt, ZenonT(60) DEF TypeOK
    <3>2. Drift(nodes, marked, n) = d
      BY <1>2, <2>3, AlikeDrift, ZenonT(60)
    <3>3. (Known(nodes, nid) => d2 - d = 0) /\ -1 <= d2 - d /\ d2 - d <= 1
      BY <2>1, <2>6, <3>2, ZenonT(60) DEF PlacedWell
    <3>4. d <= bad /\ -d <= bad
      BY SMTT(60) DEF Sound
    <3> HIDE DEF d, d2
    <3>5. d2 <= bad' /\ -d2 <= bad'
      BY <1>1, <1>2, <3>1, <3>3, <3>4, SMTT(60)
    <3>6. QED
      BY <3>5, SMTT(60) DEF d2
  <2>16. Led'
    <3> SUFFICES ASSUME bad' = 0
                 PROVE  \A s \in settled' :
                          /\ 0 <= s /\ s < Len(shards')
                          /\ \A i \in DOMAIN routes' :
                                routes'[i].to = s => routes'[i].host = shards'[s + 1].host
      BY ZenonT(60) DEF Led
    <3>1. bad + 1 # 0 /\ bad' = 0
      BY <1>2, SMTT(60)
    <3>2. bad = 0 /\ Known(shards, sid) /\ Known(nodes, nid)
      BY <1>1, <3>1, ZenonT(60)
    <3>3. k = sid + 1 /\ 0 <= sid /\ sid < Len(shards)
      BY <2>2, <3>2, ZenonT(60) DEF Known
    <3>4. ASSUME NEW s \in settled
          PROVE  /\ s \in Int /\ 0 <= s /\ s < Len(shards)
                 /\ \A i \in 1..Len(routes) :
                       routes[i].to = s => routes[i].host = shards[s + 1].host
      BY <1>2, <3>2, ZenonT(60) DEF Led
    <3>5. ASSUME NEW s \in Int, 0 <= s, s < Len(shards), s # sid
          PROVE  shards'[s + 1].host = shards[s + 1].host
      <4>1. s + 1 \in 1..Len(shards) /\ s + 1 # k
        BY <1>2, <3>3, <3>5, SMTT(60)
      <4>2. shards'[s + 1] = marked[s + 1]
        BY <2>1, <2>4, <2>5, <2>6, <4>1, ZenonT(60) DEF PlacedWell
      <4>3. QED
        BY <2>3, <4>1, <4>2, ZenonT(60) DEF Alike
    <3>6. CASE ~p.ok
      <4> SUFFICES ASSUME NEW s \in settled'
                   PROVE  /\ 0 <= s /\ s < Len(shards')
                          /\ \A i \in DOMAIN routes' :
                                routes'[i].to = s => routes'[i].host = shards'[s + 1].host
        BY ZenonT(60)
      <4>1. s \in settled /\ s # sid /\ routes' = cut /\ Len(shards') = Len(shards)
        BY <2>1, <2>7, <3>6, ZenonT(60)
      <4>2. DOMAIN cut = 1..Len(routes)
        BY <2>9, LenProperties, ZenonT(60)
      <4>3. /\ s \in Int /\ 0 <= s /\ s < Len(shards)
            /\ \A i \in 1..Len(routes) :
                  routes[i].to = s => routes[i].host = shards[s + 1].host
        BY <3>4, <4>1, ZenonT(60)
      <4>4. shards'[s + 1].host = shards[s + 1].host
        BY <3>5, <4>1, <4>3, ZenonT(60)
      <4>5. \A i \in 1..Len(routes) :
                cut[i].to = routes[i].to /\ cut[i].host = routes[i].host
        BY <2>8, ZenonT(60) DEF SameEnds
      <4>6. QED
        BY <4>1, <4>2, <4>3, <4>4, <4>5, ZenonT(60)
    <3>7. CASE p.ok
      <4> DEFINE res == Resolved(led, p.shards, sid)
      <4> SUFFICES ASSUME NEW s \in settled'
                   PROVE  /\ 0 <= s /\ s < Len(shards')
                          /\ \A i \in DOMAIN routes' :
                                routes'[i].to = s => routes'[i].host = shards'[s + 1].host
        BY SMTT(60)
      <4>1. (s \in settled \/ s = sid) /\ routes' = res /\ Len(shards') = Len(shards)
        BY <2>1, <2>7, <3>7, ZenonT(60)
      <4>2. s \in Int /\ 0 <= s /\ s < Len(shards)
        BY <3>3, <3>4, <4>1, ZenonT(60)
      <4>3. DOMAIN res = 1..Len(routes) /\ Len(led) = Len(routes)
        BY <2>9, <2>11, <2>12, LenProperties, ZenonT(60) DEF SameEnds
      <4>4. ASSUME NEW i \in 1..Len(routes), res[i].to = s
            PROVE  res[i].host = shards'[s + 1].host
        <5>1. led[i].to = s /\ cut[i].to = s /\ routes[i].to = s
          BY <2>8, <2>9, <2>11, <2>12, <4>3, <4>4, ZenonT(60) DEF SameEnds
        <5>2. res[i].host = led[i].host \/ res[i].host = shards'[s + 1].host
          BY <2>1, <2>12, <4>3, <5>1, ZenonT(60)
        <5>3. led[i].host = shards'[s + 1].host
          <6>1. CASE s = sid
            BY <2>1, <2>9, <2>11, <3>3, <5>1, <6>1, ZenonT(60) DEF h
          <6>2. CASE s # sid
            <7>1. led[i].host = routes[i].host
              BY <2>8, <2>9, <2>11, <5>1, <6>2, ZenonT(60)
            <7>2. QED
              BY <3>4, <3>5, <4>1, <4>2, <5>1, <6>2, <7>1, ZenonT(60)
          <6>3. QED
            BY <6>1, <6>2, ZenonT(60)
        <5>4. QED
          BY <5>2, <5>3, ZenonT(60)
      <4> HIDE DEF res
      <4>5. QED
        BY <4>1, <4>2, <4>3, <4>4, ZenonT(60)
    <3>8. QED
      BY <3>6, <3>7, ZenonT(60)
  <2>17. QED
    BY <1>4, <2>14, <2>15, <2>16, SMTT(60)
<1>6. CASE ~InList(shards, sid)
  <2>1. UNCHANGED <<nodes, shards, routes, settled>>
    BY <1>6, ZenonT(60) DEF migrate_shard
  <2>2. bad' = bad + 1
    BY <1>1, <1>2, <1>6, SMTT(60) DEF InList, Known
  <2>3. TypeOK'
    BY <1>1, <1>3, <2>1, SMTT(60) DEF TypeOK
  <2>4. QED
    BY <1>2, <1>3, <1>4, <2>1, <2>2, <2>3, SoundMono, SMTT(60) DEF Led
<1>7. QED
  BY <1>5, <1>6, SMTT(60)

\* A saved, loaded or lost topology is one the controller had.
LEMMA FileStep ==
  ASSUME IInv, SaveBegin \/ SaveEnd \/ load \/ Crash \/ RestartConfig \/ RestartEmpty
  PROVE  IInv'
<1> USE DEF IInv
<1>1. /\ Empty \in Topology /\ Empty[1] = <<>> /\ Empty[2] = <<>>
      /\ Empty[3] = <<>> /\ Empty[4] = <<>>
  BY EmptySeq, ZenonT(60) DEF Empty, Topology
<1>2. /\ topology \in Topology /\ topology[1] = nodes /\ topology[2] = shards
      /\ file.topo \in Topology /\ bad \in Nat /\ requests \in Nat
  BY ZenonT(60) DEF TypeOK, Topology, topology
<1>3. Sound(<<>>, <<>>, bad)
  BY <1>2, SoundEmpty, ZenonT(60)
<1>4. CASE SaveBegin
  <2>1. /\ UNCHANGED <<nodes, shards, functions, routes, up, bad, settled>>
        /\ file' = Torn /\ saving' = TRUE /\ requests' = requests + 1
    BY <1>4, ZenonT(60) DEF SaveBegin, Take, topology
  <2>2. TypeOK'
    BY <1>1, <1>2, <2>1, SMTT(60) DEF TypeOK, Torn
  <2>3. QED
    BY <1>1, <1>3, <2>1, <2>2, ZenonT(60) DEF Torn, Led
<1>5. CASE SaveEnd
  <2>1. /\ UNCHANGED <<nodes, shards, functions, routes, up, bad, settled, requests>>
        /\ file' = [st |-> "whole", topo |-> topology] /\ saving' = FALSE
    BY <1>5, ZenonT(60) DEF SaveEnd, topology
  <2>2. TypeOK'
    BY <1>2, <2>1, ZenonT(60) DEF TypeOK
  <2>3. QED
    BY <1>2, <2>1, <2>2, ZenonT(60) DEF Led
<1>6. CASE load
  <2>1. /\ UNCHANGED <<file, saving, up, bad>> /\ requests' = requests + 1
        /\ nodes' = file.topo[1] /\ shards' = file.topo[2]
        /\ functions' = file.topo[3] /\ routes' = file.topo[4] /\ settled' = {}
    BY <1>6, ZenonT(60) DEF load, Take, Replace
  <2>2. TypeOK'
    BY <1>2, <2>1, SMTT(60) DEF TypeOK, Topology
  <2>3. QED
    BY <2>1, <2>2, ZenonT(60) DEF Led
<1>7. CASE Crash
  <2>1. /\ UNCHANGED <<file, bad, requests>> /\ saving' = FALSE /\ up' = FALSE
        /\ nodes' = <<>> /\ shards' = <<>> /\ functions' = <<>> /\ routes' = <<>>
        /\ settled' = {}
    BY <1>1, <1>7, ZenonT(60) DEF Crash, Replace
  <2>2. TypeOK'
    BY <1>2, <2>1, EmptySeq, ZenonT(60) DEF TypeOK
  <2>3. QED
    BY <1>3, <2>1, <2>2, ZenonT(60) DEF Led
<1>8. CASE RestartConfig
  <2>1. /\ UNCHANGED <<file, saving, bad, requests>> /\ up' = TRUE
        /\ nodes' = file.topo[1] /\ shards' = file.topo[2]
        /\ functions' = file.topo[3] /\ routes' = file.topo[4] /\ settled' = {}
    BY <1>8, ZenonT(60) DEF RestartConfig, Replace
  <2>2. TypeOK'
    BY <1>2, <2>1, ZenonT(60) DEF TypeOK, Topology
  <2>3. QED
    BY <2>1, <2>2, ZenonT(60) DEF Led
<1>9. CASE RestartEmpty
  <2>1. UNCHANGED <<nodes, shards, functions, routes, file, saving, bad, settled, requests>> /\ up' = TRUE
    BY <1>9, ZenonT(60) DEF RestartEmpty, topology
  <2>2. TypeOK'
    BY <2>1, ZenonT(60) DEF TypeOK
  <2>3. QED
    BY <2>1, <2>2, ZenonT(60) DEF Led
<1>10. QED
  BY <1>4, <1>5, <1>6, <1>7, <1>8, <1>9, ZenonT(60)

\* Every request, crash and restart preserves the invariant.
LEMMA NextIInv == IInv /\ [Next]_vars => IInv'
<1> SUFFICES ASSUME IInv, [Next]_vars PROVE IInv'
  BY ZenonT(60)
<1>1. NodeIds \subseteq Int /\ ShardIds \subseteq Int /\ FuncIds \subseteq Int
  BY BoundAssumption, SMTT(60) DEF NodeIds, ShardIds, FuncIds
<1>2. ASSUME NEW s \in ShardIds, NEW n \in NodeIds, place_shard(s, n) PROVE IInv'
  BY <1>1, <1>2, PlaceStep, ZenonT(60)
<1>3. ASSUME NEW s \in ShardIds, add_function(s) PROVE IInv'
  BY <1>1, <1>3, AddFunctionStep, ZenonT(60)
<1>4. ASSUME NEW f \in FuncIds, NEW s \in ShardIds, move_function(f, s) PROVE IInv'
  BY <1>1, <1>4, MoveFunctionStep, ZenonT(60)
<1>5. ASSUME NEW s \in ShardIds, NEW t \in ShardIds, NEW h \in Hosts \cup {NoHost},
             add_route(s, t, h, 1)
      PROVE  IInv'
  BY <1>1, <1>5, AddRouteStep, ZenonT(60)
<1>6. ASSUME NEW s \in ShardIds, resolve_routes(s) PROVE IInv'
  BY <1>1, <1>6, ResolveStep, SMTT(60)
<1>7. ASSUME NEW s \in ShardIds, NEW n \in NodeIds, migrate_shard(s, n) PROVE IInv'
  BY <1>1, <1>7, MigrateStep, SMTT(60)
<1>8. CASE UNCHANGED vars
  BY <1>8, ZenonT(60) DEF vars, topology, IInv, TypeOK, Led
<1>9. QED
  BY <1>2, <1>3, <1>4, <1>5, <1>6, <1>7, <1>8, AddNodeStep, AddShardStep, FileStep, ZenonT(60) DEF Next

\* The invariant holds of every state the controller reaches.
LEMMA Invariant == Spec => []IInv
  BY InitIInv, NextIInv, PTL DEF Spec

-----------------------------------------------------------------------------
(* Who owns a function *)

\* Without a function: list.remove takes it out of a list that has it once.
Dropped(new, list, x) ==
    /\ new \in Seq(Int) /\ Distinct(new)
    /\ \A y : Lists(new, y) <=> (Lists(list, y) /\ y # x)

\* With a function: append puts it into a list that did not have it.
Added(new, list, x) ==
    /\ new \in Seq(Int) /\ Distinct(new)
    /\ \A y : Lists(new, y) <=> (Lists(list, y) \/ y = x)

\* append does that.
LEMMA AppendAdds ==
  ASSUME NEW list \in Seq(Int), NEW x \in Int, Distinct(list), ~Lists(list, x)
  PROVE  Added(Append(list, x), list, x)
<1>1. PICK new, n : new = Append(list, x) /\ n = Len(list)
  BY ZenonT(60)
<1>2. /\ new \in Seq(Int) /\ n \in Nat /\ DOMAIN list = 1..n /\ DOMAIN new = 1..(n + 1)
      /\ new[n + 1] = x /\ \A i \in 1..n : new[i] = list[i]
  BY <1>1, AppendProperties, LenProperties, SMTT(60)
<1>3. \A i \in 1..n : list[i] # x
  BY <1>2, ZenonT(60) DEF Lists
<1>4. Distinct(new)
  BY <1>2, <1>3, SMTT(60) DEF Distinct
<1>5. ASSUME NEW y PROVE Lists(new, y) <=> (Lists(list, y) \/ y = x)
  <2>1. ASSUME Lists(new, y), y # x PROVE Lists(list, y)
    <3>1. PICK i \in 1..(n + 1) : new[i] = y
      BY <1>2, <2>1, ZenonT(60) DEF Lists
    <3>2. i \in 1..n
      BY <1>2, <2>1, <3>1, SMTT(60)
    <3>3. QED
      BY <1>2, <3>1, <3>2, ZenonT(60) DEF Lists
  <2>2. ASSUME Lists(list, y) PROVE Lists(new, y)
    <3>1. PICK i \in 1..n : list[i] = y
      BY <1>2, <2>2, ZenonT(60) DEF Lists
    <3>2. i \in 1..(n + 1) /\ new[i] = y
      BY <1>2, <3>1, SMTT(60)
    <3>3. QED
      BY <1>2, <3>2, ZenonT(60) DEF Lists
  <2>3. Lists(new, x)
    <3>1. n + 1 \in DOMAIN new
      BY <1>2, SMTT(60)
    <3>2. QED
      BY <1>2, <3>1, ZenonT(60) DEF Lists
  <2>4. QED
    BY <2>1, <2>2, <2>3, ZenonT(60)
<1>6. QED
  BY <1>1, <1>2, <1>4, <1>5, ZenonT(60) DEF Added

\* The list new is the list of length n without its entry k.
Closed(new, list, n, k) ==
    /\ new \in Seq(Int) /\ Len(new) = n - 1
    /\ \A i \in 1..(n - 1) : new[i] = IF i < k THEN list[i] ELSE list[i + 1]

\* What list.remove leaves is the list with a gap closed.
LEMMA WithoutAt ==
  ASSUME NEW list \in Seq(Int), NEW x, Lists(list, x)
  PROVE  \E k \in 1..Len(list) : list[k] = x /\ Closed(Without(list, x), list, Len(list), k)
<1> DEFINE first(i) == list[i] = x /\ \A j \in 1..(i - 1) : list[j] # x
           c == CHOOSE i \in DOMAIN list : first(i)
<1>1. \E i \in DOMAIN list : first(i)
  BY FirstOf, ZenonT(60) DEF Lists
<1>2. c \in DOMAIN list /\ list[c] = x
  BY <1>1, ZenonT(60)
<1>3. Without(list, x) = SubSeq(list, 1, c - 1) \o SubSeq(list, c + 1, Len(list))
  BY ZenonT(60) DEF Without, Lists
<1>4. PICK k, n : k = c /\ n = Len(list)
  BY ZenonT(60)
<1> HIDE DEF c
<1>5. n \in Nat /\ k \in 1..n /\ list[k] = x /\ \A i \in 1..n : list[i] \in Int
  BY <1>2, <1>4, LenProperties, ElementOfSeq, ZenonT(60)
<1>6. PICK a, b : a = SubSeq(list, 1, k - 1) /\ b = SubSeq(list, k + 1, n)
  BY ZenonT(60)
<1>7. /\ a \in Seq(Int) /\ Len(a) = k - 1 /\ \A i \in 1..(k - 1) : a[i] = list[i]
  <2>1. /\ a \in Seq(Int) /\ Len(a) = IF 1 <= k - 1 THEN (k - 1) - 1 + 1 ELSE 0
        /\ \A i \in 1..((k - 1) - 1 + 1) : a[i] = list[1 + i - 1]
    BY <1>5, <1>6, SubSeqProperties, SMTT(60)
  <2>2. QED
    BY <1>5, <2>1, SMTT(60)
<1>8. /\ b \in Seq(Int) /\ Len(b) = n - k /\ \A i \in 1..(n - k) : b[i] = list[k + i]
  <2>1. /\ b \in Seq(Int) /\ Len(b) = IF k + 1 <= n THEN n - (k + 1) + 1 ELSE 0
        /\ \A i \in 1..(n - (k + 1) + 1) : b[i] = list[k + 1 + i - 1]
    BY <1>5, <1>6, SubSeqProperties, SMTT(60)
  <2>2. QED
    BY <1>5, <2>1, SMTT(60)
<1>9. /\ a \o b \in Seq(Int) /\ Len(a \o b) = Len(a) + Len(b)
      /\ \A i \in 1..(Len(a) + Len(b)) : (a \o b)[i] = IF i <= Len(a) THEN a[i] ELSE b[i - Len(a)]
  BY <1>7, <1>8, ConcatProperties, ZenonT(60)
<1>10. PICK w : w = a \o b
  BY ZenonT(60)
<1>11. w \in Seq(Int) /\ Len(w) = n - 1
  BY <1>5, <1>7, <1>8, <1>9, <1>10, SMTT(60)
<1>12. ASSUME NEW i \in 1..(n - 1) PROVE w[i] = IF i < k THEN list[i] ELSE list[i + 1]
  <2>1. w[i] = IF i <= k - 1 THEN a[i] ELSE b[i - (k - 1)]
    <3>1. PICK la, lb : la = Len(a) /\ lb = Len(b)
      BY ZenonT(60)
    <3>2. la = k - 1 /\ lb = n - k /\ i \in 1..(la + lb)
      BY <1>5, <1>7, <1>8, <3>1, SMTT(60)
    <3>3. w[i] = IF i <= la THEN a[i] ELSE b[i - la]
      BY <1>9, <1>10, <3>1, <3>2, ZenonT(60)
    <3>4. QED
      BY <3>2, <3>3, ZenonT(60)
  <2>2. CASE i < k
    BY <1>5, <1>7, <2>1, <2>2, SMTT(60)
  <2>3. CASE ~(i < k)
    <3>1. i - (k - 1) \in 1..(n - k) /\ k + (i - (k - 1)) = i + 1
      BY <1>5, <2>3, SMTT(60)
    <3>2. b[i - (k - 1)] = list[i + 1]
      BY <1>8, <3>1, ZenonT(60)
    <3>3. QED
      BY <1>5, <2>1, <2>3, <3>2, SMTT(60)
  <2>4. QED
    BY <2>2, <2>3, ZenonT(60)
<1>13. Without(list, x) = w
  BY <1>3, <1>4, <1>6, <1>10, ZenonT(60)
<1>14. Closed(w, list, n, k)
  BY <1>11, <1>12, ZenonT(60) DEF Closed
<1>15. QED
  BY <1>4, <1>5, <1>13, <1>14, ZenonT(60)

\* So list.remove takes the function out.
LEMMA WithoutDrops ==
  ASSUME NEW list \in Seq(Int), NEW x, Lists(list, x), Distinct(list)
  PROVE  Dropped(Without(list, x), list, x)
<1>1. PICK new, n : new = Without(list, x) /\ n = Len(list)
  BY ZenonT(60)
<1>a. PICK k \in 1..n : list[k] = x /\ Closed(new, list, n, k)
  BY <1>1, WithoutAt, ZenonT(60)
<1>2. /\ k \in 1..n /\ list[k] = x /\ new \in Seq(Int) /\ Len(new) = n - 1
      /\ \A i \in 1..(n - 1) : new[i] = IF i < k THEN list[i] ELSE list[i + 1]
  BY <1>a, ZenonT(60) DEF Closed
<1>3. n \in Nat /\ DOMAIN list = 1..n /\ DOMAIN new = 1..(n - 1)
  BY <1>1, <1>2, LenProperties, ZenonT(60)
<1>4. PICK at : at = [i \in 1..(n - 1) |-> IF i < k THEN i ELSE i + 1]
  BY ZenonT(60)
<1>5. ASSUME NEW i \in 1..(n - 1) PROVE at[i] \in 1..n /\ at[i] # k /\ new[i] = list[at[i]]
  <2>1. at[i] = IF i < k THEN i ELSE i + 1
    BY <1>4, ZenonT(60)
  <2>2. new[i] = IF i < k THEN list[i] ELSE list[i + 1]
    BY <1>2, ZenonT(60)
  <2>3. at[i] \in 1..n /\ at[i] # k
    BY <1>3, <2>1, SMTT(60)
  <2>4. QED
    BY <2>1, <2>2, <2>3, ZenonT(60)
<1>6. ASSUME NEW i \in 1..(n - 1), NEW j \in 1..(n - 1), at[i] = at[j] PROVE i = j
  <2>1. (IF i < k THEN i ELSE i + 1) = (IF j < k THEN j ELSE j + 1)
    BY <1>4, <1>6, ZenonT(60)
  <2>2. QED
    BY <1>a, <1>3, <2>1, SMTT(60)
<1>7. \A j \in 1..n : j # k => \E i \in 1..(n - 1) : at[i] = j
  <2> SUFFICES ASSUME NEW j \in 1..n, j # k PROVE \E i \in 1..(n - 1) : at[i] = j
    BY ZenonT(60)
  <2>1. CASE j < k
    <3>1. j \in 1..(n - 1) /\ at[j] = j
      BY <1>2, <1>3, <1>4, <2>1, SMTT(60)
    <3>2. QED
      BY <3>1, ZenonT(60)
  <2>2. CASE j > k
    <3>1. j - 1 \in 1..(n - 1) /\ at[j - 1] = j
      BY <1>2, <1>3, <1>4, <2>2, SMTT(60)
    <3>2. QED
      BY <3>1, ZenonT(60)
  <2>3. QED
    BY <1>2, <1>3, <2>1, <2>2, SMTT(60)
<1>8. \A i, j \in 1..n : list[i] = list[j] => i = j
  BY <1>3, ZenonT(60) DEF Distinct
<1>9. Distinct(new)
  BY <1>3, <1>5, <1>6, <1>8, SMTT(60) DEF Distinct
<1>10. ASSUME NEW y PROVE Lists(new, y) <=> (Lists(list, y) /\ y # x)
  <2>1. ASSUME Lists(new, y) PROVE Lists(list, y) /\ y # x
    <3>1. PICK i \in 1..(n - 1) : new[i] = y
      BY <1>3, <2>1, ZenonT(60) DEF Lists
    <3>2. at[i] \in 1..n /\ list[at[i]] = y /\ at[i] # k
      BY <1>5, <3>1, ZenonT(60)
    <3>3. QED
      BY <1>2, <1>3, <1>8, <3>2, ZenonT(60) DEF Lists
  <2>2. ASSUME Lists(list, y), y # x PROVE Lists(new, y)
    <3>1. PICK j \in 1..n : list[j] = y
      BY <1>3, <2>2, ZenonT(60) DEF Lists
    <3>2. PICK i \in 1..(n - 1) : at[i] = j
      BY <1>2, <1>7, <2>2, <3>1, ZenonT(60)
    <3>3. QED
      BY <1>3, <1>5, <3>1, <3>2, ZenonT(60) DEF Lists
  <2>3. QED
    BY <2>1, <2>2, ZenonT(60)
<1>11. QED
  BY <1>1, <1>2, <1>9, <1>10, ZenonT(60) DEF Dropped

\* Owned, of what the lists contain.
Keeps(sh, fn) ==
    /\ \A f \in 0..(Len(fn) - 1) :
          fn[f + 1] \in 0..(Len(sh) - 1) /\ Lists(sh[fn[f + 1] + 1].functions, f)
    /\ \A s \in 1..Len(sh) :
          /\ Distinct(sh[s].functions)
          /\ \A f : Lists(sh[s].functions, f) => f \in 0..(Len(fn) - 1) /\ fn[f + 1] = s - 1

\* They say the same.
LEMMA OwnedKeeps ==
  ASSUME NEW sh \in Seq(Shard), NEW fn
  PROVE  Owned(sh, fn) <=> Keeps(sh, fn)
<1>1. DOMAIN sh = 1..Len(sh)
  BY LenProperties, ZenonT(60)
<1>2. ASSUME NEW s \in DOMAIN sh
      PROVE  (\A i \in DOMAIN sh[s].functions :
                 LET f == sh[s].functions[i] IN f \in 0..(Len(fn) - 1) /\ fn[f + 1] = s - 1)
             <=> \A f : Lists(sh[s].functions, f) => f \in 0..(Len(fn) - 1) /\ fn[f + 1] = s - 1
  BY ZenonT(60) DEF Lists
<1>3. QED
  BY <1>1, <1>2, ZenonT(60) DEF Owned, Keeps

\* Shards with the same lists.
LEMMA KeepsSame ==
  ASSUME NEW sh, NEW sh2, NEW fn, Keeps(sh, fn), Len(sh2) = Len(sh), Len(sh) \in Nat,
         \A s \in 1..Len(sh) : sh2[s].functions = sh[s].functions
  PROVE  Keeps(sh2, fn)
<1>1. ASSUME NEW f \in 0..(Len(fn) - 1) PROVE fn[f + 1] + 1 \in 1..Len(sh)
  <2>1. fn[f + 1] \in 0..(Len(sh) - 1)
    BY ZenonT(60) DEF Keeps
  <2>2. QED
    BY <2>1, SMTT(60)
<1>2. QED
  BY <1>1, ZenonT(60) DEF Keeps

\* Another shard, without functions.
LEMMA KeepsMore ==
  ASSUME NEW sh, NEW sh2, NEW fn, Keeps(sh, fn), Len(sh2) = Len(sh) + 1, Len(sh) \in Nat,
         \A s \in 1..Len(sh) : sh2[s] = sh[s], sh2[Len(sh) + 1].functions = <<>>
  PROVE  Keeps(sh2, fn)
<1>1. PICK n \in Nat : n = Len(sh)
  BY ZenonT(60)
<1>2. ASSUME NEW f \in 0..(Len(fn) - 1)
      PROVE  fn[f + 1] \in 0..n /\ Lists(sh2[fn[f + 1] + 1].functions, f)
  <2>1. fn[f + 1] \in 0..(n - 1) /\ Lists(sh[fn[f + 1] + 1].functions, f)
    BY <1>1, ZenonT(60) DEF Keeps
  <2>2. fn[f + 1] + 1 \in 1..n
    BY <1>1, <2>1, SMTT(60)
  <2>3. QED
    BY <1>1, <2>1, <2>2, SMTT(60)
<1>3. Distinct(<<>>) /\ \A f : ~Lists(<<>>, f)
  BY DEF Distinct, Lists
<1>4. ASSUME NEW s \in 1..(n + 1)
      PROVE  /\ Distinct(sh2[s].functions)
             /\ \A f : Lists(sh2[s].functions, f) => f \in 0..(Len(fn) - 1) /\ fn[f + 1] = s - 1
  <2>1. CASE s = n + 1
    BY <1>1, <1>3, <2>1, ZenonT(60)
  <2>2. CASE s # n + 1
    <3>1. s \in 1..n
      BY <1>1, <2>2, SMTT(60)
    <3>2. QED
      BY <1>1, <3>1, ZenonT(60) DEF Keeps
  <2>3. QED
    BY <2>1, <2>2, ZenonT(60)
<1>5. QED
  BY <1>1, <1>2, <1>4, SMTT(60) DEF Keeps

\* Function n is new, with owner o.
NewFunction(sh, sh2, fn, fn2, n, o) ==
    /\ n \in Nat /\ n = Len(fn) /\ Len(sh2) = Len(sh) /\ Len(sh) \in Nat /\ o \in 0..(Len(sh) - 1)
    /\ Len(fn2) = n + 1 /\ fn2[n + 1] = o /\ \A f \in 1..n : fn2[f] = fn[f]
    /\ Added(sh2[o + 1].functions, sh[o + 1].functions, n)
    /\ \A s \in 1..Len(sh) : s # o + 1 => sh2[s].functions = sh[s].functions

\* A new function, listed by its owner.
LEMMA KeepsAdded ==
  ASSUME NEW sh, NEW sh2, NEW fn, NEW fn2, NEW n, NEW o,
         Keeps(sh, fn), NewFunction(sh, sh2, fn, fn2, n, o)
  PROVE  Keeps(sh2, fn2)
<1> USE DEF NewFunction
<1>1. ASSUME NEW f \in 0..n
      PROVE  fn2[f + 1] \in 0..(Len(sh) - 1) /\ Lists(sh2[fn2[f + 1] + 1].functions, f)
  <2>1. CASE f = n
    BY <2>1, ZenonT(60) DEF Added
  <2>2. CASE f # n
    <3>1. f \in 0..(n - 1) /\ fn2[f + 1] = fn[f + 1]
      BY <2>2, SMTT(60)
    <3>2. fn[f + 1] \in 0..(Len(sh) - 1) /\ Lists(sh[fn[f + 1] + 1].functions, f)
      BY <3>1, ZenonT(60) DEF Keeps
    <3>3. fn[f + 1] + 1 \in 1..Len(sh)
      BY <3>2, SMTT(60)
    <3>4. CASE fn[f + 1] + 1 = o + 1
      BY <3>1, <3>2, <3>4, ZenonT(60) DEF Added
    <3>5. CASE fn[f + 1] + 1 # o + 1
      BY <3>1, <3>2, <3>3, <3>5, ZenonT(60)
    <3>6. QED
      BY <3>4, <3>5, ZenonT(60)
  <2>3. QED
    BY <2>1, <2>2, ZenonT(60)
<1>2. ASSUME NEW s \in 1..Len(sh)
      PROVE  /\ Distinct(sh2[s].functions)
             /\ \A f : Lists(sh2[s].functions, f) => f \in 0..n /\ fn2[f + 1] = s - 1
  <2>1. /\ Distinct(sh[s].functions)
        /\ \A f : Lists(sh[s].functions, f) => f \in 0..(n - 1) /\ fn[f + 1] = s - 1
    BY ZenonT(60) DEF Keeps
  <2>2. \A f \in 0..(n - 1) : f \in 0..n /\ fn2[f + 1] = fn[f + 1]
    BY SMTT(60)
  <2>3. CASE s = o + 1
    <3>1. Distinct(sh2[s].functions) /\ \A f : Lists(sh2[s].functions, f) => (Lists(sh[s].functions, f) \/ f = n)
      BY <2>3, ZenonT(60) DEF Added
    <3>2. fn2[n + 1] = s - 1 /\ n \in 0..n
      BY <2>3, SMTT(60)
    <3>3. QED
      BY <2>1, <2>2, <3>1, <3>2, ZenonT(60)
  <2>4. CASE s # o + 1
    BY <2>1, <2>2, <2>4, ZenonT(60)
  <2>5. QED
    BY <2>3, <2>4, ZenonT(60)
<1>3. QED
  BY <1>1, <1>2, SMTT(60) DEF Keeps

\* Function x goes from shard o to shard t, by way of the lists mid.
MovedFunction(sh, mid, sh2, fn, fn2, n, x, o, t) ==
    /\ n \in Nat /\ n = Len(fn) /\ Len(sh2) = Len(sh) /\ Len(sh) \in Nat
    /\ x \in 0..(n - 1) /\ o = fn[x + 1] /\ t \in 0..(Len(sh) - 1)
    /\ Len(fn2) = n /\ fn2[x + 1] = t /\ \A f \in 1..n : f # x + 1 => fn2[f] = fn[f]
    /\ Dropped(mid[o + 1].functions, sh[o + 1].functions, x)
    /\ \A s \in 1..Len(sh) : s # o + 1 => mid[s].functions = sh[s].functions
    /\ Added(sh2[t + 1].functions, mid[t + 1].functions, x)
    /\ \A s \in 1..Len(sh) : s # t + 1 => sh2[s].functions = mid[s].functions

\* A function that leaves its owner's list and enters another.
LEMMA KeepsMoved ==
  ASSUME NEW sh, NEW mid, NEW sh2, NEW fn, NEW fn2, NEW n, NEW x, NEW o, NEW t,
         Keeps(sh, fn), MovedFunction(sh, mid, sh2, fn, fn2, n, x, o, t)
  PROVE  Keeps(sh2, fn2)
<1> USE DEF MovedFunction
<1>1. \A s \in 1..Len(sh) : \A f : Lists(mid[s].functions, f) <=> (Lists(sh[s].functions, f) /\ f # x)
  <2> SUFFICES ASSUME NEW s \in 1..Len(sh), NEW f
               PROVE  Lists(mid[s].functions, f) <=> (Lists(sh[s].functions, f) /\ f # x)
    BY ZenonT(60)
  <2>1. CASE s = o + 1
    BY <2>1, ZenonT(60) DEF Dropped
  <2>2. CASE s # o + 1
    <3>1. mid[s].functions = sh[s].functions
      BY <2>2, ZenonT(60)
    <3>2. Lists(sh[s].functions, f) => f # x
      <4>1. Lists(sh[s].functions, f) => fn[f + 1] = s - 1
        BY ZenonT(60) DEF Keeps
      <4>2. o \in 0..(Len(sh) - 1)
        BY ZenonT(60) DEF Keeps
      <4>3. o # s - 1
        BY <2>2, <4>2, SMTT(60)
      <4>4. QED
        BY <4>1, <4>3, ZenonT(60)
    <3>3. QED
      BY <3>1, <3>2, ZenonT(60)
  <2>3. QED
    BY <2>1, <2>2, ZenonT(60)
<1>2. \A s \in 1..Len(sh) : Distinct(mid[s].functions)
  BY ZenonT(60) DEF Dropped, Keeps
<1>3. \A s \in 1..Len(sh) : \A f :
         Lists(sh2[s].functions, f) <=> (Lists(mid[s].functions, f) \/ (s = t + 1 /\ f = x))
  BY ZenonT(60) DEF Added
<1>4. \A s \in 1..Len(sh) : Distinct(sh2[s].functions)
  BY <1>2, ZenonT(60) DEF Added
<1>5. ASSUME NEW f \in 0..(n - 1)
      PROVE  fn2[f + 1] \in 0..(Len(sh) - 1) /\ Lists(sh2[fn2[f + 1] + 1].functions, f)
  <2>1. CASE f = x
    <3>1. fn2[f + 1] = t /\ t + 1 \in 1..Len(sh)
      BY <2>1, SMTT(60)
    <3>2. QED
      BY <1>3, <2>1, <3>1, ZenonT(60)
  <2>2. CASE f # x
    <3>1. fn2[f + 1] = fn[f + 1]
      BY <2>2, SMTT(60)
    <3>2. fn[f + 1] \in 0..(Len(sh) - 1) /\ Lists(sh[fn[f + 1] + 1].functions, f)
      BY ZenonT(60) DEF Keeps
    <3>3. fn[f + 1] + 1 \in 1..Len(sh)
      BY <3>2, SMTT(60)
    <3>4. QED
      BY <1>1, <1>3, <2>2, <3>1, <3>2, <3>3, ZenonT(60)
  <2>3. QED
    BY <2>1, <2>2, ZenonT(60)
<1>6. ASSUME NEW s \in 1..Len(sh), NEW f, Lists(sh2[s].functions, f)
      PROVE  f \in 0..(n - 1) /\ fn2[f + 1] = s - 1
  <2>1. CASE f = x
    <3>1. s = t + 1
      BY <1>1, <1>3, <1>6, <2>1, ZenonT(60)
    <3>2. QED
      BY <2>1, <3>1, SMTT(60)
  <2>2. CASE f # x
    <3>1. Lists(sh[s].functions, f)
      BY <1>1, <1>3, <1>6, <2>2, ZenonT(60)
    <3>2. f \in 0..(n - 1) /\ fn[f + 1] = s - 1
      BY <3>1, ZenonT(60) DEF Keeps
    <3>3. QED
      BY <2>2, <3>2, SMTT(60)
  <2>3. QED
    BY <2>1, <2>2, ZenonT(60)
<1>7. QED
  BY <1>4, <1>5, <1>6, ZenonT(60) DEF Keeps

\* As long as every request names ids that exist, the topology and the one in
\* the file have their owners right.
OInv == bad = 0 => Owned(shards, functions) /\ Owned(file.topo[2], file.topo[3])

\* An id that exists is a place in the list.
LEMMA KnownAt ==
  ASSUME NEW S, NEW list \in Seq(S), NEW i \in Int, Known(list, i)
  PROVE  /\ InList(list, i) /\ At(list, i) = i + 1
         /\ i \in 0..(Len(list) - 1) /\ i + 1 \in 1..Len(list)
  BY LenProperties, SMTT(60) DEF Known, InList, At

\* A request that keeps bad at 0 named ids that exist.
LEMMA ServedOk ==
  ASSUME IInv, OInv, NEW ok \in BOOLEAN, Serve(ok), bad' = 0
  PROVE  /\ ok /\ file' = file
         /\ shards \in Seq(Shard) /\ functions \in Seq(Int)
         /\ Keeps(shards, functions) /\ Owned(file.topo[2], file.topo[3])
<1>1. bad \in Nat /\ shards \in Seq(Shard) /\ functions \in Seq(Int)
  BY ZenonT(60) DEF IInv, TypeOK
<1>2. ok /\ bad = 0 /\ file' = file
  BY <1>1, SMTT(60) DEF Serve
<1>3. QED
  BY <1>1, <1>2, OwnedKeeps, ZenonT(60) DEF OInv

\* The new topology has its owners right.
LEMMA ServedOwned ==
  ASSUME IInv, IInv', NEW ok \in BOOLEAN, Serve(ok), OInv,
         bad' = 0 => Keeps(shards', functions')
  PROVE  OInv'
<1>1. shards' \in Seq(Shard)
  BY ZenonT(60) DEF IInv, TypeOK
<1>2. bad' = 0 => Owned(shards', functions')
  BY <1>1, OwnedKeeps, ZenonT(60)
<1>3. bad' = 0 => Owned(file'.topo[2], file'.topo[3])
  BY ServedOk, ZenonT(60)
<1>4. QED
  BY <1>2, <1>3, ZenonT(60) DEF OInv

\* place_shard and migrate_shard change no list of functions.
LEMMA PlaceOwned ==
  ASSUME IInv, IInv', OInv, NEW sid \in Int, NEW nid \in Int,
         place_shard(sid, nid) \/ migrate_shard(sid, nid)
  PROVE  OInv'
<1>1. PICK ok \in BOOLEAN : Serve(ok)
  BY ZenonT(60) DEF place_shard, migrate_shard, Known
<1>2. nodes \in Seq(Node) /\ shards \in Seq(Shard) /\ Len(shards) \in Nat /\ functions' = functions
  BY LenProperties, ZenonT(60) DEF IInv, TypeOK, place_shard, migrate_shard
<1>3. Len(shards') = Len(shards) /\ \A s \in 1..Len(shards) : shards'[s].functions = shards[s].functions
  <2>1. CASE ~InList(shards, sid)
    BY <2>1, ZenonT(60) DEF place_shard, migrate_shard
  <2>2. CASE InList(shards, sid) /\ place_shard(sid, nid)
    <3>1. PlacedWell(Placed(shards, sid, nid), shards, sid, nid)
      BY <1>2, <2>2, PlacedFacts, ZenonT(60)
    <3>2. shards' = Placed(shards, sid, nid).shards
      BY <2>2, ZenonT(60) DEF place_shard
    <3>3. QED
      BY <3>1, <3>2, ZenonT(60) DEF PlacedWell
  <2>3. CASE InList(shards, sid) /\ migrate_shard(sid, nid)
    <3>1. PICK marked : marked = [shards EXCEPT ![At(shards, sid)].state = "migrating"]
      BY ZenonT(60)
    <3>2. At(shards, sid) \in 1..Len(shards)
      BY <1>2, <2>3, Subscript, ZenonT(60)
    <3>3. marked \in Seq(Shard) /\ Len(marked) = Len(shards)
      BY <1>2, <3>1, <3>2, WriteState, ZenonT(60) DEF Alike
    <3>4. \A s \in 1..Len(shards) : marked[s].functions = shards[s].functions
      <4>1. \A s \in 1..Len(shards) : shards[s] \in Shard
        BY <1>2, ElementOfSeq, ZenonT(60)
      <4>2. DOMAIN shards = 1..Len(shards)
        BY <1>2, LenProperties, ZenonT(60)
      <4>3. QED
        BY <3>1, <4>1, <4>2, ZenonT(60) DEF Shard
    <3>5. InList(marked, sid) /\ At(marked, sid) = At(shards, sid)
      BY <2>3, <3>3, ZenonT(60) DEF InList, At
    <3>6. PlacedWell(Placed(marked, sid, nid), marked, sid, nid)
      BY <1>2, <3>3, <3>5, PlacedFacts, ZenonT(60)
    <3>7. shards' = Placed(marked, sid, nid).shards
      BY <2>3, <3>1, ZenonT(60) DEF migrate_shard
    <3>8. Len(shards') = Len(marked) /\ \A s \in 1..Len(marked) : shards'[s].functions = marked[s].functions
      BY <3>6, <3>7, ZenonT(60) DEF PlacedWell
    <3>9. QED
      BY <3>3, <3>4, <3>8, ZenonT(60)
  <2>4. QED
    BY <2>1, <2>2, <2>3, ZenonT(60)
<1>4. ASSUME bad' = 0 PROVE Keeps(shards', functions')
  <2>1. Keeps(shards, functions)
    BY <1>1, <1>4, ServedOk, ZenonT(60)
  <2>2. QED
    BY <1>2, <1>3, <2>1, KeepsSame, ZenonT(60)
<1>5. QED
  BY <1>1, <1>4, ServedOwned, ZenonT(60)

\* add_shard: the new shard has no functions.
LEMMA AddShardOwned ==
  ASSUME IInv, IInv', OInv, add_shard
  PROVE  OInv'
<1>1. Serve(TRUE) /\ functions' = functions
  BY ZenonT(60) DEF add_shard
<1>2. shards \in Seq(Shard) /\ Len(shards) \in Nat
  BY LenProperties, ZenonT(60) DEF IInv, TypeOK
<1>3. PICK e : e = [node |-> -1, host |-> NoHost, state |-> "stopped", functions |-> <<>>]
  BY ZenonT(60)
<1>4. e \in Shard /\ e.functions = <<>>
  BY <1>3, EmptySeq, SMTT(60) DEF Shard
<1>5. shards' = Append(shards, e)
  BY <1>3, ZenonT(60) DEF add_shard
<1>6. /\ Len(shards') = Len(shards) + 1 /\ shards'[Len(shards) + 1].functions = <<>>
      /\ \A s \in 1..Len(shards) : shards'[s] = shards[s]
  BY <1>2, <1>4, <1>5, AppendProperties, SMTT(60)
<1>7. ASSUME bad' = 0 PROVE Keeps(shards', functions')
  <2>1. Keeps(shards, functions)
    BY <1>1, <1>7, ServedOk, ZenonT(60)
  <2>2. QED
    BY <1>1, <1>2, <1>6, <2>1, KeepsMore, ZenonT(60)
<1>8. QED
  BY <1>1, <1>7, ServedOwned, ZenonT(60)

\* Writing the list of functions of one shard.
LEMMA WriteLists ==
  ASSUME NEW sh \in Seq(Shard), NEW s \in 1..Len(sh), NEW fs \in Seq(Int),
         NEW sh2, sh2 = [sh EXCEPT ![s].functions = fs]
  PROVE  /\ sh2 \in Seq(Shard) /\ Len(sh2) = Len(sh) /\ sh2[s].functions = fs
         /\ \A i \in 1..Len(sh) : i # s => sh2[i].functions = sh[i].functions
<1>1. sh2 \in Seq(Shard) /\ Len(sh2) = Len(sh)
  BY WriteFunctions, SMTT(60) DEF Alike
<1>2. DOMAIN sh = 1..Len(sh) /\ sh[s] \in Shard
  BY LenProperties, ElementOfSeq, ZenonT(60)
<1>3. QED
  BY <1>1, <1>2, ZenonT(60) DEF Shard

\* add_function: the new function is one no shard lists.
LEMMA AddFunctionOwned ==
  ASSUME IInv, IInv', OInv, NEW owner \in Int, add_function(owner)
  PROVE  OInv'
<1>1. PICK ok \in BOOLEAN : ok = Known(shards, owner)
  BY ZenonT(60) DEF Known
<1>2. Serve(ok)
  BY <1>1, ZenonT(60) DEF add_function
<1>3. ASSUME bad' = 0 PROVE Keeps(shards', functions')
  <2>1. /\ Known(shards, owner) /\ shards \in Seq(Shard) /\ functions \in Seq(Int)
        /\ Keeps(shards, functions)
    BY <1>1, <1>2, <1>3, ServedOk, ZenonT(60)
  <2>2. /\ InList(shards, owner) /\ At(shards, owner) = owner + 1
        /\ owner \in 0..(Len(shards) - 1) /\ owner + 1 \in 1..Len(shards)
    BY <2>1, KnownAt, ZenonT(60)
  <2>3. PICK n \in Nat : n = Len(functions)
    BY <2>1, LenProperties, ZenonT(60)
  <2>4. PICK fs : fs = Append(shards[owner + 1].functions, n)
    BY ZenonT(60)
  <2>5. shards[owner + 1] \in Shard
    BY <2>1, <2>2, ElementOfSeq, ZenonT(60)
  <2>6. shards[owner + 1].functions \in Seq(Int)
    BY <2>5, ZenonT(60) DEF Shard
  <2>7. Distinct(shards[owner + 1].functions) /\ ~Lists(shards[owner + 1].functions, n)
    BY <2>1, <2>2, <2>3, SMTT(60) DEF Keeps
  <2>8. Added(fs, shards[owner + 1].functions, n)
    BY <2>4, <2>6, <2>7, AppendAdds, SMTT(60)
  <2>9. fs \in Seq(Int)
    BY <2>8, ZenonT(60) DEF Added
  <2>10. shards' = [shards EXCEPT ![owner + 1].functions = fs]
    BY <2>2, <2>3, <2>4, ZenonT(60) DEF add_function
  <2>11. /\ Len(shards') = Len(shards) /\ shards'[owner + 1].functions = fs
         /\ \A i \in 1..Len(shards) : i # owner + 1 => shards'[i].functions = shards[i].functions
    BY <2>1, <2>2, <2>9, <2>10, WriteLists, SMTT(60)
  <2>12. functions' = Append(functions, owner)
    BY ZenonT(60) DEF add_function
  <2>13. /\ Len(functions') = n + 1 /\ functions'[n + 1] = owner
         /\ \A f \in 1..n : functions'[f] = functions[f]
    BY <2>1, <2>3, <2>12, AppendProperties, SMTT(60)
  <2>14. Len(shards) \in Nat
    BY <2>1, LenProperties, ZenonT(60)
  <2>15. Added(shards'[owner + 1].functions, shards[owner + 1].functions, n)
    BY <2>8, <2>11, ZenonT(60)
  <2>16. PICK sh2, fn2 : sh2 = shards' /\ fn2 = functions'
    BY ZenonT(60)
  <2>17. NewFunction(shards, sh2, functions, fn2, n, owner)
    BY <2>2, <2>3, <2>11, <2>13, <2>14, <2>15, <2>16, ZenonT(60) DEF NewFunction
  <2>18. QED
    BY <2>1, <2>16, <2>17, KeepsAdded, ZenonT(60)
<1>4. QED
  BY <1>2, <1>3, ServedOwned, ZenonT(60)

\* move_function: the function leaves its owner's list and enters the new one's.
LEMMA MoveFunctionOwned ==
  ASSUME IInv, IInv', OInv, NEW fid \in Int, NEW sid \in Int, move_function(fid, sid)
  PROVE  OInv'
<1>1. PICK ok \in BOOLEAN : ok = (Known(functions, fid) /\ Known(shards, sid))
  BY ZenonT(60) DEF Known
<1>2. Serve(ok)
  BY <1>1, ZenonT(60) DEF move_function
<1>3. ASSUME bad' = 0 PROVE Keeps(shards', functions')
  <2>1. /\ Known(functions, fid) /\ Known(shards, sid)
        /\ shards \in Seq(Shard) /\ functions \in Seq(Int) /\ Keeps(shards, functions)
    BY <1>1, <1>2, <1>3, ServedOk, ZenonT(60)
  <2>2. /\ InList(functions, fid) /\ At(functions, fid) = fid + 1
        /\ fid \in 0..(Len(functions) - 1) /\ fid + 1 \in 1..Len(functions)
    BY <2>1, KnownAt, ZenonT(60)
  <2>3. /\ InList(shards, sid) /\ At(shards, sid) = sid + 1
        /\ sid \in 0..(Len(shards) - 1) /\ sid + 1 \in 1..Len(shards)
    BY <2>1, KnownAt, ZenonT(60)
  <2>4. PICK n \in Nat, m \in Nat : n = Len(functions) /\ m = Len(shards)
    BY <2>1, LenProperties, ZenonT(60)
  <2>5. PICK o : o = functions[fid + 1]
    BY ZenonT(60)
  <2>6. o \in 0..(m - 1) /\ Lists(shards[o + 1].functions, fid)
    BY <2>1, <2>2, <2>4, <2>5, ZenonT(60) DEF Keeps
  <2>7. o \in Int /\ o + 1 \in 1..m /\ Known(shards, o)
    BY <2>4, <2>6, SMTT(60) DEF Known
  <2>8. InList(shards, o) /\ At(shards, o) = o + 1
    BY <2>1, <2>7, KnownAt, ZenonT(60)
  <2>9. PICK fs : fs = Without(shards[o + 1].functions, fid)
    BY ZenonT(60)
  <2>10. shards[o + 1] \in Shard
    BY <2>1, <2>4, <2>7, ElementOfSeq, ZenonT(60)
  <2>11. shards[o + 1].functions \in Seq(Int)
    BY <2>10, ZenonT(60) DEF Shard
  <2>12. \A s \in 1..m : Distinct(shards[s].functions)
    BY <2>1, <2>4, ZenonT(60) DEF Keeps
  <2>13. Dropped(fs, shards[o + 1].functions, fid)
    BY <2>6, <2>7, <2>9, <2>11, <2>12, WithoutDrops, ZenonT(60)
  <2>14. fs \in Seq(Int) /\ Distinct(fs) /\ ~Lists(fs, fid)
    BY <2>13, ZenonT(60) DEF Dropped
  <2>15. PICK mid : mid = [shards EXCEPT ![o + 1].functions = fs]
    BY ZenonT(60)
  <2>16. /\ mid \in Seq(Shard) /\ Len(mid) = m /\ mid[o + 1].functions = fs
         /\ \A i \in 1..m : i # o + 1 => mid[i].functions = shards[i].functions
    <3>1. o + 1 \in 1..Len(shards)
      BY <2>4, <2>7, ZenonT(60)
    <3>2. /\ mid \in Seq(Shard) /\ Len(mid) = Len(shards) /\ mid[o + 1].functions = fs
          /\ \A i \in 1..Len(shards) : i # o + 1 => mid[i].functions = shards[i].functions
      BY <2>1, <2>14, <2>15, <3>1, WriteLists, SMTT(60)
    <3>3. QED
      BY <2>4, <3>2, ZenonT(60)
  <2>17. PICK gs : gs = Append(mid[sid + 1].functions, fid)
    BY ZenonT(60)
  <2>18. mid[sid + 1] \in Shard
    BY <2>3, <2>4, <2>16, ElementOfSeq, ZenonT(60)
  <2>19. mid[sid + 1].functions \in Seq(Int)
    BY <2>18, ZenonT(60) DEF Shard
  <2>20. Distinct(mid[sid + 1].functions) /\ ~Lists(mid[sid + 1].functions, fid)
    <3>1. CASE sid = o
      BY <2>14, <2>16, <3>1, ZenonT(60)
    <3>2. CASE sid # o
      <4>1. mid[sid + 1].functions = shards[sid + 1].functions
        BY <2>3, <2>4, <2>7, <2>16, <3>2, SMTT(60)
      <4>2. Lists(shards[sid + 1].functions, fid) => functions[fid + 1] = (sid + 1) - 1
        BY <2>1, <2>3, ZenonT(60) DEF Keeps
      <4>3. ~Lists(shards[sid + 1].functions, fid)
        BY <2>5, <3>2, <4>2, SMTT(60)
      <4>4. QED
        BY <2>3, <2>4, <2>12, <4>1, <4>3, ZenonT(60)
    <3>3. QED
      BY <3>1, <3>2, ZenonT(60)
  <2>21. Added(gs, mid[sid + 1].functions, fid)
    BY <2>17, <2>19, <2>20, AppendAdds, ZenonT(60)
  <2>22. gs \in Seq(Int)
    BY <2>21, ZenonT(60) DEF Added
  <2>23. shards' = [mid EXCEPT ![sid + 1].functions = gs]
    BY <2>2, <2>3, <2>5, <2>8, <2>9, <2>15, <2>17, ZenonT(60) DEF move_function
  <2>24. /\ Len(shards') = m /\ shards'[sid + 1].functions = gs
         /\ \A i \in 1..m : i # sid + 1 => shards'[i].functions = mid[i].functions
    BY <2>3, <2>4, <2>16, <2>22, <2>23, WriteLists, SMTT(60)
  <2>25. functions' = [functions EXCEPT ![fid + 1] = sid]
    BY <2>2, <2>5, <2>8, ZenonT(60) DEF move_function
  <2>26. /\ Len(functions') = n /\ functions'[fid + 1] = sid
         /\ \A f \in 1..n : f # fid + 1 => functions'[f] = functions[f]
    BY <2>1, <2>2, <2>4, <2>25, ExceptSeq, SMTT(60)
  <2>27. /\ Dropped(mid[o + 1].functions, shards[o + 1].functions, fid)
         /\ Added(shards'[sid + 1].functions, mid[sid + 1].functions, fid)
    BY <2>13, <2>16, <2>21, <2>24, ZenonT(60)
  <2>28. PICK sh, sh2, fn, fn2 : /\ sh = shards /\ sh2 = shards'
                                 /\ fn = functions /\ fn2 = functions'
    BY ZenonT(60)
  <2>29. /\ Keeps(sh, fn) /\ n = Len(fn) /\ Len(sh2) = Len(sh) /\ Len(sh) = m
         /\ fid \in 0..(n - 1) /\ o = fn[fid + 1] /\ sid \in 0..(Len(sh) - 1)
         /\ Len(fn2) = n /\ fn2[fid + 1] = sid /\ \A f \in 1..n : f # fid + 1 => fn2[f] = fn[f]
    BY <2>1, <2>2, <2>3, <2>4, <2>5, <2>24, <2>26, <2>28, SMTT(60)
  <2>30. /\ Dropped(mid[o + 1].functions, sh[o + 1].functions, fid)
         /\ Added(sh2[sid + 1].functions, mid[sid + 1].functions, fid)
         /\ \A s \in 1..Len(sh) : s # o + 1 => mid[s].functions = sh[s].functions
         /\ \A s \in 1..Len(sh) : s # sid + 1 => sh2[s].functions = mid[s].functions
    BY <2>16, <2>24, <2>27, <2>28, <2>29, ZenonT(60)
  <2>31. MovedFunction(sh, mid, sh2, fn, fn2, n, fid, o, sid)
    BY <2>4, <2>29, <2>30, ZenonT(60) DEF MovedFunction
  <2>32. QED
    BY <2>28, <2>29, <2>31, KeepsMoved, ZenonT(60)
<1>4. QED
  BY <1>2, <1>3, ServedOwned, ZenonT(60)

\* Requests on nodes and routes leave the owners alone.
LEMMA OtherOwned ==
  ASSUME IInv, IInv', OInv, UNCHANGED <<shards, functions>>, NEW ok \in BOOLEAN, Serve(ok)
  PROVE  OInv'
<1>1. ASSUME bad' = 0 PROVE Keeps(shards', functions')
  BY <1>1, ServedOk, ZenonT(60)
<1>2. QED
  BY <1>1, ServedOwned, ZenonT(60)

\* A topology that was saved had its owners right.
LEMMA FileOwned ==
  ASSUME IInv, OInv, SaveBegin \/ SaveEnd \/ load \/ Crash \/ RestartConfig \/ RestartEmpty
  PROVE  OInv'
<1>1. Owned(<<>>, <<>>)
  BY SMTT(60) DEF Owned
<1>2. Empty[2] = <<>> /\ Empty[3] = <<>> /\ topology[2] = shards /\ topology[3] = functions
  BY ZenonT(60) DEF Empty, topology
<1>3. CASE SaveBegin
  <2>1. UNCHANGED <<shards, functions, bad>> /\ file' = Torn
    BY <1>3, ZenonT(60) DEF SaveBegin, topology
  <2>2. QED
    BY <1>1, <1>2, <2>1, ZenonT(60) DEF OInv, Torn
<1>4. CASE SaveEnd
  <2>1. UNCHANGED <<shards, functions, bad>> /\ file' = [st |-> "whole", topo |-> topology]
    BY <1>4, ZenonT(60) DEF SaveEnd, topology
  <2>2. QED
    BY <1>2, <2>1, ZenonT(60) DEF OInv
<1>5. CASE load
  BY <1>5, ZenonT(60) DEF load, Replace, OInv
<1>6. CASE Crash
  <2>1. UNCHANGED <<file, bad>> /\ shards' = <<>> /\ functions' = <<>>
    BY <1>2, <1>6, ZenonT(60) DEF Crash, Replace
  <2>2. QED
    BY <1>1, <2>1, ZenonT(60) DEF OInv
<1>7. CASE RestartConfig
  BY <1>7, ZenonT(60) DEF RestartConfig, Replace, OInv
<1>8. CASE RestartEmpty
  BY <1>8, ZenonT(60) DEF RestartEmpty, topology, OInv
<1>9. QED
  BY <1>3, <1>4, <1>5, <1>6, <1>7, <1>8, ZenonT(60)

\* Every request, crash and restart keeps the owners right.
LEMMA NextOInv == IInv /\ IInv' /\ OInv /\ [Next]_vars => OInv'
<1> SUFFICES ASSUME IInv, IInv', OInv, [Next]_vars PROVE OInv'
  BY ZenonT(60)
<1>1. NodeIds \subseteq Int /\ ShardIds \subseteq Int /\ FuncIds \subseteq Int
  BY BoundAssumption, SMTT(60) DEF NodeIds, ShardIds, FuncIds
<1>2. CASE add_node
  BY <1>2, OtherOwned, ZenonT(60) DEF add_node
<1>3. ASSUME NEW s \in ShardIds, NEW n \in NodeIds, place_shard(s, n) \/ migrate_shard(s, n) PROVE OInv'
  BY <1>1, <1>3, PlaceOwned, ZenonT(60)
<1>4. ASSUME NEW s \in ShardIds, add_function(s) PROVE OInv'
  BY <1>1, <1>4, AddFunctionOwned, ZenonT(60)
<1>5. ASSUME NEW f \in FuncIds, NEW s \in ShardIds, move_function(f, s) PROVE OInv'
  BY <1>1, <1>5, MoveFunctionOwned, ZenonT(60)
<1>6. ASSUME NEW s, NEW t, NEW h, add_route(s, t, h, 1) PROVE OInv'
  <2>1. PICK ok \in BOOLEAN : Serve(ok)
    BY <1>6, ZenonT(60) DEF add_route, Known
  <2>2. QED
    BY <1>6, <2>1, OtherOwned, ZenonT(60) DEF add_route
<1>7. ASSUME NEW s, resolve_routes(s) PROVE OInv'
  <2>1. PICK ok \in BOOLEAN : Serve(ok)
    BY <1>7, ZenonT(60) DEF resolve_routes, Known
  <2>2. QED
    BY <1>7, <2>1, OtherOwned, ZenonT(60) DEF resolve_routes
<1>8. CASE UNCHANGED vars
  BY <1>8, ZenonT(60) DEF vars, topology, OInv
<1>9. QED
  BY <1>2, <1>3, <1>4, <1>5, <1>6, <1>7, <1>8, AddShardOwned, FileOwned, ZenonT(60) DEF Next

\* A controller starts with its owners right.
LEMMA InitOInv == Init => OInv
<1> SUFFICES ASSUME Init PROVE Owned(file.topo[2], file.topo[3])
  BY ZenonT(60) DEF Init, OInv
<1>1. CASE file = NoFile
  BY <1>1, SMTT(60) DEF NoFile, Empty, Owned
<1>2. CASE file # NoFile
  BY <1>2, ConfigAssumption, SMTT(60) DEF Init
<1>3. QED
  BY <1>1, <1>2, ZenonT(60)

\* As long as every request names ids that exist, the two records of who owns
\* a function agree: its owner lists it, once, and no other shard does,
\* through moves, migrations, saves, loads, crashes and restarts.
THEOREM OwnershipIsExact == Spec => []OwnershipExact
<1>1. IInv /\ OInv => OwnershipExact
  <2> SUFFICES ASSUME IInv, OInv, bad = 0,
                      NEW s \in DOMAIN shards, NEW f \in 0..(Len(functions) - 1)
               PROVE  Cardinality({i \in DOMAIN shards[s].functions : shards[s].functions[i] = f})
                        = IF functions[f + 1] = s - 1 THEN 1 ELSE 0
    BY ZenonT(60) DEF OwnershipExact
  <2>1. shards \in Seq(Shard) /\ Keeps(shards, functions)
    BY OwnedKeeps, ZenonT(60) DEF IInv, TypeOK, OInv
  <2>2. s \in 1..Len(shards) /\ Len(shards) \in Nat
    BY <2>1, LenProperties, ZenonT(60)
  <2>3. PICK at : at = {i \in DOMAIN shards[s].functions : shards[s].functions[i] = f}
    BY ZenonT(60)
  <2>4. CASE functions[f + 1] = s - 1
    <3>1. functions[f + 1] + 1 = s
      BY <2>2, <2>4, SMTT(60)
    <3>2. Lists(shards[s].functions, f) /\ Distinct(shards[s].functions)
      BY <2>1, <2>2, <3>1, ZenonT(60) DEF Keeps
    <3>3. PICK i : at = {i}
      BY <2>3, <3>2, ZenonT(60) DEF Lists, Distinct
    <3>4. Cardinality(at) = 1
      BY <3>3, FS_Singleton, ZenonT(60)
    <3>5. QED
      BY <2>3, <2>4, <3>4, ZenonT(60)
  <2>5. CASE functions[f + 1] # s - 1
    <3>1. ~Lists(shards[s].functions, f)
      BY <2>1, <2>2, <2>5, ZenonT(60) DEF Keeps
    <3>2. at = {}
      BY <2>3, <3>1, ZenonT(60) DEF Lists
    <3>3. Cardinality(at) = 0
      BY <3>2, FS_EmptySet, ZenonT(60)
    <3>4. QED
      BY <2>3, <2>5, <3>3, ZenonT(60)
  <2>6. QED
    BY <2>4, <2>5, ZenonT(60)
<1>2. Spec => [](IInv /\ OInv)
  BY InitOInv, NextOInv, Invariant, PTL DEF Spec
<1>3. QED
  BY <1>1, <1>2, PTL

-----------------------------------------------------------------------------
\* The lists of the topology, and of every topology in the file, hold
\* entries of their kind, whatever ids the requests name (Topology's methods).
THEOREM TypeCorrect == Spec => []TypeOK
<1>1. IInv => TypeOK
  BY ZenonT(60) DEF IInv
<1>2. QED
  BY <1>1, Invariant, PTL

\* A node's count of its shards (place_shard, migrate_shard) is exact as
\* long as requests name ids that exist, and off by at most one for each
\* request that does not, through saves, loads, crashes and restarts.
THEOREM CountDriftHolds == Spec => []CountDrift
<1>1. IInv => CountDrift
  <2> SUFFICES ASSUME IInv, NEW n \in 0..(Len(nodes) - 1)
               PROVE  Drift(nodes, shards, n) <= bad /\ -Drift(nodes, shards, n) <= bad
    BY ZenonT(60) DEF CountDrift
  <2>1. n \in Nat
    BY LenProperties, SMTT(60) DEF IInv, TypeOK
  <2>2. QED
    BY <2>1, ZenonT(60) DEF IInv, Sound
<1>2. QED
  BY <1>1, Invariant, PTL

\* After migrate_shard every route to the shard names the host it is on, and
\* no later request on other shards, routes or functions changes that.
THEOREM RoutesFollowMigrationHolds == Spec => []RoutesFollowMigration
<1>1. IInv => RoutesFollowMigration
  BY ZenonT(60) DEF IInv, Led, RoutesFollowMigration
<1>2. QED
  BY <1>1, Invariant, PTL
=============================================================================
