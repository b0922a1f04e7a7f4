--------------------------- MODULE ShmArenaProofs ---------------------------
(***************************************************************************)
(* Proofs about the arena and its users, for any slice, sizes, instances   *)
(* and vectors: arena_alloc hands out blocks nobody holds and arena_free   *)
(* takes them back, so that a block of a rank's slice has one owner in     *)
(* ShmDirect and ShmVectors alike.  On that rests delivery: as long as no  *)
(* rank destroys a distributor its peer still uses, a receiver copies the  *)
(* message of its epoch out of a staging block that is still the sender's. *)
(***************************************************************************)
EXTENDS MCShmArena, TLAPS

-----------------------------------------------------------------------------
(* The allocator *)

ArenaType ==
  [bump : 0 .. Slice, free : [0 .. Slice -> Seq(1 .. Slice)], size : [0 .. Slice -> 0 .. Slice]]

IsBlock(a, x) == a.size[x] > 0

\* Carved blocks lie below the bump pointer, one after the other.
Placed(a) ==
  /\ \A x \in 0 .. Slice : IsBlock(a, x) => x > 0 /\ x + a.size[x] <= a.bump
  /\ \A x, y \in 0 .. Slice : (IsBlock(a, x) /\ IsBlock(a, y) /\ x < y) => x + a.size[x] < y

\* They take up everything below it.
Covered(a) ==
  \A l \in 0 .. a.bump - 1 : \E x \in 0 .. Slice : IsBlock(a, x) /\ l \in Extent(a, x)

\* The list of a size holds blocks of that size, each once.
Lists(a) ==
  \A n \in 0 .. Slice : \A i, j \in 1 .. Len(a.free[n]) :
    /\ a.size[a.free[n][i]] = n /\ n > 0
    /\ a.free[n][i] = a.free[n][j] => i = j

\* A block is in use or on a list, and not both.
Parted(a, U) ==
  /\ U \subseteq 0 .. Slice
  /\ \A x \in 0 .. Slice : IsBlock(a, x) <=> (x \in U \/ Listed(a, x))
  /\ \A x \in U : ~Listed(a, x)

\* The allocator is sound and U are the blocks in use.
ArenaInv(a, U) == a \in ArenaType /\ Placed(a) /\ Covered(a) /\ Lists(a) /\ Parted(a, U)

\* An empty slice.
LEMMA NewArenaInv == ArenaInv(NewArena, {})
<1> USE ArenaAssumption
<1>1. NewArena \in ArenaType
  BY DEF NewArena, ArenaType
<1>2. \A x \in 0 .. Slice : ~IsBlock(NewArena, x) /\ ~Listed(NewArena, x)
  BY DEF NewArena, IsBlock, Listed
<1>3. Placed(NewArena)
  BY <1>2, ZenonT(60) DEF Placed
<1>4. Covered(NewArena)
  BY DEF Covered, NewArena
<1>5. Lists(NewArena)
  BY DEF Lists, NewArena
<1>6. Parted(NewArena, {})
  BY <1>2, ZenonT(60) DEF Parted
<1> QED BY <1>1, <1>3, <1>4, <1>5, <1>6, ZenonT(60) DEF ArenaInv

\* The fields of an allocator, one by one.
LEMMA ArenaFields ==
  ASSUME NEW a \in ArenaType
  PROVE  /\ a.bump \in 0 .. Slice /\ a.bump \in Nat /\ a.size \in [0 .. Slice -> 0 .. Slice]
         /\ \A x \in 0 .. Slice : a.size[x] \in 0 .. Slice /\ a.size[x] \in Nat
         /\ a.free \in [0 .. Slice -> Seq(1 .. Slice)]
         /\ \A n \in 0 .. Slice : a.free[n] \in Seq(1 .. Slice) /\ Len(a.free[n]) \in Nat
<1>1. a.bump \in 0 .. Slice /\ a.size \in [0 .. Slice -> 0 .. Slice]
      /\ a.free \in [0 .. Slice -> Seq(1 .. Slice)]
  BY ZenonT(60) DEF ArenaType
<1>2. \A n \in 0 .. Slice : a.free[n] \in Seq(1 .. Slice)
  BY <1>1, ZenonT(60)
<1>3. \A q \in Seq(1 .. Slice) : Len(q) \in Nat
  OBVIOUS
<1>4. \A x \in 0 .. Slice : x \in Nat
  OBVIOUS
<1>5. \A x \in 0 .. Slice : a.size[x] \in 0 .. Slice
  BY <1>1, ZenonT(60)
<1> QED BY <1>1, <1>2, <1>3, <1>4, <1>5, ZenonT(60)

\* What arena_free does to the lists.
LEMMA FreeFields ==
  ASSUME NEW a \in ArenaType, NEW b \in 1 .. Slice, a.size[b] \in 0 .. Slice
  PROVE  /\ AfterFree(a, b) \in ArenaType
         /\ AfterFree(a, b).bump = a.bump /\ AfterFree(a, b).size = a.size
         /\ AfterFree(a, b).free = [a.free EXCEPT ![a.size[b]] = Append(@, b)]
<1>1. AfterFree(a, b) = [a EXCEPT !.free = [a.free EXCEPT ![a.size[b]] = Append(@, b)]]
  BY ZenonT(60) DEF AfterFree, ArenaType
<1>2. [a.free EXCEPT ![a.size[b]] = Append(@, b)] \in [0 .. Slice -> Seq(1 .. Slice)]
  BY ArenaFields, SMTT(60)
<1> HIDE DEF AfterFree
<1> QED BY <1>1, <1>2, ZenonT(60) DEF ArenaType

\* What recycling does to the lists.
LEMMA RecycleFields ==
  ASSUME NEW a \in ArenaType, NEW n \in Nat, Recycles(a, n)
  PROVE  /\ n \in 0 .. Slice /\ Len(a.free[n]) \in Nat \ {0}
         /\ AfterAlloc(a, n) \in ArenaType
         /\ AfterAlloc(a, n).bump = a.bump /\ AfterAlloc(a, n).size = a.size
         /\ AfterAlloc(a, n).free = [a.free EXCEPT ![n] = SubSeq(@, 1, Len(@) - 1)]
         /\ BlockOf(a, n) = a.free[n][Len(a.free[n])]
<1> USE ArenaAssumption
<1>1. n \in 0 .. Slice /\ a.free[n] # <<>>
  BY DEF Recycles
<1>2. a.free[n] \in Seq(1 .. Slice) /\ Len(a.free[n]) \in Nat \ {0}
  <2>1. a.free[n] \in Seq(1 .. Slice)
    BY <1>1, ArenaFields, ZenonT(60)
  <2> QED BY <1>1, <2>1
<1>3. AfterAlloc(a, n) = [a EXCEPT !.free = [a.free EXCEPT ![n] = SubSeq(@, 1, Len(@) - 1)]]
  BY ZenonT(60) DEF AfterAlloc, ArenaType
<1>4. SubSeq(a.free[n], 1, Len(a.free[n]) - 1) \in Seq(1 .. Slice)
  BY <1>2, SMTT(60)
<1>5. [a.free EXCEPT ![n] = SubSeq(@, 1, Len(@) - 1)] \in [0 .. Slice -> Seq(1 .. Slice)]
  BY <1>1, <1>4, ArenaFields, ZenonT(60)
<1>6. BlockOf(a, n) = a.free[n][Len(a.free[n])]
  BY ZenonT(60) DEF BlockOf
<1> HIDE DEF AfterAlloc
<1> QED BY <1>1, <1>2, <1>3, <1>5, <1>6, ZenonT(60) DEF ArenaType

\* A header and n lines behind line k fit.
LEMMA BlockFits ==
  ASSUME NEW k \in 0 .. Slice, NEW n \in Nat, k + 1 + n <= Slice
  PROVE  n \in 0 .. Slice /\ k + 1 \in 1 .. Slice /\ k + 1 + n \in 0 .. Slice
BY ArenaAssumption

\* What carving does to the bump pointer and the headers.
LEMMA CarveFields ==
  ASSUME NEW a \in ArenaType, NEW n \in Nat, ~Recycles(a, n), Carves(a, n)
  PROVE  /\ n \in 0 .. Slice /\ a.bump + 1 \in 1 .. Slice
         /\ AfterAlloc(a, n) \in ArenaType
         /\ AfterAlloc(a, n).bump = a.bump + 1 + n /\ AfterAlloc(a, n).free = a.free
         /\ AfterAlloc(a, n).size = [a.size EXCEPT ![a.bump + 1] = n]
         /\ BlockOf(a, n) = a.bump + 1
<1> USE ArenaAssumption
<1>1. a.bump \in 0 .. Slice /\ a.size \in [0 .. Slice -> 0 .. Slice]
  BY ArenaFields, ZenonT(60)
<1>2. n \in 0 .. Slice /\ a.bump + 1 \in 1 .. Slice /\ a.bump + 1 + n \in 0 .. Slice
  BY <1>1, BlockFits, ZenonT(60) DEF Carves
<1>3. AfterAlloc(a, n) = [a EXCEPT !.size = [a.size EXCEPT ![a.bump + 1] = n], !.bump = a.bump + 1 + n]
  BY ZenonT(60) DEF AfterAlloc, ArenaType
<1>4. [a.size EXCEPT ![a.bump + 1] = n] \in [0 .. Slice -> 0 .. Slice]
  BY <1>1, <1>2, ZenonT(60)
<1>5. BlockOf(a, n) = a.bump + 1
  BY ZenonT(60) DEF BlockOf
<1> HIDE DEF AfterAlloc
<1> QED BY <1>2, <1>3, <1>4, <1>5, ZenonT(60) DEF ArenaType

\* The order and cover of the blocks depend on the bump pointer and the headers.
LEMMA SameBlocks ==
  ASSUME NEW a, NEW c, Placed(a), Covered(a), c.bump = a.bump, c.size = a.size
  PROVE  Placed(c) /\ Covered(c)
BY ZenonT(60) DEF Placed, Covered, IsBlock, Extent

\* arena_free of a block in use.
LEMMA FreeInv ==
  ASSUME NEW U, NEW a, ArenaInv(a, U), NEW b \in U
  PROVE  ArenaInv(AfterFree(a, b), U \ {b}) /\ AfterFree(a, b).size = a.size
<1> USE ArenaAssumption
<1>1. a \in ArenaType /\ Placed(a) /\ Covered(a) /\ Lists(a) /\ Parted(a, U)
  BY ZenonT(60) DEF ArenaInv
<1>2. b \in 1 .. Slice /\ a.size[b] \in 1 .. Slice /\ ~Listed(a, b)
  BY <1>1, ArenaFields, SMTT(60) DEF Parted, Placed, IsBlock
<1>3. PICK m \in 1 .. Slice : m = a.size[b]
  BY <1>2, ZenonT(60)
<1>4. PICK c : c = AfterFree(a, b)
  BY ZenonT(60)
<1>5. /\ c \in ArenaType /\ c.bump = a.bump /\ c.size = a.size
      /\ c.free = [a.free EXCEPT ![m] = Append(@, b)]
  <2>1. a.size[b] \in 0 .. Slice
    BY <1>2
  <2> QED BY <1>1, <1>2, <1>3, <1>4, <2>1, FreeFields, ZenonT(60)
<1>6. Placed(c) /\ Covered(c)
  BY <1>1, <1>5, SameBlocks, ZenonT(60)
<1>7. PICK q \in Seq(1 .. Slice) : q = a.free[m]
  <2>1. m \in 0 .. Slice
    OBVIOUS
  <2> QED BY <1>1, <2>1, ArenaFields, ZenonT(60)
<1>8. Len(q) \in Nat /\ Len(Append(q, b)) = Len(q) + 1 /\ Append(q, b)[Len(q) + 1] = b
      /\ \A i \in 1 .. Len(q) : Append(q, b)[i] = q[i]
  OBVIOUS
<1>9. /\ c.free[m] = Append(q, b)
      /\ \A n \in 0 .. Slice : n # m => c.free[n] = a.free[n]
  <2>1. a.free \in [0 .. Slice -> Seq(1 .. Slice)] /\ m \in 0 .. Slice
    BY <1>1, ArenaFields
  <2> QED BY <1>5, <1>7, <2>1, ZenonT(60)
<1>10. \A x : Listed(c, x) <=> (Listed(a, x) \/ x = b)
  <2>1. ASSUME NEW x, Listed(c, x) PROVE Listed(a, x) \/ x = b
    <3>1. PICK n \in 0 .. Slice : \E i \in 1 .. Len(c.free[n]) : c.free[n][i] = x
      BY <2>1, ZenonT(60) DEF Listed
    <3>2. CASE n # m
      BY <1>9, <3>1, <3>2, ZenonT(60) DEF Listed
    <3>3. CASE n = m
      <4>1. \E i \in 1 .. Len(q) + 1 : Append(q, b)[i] = x
        BY <1>8, <1>9, <3>1, <3>3, ZenonT(60)
      <4>2. x = b \/ \E i \in 1 .. Len(q) : q[i] = x
        BY <1>8, <4>1
      <4> QED BY <1>7, <3>3, <4>2, ZenonT(60) DEF Listed
    <3> QED BY <3>2, <3>3, ZenonT(60)
  <2>2. Listed(c, b)
    <3>1. m \in 0 .. Slice /\ Len(q) + 1 \in 1 .. Len(c.free[m]) /\ c.free[m][Len(q) + 1] = b
      BY <1>8, <1>9
    <3> QED BY <3>1, ZenonT(60) DEF Listed
  <2>3. ASSUME NEW x, Listed(a, x) PROVE Listed(c, x)
    <3>1. PICK n \in 0 .. Slice : \E i \in 1 .. Len(a.free[n]) : a.free[n][i] = x
      BY <2>3, ZenonT(60) DEF Listed
    <3>2. CASE n # m
      BY <1>9, <3>1, <3>2, ZenonT(60) DEF Listed
    <3>3. CASE n = m
      <4>1. \E i \in 1 .. Len(q) : q[i] = x
        BY <1>7, <3>1, <3>3, ZenonT(60)
      <4>2. \E i \in 1 .. Len(c.free[m]) : c.free[m][i] = x
        BY <1>8, <1>9, <4>1, SMTT(60)
      <4> QED BY <3>3, <4>2, ZenonT(60) DEF Listed
    <3> QED BY <3>2, <3>3, ZenonT(60)
  <2> QED BY <2>1, <2>2, <2>3, ZenonT(60)
<1>11. Parted(c, U \ {b})
  <2>1. \A x \in 0 .. Slice : IsBlock(c, x) <=> IsBlock(a, x)
    BY <1>5 DEF IsBlock
  <2> QED BY <1>1, <1>2, <1>10, <2>1, ZenonT(60) DEF Parted
<1>12. Lists(c)
  <2> SUFFICES ASSUME NEW n \in 0 .. Slice, NEW i \in 1 .. Len(c.free[n]), NEW j \in 1 .. Len(c.free[n])
               PROVE  /\ c.size[c.free[n][i]] = n /\ n > 0
                      /\ c.free[n][i] = c.free[n][j] => i = j
    BY ZenonT(60) DEF Lists
  <2>1. CASE n # m
    <3>1. c.free[n] = a.free[n]
      BY <1>9, <2>1, ZenonT(60)
    <3>2. i \in 1 .. Len(a.free[n]) /\ j \in 1 .. Len(a.free[n])
      BY <3>1, ZenonT(60)
    <3>3. /\ a.size[a.free[n][i]] = n /\ n > 0
          /\ a.free[n][i] = a.free[n][j] => i = j
      BY <1>1, <3>2, ZenonT(60) DEF Lists
    <3> QED BY <1>5, <3>1, <3>3, ZenonT(60)
  <2>2. CASE n = m
    <3>1. m \in 0 .. Slice
      BY <1>2
    <3>2. /\ \A k \in 1 .. Len(q) : a.size[q[k]] = m /\ q[k] # b
          /\ \A k, l \in 1 .. Len(q) : q[k] = q[l] => k = l
      <4>1. \A k, l \in 1 .. Len(a.free[m]) :
              a.size[a.free[m][k]] = m /\ (a.free[m][k] = a.free[m][l] => k = l)
        BY <1>1, <3>1, ZenonT(60) DEF Lists
      <4>2. \A k \in 1 .. Len(a.free[m]) : Listed(a, a.free[m][k])
        BY <3>1, ZenonT(60) DEF Listed
      <4>3. \A k \in 1 .. Len(a.free[m]) : a.free[m][k] # b
        BY <1>2, <4>2, ZenonT(60)
      <4> QED BY <1>7, <4>1, <4>3, ZenonT(60)
    <3>3. i \in 1 .. Len(q) + 1 /\ j \in 1 .. Len(q) + 1 /\ c.free[n] = Append(q, b)
      BY <1>8, <1>9, <2>2, ZenonT(60)
    <3>4. \A k \in 1 .. Len(q) + 1 : k \in 1 .. Len(q) \/ k = Len(q) + 1
      BY <1>8, SMTT(60)
    <3>5. a.size[Append(q, b)[i]] = m
      BY <1>3, <1>8, <3>2, <3>3, <3>4, ZenonT(60)
    <3>6. Append(q, b)[i] = Append(q, b)[j] => i = j
      BY <1>8, <3>2, <3>3, <3>4, ZenonT(60)
    <3>7. m > 0
      BY <1>3, SMTT(60)
    <3> QED BY <1>5, <2>2, <3>3, <3>5, <3>6, <3>7, ZenonT(60)
  <2> QED BY <2>1, <2>2, ZenonT(60)
<1> QED BY <1>4, <1>5, <1>6, <1>11, <1>12, ZenonT(60) DEF ArenaInv

\* arena_alloc from a free list: the last block of the list is nobody's.
LEMMA RecycleInv ==
  ASSUME NEW U, NEW a, ArenaInv(a, U), NEW n \in Nat, Recycles(a, n), NEW b, b = BlockOf(a, n)
  PROVE  /\ b \in 1 .. Slice /\ b \notin U /\ ArenaInv(AfterAlloc(a, n), U \union {b})
         /\ AfterAlloc(a, n).size = a.size /\ a.size[b] = n
<1> USE ArenaAssumption
<1>1. a \in ArenaType /\ Placed(a) /\ Covered(a) /\ Lists(a) /\ Parted(a, U)
  BY ZenonT(60) DEF ArenaInv
<1>2. PICK c : c = AfterAlloc(a, n)
  BY ZenonT(60)
<1>3. /\ n \in 0 .. Slice /\ Len(a.free[n]) \in Nat \ {0}
      /\ c \in ArenaType /\ c.bump = a.bump /\ c.size = a.size
      /\ c.free = [a.free EXCEPT ![n] = SubSeq(@, 1, Len(@) - 1)]
      /\ b = a.free[n][Len(a.free[n])]
  BY <1>1, <1>2, RecycleFields, ZenonT(60)
<1>4. Placed(c) /\ Covered(c)
  BY <1>1, <1>3, SameBlocks, ZenonT(60)
<1>5. PICK q \in Seq(1 .. Slice) : q = a.free[n]
  BY <1>1, <1>3, ArenaFields, ZenonT(60)
<1>6. PICK r : r = SubSeq(q, 1, Len(q) - 1)
  BY ZenonT(60)
<1>7. Len(q) \in Nat \ {0} /\ Len(r) = Len(q) - 1 /\ \A i \in 1 .. Len(r) : r[i] = q[i]
  BY <1>3, <1>5, <1>6, SMTT(60)
<1>8. /\ c.free[n] = r
      /\ \A m \in 0 .. Slice : m # n => c.free[m] = a.free[m]
  <2>1. a.free \in [0 .. Slice -> Seq(1 .. Slice)]
    BY <1>1, ArenaFields, ZenonT(60)
  <2> QED BY <1>3, <1>5, <1>6, <2>1, ZenonT(60)
<1>9. b = q[Len(q)] /\ b \in 1 .. Slice /\ Len(q) \in 1 .. Len(q)
  <2>1. b = q[Len(q)] /\ Len(q) \in 1 .. Len(q)
    BY <1>3, <1>5, <1>7
  <2> QED BY <2>1
<1>10. \A i, j \in 1 .. Len(q) : a.size[q[i]] = n /\ n > 0 /\ (q[i] = q[j] => i = j)
  <2>1. \A i, j \in 1 .. Len(a.free[n]) :
          a.size[a.free[n][i]] = n /\ n > 0 /\ (a.free[n][i] = a.free[n][j] => i = j)
    BY <1>1, <1>3, ZenonT(60) DEF Lists
  <2> QED BY <1>5, <2>1, ZenonT(60)
<1>11. a.size[b] = n /\ Listed(a, b) /\ b \notin U
  <2>1. a.size[b] = n
    BY <1>9, <1>10, ZenonT(60)
  <2>2. Listed(a, b)
    BY <1>3, <1>5, <1>9, ZenonT(60) DEF Listed
  <2> QED BY <1>1, <2>1, <2>2, ZenonT(60) DEF Parted
<1>12. \A x : Listed(c, x) <=> (Listed(a, x) /\ x # b)
  <2>1. ASSUME NEW x, Listed(c, x) PROVE Listed(a, x) /\ x # b
    <3>1. PICK m \in 0 .. Slice : \E i \in 1 .. Len(c.free[m]) : c.free[m][i] = x
      BY <2>1, ZenonT(60) DEF Listed
    <3>2. CASE m # n
      <4>1. PICK i \in 1 .. Len(a.free[m]) : a.free[m][i] = x
        BY <1>8, <3>1, <3>2, ZenonT(60)
      <4>2. a.size[x] = m
        BY <1>1, <4>1, ZenonT(60) DEF Lists
      <4> QED BY <1>11, <3>2, <4>1, <4>2, ZenonT(60) DEF Listed
    <3>3. CASE m = n
      <4>1. PICK i \in 1 .. Len(r) : r[i] = x
        BY <1>8, <3>1, <3>3, ZenonT(60)
      <4>2. i \in 1 .. Len(q) /\ q[i] = x /\ i # Len(q)
        BY <1>7, <4>1, SMTT(60)
      <4>3. x # b
        BY <1>9, <1>10, <4>2, SMTT(60)
      <4> QED BY <1>3, <1>5, <4>2, <4>3, ZenonT(60) DEF Listed
    <3> QED BY <3>2, <3>3, ZenonT(60)
  <2>2. ASSUME NEW x, Listed(a, x), x # b PROVE Listed(c, x)
    <3>1. PICK m \in 0 .. Slice : \E i \in 1 .. Len(a.free[m]) : a.free[m][i] = x
      BY <2>2, ZenonT(60) DEF Listed
    <3>2. CASE m # n
      BY <1>8, <3>1, <3>2, ZenonT(60) DEF Listed
    <3>3. CASE m = n
      <4>1. PICK i \in 1 .. Len(q) : q[i] = x
        BY <1>5, <3>1, <3>3, ZenonT(60)
      <4>2. i \in 1 .. Len(r) /\ r[i] = x
        BY <1>7, <1>9, <2>2, <4>1, SMTT(60)
      <4> QED BY <1>3, <1>8, <4>2, ZenonT(60) DEF Listed
    <3> QED BY <3>2, <3>3, ZenonT(60)
  <2> QED BY <2>1, <2>2, ZenonT(60)
<1>13. Parted(c, U \union {b})
  <2>1. \A x \in 0 .. Slice : IsBlock(c, x) <=> IsBlock(a, x)
    BY <1>3, ZenonT(60) DEF IsBlock
  <2>2. b \in 0 .. Slice
    BY <1>9
  <2> QED BY <1>1, <1>11, <1>12, <2>1, <2>2, ZenonT(60) DEF Parted
<1>14. Lists(c)
  <2> SUFFICES ASSUME NEW m \in 0 .. Slice, NEW i \in 1 .. Len(c.free[m]), NEW j \in 1 .. Len(c.free[m])
               PROVE  /\ c.size[c.free[m][i]] = m /\ m > 0
                      /\ c.free[m][i] = c.free[m][j] => i = j
    BY ZenonT(60) DEF Lists
  <2>1. i \in 1 .. Len(a.free[m]) /\ j \in 1 .. Len(a.free[m])
        /\ c.free[m][i] = a.free[m][i] /\ c.free[m][j] = a.free[m][j]
    <3>1. CASE m # n
      BY <1>8, <3>1, ZenonT(60)
    <3>2. CASE m = n
      <4>1. i \in 1 .. Len(r) /\ j \in 1 .. Len(r) /\ c.free[m] = r /\ a.free[m] = q
        BY <1>5, <1>8, <3>2, ZenonT(60)
      <4>2. \A k \in 1 .. Len(r) : k \in 1 .. Len(q) /\ r[k] = q[k]
        BY <1>7, SMTT(60)
      <4>3. i \in 1 .. Len(q) /\ j \in 1 .. Len(q) /\ r[i] = q[i] /\ r[j] = q[j]
        BY <4>1, <4>2, ZenonT(60)
      <4> QED BY <4>1, <4>3, ZenonT(60)
    <3> QED BY <3>1, <3>2, ZenonT(60)
  <2>2. /\ a.size[a.free[m][i]] = m /\ m > 0
        /\ a.free[m][i] = a.free[m][j] => i = j
    BY <1>1, <2>1, ZenonT(60) DEF Lists
  <2> QED BY <1>3, <2>1, <2>2, ZenonT(60)
<1> QED BY <1>2, <1>3, <1>4, <1>9, <1>11, <1>13, <1>14, ZenonT(60) DEF ArenaInv

\* arena_alloc from the bump pointer: a fresh block after all the others.
LEMMA CarveInv ==
  ASSUME NEW U, NEW a, ArenaInv(a, U), NEW n \in Nat \ {0}, ~Recycles(a, n), Carves(a, n),
         NEW b, b = BlockOf(a, n)
  PROVE  /\ b \in 1 .. Slice /\ b \notin U /\ ArenaInv(AfterAlloc(a, n), U \union {b})
         /\ AfterAlloc(a, n).size = [a.size EXCEPT ![b] = n]
<1> USE ArenaAssumption
<1>1. a \in ArenaType /\ Placed(a) /\ Covered(a) /\ Lists(a) /\ Parted(a, U)
  BY ZenonT(60) DEF ArenaInv
<1>2. PICK c : c = AfterAlloc(a, n)
  BY ZenonT(60)
<1>3. /\ n \in 0 .. Slice /\ b \in 1 .. Slice /\ b = a.bump + 1
      /\ c \in ArenaType /\ c.bump = a.bump + 1 + n /\ c.free = a.free
      /\ c.size = [a.size EXCEPT ![b] = n]
  <2>1. n \in Nat
    OBVIOUS
  <2>2. b = a.bump + 1 /\ a.bump + 1 \in 1 .. Slice
    BY <1>1, <2>1, CarveFields, ZenonT(60)
  <2>3. /\ n \in 0 .. Slice /\ c \in ArenaType
        /\ c.bump = a.bump + 1 + n /\ c.free = a.free
        /\ c.size = [a.size EXCEPT ![a.bump + 1] = n]
    BY <1>1, <1>2, <2>1, CarveFields, ZenonT(60)
  <2>4. c.size = [a.size EXCEPT ![b] = n]
    BY <2>2, <2>3, ZenonT(60)
  <2> QED BY <2>2, <2>3, <2>4, ZenonT(60)
<1>4. /\ a.bump \in Nat /\ c.size[b] = n /\ \A x \in 0 .. Slice : x # b => c.size[x] = a.size[x]
      /\ \A x \in 0 .. Slice : a.size[x] \in Nat /\ c.size[x] \in Nat
  <2>1. a.size \in [0 .. Slice -> 0 .. Slice] /\ a.bump \in 0 .. Slice /\ c.size \in [0 .. Slice -> 0 .. Slice]
    BY <1>1, <1>3, ArenaFields, ZenonT(60)
  <2>2. b \in 0 .. Slice
    BY <1>3
  <2>3. c.size[b] = n /\ \A x \in 0 .. Slice : x # b => c.size[x] = a.size[x]
    BY <1>3, <2>1, <2>2, ZenonT(60)
  <2>4. \A x \in 0 .. Slice : a.size[x] \in 0 .. Slice /\ c.size[x] \in 0 .. Slice
    BY <2>1, ZenonT(60)
  <2>5. \A x \in 0 .. Slice : x \in Nat
    OBVIOUS
  <2>6. a.bump \in Nat /\ \A x \in 0 .. Slice : a.size[x] \in Nat /\ c.size[x] \in Nat
    BY <2>1, <2>4, <2>5, ZenonT(60)
  <2> QED BY <2>3, <2>6, ZenonT(60)
<1>5. ~IsBlock(a, b) /\ b \in 0 .. Slice
  BY <1>1, <1>3, <1>4 DEF Placed, IsBlock
<1>6. \A x : Listed(c, x) <=> Listed(a, x)
  BY <1>3, ZenonT(60) DEF Listed
<1>7. b \notin U /\ ~Listed(a, b)
  BY <1>1, <1>5, ZenonT(60) DEF Parted
<1>8. \A x \in 0 .. Slice : IsBlock(c, x) <=> (IsBlock(a, x) \/ x = b)
  BY <1>4, <1>5 DEF IsBlock
<1>9. Placed(c)
  <2>1. ASSUME NEW x \in 0 .. Slice, IsBlock(a, x)
        PROVE  x > 0 /\ x + a.size[x] <= a.bump /\ x # b /\ c.size[x] = a.size[x]
    BY <1>1, <1>4, <1>5, <2>1, ZenonT(60) DEF Placed
  <2>2. ASSUME NEW x \in 0 .. Slice, IsBlock(c, x)
        PROVE  x > 0 /\ x + c.size[x] <= c.bump
    <3>1. CASE x = b
      BY <1>3, <1>4, <3>1, SMTT(60)
    <3>2. CASE x # b
      <4>1. x > 0 /\ x + a.size[x] <= a.bump /\ c.size[x] = a.size[x]
        BY <1>8, <2>1, <2>2, <3>2, ZenonT(60)
      <4> QED BY <1>3, <1>4, <4>1
    <3> QED BY <3>1, <3>2, ZenonT(60)
  <2>3. ASSUME NEW x \in 0 .. Slice, NEW y \in 0 .. Slice, IsBlock(c, x), IsBlock(c, y), x < y
        PROVE  x + c.size[x] < y
    <3>1. CASE x = b
      <4>1. y # b /\ y + a.size[y] <= a.bump
        BY <1>3, <1>8, <2>1, <2>3, <3>1, SMTT(60)
      <4> QED BY <1>3, <1>4, <2>3, <3>1, <4>1, SMTT(60)
    <3>2. CASE x # b /\ y = b
      <4>1. x + a.size[x] <= a.bump /\ c.size[x] = a.size[x]
        BY <1>8, <2>1, <2>3, <3>2, ZenonT(60)
      <4> QED BY <1>3, <1>4, <3>2, <4>1
    <3>3. CASE x # b /\ y # b
      <4>1. IsBlock(a, x) /\ IsBlock(a, y) /\ c.size[x] = a.size[x]
        BY <1>4, <1>8, <2>3, <3>3
      <4> QED BY <1>1, <2>3, <4>1, ZenonT(60) DEF Placed
    <3> QED BY <3>1, <3>2, <3>3, SMTT(60)
  <2> QED BY <2>2, <2>3, ZenonT(60) DEF Placed
<1>10. Covered(c)
  <2> SUFFICES ASSUME NEW l \in 0 .. c.bump - 1
               PROVE  \E x \in 0 .. Slice : IsBlock(c, x) /\ l \in Extent(c, x)
    BY ZenonT(60) DEF Covered
  <2>1. CASE l < a.bump
    <3>1. l \in 0 .. a.bump - 1
      BY <1>4, <2>1
    <3>2. PICK x \in 0 .. Slice : IsBlock(a, x) /\ l \in Extent(a, x)
      BY <1>1, <3>1, ZenonT(60) DEF Covered
    <3>3. x # b /\ Extent(c, x) = Extent(a, x)
      BY <1>4, <1>5, <3>2, ZenonT(60) DEF Extent
    <3> QED BY <1>8, <3>2, <3>3, ZenonT(60)
  <2>2. CASE ~(l < a.bump)
    <3>1. l \in Extent(c, b)
      BY <1>3, <1>4, <2>2 DEF Extent
    <3> QED BY <1>5, <1>8, <3>1, ZenonT(60)
  <2> QED BY <2>1, <2>2, ZenonT(60)
<1>11. Lists(c)
  <2> SUFFICES ASSUME NEW m \in 0 .. Slice, NEW i \in 1 .. Len(c.free[m]), NEW j \in 1 .. Len(c.free[m])
               PROVE  /\ c.size[c.free[m][i]] = m /\ m > 0
                      /\ c.free[m][i] = c.free[m][j] => i = j
    BY ZenonT(60) DEF Lists
  <2>1. c.free[m] = a.free[m] /\ i \in 1 .. Len(a.free[m]) /\ j \in 1 .. Len(a.free[m])
    BY <1>3, ZenonT(60)
  <2>2. /\ a.size[a.free[m][i]] = m /\ m > 0
        /\ a.free[m][i] = a.free[m][j] => i = j
    BY <1>1, <2>1, ZenonT(60) DEF Lists
  <2>3. a.free[m][i] # b /\ a.free[m][i] \in 0 .. Slice
    <3>1. Listed(a, a.free[m][i])
      BY <2>1, ZenonT(60) DEF Listed
    <3>2. a.free[m] \in Seq(1 .. Slice)
      BY <1>1, ArenaFields, ZenonT(60)
    <3>3. a.free[m][i] \in 1 .. Slice
      BY <2>1, <3>2, SMTT(60)
    <3> QED BY <1>7, <3>1, <3>3, SMTT(60)
  <2> QED BY <1>4, <2>1, <2>2, <2>3, ZenonT(60)
<1>12. Parted(c, U \union {b})
  BY <1>1, <1>5, <1>6, <1>7, <1>8, ZenonT(60) DEF Parted
<1> QED BY <1>2, <1>3, <1>7, <1>9, <1>10, <1>11, <1>12, ZenonT(60) DEF ArenaInv

\* arena_alloc hands out a block of the size asked for that nobody holds.
LEMMA AllocInv ==
  ASSUME NEW U, NEW a, ArenaInv(a, U), NEW n \in Nat \ {0}, CanAlloc(a, n),
         NEW b, b = BlockOf(a, n)
  PROVE  /\ b \in 1 .. Slice /\ b \notin U /\ ArenaInv(AfterAlloc(a, n), U \union {b})
         /\ AfterAlloc(a, n).size[b] = n
         /\ \A x \in U : AfterAlloc(a, n).size[x] = a.size[x]
<1> USE ArenaAssumption
<1>1. CASE Recycles(a, n)
  BY <1>1, RecycleInv, n \in Nat, SMTT(60)
<1>2. CASE ~Recycles(a, n)
  <2>1. /\ b \in 1 .. Slice /\ b \notin U /\ ArenaInv(AfterAlloc(a, n), U \union {b})
        /\ AfterAlloc(a, n).size = [a.size EXCEPT ![b] = n]
    BY <1>2, CarveInv DEF CanAlloc
  <2>2. a.size \in [0 .. Slice -> 0 .. Slice] /\ b \in 0 .. Slice /\ U \subseteq 0 .. Slice
    BY <2>1, ArenaFields, ZenonT(60) DEF ArenaInv, Parted
  <2> QED BY <2>1, <2>2, ZenonT(60)
<1> QED BY <1>1, <1>2, ZenonT(60)

-----------------------------------------------------------------------------
(* Who holds the blocks of a slice *)

\* B[i] are the blocks of object i and O those of the vectors: no block has
\* two holders, and the allocator counts exactly these as in use.
Held(B, O) == O \union UNION {B[i] : i \in Instances}
Apart(B, O) ==
  /\ \A i, j \in Instances : i # j => B[i] \cap B[j] = {}
  /\ \A i \in Instances : B[i] \cap O = {}
HoldInv(a, B, O) == ArenaInv(a, Held(B, O)) /\ Apart(B, O)

\* Object i gets a new block.
LEMMA HoldAlloc ==
  ASSUME NEW a, NEW O, NEW B, HoldInv(a, B, O), NEW n \in Nat \ {0}, CanAlloc(a, n),
         NEW i \in Instances, NEW b, b = BlockOf(a, n),
         NEW C, C[i] = B[i] \union {b}, \A j \in Instances \ {i} : C[j] = B[j]
  PROVE  HoldInv(AfterAlloc(a, n), C, O) /\ b \in 1 .. Slice /\ b \notin Held(B, O)
<1>1. /\ b \in 1 .. Slice /\ b \notin Held(B, O)
      /\ ArenaInv(AfterAlloc(a, n), Held(B, O) \union {b})
  BY AllocInv, ZenonT(60) DEF HoldInv
<1>2. Held(B, O) \union {b} = Held(C, O)
  <2>1. ASSUME NEW x \in Held(B, O) \union {b} PROVE x \in Held(C, O)
    BY <2>1, ZenonT(60) DEF Held
  <2>2. ASSUME NEW x \in Held(C, O) PROVE x \in Held(B, O) \union {b}
    BY <2>2, ZenonT(60) DEF Held
  <2> QED BY <2>1, <2>2, ZenonT(60)
<1>3. \A j \in Instances : b \notin B[j]
  BY <1>1, ZenonT(60) DEF Held
<1>4. b \notin O
  BY <1>1, ZenonT(60) DEF Held
<1>5. Apart(C, O)
  <2>1. \A j \in Instances : C[j] \cap O = {}
    BY <1>4, ZenonT(60) DEF HoldInv, Apart
  <2>2. \A j \in Instances : j # i => C[j] \cap C[i] = {} /\ C[i] \cap C[j] = {}
    BY <1>3, ZenonT(60) DEF HoldInv, Apart
  <2>3. \A j, k \in Instances : (j # i /\ k # i /\ j # k) => C[j] \cap C[k] = {}
    BY ZenonT(60) DEF HoldInv, Apart
  <2> QED BY <2>1, <2>2, <2>3, ZenonT(60) DEF Apart
<1> QED BY <1>1, <1>2, <1>5, ZenonT(60) DEF HoldInv

\* A vector gets a new block.
LEMMA HoldOwn ==
  ASSUME NEW a, NEW O, NEW B, HoldInv(a, B, O), NEW n \in Nat \ {0}, CanAlloc(a, n),
         NEW b, b = BlockOf(a, n)
  PROVE  HoldInv(AfterAlloc(a, n), B, O \union {b}) /\ b \in 1 .. Slice /\ b \notin Held(B, O)
<1>1. /\ b \in 1 .. Slice /\ b \notin Held(B, O)
      /\ ArenaInv(AfterAlloc(a, n), Held(B, O) \union {b})
  BY AllocInv, ZenonT(60) DEF HoldInv
<1>2. Held(B, O) \union {b} = Held(B, O \union {b})
  <2>1. ASSUME NEW x \in Held(B, O) \union {b} PROVE x \in Held(B, O \union {b})
    BY <2>1, ZenonT(60) DEF Held
  <2>2. ASSUME NEW x \in Held(B, O \union {b}) PROVE x \in Held(B, O) \union {b}
    BY <2>2, ZenonT(60) DEF Held
  <2> QED BY <2>1, <2>2, ZenonT(60)
<1>3. \A j \in Instances : b \notin B[j]
  BY <1>1, ZenonT(60) DEF Held
<1>5. Apart(B, O \union {b})
  BY <1>3, ZenonT(60) DEF HoldInv, Apart
<1> QED BY <1>1, <1>2, <1>5, ZenonT(60) DEF HoldInv

\* Object i gives a block back.
LEMMA HoldFree ==
  ASSUME NEW a, NEW O, NEW B, HoldInv(a, B, O), NEW i \in Instances, NEW b \in B[i],
         NEW C, C[i] = B[i] \ {b}, \A j \in Instances \ {i} : C[j] = B[j]
  PROVE  HoldInv(AfterFree(a, b), C, O)
<1>1. b \in Held(B, O)
  BY ZenonT(60) DEF Held
<1>2. ArenaInv(AfterFree(a, b), Held(B, O) \ {b})
  BY <1>1, FreeInv, ZenonT(60) DEF HoldInv
<1>3. \A j \in Instances : j # i => b \notin B[j]
  BY ZenonT(60) DEF HoldInv, Apart
<1>4. b \notin O
  BY ZenonT(60) DEF HoldInv, Apart
<1>5. Held(B, O) \ {b} = Held(C, O)
  <2>1. ASSUME NEW x \in Held(B, O) \ {b} PROVE x \in Held(C, O)
    BY <2>1, ZenonT(60) DEF Held
  <2>2. ASSUME NEW x \in Held(C, O) PROVE x \in Held(B, O) \ {b}
    BY <1>3, <1>4, <2>2, ZenonT(60) DEF Held
  <2> QED BY <2>1, <2>2, ZenonT(60)
<1>6. Apart(C, O)
  BY ZenonT(60) DEF HoldInv, Apart
<1> QED BY <1>2, <1>5, <1>6, ZenonT(60) DEF HoldInv

-----------------------------------------------------------------------------
(* The distributors *)

OpSet == [kind : {"create", "exchange"}, i : Instances, rev : BOOLEAN, bytes : Nat]
InstSet ==
  [st : {"none", "setup", "direct", "rings", "gone"}, desc : 0 .. Slice, ack : 0 .. Slice,
   peerDesc : 0 .. Slice, peerAck : 0 .. Slice, stag : 0 .. Slice, sendEp : Nat, recvEp : Nat]

DirectType ==
  /\ pc \in [Rank -> {"idle", "agree", "stage", "publish", "poll", "copy", "ack", "aborted"}]
  /\ script \in Seq(OpSet)
  /\ pos \in [Rank -> Nat]
  /\ inst \in [Rank -> [Instances -> InstSet]]
  /\ DOMAIN arena = Rank /\ DOMAIN owned = Rank

\* A rank inside an operation works on an object in the state it needs; an
\* exchange moves at least one byte.
InOp(r) ==
  /\ pos[r] <= Len(script)
  /\ pc[r] \notin {"idle", "aborted"} => pos[r] > 0
  /\ pc[r] = "agree" => Cur(r).st = "setup"
  /\ pc[r] \in {"stage", "publish", "poll", "copy", "ack"} =>
       Cur(r).st = "direct" /\ Op(r).bytes > 0

\* An object's blocks are different blocks, and it starts without any.
OwnBlocks(x) ==
  /\ x.st = "none" => x.desc = 0 /\ x.ack = 0 /\ x.stag = 0
  /\ x.st = "setup" => x.stag = 0
  /\ x.desc # 0 => x.desc # x.ack /\ x.desc # x.stag
  /\ x.ack # 0 => x.ack # x.stag

BlocksOf(f) == [i \in Instances |-> Blocks(f[i])]

RankInv(r) ==
  /\ InOp(r)
  /\ \A i \in Instances : OwnBlocks(inst[r][i])
  /\ HoldInv(arena[r], BlocksOf(inst[r]), owned[r])

DirectInv == DirectType /\ \A r \in Rank : RankInv(r)

\* The invariant gives each block one owner.
LEMMA DirectInvOneOwner == DirectInv => OneOwner
<1> SUFFICES ASSUME DirectInv, NEW r \in Rank
             PROVE  /\ \A i, j \in Instances : i # j => Blocks(inst[r][i]) \cap Blocks(inst[r][j]) = {}
                    /\ \A i \in Instances : Blocks(inst[r][i]) \cap (owned[r] \cup FreeBlocks(arena[r])) = {}
                    /\ owned[r] \cap FreeBlocks(arena[r]) = {}
  BY ZenonT(60) DEF OneOwner
<1> DEFINE B == BlocksOf(inst[r])
           U == Held(B, owned[r])
<1>1. HoldInv(arena[r], B, owned[r])
  BY ZenonT(60) DEF DirectInv, RankInv
<1>2. \A i \in Instances : B[i] = Blocks(inst[r][i])
  BY ZenonT(60) DEF BlocksOf
<1>3. \A x \in U : x \notin FreeBlocks(arena[r])
  BY <1>1, ZenonT(60) DEF HoldInv, ArenaInv, Parted, FreeBlocks
<1>4. \A i \in Instances : \A x \in B[i] : x \in U
  BY ZenonT(60) DEF Held
<1>5. \A x \in owned[r] : x \in U
  BY ZenonT(60) DEF Held
<1>6. Apart(B, owned[r])
  BY <1>1, ZenonT(60) DEF HoldInv
<1> HIDE DEF B, U
<1>7. \A i \in Instances : B[i] \cap (owned[r] \cup FreeBlocks(arena[r])) = {}
  BY <1>3, <1>4, <1>6, ZenonT(60) DEF Apart
<1> QED BY <1>2, <1>3, <1>5, <1>6, <1>7, ZenonT(60) DEF Apart

\* No rank has done anything.
LEMMA DirectInit == Init => DirectInv
<1> SUFFICES ASSUME Init PROVE DirectInv
  BY ZenonT(60)
<1> USE ArenaAssumption
<1>1. NoInst \in InstSet /\ OwnBlocks(NoInst) /\ Blocks(NoInst) = {}
  BY DEF NoInst, InstSet, OwnBlocks, Blocks
<1>2. inst \in [Rank -> [Instances -> InstSet]]
  BY <1>1, ZenonT(60) DEF Init
<1>3. DirectType
  BY <1>2 DEF Init, DirectType, Rank
<1>4. ASSUME NEW r \in Rank PROVE RankInv(r)
  <2>1. InOp(r)
    BY DEF Init, InOp
  <2>2. \A i \in Instances : inst[r][i] = NoInst
    BY ZenonT(60) DEF Init
  <2>3. \A i \in Instances : BlocksOf(inst[r])[i] = {}
    BY <1>1, <2>2, ZenonT(60) DEF BlocksOf
  <2>4. owned[r] = {} /\ arena[r] = NewArena
    BY ZenonT(60) DEF Init
  <2>5. Held(BlocksOf(inst[r]), owned[r]) = {}
    BY <2>3, <2>4, ZenonT(60) DEF Held
  <2>6. Apart(BlocksOf(inst[r]), owned[r])
    BY <2>3, <2>4, ZenonT(60) DEF Apart
  <2> QED BY <1>1, <2>1, <2>2, <2>4, <2>5, <2>6, NewArenaInv, ZenonT(60) DEF RankInv, HoldInv
<1> QED BY <1>3, <1>4, ZenonT(60) DEF DirectInv

\* A collective operation is started: it is the last one of the rank's script.
LEMMA StartFacts ==
  ASSUME DirectType, NEW r \in Rank, pos[r] <= Len(script), NEW o \in OpSet, Start(r, o)
  PROVE  /\ script' \in Seq(OpSet) /\ Len(script) <= Len(script')
         /\ \A k \in 1 .. Len(script) : script'[k] = script[k]
         /\ pos' \in [Rank -> Nat] /\ pos'[r] > 0 /\ pos'[r] <= Len(script')
         /\ script'[pos'[r]] = o
         /\ \A q \in Rank : q # r => pos'[q] = pos[q]
<1>1. script \in Seq(OpSet) /\ pos \in [Rank -> Nat] /\ Len(script) \in Nat
  BY DEF DirectType
<1>2. pos' \in [Rank -> Nat] /\ pos'[r] = pos[r] + 1 /\ \A q \in Rank : q # r => pos'[q] = pos[q]
  BY <1>1, SMTT(60) DEF Start
<1>3. CASE pos[r] < Len(script)
  BY <1>1, <1>2, <1>3, SMTT(60) DEF Start
<1>4. CASE ~(pos[r] < Len(script))
  <2>1. script' = Append(script, o) /\ pos[r] = Len(script)
    BY <1>1, <1>4, SMTT(60) DEF Start
  <2>2. /\ script' \in Seq(OpSet) /\ Len(script') = Len(script) + 1 /\ script'[Len(script) + 1] = o
        /\ \A k \in 1 .. Len(script) : script'[k] = script[k]
    BY <1>1, <2>1
  <2> QED BY <1>1, <1>2, <2>1, <2>2, SMTT(60)
<1> QED BY <1>3, <1>4, ZenonT(60)

\* What a rank's step leaves alone: the other rank.
LEMMA OtherRank ==
  ASSUME DirectInv, NEW q \in Rank, Len(script) <= Len(script'), Len(script') \in Nat,
         \A k \in 1 .. Len(script) : script'[k] = script[k],
         pos'[q] = pos[q], pc'[q] = pc[q], inst'[q] = inst[q], arena'[q] = arena[q],
         owned'[q] = owned[q]
  PROVE  RankInv(q)'
<1>1. RankInv(q) /\ pos[q] \in Nat /\ Len(script) \in Nat
  BY SMTT(60) DEF DirectInv, DirectType
<1>2. pos'[q] <= Len(script')
  BY <1>1, SMTT(60) DEF RankInv, InOp
<1>3. ASSUME pos[q] > 0 PROVE Op(q)' = Op(q) /\ Cur(q)' = Cur(q)
  <2>1. pos[q] \in 1 .. Len(script)
    BY <1>1, <1>3, SMTT(60) DEF RankInv, InOp
  <2> QED BY <2>1, ZenonT(60) DEF Op, Cur
<1>4. CASE pc[q] \in {"idle", "aborted"}
  <2>1. InOp(q)'
    BY <1>2, <1>4, SMTT(60) DEF InOp
  <2> QED BY <1>1, <2>1, ZenonT(60) DEF RankInv
<1>5. CASE pc[q] \notin {"idle", "aborted"}
  <2>1. pos[q] > 0
    BY <1>1, <1>5, ZenonT(60) DEF RankInv, InOp
  <2>2. InOp(q)'
    BY <1>1, <1>2, <1>3, <2>1, ZenonT(60) DEF RankInv, InOp
  <2> QED BY <1>1, <2>2, ZenonT(60) DEF RankInv
<1> QED BY <1>4, <1>5, ZenonT(60)

\* A step of rank r that keeps its half of the invariant keeps the whole.
LEMMA OneRank ==
  ASSUME DirectInv, NEW r \in Rank, Len(script) <= Len(script'),
         \A k \in 1 .. Len(script) : script'[k] = script[k],
         DirectType', RankInv(r)',
         \A q \in Rank : q # r =>
           /\ pos'[q] = pos[q] /\ pc'[q] = pc[q] /\ inst'[q] = inst[q]
           /\ arena'[q] = arena[q] /\ owned'[q] = owned[q]
  PROVE  DirectInv'
<1>1. Len(script') \in Nat
  BY DEF DirectType
<1>2. ASSUME NEW q \in Rank PROVE RankInv(q)'
  <2>1. CASE q = r
    BY <2>1, ZenonT(60)
  <2>2. CASE q # r
    BY <1>1, <2>2, OtherRank, ZenonT(60)
  <2> QED BY <2>1, <2>2, ZenonT(60)
<1> QED BY <1>2, ZenonT(60) DEF DirectInv

\* One object of one rank changes.
LEMMA InstUpdate ==
  ASSUME DirectType, NEW r \in Rank, NEW i \in Instances, NEW y \in InstSet,
         inst' = [inst EXCEPT ![r][i] = y]
  PROVE  /\ inst' \in [Rank -> [Instances -> InstSet]]
         /\ inst'[r][i] = y
         /\ \A j \in Instances : j # i => inst'[r][j] = inst[r][j]
         /\ \A q \in Rank : q # r => inst'[q] = inst[q]
<1>1. inst \in [Rank -> [Instances -> InstSet]] /\ inst[r] \in [Instances -> InstSet]
  BY ZenonT(60) DEF DirectType
<1>2. inst' = [inst EXCEPT ![r] = [inst[r] EXCEPT ![i] = y]]
  BY ZenonT(60)
<1>3. PICK f : f = [inst[r] EXCEPT ![i] = y]
  BY ZenonT(60)
<1>4. f \in [Instances -> InstSet] /\ f[i] = y /\ \A j \in Instances : j # i => f[j] = inst[r][j]
  BY <1>1, <1>3, ZenonT(60)
<1>5. inst' = [inst EXCEPT ![r] = f]
  BY <1>2, <1>3, ZenonT(60)
<1>6. inst' \in [Rank -> [Instances -> InstSet]] /\ inst'[r] = f /\ \A q \in Rank : q # r => inst'[q] = inst[q]
  BY <1>1, <1>4, <1>5, SMTT(60)
<1> QED BY <1>4, <1>6, ZenonT(60)

\* The blocks stay with their holders when no object's blocks change.
LEMMA SameHolders ==
  ASSUME NEW a, NEW O, NEW f, NEW g, HoldInv(a, BlocksOf(f), O),
         \A j \in Instances : Blocks(g[j]) = Blocks(f[j])
  PROVE  HoldInv(a, BlocksOf(g), O)
<1>1. BlocksOf(g) = BlocksOf(f)
  BY SMTT(60) DEF BlocksOf
<1> QED BY <1>1, ZenonT(60)

\* Holding depends on the blocks of each object alone.
LEMMA HoldSame ==
  ASSUME NEW a, NEW O, NEW B, NEW C, HoldInv(a, B, O), \A j \in Instances : C[j] = B[j]
  PROVE  HoldInv(a, C, O)
<1>1. Held(C, O) = Held(B, O)
  <2>1. ASSUME NEW x \in Held(B, O) PROVE x \in Held(C, O)
    BY <2>1, ZenonT(60) DEF Held
  <2>2. ASSUME NEW x \in Held(C, O) PROVE x \in Held(B, O)
    BY <2>2, ZenonT(60) DEF Held
  <2> QED BY <2>1, <2>2, ZenonT(60)
<1>2. Apart(C, O)
  BY ZenonT(60) DEF HoldInv, Apart
<1> QED BY <1>1, <1>2, ZenonT(60) DEF HoldInv

\* The two tables of direct_setup: as many as the slice has room for.
LEMMA Tables ==
  ASSUME NEW a, NEW O, NEW B, HoldInv(a, B, O), NEW i \in Instances, B[i] = {},
         NEW n \in Nat \ {0}, NEW b, b = AfterAlloc(a, n), NEW desc, NEW ack,
         desc = IF CanAlloc(a, n) THEN BlockOf(a, n) ELSE 0,
         ack = IF CanAlloc(a, n) /\ CanAlloc(b, n) THEN BlockOf(b, n) ELSE 0,
         NEW C, C[i] = {desc, ack} \ {0}, \A j \in Instances : j # i => C[j] = B[j]
  PROVE  /\ desc \in 0 .. Slice /\ ack \in 0 .. Slice /\ (desc # 0 => desc # ack)
         /\ ~CanAlloc(a, n) => HoldInv(a, C, O)
         /\ CanAlloc(a, n) /\ ~CanAlloc(b, n) => HoldInv(b, C, O)
         /\ CanAlloc(a, n) /\ CanAlloc(b, n) => HoldInv(AfterAlloc(b, n), C, O)
<1>0. 0 \in 0 .. Slice
  BY ArenaAssumption
<1>1. CASE ~CanAlloc(a, n)
  <2>1. desc = 0 /\ ack = 0
    BY <1>1, ZenonT(60)
  <2>2. C[i] = B[i]
    BY <2>1, ZenonT(60)
  <2>3. \A j \in Instances : C[j] = B[j]
    BY <2>2, ZenonT(60)
  <2>4. HoldInv(a, C, O)
    BY <2>3, HoldSame, ZenonT(60)
  <2> QED BY <1>0, <1>1, <2>1, <2>4, ZenonT(60)
<1>2. CASE CanAlloc(a, n)
  <2>1. desc = BlockOf(a, n)
    BY <1>2, ZenonT(60)
  <2>2. PICK D : D = [j \in Instances |-> IF j = i THEN {desc} ELSE B[j]]
    BY ZenonT(60)
  <2>3. D[i] = {desc} /\ \A j \in Instances : j # i => D[j] = B[j]
    BY <2>2, ZenonT(60)
  <2>4. D[i] = B[i] \union {desc} /\ \A j \in Instances \ {i} : D[j] = B[j]
    BY <2>3, ZenonT(60)
  <2>5. HoldInv(b, D, O) /\ desc \in 1 .. Slice
    <3>1. HoldInv(AfterAlloc(a, n), D, O) /\ desc \in 1 .. Slice
      BY <1>2, <2>1, <2>4, HoldAlloc, SMTT(60)
    <3> QED BY <3>1, ZenonT(60)
  <2>6. desc # 0 /\ desc \in 0 .. Slice
    BY <2>5
  <2>7. CASE ~CanAlloc(b, n)
    <3>1. ack = 0
      BY <2>7, ZenonT(60)
    <3>2. C[i] = D[i]
      BY <2>3, <2>6, <3>1, ZenonT(60)
    <3>3. \A j \in Instances : C[j] = D[j]
      BY <2>3, <3>2, ZenonT(60)
    <3>4. HoldInv(b, C, O)
      BY <2>5, <3>3, HoldSame, ZenonT(60)
    <3> QED BY <1>0, <1>2, <2>6, <2>7, <3>1, <3>4, ZenonT(60)
  <2>8. CASE CanAlloc(b, n)
    <3>1. ack = BlockOf(b, n)
      BY <1>2, <2>8, ZenonT(60)
    <3>2. ack \in 1 .. Slice /\ ack \notin Held(D, O)
      <4>1. BlockOf(b, n) \in 1 .. Slice /\ BlockOf(b, n) \notin Held(D, O)
        BY <2>5, <2>8, HoldOwn, ZenonT(60)
      <4> QED BY <3>1, <4>1, ZenonT(60)
    <3>3. ack # 0 /\ ack \in 0 .. Slice
      BY <3>2
    <3>4. desc \in Held(D, O)
      BY <2>3, ZenonT(60) DEF Held
    <3>5. desc # ack
      BY <3>2, <3>4, ZenonT(60)
    <3>6. C[i] = D[i] \union {ack}
      BY <2>3, <2>6, <3>3, ZenonT(60)
    <3>7. \A j \in Instances \ {i} : C[j] = D[j]
      BY <2>3, ZenonT(60)
    <3>8. HoldInv(AfterAlloc(b, n), C, O)
      BY <2>5, <2>8, <3>1, <3>6, <3>7, HoldAlloc, SMTT(60)
    <3> QED BY <1>2, <2>6, <2>8, <3>3, <3>5, <3>8, ZenonT(60)
  <2> QED BY <2>7, <2>8, ZenonT(60)
<1> QED BY <1>1, <1>2, ZenonT(60)

\* direct_setup, first half: the tables are blocks nobody held.
LEMMA SetupLocalStep ==
  ASSUME DirectInv, NEW r \in Rank, NEW i \in Instances, SetupLocal(r, i)
  PROVE  DirectInv'
<1> DEFINE o == [kind |-> "create", i |-> i, rev |-> FALSE, bytes |-> 0]
           a == arena[r]
           n == TableLines
           B == BlocksOf(inst[r])
           C == BlocksOf(inst'[r])
<1>1. PICK b : b = AfterAlloc(a, n)
  BY ZenonT(60)
<1>2. PICK desc : desc = IF CanAlloc(a, n) THEN BlockOf(a, n) ELSE 0
  BY ZenonT(60)
<1>3. PICK ack : ack = IF CanAlloc(a, n) /\ CanAlloc(b, n) THEN BlockOf(b, n) ELSE 0
  BY ZenonT(60)
<1>4. PICK y : y = [NoInst EXCEPT !.st = "setup", !.desc = desc, !.ack = ack]
  BY ZenonT(60)
<1>5. /\ Start(r, o) /\ {j \in Instances : inst[r][j].st # "none"} = 1 .. (i - 1)
      /\ inst' = [inst EXCEPT ![r][i] = y]
      /\ arena' = [arena EXCEPT ![r] =
           IF ~CanAlloc(a, n) THEN a
           ELSE IF ~(CanAlloc(a, n) /\ CanAlloc(b, n)) THEN b ELSE AfterAlloc(b, n)]
      /\ pc' = [pc EXCEPT ![r] = "agree"] /\ UNCHANGED owned
  BY <1>1, <1>2, <1>3, <1>4, ZenonT(60) DEF SetupLocal
<1>6. /\ DirectType /\ InOp(r) /\ (\A j \in Instances : OwnBlocks(inst[r][j]))
      /\ HoldInv(a, B, owned[r])
  BY ZenonT(60) DEF DirectInv, RankInv
<1>7. inst[r][i].st = "none"
  <2>1. i \in Nat
    BY DirectAssumption, ZenonT(60)
  <2>2. i \notin 1 .. (i - 1)
    BY <2>1, SMTT(60)
  <2> QED BY <1>5, <2>2, ZenonT(60)
<1>8. B[i] = {}
  <2>1. inst[r][i].desc = 0 /\ inst[r][i].ack = 0 /\ inst[r][i].stag = 0
    BY <1>6, <1>7, ZenonT(60) DEF OwnBlocks
  <2>2. Blocks(inst[r][i]) = {}
    BY <2>1 DEF Blocks
  <2> QED BY <2>2, ZenonT(60) DEF BlocksOf
<1>9. n \in Nat \ {0}
  BY DEF TableLines
<1>10. y.st = "setup" /\ y.desc = desc /\ y.ack = ack /\ y.stag = 0
  BY <1>4, ZenonT(60) DEF NoInst
<1>11. Blocks(y) = {desc, ack} \ {0}
  BY <1>10, ZenonT(60) DEF Blocks
<1>12. DOMAIN inst = Rank /\ DOMAIN inst[r] = Instances
  BY <1>6, ZenonT(60) DEF DirectType
<1>13. inst'[r][i] = y /\ \A j \in Instances : j # i => inst'[r][j] = inst[r][j]
  BY <1>5, <1>12, ZenonT(60)
<1>14. C[i] = {desc, ack} \ {0} /\ \A j \in Instances : j # i => C[j] = B[j]
  BY <1>11, <1>13, ZenonT(60) DEF BlocksOf
<1> HIDE DEF B, C, a, n
<1>15. /\ desc \in 0 .. Slice /\ ack \in 0 .. Slice /\ (desc # 0 => desc # ack)
       /\ ~CanAlloc(a, n) => HoldInv(a, C, owned[r])
       /\ CanAlloc(a, n) /\ ~CanAlloc(b, n) => HoldInv(b, C, owned[r])
       /\ CanAlloc(a, n) /\ CanAlloc(b, n) => HoldInv(AfterAlloc(b, n), C, owned[r])
  BY <1>1, <1>2, <1>3, <1>6, <1>8, <1>9, <1>14, Tables, SMTT(60)
<1>16. y \in InstSet /\ OwnBlocks(y)
  <2>1. 0 \in 0 .. Slice
    BY ArenaAssumption, SMTT(60)
  <2>2. y \in InstSet
    BY <1>4, <1>15, <2>1, ZenonT(60) DEF NoInst, InstSet
  <2>3. OwnBlocks(y)
    BY <1>10, <1>15, ZenonT(60) DEF OwnBlocks
  <2> QED BY <2>2, <2>3, ZenonT(60)
<1>17. /\ inst' \in [Rank -> [Instances -> InstSet]]
       /\ \A q \in Rank : q # r => inst'[q] = inst[q]
  BY <1>5, <1>6, <1>16, InstUpdate, ZenonT(60)
<1>18. /\ DOMAIN arena = Rank /\ arena' = [arena EXCEPT ![r] = arena'[r]]
       /\ arena'[r] = IF ~CanAlloc(a, n) THEN a ELSE IF ~CanAlloc(b, n) THEN b ELSE AfterAlloc(b, n)
  BY <1>5, <1>6, ZenonT(60) DEF DirectType
<1>19. HoldInv(arena'[r], C, owned'[r])
  BY <1>5, <1>15, <1>18, ZenonT(60)
<1>20. o \in OpSet /\ o.i = i
  BY ZenonT(60) DEF OpSet
<1> HIDE DEF o
<1>21. /\ script' \in Seq(OpSet) /\ Len(script) <= Len(script')
       /\ \A k \in 1 .. Len(script) : script'[k] = script[k]
       /\ pos' \in [Rank -> Nat] /\ pos'[r] > 0 /\ pos'[r] <= Len(script')
       /\ script'[pos'[r]] = o
       /\ \A q \in Rank : q # r => pos'[q] = pos[q]
  BY <1>5, <1>6, <1>20, StartFacts, ZenonT(60) DEF InOp
<1>22. /\ pc' \in [Rank -> {"idle", "agree", "stage", "publish", "poll", "copy", "ack", "aborted"}]
       /\ pc'[r] = "agree" /\ \A q \in Rank : q # r => pc'[q] = pc[q]
  BY <1>5, <1>6, ZenonT(60) DEF DirectType
<1>23. DirectType'
  BY <1>5, <1>6, <1>17, <1>18, <1>21, <1>22, ZenonT(60) DEF DirectType
<1>24. Cur(r)'.st = "setup"
  BY <1>10, <1>13, <1>20, <1>21, ZenonT(60) DEF Cur, Op
<1>25. InOp(r)'
  BY <1>21, <1>22, <1>24, ZenonT(60) DEF InOp
<1>26. \A j \in Instances : OwnBlocks(inst'[r][j])
  BY <1>6, <1>13, <1>16, ZenonT(60)
<1>27. RankInv(r)'
  BY <1>19, <1>25, <1>26, ZenonT(60) DEF RankInv, C
<1>28. \A q \in Rank : q # r => arena'[q] = arena[q] /\ owned'[q] = owned[q]
  BY <1>5, <1>18, ZenonT(60)
<1> QED BY <1>17, <1>21, <1>22, <1>23, <1>27, <1>28, OneRank, ZenonT(60)

\* A step inside an operation that moves no block.
LEMMA QuietStep ==
  ASSUME DirectInv, NEW r \in Rank, UNCHANGED <<script, pos, inst, arena, owned>>,
         NEW p \in {"idle", "publish", "copy", "ack", "aborted"},
         pc' = [pc EXCEPT ![r] = p],
         p \notin {"idle", "aborted"} => pc[r] \in {"stage", "publish", "poll", "copy", "ack"}
  PROVE  DirectInv'
<1>1. DirectType /\ RankInv(r) /\ InOp(r)
  BY ZenonT(60) DEF DirectInv, RankInv
<1>2. /\ pc' \in [Rank -> {"idle", "agree", "stage", "publish", "poll", "copy", "ack", "aborted"}]
      /\ pc'[r] = p /\ \A q \in Rank : q # r => pc'[q] = pc[q]
  BY <1>1, ZenonT(60) DEF DirectType
<1>3. DirectType'
  BY <1>1, <1>2, ZenonT(60) DEF DirectType
<1>4. Op(r)' = Op(r) /\ Cur(r)' = Cur(r)
  BY ZenonT(60) DEF Op, Cur
<1>5. InOp(r)'
  <2>1. CASE p \in {"idle", "aborted"}
    BY <1>1, <1>2, <2>1, ZenonT(60) DEF InOp
  <2>2. CASE p \notin {"idle", "aborted"}
    <3>1. Cur(r).st = "direct" /\ Op(r).bytes > 0 /\ pos[r] > 0
      BY <1>1, <2>2, ZenonT(60) DEF InOp
    <3>2. pc'[r] # "agree"
      BY <1>2, SMTT(60)
    <3> QED BY <1>1, <1>2, <1>4, <3>1, <3>2, ZenonT(60) DEF InOp
  <2> QED BY <2>1, <2>2, ZenonT(60)
<1>6. RankInv(r)'
  BY <1>1, <1>5, ZenonT(60) DEF RankInv
<1>7. Len(script) <= Len(script') /\ \A k \in 1 .. Len(script) : script'[k] = script[k]
  <2>1. Len(script) \in Nat
    BY <1>1 DEF DirectType
  <2> QED BY <2>1, SMTT(60)
<1> QED BY <1>2, <1>3, <1>6, <1>7, OneRank, ZenonT(60)

\* An object changes without its blocks: epochs, state, the peer's tables.
LEMMA SameBlocksStep ==
  ASSUME DirectInv, NEW r \in Rank, NEW i \in Instances, NEW y \in InstSet,
         y.st \in {"direct", "rings"}, inst[r][i].st \in {"setup", "direct"},
         y.desc = inst[r][i].desc, y.ack = inst[r][i].ack, y.stag = inst[r][i].stag,
         inst' = [inst EXCEPT ![r][i] = y], UNCHANGED <<arena, owned>>
  PROVE  /\ inst' \in [Rank -> [Instances -> InstSet]] /\ inst'[r][i] = y
         /\ \A q \in Rank : q # r => inst'[q] = inst[q]
         /\ \A j \in Instances : OwnBlocks(inst'[r][j])
         /\ HoldInv(arena'[r], BlocksOf(inst'[r]), owned'[r])
<1>1. /\ DirectType /\ (\A j \in Instances : OwnBlocks(inst[r][j]))
      /\ HoldInv(arena[r], BlocksOf(inst[r]), owned[r])
  BY ZenonT(60) DEF DirectInv, RankInv
<1>2. /\ inst' \in [Rank -> [Instances -> InstSet]] /\ inst'[r][i] = y
      /\ \A j \in Instances : j # i => inst'[r][j] = inst[r][j]
      /\ \A q \in Rank : q # r => inst'[q] = inst[q]
  BY <1>1, InstUpdate, ZenonT(60)
<1>3. y.st # "none" /\ y.st # "setup" /\ y.st # "gone" /\ inst[r][i].st # "gone"
  BY ZenonT(60)
<1>4. Blocks(y) = Blocks(inst[r][i])
  BY <1>3, ZenonT(60) DEF Blocks
<1>5. OwnBlocks(y)
  BY <1>1, <1>3, ZenonT(60) DEF OwnBlocks
<1>6. \A j \in Instances : OwnBlocks(inst'[r][j]) /\ Blocks(inst'[r][j]) = Blocks(inst[r][j])
  BY <1>1, <1>2, <1>4, <1>5, ZenonT(60)
<1>7. HoldInv(arena[r], BlocksOf(inst'[r]), owned[r])
  BY <1>1, <1>6, SameHolders, ZenonT(60)
<1> QED BY <1>2, <1>6, <1>7, ZenonT(60)

\* direct_setup, second half.
LEMMA SetupAgreeStep ==
  ASSUME DirectInv, NEW r \in Rank, SetupAgree(r)
  PROVE  DirectInv'
<1>1. DirectType /\ InOp(r) /\ pc[r] = "agree"
  BY ZenonT(60) DEF DirectInv, RankInv, SetupAgree
<1>2. pos[r] \in 1 .. Len(script) /\ Len(script) \in Nat
  BY <1>1, SMTT(60) DEF InOp, DirectType
<1>3. script[pos[r]] \in OpSet
  BY <1>1, <1>2, SMTT(60) DEF DirectType
<1>4. PICK i \in Instances : i = Op(r).i
  BY <1>3, ZenonT(60) DEF OpSet, Op
<1>5. PICK q \in InstSet : q = inst[Peer(r)][i]
  BY <1>1 DEF DirectType, Peer, Rank
<1>6. PICK x \in InstSet : x = inst[r][i]
  BY <1>1, ZenonT(60) DEF DirectType
<1>7. PICK s \in {"direct", "rings"} :
        inst' = [inst EXCEPT ![r][i] = [@ EXCEPT !.st = s, !.peerDesc = q.desc, !.peerAck = q.ack]]
  BY <1>4, <1>5, ZenonT(60) DEF SetupAgree
<1>8. PICK y : y = [x EXCEPT !.st = s, !.peerDesc = q.desc, !.peerAck = q.ack]
  BY ZenonT(60)
<1>9. inst' = [inst EXCEPT ![r][i] = y]
  BY <1>6, <1>7, <1>8, ZenonT(60)
<1>10. /\ y \in InstSet /\ y.st \in {"direct", "rings"}
       /\ y.desc = x.desc /\ y.ack = x.ack /\ y.stag = x.stag
  <2>1. s \in {"none", "setup", "direct", "rings", "gone"} /\ q.desc \in 0 .. Slice /\ q.ack \in 0 .. Slice
    BY ZenonT(60) DEF InstSet
  <2>2. y \in InstSet
    <3>1. [x EXCEPT !.st = s] \in InstSet
      BY <2>1, ZenonT(60) DEF InstSet
    <3>2. PICK u \in InstSet : u = [x EXCEPT !.st = s]
      BY <3>1, ZenonT(60)
    <3>3. [u EXCEPT !.peerDesc = q.desc] \in InstSet
      BY <2>1, ZenonT(60) DEF InstSet
    <3>4. PICK v \in InstSet : v = [u EXCEPT !.peerDesc = q.desc]
      BY <3>3, ZenonT(60)
    <3>5. [v EXCEPT !.peerAck = q.ack] \in InstSet
      BY <2>1, SMTT(60) DEF InstSet
    <3> QED BY <1>8, <3>2, <3>4, <3>5, ZenonT(60)
  <2>3. y.st = s /\ y.desc = x.desc /\ y.ack = x.ack /\ y.stag = x.stag
    BY <1>8, SMTT(60) DEF InstSet
  <2> QED BY <2>2, <2>3, ZenonT(60)
<1>11. x.st = "setup"
  BY <1>1, <1>4, <1>6, ZenonT(60) DEF InOp, Cur
<1>12. UNCHANGED <<script, pos, arena, owned>> /\ pc' = [pc EXCEPT ![r] = "idle"]
  BY ZenonT(60) DEF SetupAgree
<1>13. /\ inst' \in [Rank -> [Instances -> InstSet]]
       /\ \A k \in Rank : k # r => inst'[k] = inst[k]
       /\ \A j \in Instances : OwnBlocks(inst'[r][j])
       /\ HoldInv(arena'[r], BlocksOf(inst'[r]), owned'[r])
  <2>1. x.st \in {"setup", "direct"}
    BY <1>11
  <2> QED BY <1>6, <1>9, <1>10, <1>12, <2>1, SameBlocksStep, ZenonT(60)
<1>14. /\ pc' \in [Rank -> {"idle", "agree", "stage", "publish", "poll", "copy", "ack", "aborted"}]
       /\ pc'[r] = "idle" /\ \A k \in Rank : k # r => pc'[k] = pc[k]
  BY <1>1, <1>12, ZenonT(60) DEF DirectType
<1>15. DirectType'
  BY <1>1, <1>12, <1>13, <1>14, ZenonT(60) DEF DirectType
<1>16. InOp(r)'
  BY <1>2, <1>12, <1>14, SMTT(60) DEF InOp
<1>17. RankInv(r)'
  BY <1>13, <1>16, ZenonT(60) DEF RankInv
<1>18. Len(script) <= Len(script') /\ \A k \in 1 .. Len(script) : script'[k] = script[k]
  BY <1>2, <1>12, SMTT(60)
<1> QED BY <1>12, <1>13, <1>14, <1>15, <1>17, <1>18, OneRank, ZenonT(60)

\* exchange() is entered: an epoch is taken, the object has its tables.
LEMMA EnterStep ==
  ASSUME DirectInv, NEW r \in Rank, NEW i \in Instances, NEW rev \in BOOLEAN, NEW n \in Sizes,
         Enter(r, i, rev, n)
  PROVE  DirectInv'
<1>1. PICK o : o = [kind |-> "exchange", i |-> i, rev |-> rev, bytes |-> n]
  BY ZenonT(60)
<1>2. n \in Nat /\ n > 0
  BY DirectAssumption, SMTT(60)
<1>3. o \in OpSet /\ o.i = i /\ o.bytes = n
  BY <1>1, <1>2, ZenonT(60) DEF OpSet
<1>4. DirectType /\ InOp(r)
  BY ZenonT(60) DEF DirectInv, RankInv
<1>5. /\ Start(r, o) /\ inst[r][i].st = "direct" /\ UNCHANGED <<arena, owned>>
      /\ \/ /\ inst' = [inst EXCEPT ![r][i].sendEp = @ + 1] /\ pc' = [pc EXCEPT ![r] = "stage"]
         \/ /\ inst' = [inst EXCEPT ![r][i].recvEp = @ + 1] /\ pc' = [pc EXCEPT ![r] = "poll"]
  BY <1>1, ZenonT(60) DEF Enter
<1>6. PICK x \in InstSet : x = inst[r][i]
  BY <1>4, ZenonT(60) DEF DirectType
<1>7. PICK y : /\ y \in {[x EXCEPT !.sendEp = @ + 1], [x EXCEPT !.recvEp = @ + 1]}
               /\ inst' = [inst EXCEPT ![r][i] = y]
  <2>1. CASE inst' = [inst EXCEPT ![r][i].sendEp = @ + 1]
    BY <1>6, <2>1, ZenonT(60)
  <2>2. CASE inst' = [inst EXCEPT ![r][i].recvEp = @ + 1]
    BY <1>6, <2>2, ZenonT(60)
  <2> QED BY <1>5, <2>1, <2>2, ZenonT(60)
<1>8. y \in InstSet /\ y.st = x.st /\ y.desc = x.desc /\ y.ack = x.ack /\ y.stag = x.stag
  <2>1. CASE y = [x EXCEPT !.sendEp = @ + 1]
    BY <2>1, SMTT(60) DEF InstSet
  <2>2. CASE y = [x EXCEPT !.recvEp = @ + 1]
    BY <2>2, SMTT(60) DEF InstSet
  <2> QED BY <1>7, <2>1, <2>2, ZenonT(60)
<1>9. PICK p \in {"stage", "poll"} : pc' = [pc EXCEPT ![r] = p]
  BY <1>5, ZenonT(60)
<1>10. /\ pc' \in [Rank -> {"idle", "agree", "stage", "publish", "poll", "copy", "ack", "aborted"}]
       /\ pc'[r] \in {"stage", "poll"} /\ \A q \in Rank : q # r => pc'[q] = pc[q]
  BY <1>4, <1>9, ZenonT(60) DEF DirectType
<1>11. /\ inst' \in [Rank -> [Instances -> InstSet]] /\ inst'[r][i] = y
       /\ \A q \in Rank : q # r => inst'[q] = inst[q]
       /\ \A j \in Instances : OwnBlocks(inst'[r][j])
       /\ HoldInv(arena'[r], BlocksOf(inst'[r]), owned'[r])
  <2>1. x.st \in {"setup", "direct"} /\ y.st \in {"direct", "rings"}
    BY <1>5, <1>6, <1>8, ZenonT(60)
  <2> QED BY <1>5, <1>6, <1>7, <1>8, <2>1, SameBlocksStep, ZenonT(60)
<1>12. /\ script' \in Seq(OpSet) /\ Len(script) <= Len(script')
       /\ \A k \in 1 .. Len(script) : script'[k] = script[k]
       /\ pos' \in [Rank -> Nat] /\ pos'[r] > 0 /\ pos'[r] <= Len(script')
       /\ script'[pos'[r]] = o
       /\ \A q \in Rank : q # r => pos'[q] = pos[q]
  BY <1>3, <1>4, <1>5, StartFacts, ZenonT(60) DEF InOp
<1>13. DirectType'
  BY <1>4, <1>5, <1>10, <1>11, <1>12, ZenonT(60) DEF DirectType
<1>14. Op(r)' = o /\ Cur(r)' = y
  BY <1>3, <1>11, <1>12, ZenonT(60) DEF Cur, Op
<1>15. InOp(r)'
  <2>1. Cur(r)'.st = "direct" /\ Op(r)'.bytes > 0
    BY <1>2, <1>3, <1>5, <1>6, <1>8, <1>14, ZenonT(60)
  <2>2. pc'[r] # "agree"
    BY <1>10
  <2> QED BY <1>12, <2>1, <2>2, ZenonT(60) DEF InOp
<1>16. RankInv(r)'
  BY <1>11, <1>15, ZenonT(60) DEF RankInv
<1> QED BY <1>5, <1>10, <1>11, <1>12, <1>13, <1>16, OneRank, ZenonT(60)

\* A vector is allocated: its block was nobody's.
LEMMA NewVectorStep ==
  ASSUME DirectInv, NEW r \in Rank, NEW n \in VectorSizes, NewVector(r, n)
  PROVE  DirectInv'
<1>1. DirectType /\ InOp(r) /\ RankInv(r)
  BY ZenonT(60) DEF DirectInv, RankInv
<1>2. PICK k : k = Lines(n)
  BY ZenonT(60)
<1>3. k \in Nat \ {0}
  <2>1. n \in Nat /\ n > 0
    BY DirectAssumption
  <2> QED BY <1>2, <2>1, SMTT(60) DEF Lines, Line
<1>4. PICK b : b = BlockOf(arena[r], k)
  BY ZenonT(60)
<1>5. /\ CanAlloc(arena[r], k) /\ arena' = [arena EXCEPT ![r] = AfterAlloc(arena[r], k)]
      /\ owned' = [owned EXCEPT ![r] = @ \cup {b}] /\ UNCHANGED <<pc, script, pos, inst>>
  BY <1>2, <1>4, ZenonT(60) DEF NewVector
<1>6. /\ arena'[r] = AfterAlloc(arena[r], k) /\ owned'[r] = owned[r] \union {b}
      /\ DOMAIN arena' = Rank /\ DOMAIN owned' = Rank
      /\ \A q \in Rank : q # r => arena'[q] = arena[q] /\ owned'[q] = owned[q]
  BY <1>1, <1>5, ZenonT(60) DEF DirectType
<1>7. HoldInv(arena'[r], BlocksOf(inst[r]), owned'[r])
  <2>1. HoldInv(arena[r], BlocksOf(inst[r]), owned[r])
    BY <1>1, ZenonT(60) DEF RankInv
  <2>2. HoldInv(AfterAlloc(arena[r], k), BlocksOf(inst[r]), owned[r] \union {b})
    BY <1>3, <1>4, <1>5, <2>1, HoldOwn, ZenonT(60)
  <2> QED BY <1>6, <2>2, ZenonT(60)
<1>8. DirectType'
  BY <1>1, <1>5, <1>6, ZenonT(60) DEF DirectType
<1>9. InOp(r)'
  BY <1>1, <1>5, ZenonT(60) DEF InOp, Cur, Op
<1>10. RankInv(r)'
  BY <1>1, <1>5, <1>7, <1>9, ZenonT(60) DEF RankInv
<1>11. Len(script) <= Len(script') /\ \A j \in 1 .. Len(script) : script'[j] = script[j]
  <2>1. Len(script) \in Nat
    BY <1>1 DEF DirectType
  <2> QED BY <1>5, <2>1, SMTT(60)
<1> QED BY <1>5, <1>6, <1>8, <1>10, <1>11, OneRank, ZenonT(60)

\* A pointer that may be null is freed.
LEMMA HoldReturned ==
  ASSUME NEW a, NEW O, NEW B, HoldInv(a, B, O), NEW i \in Instances, NEW b,
         b = 0 \/ b \in B[i], 0 \notin B[i],
         NEW C, C[i] = B[i] \ {b}, \A j \in Instances : j # i => C[j] = B[j]
  PROVE  HoldInv(Returned(a, b), C, O)
<1>1. CASE b = 0
  <2>1. C[i] = B[i]
    BY <1>1, ZenonT(60)
  <2>2. \A j \in Instances : C[j] = B[j]
    BY <2>1, ZenonT(60)
  <2>3. Returned(a, b) = a
    BY <1>1, ZenonT(60) DEF Returned
  <2> QED BY <2>2, <2>3, HoldSame, ZenonT(60)
<1>2. CASE b # 0
  <2>1. Returned(a, b) = AfterFree(a, b) /\ b \in B[i]
    BY <1>2, ZenonT(60) DEF Returned
  <2>2. \A j \in Instances \ {i} : C[j] = B[j]
    BY ZenonT(60)
  <2>3. HoldInv(AfterFree(a, b), C, O)
    BY <2>1, <2>2, HoldFree, ZenonT(60)
  <2> QED BY <2>1, <2>3, ZenonT(60)
<1> QED BY <1>1, <1>2, ZenonT(60)

\* The destructor gives back what the object holds and nothing else.
LEMMA DestroyStep ==
  ASSUME DirectInv, NEW r \in Rank, NEW i \in Instances, Destroy(r, i)
  PROVE  DirectInv'
<1>1. DirectType /\ InOp(r) /\ RankInv(r)
  BY ZenonT(60) DEF DirectInv, RankInv
<1>2. PICK x \in InstSet : x = inst[r][i]
  BY <1>1, ZenonT(60) DEF DirectType
<1>3. PICK y : y = [NoInst EXCEPT !.st = "gone", !.desc = x.desc, !.ack = x.ack]
  BY ZenonT(60)
<1>4. /\ pc[r] = "idle" /\ x.st \in {"direct", "rings"}
      /\ arena' = [arena EXCEPT ![r] = Returned(Returned(Returned(@, x.desc), x.ack), x.stag)]
      /\ inst' = [inst EXCEPT ![r][i] = y]
      /\ UNCHANGED <<pc, script, pos, owned>>
  BY <1>2, <1>3, ZenonT(60) DEF Destroy
<1>5. y.st = "gone" /\ y.desc = x.desc /\ y.ack = x.ack /\ y.stag = 0
  BY <1>3, ZenonT(60) DEF NoInst
<1>6. y \in InstSet
  <2>1. 0 \in 0 .. Slice /\ x.desc \in 0 .. Slice /\ x.ack \in 0 .. Slice
    BY ArenaAssumption DEF InstSet
  <2> QED BY <1>3, <2>1, ZenonT(60) DEF NoInst, InstSet
<1>7. x.st # "gone" /\ OwnBlocks(x)
  BY <1>1, <1>2, <1>4, ZenonT(60) DEF RankInv
<1>8. OwnBlocks(y)
  BY <1>5, <1>7, ZenonT(60) DEF OwnBlocks
<1>9. /\ inst' \in [Rank -> [Instances -> InstSet]] /\ inst'[r][i] = y
      /\ \A j \in Instances : j # i => inst'[r][j] = inst[r][j]
      /\ \A q \in Rank : q # r => inst'[q] = inst[q]
  BY <1>1, <1>4, <1>6, InstUpdate, ZenonT(60)
<1>10. PICK B : B = BlocksOf(inst[r])
  BY ZenonT(60)
<1>11. PICK C : C = BlocksOf(inst'[r])
  BY ZenonT(60)
<1>12. B[i] = {x.desc, x.ack, x.stag} \ {0} /\ C[i] = {} /\ \A j \in Instances : j # i => C[j] = B[j]
  BY <1>2, <1>5, <1>7, <1>9, <1>10, <1>11, ZenonT(60) DEF BlocksOf, Blocks
<1>13. PICK O : O = owned[r]
  BY ZenonT(60)
<1>14. HoldInv(arena[r], B, O)
  BY <1>1, <1>10, <1>13, ZenonT(60) DEF RankInv
<1>15. PICK a1 : a1 = Returned(arena[r], x.desc)
  BY ZenonT(60)
<1>16. PICK D1 : D1 = [j \in Instances |-> IF j = i THEN B[i] \ {x.desc} ELSE B[j]]
  BY ZenonT(60)
<1>17. D1[i] = B[i] \ {x.desc} /\ \A j \in Instances : j # i => D1[j] = B[j]
  BY <1>16, ZenonT(60)
<1>18. HoldInv(a1, D1, O)
  <2>1. (x.desc = 0 \/ x.desc \in B[i]) /\ 0 \notin B[i]
    BY <1>12, ZenonT(60)
  <2> QED BY <1>14, <1>15, <1>17, <2>1, HoldReturned, ZenonT(60)
<1>19. PICK a2 : a2 = Returned(a1, x.ack)
  BY ZenonT(60)
<1>20. PICK D2 : D2 = [j \in Instances |-> IF j = i THEN D1[i] \ {x.ack} ELSE D1[j]]
  BY ZenonT(60)
<1>21. D2[i] = D1[i] \ {x.ack} /\ \A j \in Instances : j # i => D2[j] = D1[j]
  BY <1>20, ZenonT(60)
<1>22. HoldInv(a2, D2, O)
  <2>1. (x.ack = 0 \/ x.ack \in D1[i]) /\ 0 \notin D1[i]
    BY <1>7, <1>12, <1>17, SMTT(60) DEF OwnBlocks
  <2> QED BY <1>18, <1>19, <1>21, <2>1, HoldReturned, ZenonT(60)
<1>23. HoldInv(Returned(a2, x.stag), C, O)
  <2>1. (x.stag = 0 \/ x.stag \in D2[i]) /\ 0 \notin D2[i]
    BY <1>7, <1>12, <1>17, <1>21, ZenonT(60) DEF OwnBlocks
  <2>2. C[i] = D2[i] \ {x.stag}
    BY <1>12, <1>17, <1>21, ZenonT(60)
  <2>3. \A j \in Instances : j # i => C[j] = D2[j]
    BY <1>12, <1>17, <1>21, ZenonT(60)
  <2> QED BY <1>22, <2>1, <2>2, <2>3, HoldReturned, ZenonT(60)
<1>24. /\ arena'[r] = Returned(a2, x.stag) /\ DOMAIN arena' = Rank
       /\ \A q \in Rank : q # r => arena'[q] = arena[q]
  BY <1>1, <1>4, <1>15, <1>19, ZenonT(60) DEF DirectType
<1>25. HoldInv(arena'[r], BlocksOf(inst'[r]), owned'[r])
  BY <1>4, <1>11, <1>13, <1>23, <1>24, ZenonT(60)
<1>26. DirectType'
  BY <1>1, <1>4, <1>9, <1>24, ZenonT(60) DEF DirectType
<1>27. InOp(r)'
  BY <1>1, <1>4, ZenonT(60) DEF InOp
<1>28. \A j \in Instances : OwnBlocks(inst'[r][j])
  BY <1>1, <1>8, <1>9, ZenonT(60) DEF RankInv
<1>29. RankInv(r)'
  BY <1>25, <1>27, <1>28, ZenonT(60) DEF RankInv
<1>30. Len(script) <= Len(script') /\ \A j \in 1 .. Len(script) : script'[j] = script[j]
  <2>1. Len(script) \in Nat
    BY <1>1, SMTT(60) DEF DirectType
  <2> QED BY <1>4, <2>1, SMTT(60)
<1> QED BY <1>4, <1>9, <1>24, <1>26, <1>29, <1>30, OneRank, ZenonT(60)

\* The staging grows: the new block was nobody's, the old one goes back.
LEMMA StageGrowStep ==
  ASSUME DirectInv, NEW r \in Rank, StageGrow(r)
  PROVE  DirectInv'
<1>1. DirectType /\ InOp(r) /\ RankInv(r) /\ pc[r] = "stage"
  BY ZenonT(60) DEF DirectInv, RankInv, StageGrow
<1>2. pos[r] \in 1 .. Len(script) /\ Len(script) \in Nat
  BY <1>1, SMTT(60) DEF InOp, DirectType
<1>3. Op(r) \in OpSet /\ Cur(r).st = "direct" /\ Op(r).bytes > 0
  <2>1. script[pos[r]] \in OpSet
    BY <1>1, <1>2, SMTT(60) DEF DirectType
  <2>2. pc[r] \in {"stage", "publish", "poll", "copy", "ack"}
    BY <1>1
  <2> QED BY <1>1, <2>1, <2>2, ZenonT(60) DEF InOp, Op
<1>4. PICK i \in Instances : i = Op(r).i
  BY <1>3, ZenonT(60) DEF OpSet
<1>5. PICK n : n = Lines(Op(r).bytes)
  BY ZenonT(60)
<1>6. n \in Nat \ {0}
  <2>1. Op(r).bytes \in Nat /\ Op(r).bytes > 0
    BY <1>3, ZenonT(60) DEF OpSet
  <2> QED BY <1>5, <2>1, SMTT(60) DEF Lines, Line
<1>7. PICK x \in InstSet : x = inst[r][i]
  BY <1>1, ZenonT(60) DEF DirectType
<1>8. PICK s : s = BlockOf(arena[r], n)
  BY ZenonT(60)
<1>9. PICK a1 : a1 = AfterAlloc(arena[r], n)
  BY ZenonT(60)
<1>10. /\ CanAlloc(arena[r], n)
       /\ arena' = [arena EXCEPT ![r] = IF x.stag = 0 THEN a1 ELSE AfterFree(a1, x.stag)]
       /\ inst' = [inst EXCEPT ![r][i].stag = s] /\ pc' = [pc EXCEPT ![r] = "publish"]
       /\ UNCHANGED <<script, pos, owned>>
  BY <1>4, <1>5, <1>7, <1>8, <1>9, ZenonT(60) DEF StageGrow, Cur, WriteStaging
<1>11. PICK y : y = [x EXCEPT !.stag = s]
  BY ZenonT(60)
<1>12. inst' = [inst EXCEPT ![r][i] = y]
  BY <1>7, <1>10, <1>11, ZenonT(60)
<1>13. x.st = "direct" /\ OwnBlocks(x)
  BY <1>1, <1>3, <1>4, <1>7, ZenonT(60) DEF RankInv, Cur
<1>14. PICK B : B = BlocksOf(inst[r])
  BY ZenonT(60)
<1>15. PICK O : O = owned[r]
  BY ZenonT(60)
<1>16. HoldInv(arena[r], B, O)
  BY <1>1, <1>14, <1>15, ZenonT(60) DEF RankInv
<1>17. B[i] = {x.desc, x.ack, x.stag} \ {0}
  <2>1. x.st # "gone"
    BY <1>13, SMTT(60)
  <2> QED BY <1>7, <1>14, <2>1, ZenonT(60) DEF BlocksOf, Blocks
<1>18. PICK D : D = [j \in Instances |-> IF j = i THEN B[i] \union {s} ELSE B[j]]
  BY ZenonT(60)
<1>19. D[i] = B[i] \union {s} /\ \A j \in Instances : j # i => D[j] = B[j]
  BY <1>18, ZenonT(60)
<1>20. HoldInv(a1, D, O) /\ s \in 1 .. Slice /\ s \notin Held(B, O)
  <2>1. \A j \in Instances \ {i} : D[j] = B[j]
    BY <1>19, ZenonT(60)
  <2>2. HoldInv(AfterAlloc(arena[r], n), D, O) /\ s \in 1 .. Slice /\ s \notin Held(B, O)
    BY <1>6, <1>8, <1>10, <1>16, <1>19, <2>1, HoldAlloc, SMTT(60)
  <2> QED BY <1>9, <2>2, ZenonT(60)
<1>21. s \in 0 .. Slice /\ s # 0 /\ s \notin B[i]
  <2>1. s \in 0 .. Slice /\ s # 0
    BY <1>20, ArenaAssumption, SMTT(60)
  <2>2. s \notin B[i]
    BY <1>20, ZenonT(60) DEF Held
  <2> QED BY <2>1, <2>2, ZenonT(60)
<1>22. y \in InstSet /\ y.st = "direct" /\ y.desc = x.desc /\ y.ack = x.ack /\ y.stag = s
  <2>1. y \in InstSet
    BY <1>11, <1>21, ZenonT(60) DEF InstSet
  <2>2. y.st = x.st /\ y.desc = x.desc /\ y.ack = x.ack /\ y.stag = s
    BY <1>11, SMTT(60) DEF InstSet
  <2> QED BY <1>13, <2>1, <2>2, ZenonT(60)
<1>23. OwnBlocks(y)
  BY <1>13, <1>17, <1>21, <1>22, ZenonT(60) DEF OwnBlocks
<1>24. /\ inst' \in [Rank -> [Instances -> InstSet]] /\ inst'[r][i] = y
       /\ \A j \in Instances : j # i => inst'[r][j] = inst[r][j]
       /\ \A q \in Rank : q # r => inst'[q] = inst[q]
  BY <1>1, <1>12, <1>22, InstUpdate, ZenonT(60)
<1>25. PICK C : C = BlocksOf(inst'[r])
  BY ZenonT(60)
<1>26. C[i] = {x.desc, x.ack, s} \ {0} /\ \A j \in Instances : j # i => C[j] = D[j]
  <2>1. y.st # "gone"
    BY <1>22, ZenonT(60)
  <2>2. Blocks(y) = {x.desc, x.ack, s} \ {0}
    BY <1>22, <2>1, ZenonT(60) DEF Blocks
  <2> QED BY <1>14, <1>19, <1>24, <1>25, <2>2, ZenonT(60) DEF BlocksOf
<1>27. HoldInv(Returned(a1, x.stag), C, O)
  <2>1. (x.stag = 0 \/ x.stag \in D[i]) /\ 0 \notin D[i]
    BY <1>17, <1>19, <1>21, ZenonT(60)
  <2>2. C[i] = D[i] \ {x.stag}
    <3>1. x.stag # s \/ x.stag = 0
      BY <1>17, <1>21, ZenonT(60)
    <3> QED BY <1>13, <1>17, <1>19, <1>21, <1>26, <3>1, SMTT(60) DEF OwnBlocks
  <2> QED BY <1>20, <1>26, <2>1, <2>2, HoldReturned, ZenonT(60)
<1>28. /\ arena'[r] = Returned(a1, x.stag) /\ DOMAIN arena' = Rank
       /\ \A q \in Rank : q # r => arena'[q] = arena[q]
  BY <1>1, <1>10, ZenonT(60) DEF DirectType, Returned
<1>29. HoldInv(arena'[r], BlocksOf(inst'[r]), owned'[r])
  BY <1>10, <1>15, <1>25, <1>27, <1>28, ZenonT(60)
<1>30. /\ pc' \in [Rank -> {"idle", "agree", "stage", "publish", "poll", "copy", "ack", "aborted"}]
       /\ pc'[r] = "publish" /\ \A q \in Rank : q # r => pc'[q] = pc[q]
  BY <1>1, <1>10, ZenonT(60) DEF DirectType
<1>31. DirectType'
  BY <1>1, <1>10, <1>24, <1>28, <1>30, ZenonT(60) DEF DirectType
<1>32. InOp(r)'
  <2>1. Op(r)' = Op(r) /\ Cur(r)' = y
    BY <1>4, <1>10, <1>24, ZenonT(60) DEF Op, Cur
  <2> QED BY <1>2, <1>3, <1>10, <1>22, <1>30, <2>1, SMTT(60) DEF InOp
<1>33. \A j \in Instances : OwnBlocks(inst'[r][j])
  BY <1>1, <1>23, <1>24, ZenonT(60) DEF RankInv
<1>34. RankInv(r)'
  BY <1>29, <1>32, <1>33, ZenonT(60) DEF RankInv
<1>35. Len(script) <= Len(script') /\ \A j \in 1 .. Len(script) : script'[j] = script[j]
  BY <1>2, <1>10, SMTT(60)
<1> QED BY <1>10, <1>24, <1>28, <1>30, <1>31, <1>34, <1>35, OneRank, ZenonT(60)

\* The steps of the distributors, one rank at a time.
LEMMA DirectStep == DirectInv /\ [Next]_vars => DirectInv'
<1> SUFFICES ASSUME DirectInv, [Next]_vars PROVE DirectInv'
  BY ZenonT(60)
<1>1. CASE UNCHANGED vars
  BY <1>1, ZenonT(60) DEF vars, DirectInv, DirectType, RankInv, InOp, Op, Cur
<1>2. CASE Next
  <2>1. PICK r \in Rank :
          \/ \E i \in Instances : SetupLocal(r, i) \/ Destroy(r, i)
          \/ \E i \in Instances, rev \in BOOLEAN, b \in Sizes : Enter(r, i, rev, b)
          \/ Exchanging(r)
          \/ \E b \in VectorSizes : NewVector(r, b)
    BY <1>2, ZenonT(60) DEF Next
  <2>2. CASE \E i \in Instances : SetupLocal(r, i) \/ Destroy(r, i)
    BY <2>2, SetupLocalStep, DestroyStep, ZenonT(60)
  <2>3. CASE \E i \in Instances, rev \in BOOLEAN, b \in Sizes : Enter(r, i, rev, b)
    BY <2>3, EnterStep, ZenonT(60)
  <2>4. CASE \E b \in VectorSizes : NewVector(r, b)
    BY <2>4, NewVectorStep, ZenonT(60)
  <2>5. CASE Exchanging(r)
    <3>1. CASE SetupAgree(r)
      BY <3>1, SetupAgreeStep, ZenonT(60)
    <3>2. CASE StageGrow(r)
      BY <3>2, StageGrowStep, ZenonT(60)
    <3>3. CASE Stage(r)
      <4>1. /\ UNCHANGED <<script, pos, inst, arena, owned>> /\ pc' = [pc EXCEPT ![r] = "publish"]
            /\ pc[r] \in {"stage", "publish", "poll", "copy", "ack"}
        BY <3>3, ZenonT(60) DEF Stage, WriteStaging
      <4> QED BY <4>1, QuietStep, ZenonT(60)
    <3>4. CASE StageExhausted(r)
      <4>1. UNCHANGED <<script, pos, inst, arena, owned>> /\ pc' = [pc EXCEPT ![r] = "aborted"]
        BY <3>4, ZenonT(60) DEF StageExhausted, Abort
      <4> QED BY <4>1, QuietStep, ZenonT(60)
    <3>5. CASE Publish(r)
      <4>1. UNCHANGED <<script, pos, inst, arena, owned>> /\ pc' = [pc EXCEPT ![r] = "idle"]
        BY <3>5, ZenonT(60) DEF Publish
      <4> QED BY <4>1, QuietStep, ZenonT(60)
    <3>6. CASE See(r)
      <4>1. /\ UNCHANGED <<script, pos, inst, arena, owned>>
            /\ pc' = [pc EXCEPT ![r] = "copy"] \/ pc' = [pc EXCEPT ![r] = "aborted"]
            /\ pc[r] \in {"stage", "publish", "poll", "copy", "ack"}
        BY <3>6, ZenonT(60) DEF See, Abort
      <4> QED BY <4>1, QuietStep, ZenonT(60)
    <3>7. CASE CopyMsg(r)
      <4>1. /\ UNCHANGED <<script, pos, inst, arena, owned>> /\ pc' = [pc EXCEPT ![r] = "ack"]
            /\ pc[r] \in {"stage", "publish", "poll", "copy", "ack"}
        BY <3>7, ZenonT(60) DEF CopyMsg
      <4> QED BY <4>1, QuietStep, ZenonT(60)
    <3>8. CASE Ack(r)
      <4>1. UNCHANGED <<script, pos, inst, arena, owned>> /\ pc' = [pc EXCEPT ![r] = "idle"]
        BY <3>8, ZenonT(60) DEF Ack
      <4> QED BY <4>1, QuietStep, ZenonT(60)
    <3> QED BY <2>5, <3>1, <3>2, <3>3, <3>4, <3>5, <3>6, <3>7, <3>8, ZenonT(60) DEF Exchanging
  <2> QED BY <2>1, <2>2, <2>3, <2>4, <2>5, ZenonT(60)
<1> QED BY <1>1, <1>2, ZenonT(60)

\* Tables, staging and vectors never share a block, whatever the ranks create,
\* exchange and destroy: the blocks of ShmDistributor are freed once, by the
\* destructor or when the staging grows, and arena_alloc hands out what nobody
\* holds.  This needs no synchronisation of the application.
THEOREM OneOwnerAlways == MCSpec => []OneOwner
<1>1. MCInit => DirectInv
  BY DirectInit, ZenonT(60) DEF MCInit
<1>2. DirectInv /\ [MCNext]_<<user, vars, vecVars>> => DirectInv'
  <2>1. [MCNext]_<<user, vars, vecVars>> => [Next]_vars
    BY ZenonT(60) DEF MCNext
  <2> QED BY <2>1, DirectStep, ZenonT(60)
<1> QED BY <1>1, <1>2, DirectInvOneOwner, PTL DEF MCSpec

-----------------------------------------------------------------------------
(* Delivery *)

\* A line of a slice, whatever it holds.
Fields == {"word", "off", "bytes", "msg"}
SliceType(m) == DOMAIN m = 1 .. Slice /\ \A a \in 1 .. Slice : DOMAIN m[a] = Fields
MemType == DOMAIN mem = Rank /\ (\A r \in Rank : SliceType(mem[r])) /\ DOMAIN buf = Rank

\* Where rank r is with object i.
Place(r, i) == IF pc[r] = "aborted" THEN "aborted"
               ELSE IF pc[r] # "idle" /\ Op(r).i = i THEN pc[r] ELSE "idle"

\* The object is alive and has both tables.
Tabled(x) == x.st \notin {"none", "gone"} /\ x.desc # 0 /\ x.ack # 0

\* In slice m, object x of instance i: the descriptor points to the staging,
\* which holds message n.
Staged(i, x, m, n) ==
  x.stag # 0 /\ m[x.desc].off = x.stag /\ m[x.stag].msg = <<i, n>>

\* The words count the messages published and acknowledged, and the staging
\* holds the last one published or, once it is written, the next one.
Sending(i, x, p, m) ==
  /\ m[x.desc].word \in Nat /\ m[x.ack].word \in Nat
  /\ p # "aborted" =>
       /\ x.sendEp = m[x.desc].word + IF p \in {"stage", "publish"} THEN 1 ELSE 0
       /\ x.recvEp = m[x.ack].word + IF p \in {"poll", "copy", "ack"} THEN 1 ELSE 0
  /\ p = "publish" => Staged(i, x, m, x.sendEp)
  /\ p # "publish" /\ m[x.desc].word > 0 => Staged(i, x, m, m[x.desc].word)

\* A sender is at most one message ahead of the acks of its receiver, object y
\* in slice n.
InWindow(x, p, m, y, n) ==
  /\ m[x.desc].word <= n[y.ack].word + 1
  /\ p = "publish" => x.sendEp <= n[y.ack].word + 1

\* What an object knows of its peer.
Agreed(x, p, y) ==
  /\ x.st = "setup" => p = "agree" /\ x.sendEp = 0 /\ x.recvEp = 0
  /\ x.st \in {"direct", "rings"} => y.st # "none"
  /\ x.st = "direct" => /\ x.desc # 0 /\ x.ack # 0 /\ y.desc # 0 /\ y.ack # 0
                        /\ x.peerDesc = y.desc /\ x.peerAck = y.ack

\* A receiver between poll and ack.
Receiving(r) ==
  /\ pc[r] = "copy" => Cur(r).recvEp <= mem[Peer(r)][inst[Peer(r)][Op(r).i].desc].word
  /\ pc[r] = "ack" => buf[r] = <<Op(r).i, Cur(r).recvEp>>

ObjectInv(r, i) ==
  LET q == Peer(r)
      x == inst[r][i]
      y == inst[q][i]
      p == Place(r, i)
  IN /\ Agreed(x, p, y)
     /\ Tabled(x) => Sending(i, x, p, mem[r])
     /\ Tabled(x) /\ Tabled(y) => InWindow(x, p, mem[r], y, mem[q])

\* A rank has the objects it has created, and nobody has an operation left on
\* an object that is gone.
Created(r) ==
  /\ \A k \in 1 .. pos[r] : script[k].kind = "create" => inst[r][script[k].i].st # "none"
  /\ \A i \in Instances : inst[r][i].st # "none" =>
       \E k \in 1 .. pos[r] : script[k].kind = "create" /\ script[k].i = i
NobodyUses(i) == \A q \in Rank : DoneWith(q, i)

ScriptInv ==
  /\ \A r \in Rank : Created(r)
  /\ \A r \in Rank, i \in Instances : inst[r][i].st = "gone" => NobodyUses(i)
ViewInv == \A r \in Rank : Receiving(r) /\ \A i \in Instances : ObjectInv(r, i)
DeliverInv == MemType /\ ScriptInv /\ ViewInv

\* The two ranks.
LEMMA Ranks ==
  ASSUME NEW r \in Rank
  PROVE  /\ Peer(r) \in Rank /\ Peer(r) # r /\ Peer(Peer(r)) = r
         /\ \A q \in Rank : q = r \/ q = Peer(r)
BY SMTT(60) DEF Rank, Peer

\* The object a rank works on in an exchange, and its peer's, have their tables.
LEMMA InExchange ==
  ASSUME DirectInv, ScriptInv, ViewInv, NEW r \in Rank,
         pc[r] \in {"stage", "publish", "poll", "copy", "ack"}
  PROVE  /\ Op(r).i \in Instances /\ Op(r).bytes \in Nat \ {0}
         /\ Cur(r) = inst[r][Op(r).i] /\ Cur(r).st = "direct"
         /\ Place(r, Op(r).i) = pc[r]
         /\ Tabled(inst[r][Op(r).i]) /\ Tabled(inst[Peer(r)][Op(r).i])
         /\ Cur(r).peerDesc = inst[Peer(r)][Op(r).i].desc
         /\ Cur(r).peerAck = inst[Peer(r)][Op(r).i].ack
<1> DEFINE i == Op(r).i
<1>1. InOp(r) /\ script \in Seq(OpSet) /\ pos[r] \in Nat /\ Peer(r) \in Rank
  BY Ranks, ZenonT(60) DEF DirectInv, DirectType, RankInv
<1>2. pc[r] \notin {"idle", "aborted"}
  BY ZenonT(60)
<1>3. pos[r] \in 1 .. Len(script)
  BY <1>1, <1>2, SMTT(60) DEF InOp
<1>4. Op(r) \in OpSet
  BY <1>1, <1>3, SMTT(60) DEF Op
<1>5. i \in Instances /\ Op(r).bytes \in Nat
  BY <1>4, SMTT(60) DEF OpSet
<1>6. Cur(r).st = "direct" /\ Op(r).bytes > 0 /\ Cur(r) = inst[r][i]
  BY <1>1, ZenonT(60) DEF InOp, Cur
<1>7. Place(r, i) = pc[r]
  BY <1>2, ZenonT(60) DEF Place
<1>8. Agreed(inst[r][i], Place(r, i), inst[Peer(r)][i])
  BY <1>5, ZenonT(60) DEF ViewInv, ObjectInv
<1>9. inst[Peer(r)][i].st # "gone"
  <2>1. ~DoneWith(r, i)
    BY <1>1, <1>2, <1>3, SMTT(60) DEF DoneWith, Op
  <2> QED BY <1>1, <1>5, <2>1, ZenonT(60) DEF ScriptInv, NobodyUses
<1>10. Op(r).bytes \in Nat \ {0}
  BY <1>5, <1>6, SMTT(60)
<1> QED BY <1>5, <1>6, <1>7, <1>8, <1>9, <1>10, ZenonT(60) DEF Agreed, Tabled

\* What is said of an object in a slice depends on its blocks alone.
LEMMA SendingFrame ==
  ASSUME NEW i, NEW x, NEW p, NEW m, NEW n, Tabled(x), Sending(i, x, p, m),
         \A a \in Blocks(x) : n[a] = m[a]
  PROVE  Sending(i, x, p, n) /\ n[x.desc] = m[x.desc] /\ n[x.ack] = m[x.ack]
<1>1. n[x.desc] = m[x.desc] /\ n[x.ack] = m[x.ack]
  BY ZenonT(60) DEF Tabled, Blocks
<1>2. x.stag # 0 => n[x.stag] = m[x.stag]
  BY ZenonT(60) DEF Tabled, Blocks
<1>3. \A k : Staged(i, x, m, k) => Staged(i, x, n, k)
  BY <1>1, <1>2, ZenonT(60) DEF Staged
<1> QED BY <1>1, <1>3, ZenonT(60) DEF Sending

\* The window opens as the receiver acknowledges.
LEMMA WindowGrows ==
  ASSUME NEW x, NEW p, NEW m, NEW y, NEW n, NEW z, NEW k, InWindow(x, p, m, y, n),
         m[x.desc].word \in Nat, x.sendEp \in Nat, n[y.ack].word \in Nat, k[z.ack].word \in Nat,
         n[y.ack].word <= k[z.ack].word
  PROVE  InWindow(x, p, m, z, k)
<1> DEFINE w == m[x.desc].word
           a == n[y.ack].word
           b == k[z.ack].word
<1>1. w <= a + 1 => w <= b + 1
  BY SMTT(60)
<1>2. x.sendEp <= a + 1 => x.sendEp <= b + 1
  BY SMTT(60)
<1> QED BY <1>1, <1>2, ZenonT(60) DEF InWindow

\* What every step leaves true of an object x in slice m that becomes y in
\* slice n: the tables stay where they are, and their words only grow.
Kept(x, y, m, n) ==
  /\ x.st # "none" => y.st # "none" /\ y.desc = x.desc /\ y.ack = x.ack
  /\ x.st = "gone" => y.st = "gone"
  /\ Tabled(x) => /\ m[x.desc].word \in Nat /\ n[x.desc].word \in Nat
                  /\ m[x.ack].word \in Nat /\ n[x.ack].word \in Nat
                  /\ m[x.desc].word <= n[x.desc].word /\ m[x.ack].word <= n[x.ack].word

\* A step of rank r on object i leaves every other object, and the peer, as
\* they are: what remains to show is about object i.
LEMMA ViewStep ==
  ASSUME DirectInv, ScriptInv, ViewInv, NEW r \in Rank, NEW q, q = Peer(r), NEW i \in Instances,
         inst'[q] = inst[q] /\ mem'[q] = mem[q] /\ pc'[q] = pc[q] /\ buf'[q] = buf[q],
         pc[q] \notin {"idle", "aborted"} => Op(q)' = Op(q),
         \A j \in Instances : j # i =>
           /\ inst'[r][j] = inst[r][j] /\ Place(r, j)' = Place(r, j)
           /\ Tabled(inst[r][j]) => \A a \in Blocks(inst[r][j]) : mem'[r][a] = mem[r][a],
         Kept(inst[r][i], inst'[r][i], mem[r], mem'[r]),
         Agreed(inst'[r][i], Place(r, i)', inst[q][i]),
         Tabled(inst'[r][i]) => Sending(i, inst'[r][i], Place(r, i)', mem'[r]),
         Tabled(inst'[r][i]) /\ Tabled(inst[q][i]) =>
           /\ InWindow(inst'[r][i], Place(r, i)', mem'[r], inst[q][i], mem[q])
           /\ inst[r][i].st = "none" =>
                InWindow(inst[q][i], Place(q, i), mem[q], inst'[r][i], mem'[r]),
         Receiving(r)'
  PROVE  ViewInv'
<1> DEFINE f == inst[r]
           g == inst'[r]
<1>1. q \in Rank /\ q # r /\ Peer(q) = r /\ \A t \in Rank : t = r \/ t = q
  BY Ranks, ZenonT(60)
<1>2. \A j \in Instances : Place(q, j)' = Place(q, j)
  BY ZenonT(60) DEF Place
<1>3. \A t \in Rank, j \in Instances :
        /\ Agreed(inst[t][j], Place(t, j), inst[Peer(t)][j])
        /\ Tabled(inst[t][j]) => Sending(j, inst[t][j], Place(t, j), mem[t])
        /\ Tabled(inst[t][j]) /\ Tabled(inst[Peer(t)][j]) =>
             InWindow(inst[t][j], Place(t, j), mem[t], inst[Peer(t)][j], mem[Peer(t)])
  BY ZenonT(60) DEF ViewInv, ObjectInv
<1>4. \A j \in Instances : inst[q][j] \in InstSet
  BY <1>1, ZenonT(60) DEF DirectInv, DirectType
<1>5. \A j \in Instances : inst[q][j].sendEp \in Nat
  BY <1>4, SMTT(60) DEF InstSet
<1>6. ASSUME NEW j \in Instances, j # i, Tabled(f[j])
      PROVE  /\ Sending(j, g[j], Place(r, j)', mem'[r])
             /\ mem'[r][f[j].desc] = mem[r][f[j].desc] /\ mem'[r][f[j].ack] = mem[r][f[j].ack]
  <2>1. Sending(j, f[j], Place(r, j), mem[r]) /\ \A a \in Blocks(f[j]) : mem'[r][a] = mem[r][a]
    BY <1>3, <1>6, ZenonT(60)
  <2>2. /\ Sending(j, f[j], Place(r, j), mem'[r])
        /\ mem'[r][f[j].desc] = mem[r][f[j].desc] /\ mem'[r][f[j].ack] = mem[r][f[j].ack]
    <3>1. PICK m, n, x, p : m = mem[r] /\ n = mem'[r] /\ x = f[j] /\ p = Place(r, j)
      BY ZenonT(60)
    <3>2. Tabled(x) /\ Sending(j, x, p, m) /\ \A a \in Blocks(x) : n[a] = m[a]
      BY <1>6, <2>1, <3>1, ZenonT(60)
    <3>3. Sending(j, x, p, n) /\ n[x.desc] = m[x.desc] /\ n[x.ack] = m[x.ack]
      BY <3>2, SendingFrame, SMTT(60)
    <3> QED BY <3>1, <3>3, ZenonT(60)
  <2> QED BY <1>6, <2>2, ZenonT(60)
<1>7. ASSUME NEW j \in Instances PROVE Kept(f[j], g[j], mem[r], mem'[r])
  <2>1. CASE j = i
    BY <2>1, ZenonT(60)
  <2>2. CASE j # i
    <3>1. g[j] = f[j]
      BY <2>2, ZenonT(60)
    <3>2. ASSUME Tabled(f[j])
          PROVE  /\ mem[r][f[j].desc].word \in Nat /\ mem[r][f[j].ack].word \in Nat
                 /\ mem'[r][f[j].desc] = mem[r][f[j].desc] /\ mem'[r][f[j].ack] = mem[r][f[j].ack]
      BY <1>3, <1>6, <2>2, <3>2, ZenonT(60) DEF Sending
    <3>3. \A n \in Nat : n <= n
      BY SMTT(60)
    <3> QED BY <3>1, <3>2, <3>3, ZenonT(60) DEF Kept
  <2> QED BY <2>1, <2>2, ZenonT(60)
<1>8. ASSUME NEW j \in Instances PROVE ObjectInv(r, j)'
  <2>1. CASE j = i
    BY <1>1, <2>1, ZenonT(60) DEF ObjectInv
  <2>2. CASE j # i
    <3>1. Agreed(g[j], Place(r, j)', inst'[q][j])
      BY <1>3, <2>2, ZenonT(60)
    <3>2. Tabled(g[j]) => Sending(j, g[j], Place(r, j)', mem'[r])
      BY <1>6, <2>2, ZenonT(60)
    <3>3. ASSUME Tabled(g[j]), Tabled(inst[q][j])
          PROVE  InWindow(g[j], Place(r, j)', mem'[r], inst'[q][j], mem'[q])
      <4>1. Tabled(f[j]) /\ g[j] = f[j] /\ Place(r, j)' = Place(r, j)
        BY <2>2, <3>3, ZenonT(60)
      <4>2. InWindow(f[j], Place(r, j), mem[r], inst[q][j], mem[q])
        BY <1>3, <3>3, <4>1, ZenonT(60)
      <4>3. mem'[r][f[j].desc] = mem[r][f[j].desc]
        BY <1>6, <2>2, <4>1, ZenonT(60)
      <4> QED BY <4>1, <4>2, <4>3, ZenonT(60) DEF InWindow
    <3> QED BY <3>1, <3>2, <3>3, ZenonT(60) DEF ObjectInv
  <2> QED BY <2>1, <2>2, ZenonT(60)
<1>9. ASSUME NEW j \in Instances PROVE ObjectInv(q, j)'
  <2>1. Kept(f[j], g[j], mem[r], mem'[r])
    BY <1>7, ZenonT(60)
  <2>2. Agreed(inst'[q][j], Place(q, j)', g[j])
    <3>1. Agreed(inst[q][j], Place(q, j), f[j])
      BY <1>1, <1>3, ZenonT(60)
    <3>2. inst'[q][j] = inst[q][j] /\ Place(q, j)' = Place(q, j)
      BY <1>2, ZenonT(60)
    <3> QED BY <2>1, <3>1, <3>2, ZenonT(60) DEF Agreed, Kept
  <2>3. Tabled(inst'[q][j]) => Sending(j, inst'[q][j], Place(q, j)', mem'[q])
    BY <1>1, <1>2, <1>3, ZenonT(60)
  <2>4. ASSUME Tabled(inst'[q][j]), Tabled(g[j])
        PROVE  InWindow(inst'[q][j], Place(q, j)', mem'[q], g[j], mem'[r])
    <3>1. CASE f[j].st = "none"
      <4>1. j = i
        BY <2>4, <3>1, ZenonT(60) DEF Tabled
      <4> QED BY <1>2, <2>4, <3>1, <4>1, ZenonT(60)
    <3>2. CASE f[j].st # "none"
      <4>1. Tabled(f[j])
        BY <2>1, <2>4, <3>2, ZenonT(60) DEF Tabled, Kept
      <4>2. Tabled(inst[q][j])
        BY <2>4, ZenonT(60)
      <4>3. /\ InWindow(inst[q][j], Place(q, j), mem[q], f[j], mem[r])
            /\ Sending(j, inst[q][j], Place(q, j), mem[q])
        BY <1>1, <1>3, <4>1, <4>2, ZenonT(60)
      <4>4. /\ g[j].ack = f[j].ack /\ mem[q][inst[q][j].desc].word \in Nat
            /\ mem[r][f[j].ack].word \in Nat /\ mem'[r][f[j].ack].word \in Nat
            /\ mem[r][f[j].ack].word <= mem'[r][f[j].ack].word
        BY <2>1, <3>2, <4>1, <4>3, ZenonT(60) DEF Kept, Sending
      <4>5. InWindow(inst[q][j], Place(q, j), mem[q], g[j], mem'[r])
        BY <1>5, <4>3, <4>4, WindowGrows, ZenonT(60)
      <4> QED BY <1>2, <4>5, ZenonT(60)
    <3> QED BY <3>1, <3>2, ZenonT(60)
  <2> QED BY <1>1, <2>2, <2>3, <2>4, ZenonT(60) DEF ObjectInv
<1>10. Receiving(q)'
  <2>1. Receiving(q)
    BY <1>1, ZenonT(60) DEF ViewInv
  <2>2. ASSUME pc[q] \in {"copy", "ack"} PROVE Op(q)' = Op(q) /\ Cur(q)' = Cur(q)
    BY <2>2, ZenonT(60) DEF Cur
  <2>3. ASSUME pc[q] = "copy"
        PROVE  Cur(q)'.recvEp <= mem'[Peer(q)][inst'[Peer(q)][Op(q)'.i].desc].word
    <3> DEFINE j == Op(q).i
    <3>1. j \in Instances /\ Tabled(f[j]) /\ Cur(q) = inst[q][j]
      BY <1>1, <2>3, InExchange, ZenonT(60)
    <3>2. /\ g[j].desc = f[j].desc
          /\ mem[r][f[j].desc].word \in Nat /\ mem'[r][f[j].desc].word \in Nat
          /\ mem[r][f[j].desc].word <= mem'[r][f[j].desc].word
      BY <1>7, <3>1, ZenonT(60) DEF Kept, Tabled
    <3>3. Cur(q).recvEp <= mem[r][f[j].desc].word
      BY <1>1, <2>1, <2>3, ZenonT(60) DEF Receiving
    <3>4. Cur(q).recvEp \in Nat
      BY <1>4, <3>1, SMTT(60) DEF InstSet
    <3>5. Cur(q).recvEp <= mem'[r][f[j].desc].word
      <4>1. \A a, b, c \in Nat : a <= b /\ b <= c => a <= c
        BY SMTT(60)
      <4> QED BY <3>2, <3>3, <3>4, <4>1, ZenonT(60)
    <3> QED BY <1>1, <2>2, <2>3, <3>2, <3>5, ZenonT(60)
  <2> QED BY <2>1, <2>2, <2>3, ZenonT(60) DEF Receiving
<1> QED BY <1>1, <1>8, <1>9, <1>10, ZenonT(60) DEF ViewInv

\* The positions in a script that is one operation longer.
LEMMA OneMore ==
  ASSUME NEW n \in Nat PROVE \A k \in 1 .. n + 1 : k \in 1 .. n \/ k = n + 1
BY SMTT(60)

\* The operation a rank is in is one of the script.
LEMMA InScript ==
  ASSUME DirectType, NEW r \in Rank, InOp(r), pc[r] \notin {"idle", "aborted"}
  PROVE  pos[r] \in 1 .. Len(script) /\ script[pos[r]] \in OpSet
<1>1. script \in Seq(OpSet) /\ pos[r] \in Nat /\ pos[r] > 0 /\ pos[r] <= Len(script)
  BY ZenonT(60) DEF DirectType, InOp
<1>2. pos[r] \in 1 .. Len(script)
  BY <1>1, SMTT(60)
<1> QED BY <1>1, <1>2, SMTT(60)

\* The operations a rank has started are in the script.
LEMMA ScriptOps ==
  ASSUME DirectInv, NEW t \in Rank, NEW k \in 1 .. pos[t]
  PROVE  k \in 1 .. Len(script) /\ script[k].i \in Instances
<1>1. script \in Seq(OpSet) /\ pos[t] \in Nat /\ pos[t] <= Len(script)
  BY ZenonT(60) DEF DirectInv, DirectType, RankInv, InOp
<1>2. k \in 1 .. Len(script)
  BY <1>1, SMTT(60)
<1>3. script[k] \in OpSet
  BY <1>1, <1>2, SMTT(60)
<1> QED BY <1>2, <1>3, SMTT(60) DEF OpSet

\* A step inside an operation, or a local one, keeps the script.
LEMMA ScriptKept ==
  ASSUME DirectInv, ScriptInv, NEW r \in Rank, pos' = pos, script' = script,
         \A q \in Rank : q # r => pc'[q] = pc[q], pc[r] # "idle" \/ pc'[r] = pc[r],
         \A t \in Rank, j \in Instances :
           /\ inst'[t][j].st = "none" <=> inst[t][j].st = "none"
           /\ inst'[t][j].st = "gone" => inst[t][j].st = "gone" \/ NobodyUses(j)
  PROVE  ScriptInv'
<1>1. ASSUME NEW j \in Instances, NobodyUses(j) PROVE NobodyUses(j)'
  <2>1. ASSUME NEW q \in Rank PROVE DoneWith(q, j)'
    <3>1. DoneWith(q, j)
      BY <1>1, ZenonT(60) DEF NobodyUses
    <3>2. pc[q] = "idle" => pc'[q] = "idle"
      BY ZenonT(60)
    <3> QED BY <3>1, <3>2, ZenonT(60) DEF DoneWith
  <2> QED BY <2>1, ZenonT(60) DEF NobodyUses
<1>2. \A t \in Rank, j \in Instances : inst'[t][j].st = "gone" => NobodyUses(j)'
  BY <1>1, ZenonT(60) DEF ScriptInv
<1>3. ASSUME NEW t \in Rank PROVE Created(t)'
  <2>1. Created(t)
    BY ZenonT(60) DEF ScriptInv
  <2>2. ASSUME NEW k \in 1 .. pos[t], script[k].kind = "create" PROVE inst'[t][script[k].i].st # "none"
    <3>1. inst[t][script[k].i].st # "none"
      BY <2>1, <2>2, ZenonT(60) DEF Created
    <3> QED BY <3>1, ScriptOps, ZenonT(60)
  <2>3. \A j \in Instances : inst'[t][j].st # "none" =>
          \E k \in 1 .. pos[t] : script[k].kind = "create" /\ script[k].i = j
    BY <2>1, ZenonT(60) DEF Created
  <2> QED BY <2>2, <2>3, ZenonT(60) DEF Created
<1> QED BY <1>2, <1>3, ZenonT(60) DEF ScriptInv

\* Starting a collective operation keeps the script, if it is on an object that
\* neither rank has destroyed.
LEMMA ScriptStarted ==
  ASSUME DirectInv, ScriptInv, NEW r \in Rank, NEW o \in OpSet, Start(r, o),
         \A q \in Rank : q # r => pc'[q] = pc[q],
         pos[r] = Len(script) => \A t \in Rank : inst[t][o.i].st # "gone",
         \A t \in Rank, j \in Instances :
           /\ inst'[t][j].st # "none" <=>
                inst[t][j].st # "none" \/ (t = r /\ o.kind = "create" /\ j = o.i)
           /\ inst'[t][j].st = "gone" => inst[t][j].st = "gone"
  PROVE  ScriptInv'
<1>1. /\ DirectType /\ \A t \in Rank : pos[t] \in Nat /\ pos[t] <= Len(script)
      /\ script \in Seq(OpSet) /\ Len(script) \in Nat /\ pos \in [Rank -> Nat]
  BY DEF DirectInv, DirectType, RankInv, InOp
<1>2. /\ script' \in Seq(OpSet) /\ Len(script) <= Len(script')
      /\ \A k \in 1 .. Len(script) : script'[k] = script[k]
      /\ pos' \in [Rank -> Nat] /\ pos'[r] > 0 /\ pos'[r] <= Len(script')
      /\ script'[pos'[r]] = o
      /\ \A q \in Rank : q # r => pos'[q] = pos[q]
  BY <1>1, StartFacts, ZenonT(60)
<1>3. pos'[r] = pos[r] + 1 /\ pc[r] = "idle"
  BY <1>1, ZenonT(60) DEF Start
<1>4. \A k \in 1 .. Len(script') : k \in 1 .. Len(script) \/ k = pos'[r]
  <2>1. CASE pos[r] < Len(script)
    BY <2>1, ZenonT(60) DEF Start
  <2>2. CASE ~(pos[r] < Len(script))
    <3>1. script' = Append(script, o) /\ pos[r] = Len(script)
      BY <1>1, <2>2, SMTT(60) DEF Start
    <3>2. Len(script') = Len(script) + 1
      BY <1>1, <3>1, SMTT(60)
    <3> QED BY <1>1, <1>3, <3>1, <3>2, OneMore, ZenonT(60)
  <2> QED BY <2>1, <2>2, ZenonT(60)
<1>5. o.i \in Instances
  BY SMTT(60) DEF OpSet
<1>6. \A t \in Rank : inst[t][o.i].st # "gone"
  <2>1. CASE pos[r] = Len(script)
    BY <2>1, ZenonT(60)
  <2>2. CASE pos[r] # Len(script)
    <3>1. pos[r] < Len(script)
      BY <1>1, <2>2, SMTT(60)
    <3>2. script[pos[r] + 1] = o /\ pos[r] + 1 \in 1 .. Len(script)
      BY <1>1, <3>1, SMTT(60) DEF Start
    <3>3. ~(pos[r] + 1 < pos[r]) /\ pos[r] + 1 # pos[r]
      BY <1>1, SMTT(60)
    <3>4. ~DoneWith(r, o.i)
      BY <3>2, <3>3, ZenonT(60) DEF DoneWith
    <3> QED BY <1>5, <3>4, ZenonT(60) DEF ScriptInv, NobodyUses
  <2> QED BY <2>1, <2>2, ZenonT(60)
<1>7. ASSUME NEW t \in Rank, NEW j \in Instances, inst'[t][j].st = "gone", NEW q \in Rank
      PROVE  DoneWith(q, j)'
  <2>1. inst[t][j].st = "gone"
    BY <1>7, ZenonT(60)
  <2>2. j # o.i /\ DoneWith(q, j)
    BY <1>6, <2>1, ZenonT(60) DEF ScriptInv, NobodyUses
  <2>3. ASSUME NEW k \in 1 .. Len(script'), script'[k].i = j
        PROVE  k < pos'[q] \/ (k = pos'[q] /\ pc'[q] = "idle")
    <3>1. k \in 1 .. Len(script)
      BY <1>2, <1>4, <2>2, <2>3, ZenonT(60)
    <3>2. k < pos[q] \/ (k = pos[q] /\ pc[q] = "idle")
      BY <1>2, <2>2, <2>3, <3>1, ZenonT(60) DEF DoneWith
    <3>3. CASE q = r
      BY <1>1, <1>3, <3>1, <3>2, <3>3, SMTT(60)
    <3>4. CASE q # r
      BY <1>2, <3>2, <3>4, ZenonT(60)
    <3> QED BY <3>3, <3>4, ZenonT(60)
  <2> QED BY <2>3, ZenonT(60) DEF DoneWith
<1>8. ASSUME NEW t \in Rank PROVE Created(t)'
  <2>1. Created(t) /\ \A k \in 1 .. pos[t] : k \in 1 .. Len(script) /\ script[k].i \in Instances
    BY ScriptOps, ZenonT(60) DEF ScriptInv
  <2>2. \A k \in 1 .. pos'[t] : k \in 1 .. pos[t] \/ (t = r /\ k = pos'[r])
    BY <1>1, <1>2, <1>3, OneMore, ZenonT(60)
  <2>3. \A k \in 1 .. pos[t] : k \in 1 .. pos'[t] /\ script'[k] = script[k]
    <3>1. pos[t] <= pos'[t]
      BY <1>1, <1>2, <1>3, SMTT(60)
    <3>2. pos[t] \in Nat /\ pos'[t] \in Nat
      BY <1>1, <1>2, ZenonT(60)
    <3>3. \A k \in 1 .. pos[t] : k \in 1 .. pos'[t]
      BY <3>1, <3>2, SMTT(60)
    <3> QED BY <1>2, <2>1, <3>3, ZenonT(60)
  <2>4. ASSUME NEW k \in 1 .. pos'[t], script'[k].kind = "create"
        PROVE  inst'[t][script'[k].i].st # "none"
    <3>1. CASE k \in 1 .. pos[t]
      <4>1. script'[k] = script[k] /\ script[k].i \in Instances
        BY <2>1, <2>3, <3>1, ZenonT(60)
      <4>2. inst[t][script[k].i].st # "none"
        BY <2>1, <2>4, <3>1, <4>1, ZenonT(60) DEF Created
      <4>3. PICK j \in Instances : j = script[k].i
        BY <4>1, ZenonT(60)
      <4>4. inst'[t][j].st # "none"
        BY <4>2, <4>3, ZenonT(60)
      <4> QED BY <4>1, <4>3, <4>4, ZenonT(60)
    <3>2. CASE t = r /\ k = pos'[r]
      BY <1>2, <1>5, <2>4, <3>2, ZenonT(60)
    <3> QED BY <2>2, <3>1, <3>2, ZenonT(60)
  <2>5. ASSUME NEW j \in Instances, inst'[t][j].st # "none"
        PROVE  \E k \in 1 .. pos'[t] : script'[k].kind = "create" /\ script'[k].i = j
    <3>1. CASE inst[t][j].st # "none"
      <4>1. PICK k \in 1 .. pos[t] : script[k].kind = "create" /\ script[k].i = j
        BY <2>1, <3>1, ZenonT(60) DEF Created
      <4>2. k \in 1 .. pos'[t] /\ script'[k] = script[k]
        BY <2>3, ZenonT(60)
      <4> QED BY <4>1, <4>2, ZenonT(60)
    <3>2. CASE t = r /\ o.kind = "create" /\ j = o.i
      <4>1. pos'[r] \in 1 .. pos'[r]
        BY <1>2, SMTT(60)
      <4> QED BY <1>2, <3>2, <4>1, ZenonT(60)
    <3> QED BY <2>5, <3>1, <3>2, ZenonT(60)
  <2> QED BY <2>4, <2>5, ZenonT(60) DEF Created
<1> QED BY <1>7, <1>8, ZenonT(60) DEF ScriptInv, NobodyUses

\* The lines that are written have their fields.
LEMMA NewLines ==
  /\ DOMAIN Zeroed = Fields /\ Zeroed.word = 0
  /\ \A m : DOMAIN Payload(m) = Fields /\ Payload(m).msg = m
<1>1. DOMAIN Zeroed = Fields /\ Zeroed.word = 0
  BY SMTT(60) DEF Zeroed, Fields
<1>2. ASSUME NEW m PROVE DOMAIN Payload(m) = Fields /\ Payload(m).msg = m
  BY SMTT(60) DEF Payload, Fields
<1> QED BY <1>1, <1>2, ZenonT(60)

\* The message is written to block s, and the descriptor line d says so.
LEMMA StagingWritten ==
  ASSUME MemType, NEW r \in Rank, NEW s \in 1 .. Slice, NEW d \in 1 .. Slice, s # d,
         d = Cur(r).desc, WriteStaging(r, s), UNCHANGED buf
  PROVE  /\ MemType' /\ \A q \in Rank : q # r => mem'[q] = mem[q]
         /\ mem'[r][s].msg = <<Op(r).i, Cur(r).sendEp>>
         /\ mem'[r][d].word = mem[r][d].word /\ mem'[r][d].off = s
         /\ \A a \in 1 .. Slice : a # s /\ a # d => mem'[r][a] = mem[r][a]
<1>1. PICK l : l = Payload(<<Op(r).i, Cur(r).sendEp>>)
  BY ZenonT(60)
<1>2. PICK z, e : z = mem[r] /\ e = mem[r][d]
  BY ZenonT(60)
<1>3. PICK k : k = [e EXCEPT !.off = s, !.bytes = Op(r).bytes]
  BY ZenonT(60)
<1>4. PICK m : m = [z EXCEPT ![s] = l]
  BY ZenonT(60)
<1>5. PICK n : n = [m EXCEPT ![d] = k]
  BY ZenonT(60)
<1>6. SliceType(z) /\ DOMAIN e = Fields /\ DOMAIN mem = Rank
  BY <1>2, ZenonT(60) DEF MemType, SliceType
<1>7. DOMAIN l = Fields /\ l.msg = <<Op(r).i, Cur(r).sendEp>>
  BY <1>1, NewLines, ZenonT(60)
<1>8. DOMAIN k = Fields /\ k.word = e.word /\ k.off = s
  BY <1>3, <1>6, ZenonT(60) DEF Fields
<1>9. DOMAIN m = 1 .. Slice /\ m[s] = l /\ \A a \in 1 .. Slice : a # s => m[a] = z[a]
  BY <1>4, <1>6, ZenonT(60) DEF SliceType
<1>10. DOMAIN n = 1 .. Slice /\ n[d] = k /\ \A a \in 1 .. Slice : a # d => n[a] = m[a]
  BY <1>5, <1>9, ZenonT(60)
<1>11. \A a \in 1 .. Slice : DOMAIN n[a] = Fields
  BY <1>6, <1>7, <1>8, <1>9, <1>10, ZenonT(60) DEF SliceType
<1>12. mem' = [mem EXCEPT ![r] = n]
  <2>1. mem' = [mem EXCEPT ![r][s] = l, ![r][d] = [@ EXCEPT !.off = s, !.bytes = Op(r).bytes]]
    BY <1>1, ZenonT(60) DEF WriteStaging
  <2>2. m[d] = e
    BY <1>2, <1>9, ZenonT(60)
  <2> QED BY <1>2, <1>3, <1>4, <1>5, <1>6, <2>1, <2>2, ZenonT(60)
<1>13. mem'[r] = n /\ DOMAIN mem' = Rank /\ \A q \in Rank : q # r => mem'[q] = mem[q]
  BY <1>6, <1>12, ZenonT(60)
<1>14. MemType'
  <2>1. SliceType(n)
    BY <1>10, <1>11, ZenonT(60) DEF SliceType
  <2>2. \A q \in Rank : SliceType(mem'[q])
    BY <1>13, <2>1, ZenonT(60) DEF MemType
  <2>3. DOMAIN buf' = Rank
    BY ZenonT(60) DEF MemType
  <2> QED BY <1>13, <2>2, <2>3, ZenonT(60) DEF MemType
<1> QED BY <1>2, <1>7, <1>8, <1>9, <1>10, <1>13, <1>14, ZenonT(60)

\* An epoch is stored in line a.
WordStore(r, a, v) == [mem EXCEPT ![r][a].word = v]

LEMMA WordStored ==
  ASSUME MemType, NEW r \in Rank, NEW a \in 1 .. Slice, NEW v,
         mem' = WordStore(r, a, v), buf' = buf
  PROVE  /\ MemType' /\ \A q \in Rank : q # r => mem'[q] = mem[q]
         /\ mem'[r][a].word = v /\ mem'[r][a].off = mem[r][a].off
         /\ \A b \in 1 .. Slice : b # a => mem'[r][b] = mem[r][b]
<1>1. PICK z, e : z = mem[r] /\ e = mem[r][a]
  BY ZenonT(60)
<1>2. PICK k : k = [e EXCEPT !.word = v]
  BY ZenonT(60)
<1>3. PICK n : n = [z EXCEPT ![a] = k]
  BY ZenonT(60)
<1>4. SliceType(z) /\ DOMAIN e = Fields /\ DOMAIN mem = Rank
  BY <1>1, ZenonT(60) DEF MemType, SliceType
<1>5. DOMAIN k = Fields /\ k.word = v /\ k.off = e.off
  BY <1>2, <1>4, ZenonT(60) DEF Fields
<1>6. DOMAIN n = 1 .. Slice /\ n[a] = k /\ \A b \in 1 .. Slice : b # a => n[b] = z[b]
  BY <1>3, <1>4, ZenonT(60) DEF SliceType
<1>7. mem' = [mem EXCEPT ![r] = n]
  BY <1>1, <1>2, <1>3, ZenonT(60) DEF WordStore
<1>8. mem'[r] = n /\ DOMAIN mem' = Rank /\ \A q \in Rank : q # r => mem'[q] = mem[q]
  BY <1>4, <1>7, ZenonT(60)
<1>9. SliceType(n)
  BY <1>4, <1>5, <1>6, ZenonT(60) DEF SliceType
<1>10. \A q \in Rank : SliceType(mem'[q])
  BY <1>8, <1>9, ZenonT(60) DEF MemType
<1>11. DOMAIN buf' = Rank
  BY ZenonT(60) DEF MemType
<1>12. MemType'
  BY <1>8, <1>10, <1>11, ZenonT(60) DEF MemType
<1> QED BY <1>1, <1>5, <1>6, <1>8, <1>12, ZenonT(60)

\* The blocks of a rank's objects are different blocks of its slice.
LEMMA ObjectBlocks ==
  ASSUME DirectInv, NEW r \in Rank, NEW i \in Instances
  PROVE  LET x == inst[r][i]
         IN /\ Blocks(x) \subseteq 1 .. Slice
            /\ \A j \in Instances : j # i => Blocks(x) \cap Blocks(inst[r][j]) = {}
            /\ Tabled(x) => /\ x.desc \in Blocks(x) /\ x.ack \in Blocks(x) /\ x.desc # x.ack
                            /\ x.stag # x.desc /\ x.stag # x.ack
                            /\ x.stag # 0 => x.stag \in Blocks(x)
<1> DEFINE x == inst[r][i]
<1>1. x \in InstSet /\ OwnBlocks(x)
  BY ZenonT(60) DEF DirectInv, DirectType, RankInv
<1>2. x.desc \in 0 .. Slice /\ x.ack \in 0 .. Slice /\ x.stag \in 0 .. Slice
  BY <1>1, SMTT(60) DEF InstSet
<1>3. \A a \in 0 .. Slice : a # 0 => a \in 1 .. Slice
  BY SMTT(60)
<1>4. Blocks(x) \subseteq 1 .. Slice
  BY <1>2, <1>3, ZenonT(60) DEF Blocks
<1>5. \A j \in Instances : j # i => Blocks(x) \cap Blocks(inst[r][j]) = {}
  BY DirectInvOneOwner, ZenonT(60) DEF OneOwner
<1>6. Tabled(x) => /\ x.desc \in Blocks(x) /\ x.ack \in Blocks(x) /\ x.desc # x.ack
                   /\ x.stag # x.desc /\ x.stag # x.ack
                   /\ x.stag # 0 => x.stag \in Blocks(x)
  BY <1>1, ZenonT(60) DEF Tabled, Blocks, OwnBlocks
<1> QED BY <1>4, <1>5, <1>6, ZenonT(60)

\* A rank moves on inside an operation on object i.
LEMMA PlaceMoves ==
  ASSUME NEW r \in Rank, pc[r] \notin {"idle", "aborted"}, pc'[r] # "aborted",
         script' = script, pos' = pos
  PROVE  /\ \A q \in Rank : Op(q)' = Op(q)
         /\ \A i : i = Op(r).i => Place(r, i)' = pc'[r]
         /\ \A j : j # Op(r).i => Place(r, j)' = Place(r, j)
<1>1. \A q \in Rank : Op(q)' = Op(q)
  BY ZenonT(60) DEF Op
<1>2. Op(r)' = Op(r)
  BY <1>1, ZenonT(60)
<1>3. ASSUME NEW i, i = Op(r).i PROVE Place(r, i)' = pc'[r]
  BY <1>2, <1>3, ZenonT(60) DEF Place
<1>4. ASSUME NEW j, j # Op(r).i PROVE Place(r, j)' = Place(r, j)
  BY <1>2, <1>4, ZenonT(60) DEF Place
<1> QED BY <1>1, <1>3, <1>4, ZenonT(60)

\* exchange, sender: the message is written to staging s, new or old, once the
\* last one is acknowledged.
LEMMA StagingDelivers ==
  ASSUME DirectInv, DeliverInv, NEW r \in Rank, pc[r] = "stage", Acked(r),
         NEW s \in 1 .. Slice, WriteStaging(r, s), UNCHANGED <<script, pos, buf>>,
         NEW i, i = Op(r).i, NEW x, x = inst[r][i], NEW y, y = inst'[r][i],
         y.st = x.st, y.desc = x.desc, y.ack = x.ack, y.peerDesc = x.peerDesc,
         y.peerAck = x.peerAck, y.sendEp = x.sendEp, y.recvEp = x.recvEp, y.stag = s,
         s # x.desc, s # x.ack,
         \A j \in Instances : j # i => inst'[r][j] = inst[r][j] /\ s \notin Blocks(inst[r][j]),
         \A q \in Rank : q # r => inst'[q] = inst[q]
  PROVE  DeliverInv'
<1>1. PICK q : q = Peer(r)
  BY ZenonT(60)
<1>2. q \in Rank /\ q # r /\ Peer(q) = r /\ \A t \in Rank : t = r \/ t = q
  BY <1>1, Ranks, ZenonT(60)
<1>3. MemType /\ ScriptInv /\ ViewInv
  BY ZenonT(60) DEF DeliverInv
<1>4. /\ i \in Instances /\ Cur(r) = x /\ x.st = "direct" /\ Place(r, i) = "stage"
      /\ Tabled(x) /\ Tabled(inst[q][i]) /\ x.peerAck = inst[q][i].ack
  BY <1>1, <1>3, InExchange, ZenonT(60)
<1>5. /\ Agreed(x, "stage", inst[q][i]) /\ Sending(i, x, "stage", mem[r])
      /\ InWindow(x, "stage", mem[r], inst[q][i], mem[q])
      /\ Sending(i, inst[q][i], Place(q, i), mem[q])
  BY <1>1, <1>2, <1>3, <1>4, ZenonT(60) DEF ViewInv, ObjectInv
<1>6. /\ Blocks(x) \subseteq 1 .. Slice /\ x.desc \in Blocks(x) /\ x.ack \in Blocks(x)
      /\ x.desc # x.ack /\ \A j \in Instances : j # i => Blocks(x) \cap Blocks(inst[r][j]) = {}
  <2>1. i \in Instances /\ Tabled(inst[r][i])
    BY <1>4, ZenonT(60)
  <2>2. /\ Blocks(inst[r][i]) \subseteq 1 .. Slice
        /\ inst[r][i].desc \in Blocks(inst[r][i]) /\ inst[r][i].ack \in Blocks(inst[r][i])
        /\ inst[r][i].desc # inst[r][i].ack
        /\ \A j \in Instances : j # i => Blocks(inst[r][i]) \cap Blocks(inst[r][j]) = {}
    BY <2>1, ObjectBlocks, ZenonT(60)
  <2> QED BY <2>2, ZenonT(60)
<1>7. PICK d \in 1 .. Slice : d = x.desc
  BY <1>6, ZenonT(60)
<1>8. /\ MemType' /\ \A t \in Rank : t # r => mem'[t] = mem[t]
      /\ mem'[r][s].msg = <<i, x.sendEp>>
      /\ mem'[r][d].word = mem[r][d].word /\ mem'[r][d].off = s
      /\ \A a \in 1 .. Slice : a # s /\ a # d => mem'[r][a] = mem[r][a]
  <2>1. /\ MemType' /\ \A t \in Rank : t # r => mem'[t] = mem[t]
        /\ mem'[r][s].msg = <<Op(r).i, Cur(r).sendEp>>
        /\ mem'[r][d].word = mem[r][d].word /\ mem'[r][d].off = s
        /\ \A a \in 1 .. Slice : a # s /\ a # d => mem'[r][a] = mem[r][a]
    <3>1. s # d /\ d = Cur(r).desc
      BY <1>4, <1>7, ZenonT(60)
    <3> QED BY <1>3, <3>1, StagingWritten, ZenonT(60), ZenonT(60)
  <2> QED BY <1>4, <2>1, ZenonT(60)
<1>9. mem'[r][x.ack] = mem[r][x.ack]
  BY <1>6, <1>7, <1>8, ZenonT(60)
<1>10. /\ pc'[r] = "publish" /\ Place(r, i)' = "publish"
       /\ \A j : j # i => Place(r, j)' = Place(r, j)
       /\ pc'[q] = pc[q] /\ Op(q)' = Op(q)
  <2>1. pc' = [pc EXCEPT ![r] = "publish"] /\ pc[r] \notin {"idle", "aborted"}
    BY ZenonT(60) DEF WriteStaging
  <2>2. DOMAIN pc = Rank
    BY ZenonT(60) DEF DirectInv, DirectType
  <2>3. pc'[r] = "publish" /\ pc'[q] = pc[q] /\ pc'[r] # "aborted"
    BY <1>2, <2>1, <2>2, ZenonT(60)
  <2>4. script' = script /\ pos' = pos
    BY ZenonT(60)
  <2> QED BY <1>2, <2>1, <2>3, <2>4, PlaceMoves, ZenonT(60)
<1>11. PICK w, b, e : w = mem[r][d].word /\ b = mem[r][x.ack].word /\ e = mem[q][inst[q][i].ack].word
  BY ZenonT(60)
<1>12. w \in Nat /\ b \in Nat /\ e \in Nat /\ x.sendEp = w + 1 /\ x.recvEp = b + 0
  BY <1>5, <1>7, <1>11, ZenonT(60) DEF Sending
<1>13. x.sendEp <= e + 1
  <2>1. e = Junk \/ e >= x.sendEp - 1
    BY <1>1, <1>4, <1>11, ZenonT(60) DEF Acked, PeerAckWord
  <2> QED BY <1>12, <2>1, SMTT(60) DEF Junk
<1>14. Sending(i, y, "publish", mem'[r])
  <2>1. mem'[r][y.desc].word = w /\ mem'[r][y.ack].word = b
    BY <1>7, <1>8, <1>9, <1>11, ZenonT(60)
  <2>2. s # 0
    BY SMTT(60)
  <2>3. Staged(i, y, mem'[r], y.sendEp)
    BY <1>7, <1>8, <2>2, ZenonT(60) DEF Staged
  <2> QED BY <1>12, <2>1, <2>3, ZenonT(60) DEF Sending
<1>15. InWindow(y, "publish", mem'[r], inst[q][i], mem[q])
  <2>1. w <= e + 1
    BY <1>5, <1>7, <1>11, ZenonT(60) DEF InWindow
  <2> QED BY <1>7, <1>8, <1>11, <1>13, <2>1, ZenonT(60) DEF InWindow
<1>16. Agreed(y, "publish", inst[q][i])
  BY <1>4, <1>5, ZenonT(60) DEF Agreed
<1>17. Kept(x, y, mem[r], mem'[r])
  <2>1. w <= w /\ b <= b
    BY <1>12, SMTT(60)
  <2> QED BY <1>4, <1>7, <1>8, <1>9, <1>11, <1>12, <2>1, ZenonT(60) DEF Kept
<1>18. ASSUME NEW j \in Instances, j # i
       PROVE  \A a \in Blocks(inst[r][j]) : mem'[r][a] = mem[r][a]
  <2>1. Blocks(inst[r][j]) \subseteq 1 .. Slice
    BY ObjectBlocks, ZenonT(60)
  <2> QED BY <1>6, <1>7, <1>8, <1>18, <2>1, ZenonT(60)
<1>19. Receiving(r)'
  BY <1>10, ZenonT(60) DEF Receiving
<1>20. ViewInv'
  <2>1. inst'[q] = inst[q] /\ mem'[q] = mem[q] /\ pc'[q] = pc[q] /\ buf'[q] = buf[q]
    BY <1>2, <1>8, <1>10, ZenonT(60)
  <2>2. \A j \in Instances : j # i =>
          /\ inst'[r][j] = inst[r][j] /\ Place(r, j)' = Place(r, j)
          /\ Tabled(inst[r][j]) => \A a \in Blocks(inst[r][j]) : mem'[r][a] = mem[r][a]
    BY <1>10, <1>18, ZenonT(60)
  <2>3. /\ Kept(inst[r][i], inst'[r][i], mem[r], mem'[r])
        /\ Agreed(inst'[r][i], Place(r, i)', inst[q][i])
        /\ Sending(i, inst'[r][i], Place(r, i)', mem'[r])
        /\ InWindow(inst'[r][i], Place(r, i)', mem'[r], inst[q][i], mem[q])
        /\ inst[r][i].st # "none"
    BY <1>4, <1>10, <1>14, <1>15, <1>16, <1>17, ZenonT(60)
  <2> QED BY <1>1, <1>3, <1>4, <1>10, <1>19, <2>1, <2>2, <2>3, ViewStep, ZenonT(60)
<1>21. ScriptInv'
  <2>1. \A t \in Rank, j \in Instances : inst'[t][j].st = inst[t][j].st
    <3>1. \A j \in Instances : inst'[r][j].st = inst[r][j].st
      BY ZenonT(60)
    <3> QED BY <1>2, <3>1, ZenonT(60)
  <2>2. pc[r] # "idle" /\ pos' = pos /\ script' = script /\ \A t \in Rank : t # r => pc'[t] = pc[t]
    BY <1>2, <1>10, ZenonT(60)
  <2> QED BY <1>3, <2>1, <2>2, ScriptKept, ZenonT(60), ZenonT(60)
<1> QED BY <1>8, <1>20, <1>21, ZenonT(60) DEF DeliverInv

\* The staging that is large enough is the object's own.
LEMMA StageDelivers ==
  ASSUME DirectInv, DeliverInv, NEW r \in Rank, Stage(r)
  PROVE  DeliverInv'
<1>1. /\ pc[r] = "stage" /\ Acked(r) /\ Cur(r).stag # 0 /\ WriteStaging(r, Cur(r).stag)
      /\ script' = script /\ pos' = pos /\ buf' = buf /\ inst' = inst
  BY ZenonT(60) DEF Stage, Fits
<1>2. PICK i : i = Op(r).i
  BY ZenonT(60)
<1>3. PICK x : x = inst[r][i]
  BY ZenonT(60)
<1>4. i \in Instances /\ Cur(r) = x /\ Tabled(x)
  BY <1>1, <1>2, <1>3, InExchange, ZenonT(60) DEF DeliverInv
<1>5. /\ Blocks(x) \subseteq 1 .. Slice /\ x.stag # x.desc /\ x.stag # x.ack /\ x.stag \in Blocks(x)
      /\ \A j \in Instances : j # i => Blocks(x) \cap Blocks(inst[r][j]) = {}
  BY <1>1, <1>3, <1>4, ObjectBlocks, SMTT(60)
<1>6. PICK s \in 1 .. Slice : s = x.stag
  BY <1>5, ZenonT(60)
<1>7. \A j \in Instances : j # i => inst'[r][j] = inst[r][j] /\ s \notin Blocks(inst[r][j])
  BY <1>1, <1>5, <1>6, ZenonT(60)
<1>8. WriteStaging(r, s) /\ s # x.desc /\ s # x.ack
  BY <1>1, <1>4, <1>5, <1>6, ZenonT(60)
<1>9. \A q \in Rank : q # r => inst'[q] = inst[q]
  BY <1>1, ZenonT(60)
<1> QED BY <1>1, <1>2, <1>3, <1>6, <1>7, <1>8, <1>9, StagingDelivers, SMTT(60)

\* What is allocated belonged to no object.
LEMMA NewBlock ==
  ASSUME DirectInv, NEW r \in Rank, NEW n \in Nat \ {0}, CanAlloc(arena[r], n),
         NEW s, s = BlockOf(arena[r], n)
  PROVE  s \in 1 .. Slice /\ \A j \in Instances : s \notin Blocks(inst[r][j])
<1>1. HoldInv(arena[r], BlocksOf(inst[r]), owned[r])
  BY ZenonT(60) DEF DirectInv, RankInv
<1>2. s \in 1 .. Slice /\ s \notin Held(BlocksOf(inst[r]), owned[r])
  BY <1>1, HoldOwn, ZenonT(60)
<1>3. \A j \in Instances : s \notin BlocksOf(inst[r])[j]
  BY <1>2, ZenonT(60) DEF Held
<1> QED BY <1>2, <1>3, ZenonT(60) DEF BlocksOf

\* Staging that grows is a new block.
LEMMA StageGrowDelivers ==
  ASSUME DirectInv, DeliverInv, NEW r \in Rank, StageGrow(r)
  PROVE  DeliverInv'
<1>1. PICK n, s : n = Lines(Op(r).bytes) /\ s = BlockOf(arena[r], n)
  BY ZenonT(60)
<1>2. PICK i : i = Op(r).i
  BY ZenonT(60)
<1>3. PICK x : x = inst[r][i]
  BY ZenonT(60)
<1>4. /\ pc[r] = "stage" /\ Acked(r) /\ CanAlloc(arena[r], n) /\ WriteStaging(r, s)
      /\ script' = script /\ pos' = pos /\ buf' = buf /\ inst' = [inst EXCEPT ![r][i].stag = s]
  BY <1>1, <1>2, ZenonT(60) DEF StageGrow
<1>5. i \in Instances /\ Cur(r) = x /\ Tabled(x) /\ Op(r).bytes \in Nat \ {0}
  BY <1>2, <1>3, <1>4, InExchange, ZenonT(60) DEF DeliverInv
<1>6. n \in Nat \ {0}
  BY <1>1, <1>5, SMTT(60) DEF Lines, Line
<1>7. s \in 1 .. Slice /\ \A j \in Instances : s \notin Blocks(inst[r][j])
  BY <1>1, <1>4, <1>6, NewBlock, ZenonT(60)
<1>8. x.desc \in Blocks(x) /\ x.ack \in Blocks(x)
  BY <1>5, ZenonT(60) DEF Tabled, Blocks
<1>9. s # x.desc /\ s # x.ack
  BY <1>3, <1>5, <1>7, <1>8, ZenonT(60)
<1>10. DirectType /\ x \in InstSet
  <2>1. DirectType
    BY ZenonT(60) DEF DirectInv
  <2>2. inst[r][i] \in InstSet
    BY <1>5, <2>1, ZenonT(60) DEF DirectType
  <2> QED BY <1>3, <2>1, <2>2, ZenonT(60)
<1>11. PICK y : y = [x EXCEPT !.stag = s]
  BY ZenonT(60)
<1>12. /\ y \in InstSet /\ y.st = x.st /\ y.desc = x.desc /\ y.ack = x.ack
       /\ y.peerDesc = x.peerDesc /\ y.peerAck = x.peerAck /\ y.sendEp = x.sendEp
       /\ y.recvEp = x.recvEp /\ y.stag = s
  <2>1. s \in 0 .. Slice
    BY <1>7, SMTT(60)
  <2> QED BY <1>10, <1>11, <2>1, ZenonT(60) DEF InstSet
<1>13. inst' = [inst EXCEPT ![r][i] = y]
  BY <1>3, <1>4, <1>11, ZenonT(60)
<1>14. /\ inst'[r][i] = y /\ \A j \in Instances : j # i => inst'[r][j] = inst[r][j]
       /\ \A q \in Rank : q # r => inst'[q] = inst[q]
  BY <1>5, <1>10, <1>12, <1>13, InstUpdate, ZenonT(60)
<1>15. \A j \in Instances : j # i => inst'[r][j] = inst[r][j] /\ s \notin Blocks(inst[r][j])
  BY <1>7, <1>14, ZenonT(60)
<1>16. \A q \in Rank : q # r => inst'[q] = inst[q]
  BY <1>14, ZenonT(60)
<1>17. y = inst'[r][i] /\ s \in 1 .. Slice
  BY <1>7, <1>14, ZenonT(60)
<1>18. /\ pc[r] = "stage" /\ Acked(r) /\ WriteStaging(r, s)
       /\ script' = script /\ pos' = pos /\ buf' = buf
  BY <1>4, ZenonT(60)
<1> QED BY <1>2, <1>3, <1>9, <1>12, <1>15, <1>16, <1>17, <1>18, StagingDelivers, SMTT(60)

\* A step inside an exchange that leaves the objects alone.
LEMMA MoveDelivers ==
  ASSUME DirectInv, DeliverInv, NEW r \in Rank,
         pc[r] \in {"stage", "publish", "poll", "copy", "ack"},
         pc'[r] # "aborted", inst' = inst, script' = script, pos' = pos, MemType',
         NEW i, i = Op(r).i, NEW x, x = inst[r][i], NEW q, q = Peer(r),
         pc'[q] = pc[q], mem'[q] = mem[q], buf'[q] = buf[q],
         \A a \in 1 .. Slice : a \notin Blocks(x) => mem'[r][a] = mem[r][a],
         Kept(x, x, mem[r], mem'[r]), Sending(i, x, pc'[r], mem'[r]),
         InWindow(x, pc'[r], mem'[r], inst[q][i], mem[q]), Receiving(r)'
  PROVE  DeliverInv'
<1>1. q \in Rank /\ q # r /\ Peer(q) = r /\ \A t \in Rank : t = r \/ t = q
  BY Ranks, ZenonT(60)
<1>2. ScriptInv /\ ViewInv /\ DOMAIN pc = Rank
  BY ZenonT(60) DEF DeliverInv, DirectInv, DirectType
<1>3. i \in Instances /\ x.st = "direct" /\ Place(r, i) = pc[r] /\ Tabled(x)
  BY <1>2, InExchange, ZenonT(60)
<1>4. pc'[q] = pc[q] /\ pc[r] \notin {"idle", "aborted"}
  BY <1>1, <1>2, ZenonT(60)
<1>5. /\ Op(q)' = Op(q) /\ Place(r, i)' = pc'[r]
      /\ \A j \in Instances : j # i => Place(r, j)' = Place(r, j)
  BY <1>1, <1>4, PlaceMoves, ZenonT(60)
<1>6. Agreed(x, pc'[r], inst[q][i])
  <2>1. Agreed(x, Place(r, i), inst[q][i])
    BY <1>2, <1>3, ZenonT(60) DEF ViewInv, ObjectInv
  <2> QED BY <1>3, <2>1, ZenonT(60) DEF Agreed
<1>7. ASSUME NEW j \in Instances, j # i
      PROVE  \A a \in Blocks(inst[r][j]) : mem'[r][a] = mem[r][a]
  <2>1. /\ Blocks(inst[r][j]) \subseteq 1 .. Slice
        /\ Blocks(inst[r][j]) \cap Blocks(inst[r][i]) = {}
    BY <1>3, <1>7, ObjectBlocks, ZenonT(60)
  <2> QED BY <2>1, ZenonT(60)
<1>8. ViewInv'
  <2>1. inst'[q] = inst[q] /\ mem'[q] = mem[q] /\ pc'[q] = pc[q] /\ buf'[q] = buf[q]
    BY <1>4, ZenonT(60)
  <2>2. \A j \in Instances : j # i =>
          /\ inst'[r][j] = inst[r][j] /\ Place(r, j)' = Place(r, j)
          /\ Tabled(inst[r][j]) => \A a \in Blocks(inst[r][j]) : mem'[r][a] = mem[r][a]
    BY <1>5, <1>7, ZenonT(60)
  <2>3. /\ Kept(inst[r][i], inst'[r][i], mem[r], mem'[r])
        /\ Agreed(inst'[r][i], Place(r, i)', inst[q][i])
        /\ Sending(i, inst'[r][i], Place(r, i)', mem'[r])
        /\ InWindow(inst'[r][i], Place(r, i)', mem'[r], inst[q][i], mem[q])
        /\ inst[r][i].st # "none"
    BY <1>3, <1>5, <1>6, ZenonT(60)
  <2> QED BY <1>2, <1>3, <1>5, <2>1, <2>2, <2>3, ViewStep, ZenonT(60)
<1>9. ScriptInv'
  <2>1. \A t \in Rank : t # r => pc'[t] = pc[t]
    BY <1>1, <1>4, ZenonT(60)
  <2> QED BY <1>2, <1>4, <2>1, ScriptKept, ZenonT(60)
<1> QED BY <1>8, <1>9, ZenonT(60) DEF DeliverInv

\* exchange, sender: the epoch is published.
LEMMA PublishDelivers ==
  ASSUME DirectInv, DeliverInv, NEW r \in Rank, Publish(r)
  PROVE  DeliverInv'
<1>1. PICK i, q : i = Op(r).i /\ q = Peer(r)
  BY ZenonT(60)
<1>2. PICK x : x = inst[r][i]
  BY ZenonT(60)
<1>3. MemType /\ ScriptInv /\ ViewInv /\ q \in Rank /\ q # r
  BY <1>1, Ranks, ZenonT(60) DEF DeliverInv
<1>4. /\ pc[r] = "publish" /\ pc' = [pc EXCEPT ![r] = "idle"]
      /\ script' = script /\ pos' = pos /\ buf' = buf /\ inst' = inst
      /\ mem' = [mem EXCEPT ![r][Cur(r).desc].word = Cur(r).sendEp]
  BY ZenonT(60) DEF Publish
<1>5. /\ i \in Instances /\ Cur(r) = x /\ Place(r, i) = "publish"
      /\ Tabled(x) /\ Tabled(inst[q][i])
  BY <1>1, <1>2, <1>3, <1>4, InExchange, ZenonT(60)
<1>6. /\ Sending(i, x, "publish", mem[r])
      /\ InWindow(x, "publish", mem[r], inst[q][i], mem[q])
  BY <1>1, <1>2, <1>3, <1>5, ZenonT(60) DEF ViewInv, ObjectInv
<1>7. /\ Blocks(x) \subseteq 1 .. Slice /\ x.desc \in Blocks(x) /\ x.ack \in Blocks(x)
      /\ x.desc # x.ack /\ x.stag # x.desc /\ (x.stag # 0 => x.stag \in Blocks(x))
  BY <1>2, <1>5, ObjectBlocks, SMTT(60)
<1>8. PICK d \in 1 .. Slice : d = x.desc
  BY <1>7, ZenonT(60)
<1>9. PICK v : v = x.sendEp
  BY ZenonT(60)
<1>10. mem' = WordStore(r, d, v) /\ buf' = buf
  BY <1>4, <1>5, <1>8, <1>9, ZenonT(60) DEF WordStore
<1>11. /\ MemType' /\ \A t \in Rank : t # r => mem'[t] = mem[t]
       /\ mem'[r][d].word = v /\ mem'[r][d].off = mem[r][d].off
       /\ \A a \in 1 .. Slice : a # d => mem'[r][a] = mem[r][a]
  BY <1>3, <1>10, WordStored, ZenonT(60)
<1>12. PICK w, b : w = mem[r][d].word /\ b = mem[r][x.ack].word
  BY ZenonT(60)
<1>13. w \in Nat /\ b \in Nat /\ v = w + 1 /\ x.recvEp = b + 0 /\ Staged(i, x, mem[r], v)
  BY <1>6, <1>8, <1>9, <1>12, ZenonT(60) DEF Sending
<1>14. v \in Nat /\ v + 0 = v /\ w <= v /\ b <= b
  BY <1>13, SMTT(60)
<1>15. mem'[r][x.ack] = mem[r][x.ack]
  BY <1>7, <1>8, <1>11, ZenonT(60)
<1>16. Staged(i, x, mem'[r], v)
  BY <1>7, <1>8, <1>11, <1>13, ZenonT(60) DEF Staged
<1>17. Sending(i, x, "idle", mem'[r])
  BY <1>8, <1>9, <1>11, <1>12, <1>13, <1>14, <1>15, <1>16, ZenonT(60) DEF Sending
<1>18. InWindow(x, "idle", mem'[r], inst[q][i], mem[q])
  BY <1>6, <1>8, <1>9, <1>11, ZenonT(60) DEF InWindow
<1>19. Kept(x, x, mem[r], mem'[r])
  BY <1>8, <1>11, <1>12, <1>13, <1>14, <1>15, ZenonT(60) DEF Kept
<1>20. pc'[r] = "idle" /\ pc'[q] = pc[q]
  BY <1>3, <1>4, ZenonT(60) DEF DirectInv, DirectType
<1>21. Receiving(r)'
  BY <1>20, ZenonT(60) DEF Receiving
<1>22. \A a \in 1 .. Slice : a \notin Blocks(x) => mem'[r][a] = mem[r][a]
  BY <1>7, <1>8, <1>11, ZenonT(60)
<1>23. mem'[q] = mem[q] /\ buf'[q] = buf[q]
  BY <1>3, <1>4, <1>11, ZenonT(60)
<1>24. pc[r] = "publish" /\ inst' = inst /\ script' = script /\ pos' = pos
  BY <1>4, ZenonT(60)
<1> QED BY <1>1, <1>2, <1>11, <1>17, <1>18, <1>19, <1>20, <1>21, <1>22, <1>23, <1>24,
           MoveDelivers, ZenonT(60)

\* exchange, receiver: the epoch is acknowledged.
LEMMA AckDelivers ==
  ASSUME DirectInv, DeliverInv, NEW r \in Rank, Ack(r)
  PROVE  DeliverInv'
<1>1. PICK i, q : i = Op(r).i /\ q = Peer(r)
  BY ZenonT(60)
<1>2. PICK x : x = inst[r][i]
  BY ZenonT(60)
<1>3. MemType /\ ScriptInv /\ ViewInv /\ q \in Rank /\ q # r
  BY <1>1, Ranks, ZenonT(60) DEF DeliverInv
<1>4. /\ pc[r] = "ack" /\ pc' = [pc EXCEPT ![r] = "idle"]
      /\ script' = script /\ pos' = pos /\ buf' = buf /\ inst' = inst
      /\ mem' = [mem EXCEPT ![r][Cur(r).ack].word = Cur(r).recvEp]
  BY ZenonT(60) DEF Ack
<1>5. /\ i \in Instances /\ Cur(r) = x /\ Place(r, i) = "ack"
      /\ Tabled(x) /\ Tabled(inst[q][i])
  BY <1>1, <1>2, <1>3, <1>4, InExchange, ZenonT(60)
<1>6. Sending(i, x, "ack", mem[r]) /\ InWindow(x, "ack", mem[r], inst[q][i], mem[q])
  BY <1>1, <1>2, <1>3, <1>5, ZenonT(60) DEF ViewInv, ObjectInv
<1>7. /\ Blocks(x) \subseteq 1 .. Slice /\ x.desc \in Blocks(x) /\ x.ack \in Blocks(x)
      /\ x.desc # x.ack /\ x.stag # x.ack /\ (x.stag # 0 => x.stag \in Blocks(x))
  BY <1>2, <1>5, ObjectBlocks, SMTT(60)
<1>8. PICK d \in 1 .. Slice : d = x.ack
  BY <1>7, ZenonT(60)
<1>9. PICK v : v = x.recvEp
  BY ZenonT(60)
<1>10. mem' = WordStore(r, d, v) /\ buf' = buf
  BY <1>4, <1>5, <1>8, <1>9, ZenonT(60) DEF WordStore
<1>11. /\ MemType' /\ \A t \in Rank : t # r => mem'[t] = mem[t]
       /\ mem'[r][d].word = v /\ \A a \in 1 .. Slice : a # d => mem'[r][a] = mem[r][a]
  BY <1>3, <1>10, WordStored, ZenonT(60)
<1>12. PICK w, b : w = mem[r][x.desc].word /\ b = mem[r][d].word
  BY ZenonT(60)
<1>13. /\ w \in Nat /\ b \in Nat /\ v = b + 1 /\ x.sendEp = w + 0
       /\ w > 0 => Staged(i, x, mem[r], w)
  BY <1>6, <1>8, <1>9, <1>12, ZenonT(60) DEF Sending
<1>14. v \in Nat /\ v + 0 = v /\ b <= v /\ w <= w
  BY <1>13, SMTT(60)
<1>15. mem'[r][x.desc] = mem[r][x.desc] /\ (x.stag # 0 => mem'[r][x.stag] = mem[r][x.stag])
  BY <1>7, <1>8, <1>11, ZenonT(60)
<1>16. w > 0 => Staged(i, x, mem'[r], w)
  BY <1>13, <1>15, ZenonT(60) DEF Staged
<1>17. Sending(i, x, "idle", mem'[r])
  BY <1>8, <1>9, <1>11, <1>12, <1>13, <1>14, <1>15, <1>16, ZenonT(60) DEF Sending
<1>18. InWindow(x, "idle", mem'[r], inst[q][i], mem[q])
  BY <1>6, <1>15, ZenonT(60) DEF InWindow
<1>19. Kept(x, x, mem[r], mem'[r])
  BY <1>8, <1>11, <1>12, <1>13, <1>14, <1>15, ZenonT(60) DEF Kept
<1>20. pc'[r] = "idle" /\ pc'[q] = pc[q]
  BY <1>3, <1>4, ZenonT(60) DEF DirectInv, DirectType
<1>21. Receiving(r)'
  BY <1>20, ZenonT(60) DEF Receiving
<1>22. \A a \in 1 .. Slice : a \notin Blocks(x) => mem'[r][a] = mem[r][a]
  BY <1>7, <1>8, <1>11, ZenonT(60)
<1>23. mem'[q] = mem[q] /\ buf'[q] = buf[q]
  BY <1>3, <1>4, <1>11, ZenonT(60)
<1>24. pc[r] = "ack" /\ inst' = inst /\ script' = script /\ pos' = pos
  BY <1>4, ZenonT(60)
<1> QED BY <1>1, <1>2, <1>11, <1>17, <1>18, <1>19, <1>20, <1>21, <1>22, <1>23, <1>24,
           MoveDelivers, ZenonT(60)

\* A step of the receiver that writes no memory.
LEMMA ReadDelivers ==
  ASSUME DirectInv, DeliverInv, NEW r \in Rank, pc[r] \in {"poll", "copy"},
         pc'[r] \in {"copy", "ack"}, pc'[Peer(r)] = pc[Peer(r)],
         inst' = inst, script' = script, pos' = pos, mem' = mem, DOMAIN buf' = Rank,
         buf'[Peer(r)] = buf[Peer(r)], Receiving(r)'
  PROVE  DeliverInv'
<1>1. PICK i, q : i = Op(r).i /\ q = Peer(r)
  BY ZenonT(60)
<1>2. PICK x : x = inst[r][i]
  BY ZenonT(60)
<1>3. MemType /\ ScriptInv /\ ViewInv /\ q \in Rank /\ q # r
  BY <1>1, Ranks, ZenonT(60) DEF DeliverInv
<1>4. i \in Instances /\ Place(r, i) = pc[r] /\ Tabled(x) /\ Tabled(inst[q][i])
  BY <1>1, <1>2, <1>3, InExchange, ZenonT(60)
<1>5. Sending(i, x, pc[r], mem[r]) /\ InWindow(x, pc[r], mem[r], inst[q][i], mem[q])
  BY <1>1, <1>2, <1>3, <1>4, ZenonT(60) DEF ViewInv, ObjectInv
<1>6. Sending(i, x, pc'[r], mem'[r])
  BY <1>5, ZenonT(60) DEF Sending
<1>7. InWindow(x, pc'[r], mem'[r], inst[q][i], mem[q])
  BY <1>5, ZenonT(60) DEF InWindow
<1>8. Kept(x, x, mem[r], mem'[r])
  <2>1. \A n \in Nat : n <= n
    BY SMTT(60)
  <2> QED BY <1>5, <2>1, ZenonT(60) DEF Kept, Sending
<1>9. MemType'
  BY <1>3, ZenonT(60) DEF MemType, SliceType
<1>10. /\ pc'[q] = pc[q] /\ mem'[q] = mem[q] /\ buf'[q] = buf[q] /\ pc'[r] # "aborted"
       /\ pc[r] \in {"stage", "publish", "poll", "copy", "ack"}
       /\ \A a \in 1 .. Slice : a \notin Blocks(x) => mem'[r][a] = mem[r][a]
  BY <1>1, ZenonT(60)
<1> QED BY <1>1, <1>2, <1>6, <1>7, <1>8, <1>9, <1>10, MoveDelivers, ZenonT(60)

\* exchange, receiver: what looks published is.
LEMMA SeeDelivers ==
  ASSUME DirectInv, DeliverInv, NEW r \in Rank, pc[r] = "poll", Published(r),
         pc' = [pc EXCEPT ![r] = "copy"], UNCHANGED <<script, pos, inst, mem, buf>>
  PROVE  DeliverInv'
<1>1. PICK i, q : i = Op(r).i /\ q = Peer(r)
  BY ZenonT(60)
<1>2. MemType /\ ScriptInv /\ ViewInv /\ q \in Rank /\ q # r
  BY <1>1, Ranks, ZenonT(60) DEF DeliverInv
<1>3. /\ i \in Instances /\ Cur(r) = inst[r][i] /\ Tabled(inst[q][i])
      /\ Cur(r).peerDesc = inst[q][i].desc
  BY <1>1, <1>2, InExchange, ZenonT(60)
<1>4. PICK w : w = mem[q][inst[q][i].desc].word
  BY ZenonT(60)
<1>5. w \in Nat
  BY <1>2, <1>3, <1>4, ZenonT(60) DEF ViewInv, ObjectInv, Sending
<1>6. w = Junk \/ w >= Cur(r).recvEp
  BY <1>1, <1>3, <1>4, ZenonT(60) DEF Published, PeerDesc
<1>7. Cur(r).recvEp \in Nat
  <2>1. inst[r][i] \in InstSet
    BY <1>3, ZenonT(60) DEF DirectInv, DirectType
  <2> QED BY <1>3, <2>1, ZenonT(60) DEF InstSet
<1>8. Cur(r).recvEp <= w
  BY <1>5, <1>6, <1>7, SMTT(60) DEF Junk
<1>9. pc'[r] = "copy" /\ pc'[q] = pc[q]
  BY <1>2, ZenonT(60) DEF DirectInv, DirectType
<1>10. Op(r)' = Op(r) /\ Cur(r)' = Cur(r)
  BY ZenonT(60) DEF Op, Cur
<1>11. Receiving(r)'
  BY <1>1, <1>4, <1>8, <1>9, <1>10, ZenonT(60) DEF Receiving
<1>12. DOMAIN buf' = Rank /\ buf'[q] = buf[q]
  BY <1>2, ZenonT(60) DEF MemType
<1>13. inst' = inst /\ script' = script /\ pos' = pos /\ mem' = mem /\ pc'[Peer(r)] = pc[Peer(r)]
  BY <1>1, <1>9, ZenonT(60)
<1> QED BY <1>1, <1>9, <1>11, <1>12, <1>13, ReadDelivers, ZenonT(60)

\* exchange, receiver: what it is about to copy is the message of its epoch.  The
\* sender cannot be writing the next one: that would need the ack this receiver
\* still owes.
LEMMA CopyFinds ==
  ASSUME DirectInv, DeliverInv, NEW r \in Rank, pc[r] = "copy"
  PROVE  /\ PeerDesc(r).off # 0
         /\ mem[Peer(r)][PeerDesc(r).off].msg = <<Op(r).i, Cur(r).recvEp>>
<1>1. PICK i, q : i = Op(r).i /\ q = Peer(r)
  BY ZenonT(60)
<1>2. PICK x, y, p : x = inst[r][i] /\ y = inst[q][i] /\ p = Place(q, i)
  BY ZenonT(60)
<1>3. ScriptInv /\ ViewInv /\ q \in Rank /\ Peer(q) = r
  BY <1>1, Ranks, ZenonT(60) DEF DeliverInv
<1>4. /\ i \in Instances /\ Cur(r) = x /\ Place(r, i) = "copy" /\ Tabled(x) /\ Tabled(y)
      /\ x.peerDesc = y.desc
  BY <1>1, <1>2, <1>3, InExchange, ZenonT(60)
<1>5. /\ Sending(i, x, "copy", mem[r]) /\ Sending(i, y, p, mem[q])
      /\ InWindow(y, p, mem[q], x, mem[r])
  BY <1>1, <1>2, <1>3, <1>4, ZenonT(60) DEF ViewInv, ObjectInv
<1>6. PICK w, b : w = mem[q][y.desc].word /\ b = mem[r][x.ack].word
  BY ZenonT(60)
<1>7. x.recvEp <= w
  BY <1>1, <1>2, <1>3, <1>4, <1>6, ZenonT(60) DEF ViewInv, Receiving
<1>8. w \in Nat /\ b \in Nat /\ x.recvEp = b + 1 /\ w <= b + 1
  BY <1>5, <1>6, ZenonT(60) DEF Sending, InWindow
<1>9. x.recvEp = w /\ w > 0
  BY <1>7, <1>8, SMTT(60)
<1>10. p # "publish"
  <2>1. SUFFICES ASSUME p = "publish" PROVE FALSE
    BY ZenonT(60)
  <2>2. y.sendEp = w + 1 /\ y.sendEp <= b + 1
    BY <1>5, <1>6, <2>1, ZenonT(60) DEF Sending, InWindow
  <2> QED BY <1>8, <1>9, <2>2, SMTT(60)
<1>11. Staged(i, y, mem[q], w)
  BY <1>5, <1>6, <1>9, <1>10, ZenonT(60) DEF Sending
<1>12. PeerDesc(r) = mem[q][y.desc]
  BY <1>1, <1>4, ZenonT(60) DEF PeerDesc
<1> QED BY <1>1, <1>4, <1>9, <1>11, <1>12, ZenonT(60) DEF Staged

\* exchange, receiver: the copy.
LEMMA CopyDelivers ==
  ASSUME DirectInv, DeliverInv, NEW r \in Rank, CopyMsg(r)
  PROVE  DeliverInv'
<1>1. MemType /\ Peer(r) \in Rank /\ Peer(r) # r
  BY Ranks, ZenonT(60) DEF DeliverInv
<1>2. /\ pc[r] = "copy" /\ pc' = [pc EXCEPT ![r] = "ack"]
      /\ script' = script /\ pos' = pos /\ inst' = inst /\ mem' = mem
      /\ buf' = [buf EXCEPT ![r] =
           IF PeerDesc(r).off = 0 THEN <<>> ELSE mem[Peer(r)][PeerDesc(r).off].msg]
  BY ZenonT(60) DEF CopyMsg
<1>3. PICK m : m = IF PeerDesc(r).off = 0 THEN <<>> ELSE mem[Peer(r)][PeerDesc(r).off].msg
  BY ZenonT(60)
<1>4. m = <<Op(r).i, Cur(r).recvEp>>
  <2>1. /\ PeerDesc(r).off # 0
        /\ mem[Peer(r)][PeerDesc(r).off].msg = <<Op(r).i, Cur(r).recvEp>>
    BY <1>2, CopyFinds, ZenonT(60)
  <2> QED BY <1>3, <2>1, ZenonT(60)
<1>5. buf' = [buf EXCEPT ![r] = m]
  BY <1>2, <1>3, ZenonT(60)
<1>6. DOMAIN buf' = Rank /\ buf'[r] = m /\ buf'[Peer(r)] = buf[Peer(r)]
  BY <1>1, <1>5, ZenonT(60) DEF MemType
<1>7. pc'[r] = "ack" /\ pc'[Peer(r)] = pc[Peer(r)]
  BY <1>1, <1>2, ZenonT(60) DEF DirectInv, DirectType
<1>8. Op(r)' = Op(r) /\ Cur(r)' = Cur(r)
  BY <1>2, ZenonT(60) DEF Op, Cur
<1>9. Receiving(r)'
  BY <1>4, <1>6, <1>7, <1>8, ZenonT(60) DEF Receiving
<1>10. inst' = inst /\ script' = script /\ pos' = pos /\ mem' = mem /\ pc[r] = "copy"
  BY <1>2, ZenonT(60)
<1> QED BY <1>6, <1>7, <1>9, <1>10, ReadDelivers, ZenonT(60)

\* A rank that aborts leaves what it has published and acknowledged.
LEMMA AbortDelivers ==
  ASSUME DirectInv, DeliverInv, NEW r \in Rank, pc[r] \in {"stage", "poll"},
         pc' = [pc EXCEPT ![r] = "aborted"], UNCHANGED <<script, pos, inst, mem, buf>>
  PROVE  DeliverInv'
<1>1. PICK q : q = Peer(r)
  BY ZenonT(60)
<1>2. q \in Rank /\ q # r /\ Peer(q) = r /\ \A t \in Rank : t = r \/ t = q
  BY <1>1, Ranks, ZenonT(60)
<1>3. MemType /\ ScriptInv /\ ViewInv
  BY ZenonT(60) DEF DeliverInv
<1>4. pc'[r] = "aborted" /\ pc'[q] = pc[q]
  BY <1>2, ZenonT(60) DEF DirectInv, DirectType
<1>5. script' = script /\ pos' = pos /\ inst' = inst /\ mem' = mem /\ buf' = buf
  BY ZenonT(60)
<1>6. \A t \in Rank : Op(t)' = Op(t) /\ Cur(t)' = Cur(t)
  BY <1>5, ZenonT(60) DEF Op, Cur
<1>7. \A j : Place(r, j)' = "aborted" /\ Place(r, j) \in {"stage", "poll", "idle"}
  BY <1>4, ZenonT(60) DEF Place
<1>8. \A j : Place(q, j)' = Place(q, j)
  BY <1>2, <1>4, <1>6, ZenonT(60) DEF Place
<1>9. ASSUME NEW j \in Instances PROVE ObjectInv(r, j)'
  <2>1. PICK x, y, p : x = inst[r][j] /\ y = inst[q][j] /\ p = Place(r, j)
    BY ZenonT(60)
  <2>2. /\ Agreed(x, p, y) /\ (Tabled(x) => Sending(j, x, p, mem[r]))
        /\ (Tabled(x) /\ Tabled(y) => InWindow(x, p, mem[r], y, mem[q]))
    BY <1>1, <1>3, <2>1, ZenonT(60) DEF ViewInv, ObjectInv
  <2>3. p \in {"stage", "poll", "idle"}
    BY <1>7, <2>1, ZenonT(60)
  <2>4. Agreed(x, "aborted", y)
    BY <2>2, <2>3, ZenonT(60) DEF Agreed
  <2>5. Tabled(x) => Sending(j, x, "aborted", mem[r])
    BY <2>2, <2>3, ZenonT(60) DEF Sending
  <2>6. Tabled(x) /\ Tabled(y) => InWindow(x, "aborted", mem[r], y, mem[q])
    BY <2>2, ZenonT(60) DEF InWindow
  <2> QED BY <1>1, <1>5, <1>7, <2>1, <2>4, <2>5, <2>6, ZenonT(60) DEF ObjectInv
<1>10. ASSUME NEW j \in Instances PROVE ObjectInv(q, j)'
  <2>1. ObjectInv(q, j)
    BY <1>2, <1>3, ZenonT(60) DEF ViewInv
  <2> QED BY <1>5, <1>8, <2>1, ZenonT(60) DEF ObjectInv
<1>11. Receiving(r)' /\ Receiving(q)'
  <2>1. Receiving(q)
    BY <1>2, <1>3, ZenonT(60) DEF ViewInv
  <2> QED BY <1>2, <1>4, <1>5, <1>6, <2>1, ZenonT(60) DEF Receiving
<1>12. ViewInv'
  BY <1>2, <1>9, <1>10, <1>11, ZenonT(60) DEF ViewInv
<1>13. ScriptInv'
  <2>1. pc[r] # "idle" /\ \A t \in Rank : t # r => pc'[t] = pc[t]
    BY <1>2, <1>4, ZenonT(60)
  <2> QED BY <1>3, <1>5, <2>1, ScriptKept, ZenonT(60)
<1>14. MemType'
  BY <1>3, <1>5, ZenonT(60) DEF MemType, SliceType
<1> QED BY <1>12, <1>13, <1>14, ZenonT(60) DEF DeliverInv

\* The peer of a rank that starts an operation stays in its own.
LEMMA PeerStays ==
  ASSUME DirectInv, NEW r \in Rank, NEW o \in OpSet, Start(r, o), NEW q, q = Peer(r)
  PROVE  /\ pc[r] = "idle" /\ Op(r)' = o
         /\ pc[q] \notin {"idle", "aborted"} => Op(q)' = Op(q)
<1>1. DirectType /\ InOp(r) /\ InOp(q) /\ q \in Rank /\ q # r
  BY Ranks, ZenonT(60) DEF DirectInv, RankInv
<1>2. /\ \A k \in 1 .. Len(script) : script'[k] = script[k]
      /\ script'[pos'[r]] = o /\ pos'[q] = pos[q]
  <2>1. pos[r] <= Len(script)
    BY <1>1, ZenonT(60) DEF InOp
  <2> QED BY <1>1, <2>1, StartFacts, ZenonT(60)
<1>3. ASSUME pc[q] \notin {"idle", "aborted"} PROVE Op(q)' = Op(q)
  <2>1. pos[q] \in 1 .. Len(script)
    BY <1>1, <1>3, InScript, ZenonT(60)
  <2> QED BY <1>2, <2>1, ZenonT(60) DEF Op
<1> QED BY <1>2, <1>3, ZenonT(60) DEF Op, Start

\* exchange: both ends take the next epoch.
LEMMA EnterDelivers ==
  ASSUME DirectInv, DeliverInv, NEW r \in Rank, NEW i \in Instances, NEW rev \in BOOLEAN,
         NEW n \in Sizes, Enter(r, i, rev, n)
  PROVE  DeliverInv'
<1>1. PICK o : o = [kind |-> "exchange", i |-> i, rev |-> rev, bytes |-> n]
  BY ZenonT(60)
<1>2. PICK q : q = Peer(r)
  BY ZenonT(60)
<1>3. q \in Rank /\ q # r /\ Peer(q) = r /\ \A t \in Rank : t = r \/ t = q
  BY <1>2, Ranks, ZenonT(60)
<1>4. o \in OpSet /\ o.i = i /\ o.kind = "exchange"
  <2>1. n \in Nat
    BY DirectAssumption, SMTT(60)
  <2> QED BY <1>1, <2>1, ZenonT(60) DEF OpSet
<1>5. /\ Start(r, o) /\ inst[r][i].st = "direct" /\ mem' = mem /\ buf' = buf
      /\ pos[r] = Len(script) => inst[q][i].st # "gone"
      /\ \/ /\ inst' = [inst EXCEPT ![r][i].sendEp = @ + 1] /\ pc' = [pc EXCEPT ![r] = "stage"]
         \/ /\ inst' = [inst EXCEPT ![r][i].recvEp = @ + 1] /\ pc' = [pc EXCEPT ![r] = "poll"]
  BY <1>1, <1>2, ZenonT(60) DEF Enter
<1>6. MemType /\ ScriptInv /\ ViewInv /\ DirectType /\ inst[r][i] \in InstSet /\ DOMAIN pc = Rank
  BY ZenonT(60) DEF DeliverInv, DirectInv, DirectType
<1>7. PICK x \in InstSet : x = inst[r][i]
  BY <1>6, ZenonT(60)
<1>8. PICK y, p : /\ \/ y = [x EXCEPT !.sendEp = @ + 1] /\ p = "stage"
                     \/ y = [x EXCEPT !.recvEp = @ + 1] /\ p = "poll"
                  /\ inst' = [inst EXCEPT ![r][i] = y] /\ pc' = [pc EXCEPT ![r] = p]
  <2>1. CASE inst' = [inst EXCEPT ![r][i].sendEp = @ + 1] /\ pc' = [pc EXCEPT ![r] = "stage"]
    BY <1>7, <2>1, ZenonT(60)
  <2>2. CASE inst' = [inst EXCEPT ![r][i].recvEp = @ + 1] /\ pc' = [pc EXCEPT ![r] = "poll"]
    BY <1>7, <2>2, ZenonT(60)
  <2> QED BY <1>5, <2>1, <2>2, ZenonT(60)
<1>9. /\ y \in InstSet /\ y.st = x.st /\ y.desc = x.desc /\ y.ack = x.ack /\ y.stag = x.stag
      /\ y.peerDesc = x.peerDesc /\ y.peerAck = x.peerAck
      /\ \/ p = "stage" /\ y.sendEp = x.sendEp + 1 /\ y.recvEp = x.recvEp
         \/ p = "poll" /\ y.sendEp = x.sendEp /\ y.recvEp = x.recvEp + 1
  <2>1. CASE y = [x EXCEPT !.sendEp = @ + 1] /\ p = "stage"
    BY <2>1, SMTT(60) DEF InstSet
  <2>2. CASE y = [x EXCEPT !.recvEp = @ + 1] /\ p = "poll"
    BY <2>2, SMTT(60) DEF InstSet
  <2> QED BY <1>8, <2>1, <2>2, ZenonT(60)
<1>10. /\ inst'[r][i] = y /\ \A j \in Instances : j # i => inst'[r][j] = inst[r][j]
       /\ inst'[q] = inst[q]
  <2>1. DOMAIN inst = Rank /\ DOMAIN inst[r] = Instances
    BY <1>6, ZenonT(60) DEF DirectType
  <2> QED BY <1>3, <1>8, <2>1, ZenonT(60)
<1>11. pc'[r] = p /\ pc'[q] = pc[q] /\ p \notin {"idle", "aborted", "publish", "copy", "ack"}
  BY <1>3, <1>6, <1>8, ZenonT(60)
<1>12. pc[r] = "idle" /\ Op(r)' = o /\ (pc[q] \notin {"idle", "aborted"} => Op(q)' = Op(q))
  BY <1>2, <1>4, <1>5, PeerStays, ZenonT(60)
<1>13. /\ Place(r, i)' = p /\ Place(r, i) = "idle"
       /\ \A j : j # i => Place(r, j)' = Place(r, j)
  BY <1>4, <1>11, <1>12, ZenonT(60) DEF Place
<1>14. /\ Agreed(x, "idle", inst[q][i]) /\ Tabled(x) /\ Sending(i, x, "idle", mem[r])
       /\ Tabled(inst[q][i]) => InWindow(x, "idle", mem[r], inst[q][i], mem[q])
  BY <1>2, <1>5, <1>6, <1>7, <1>13, ZenonT(60) DEF ViewInv, ObjectInv, Agreed, Tabled
<1>15. PICK w, b : w = mem[r][x.desc].word /\ b = mem[r][x.ack].word
  BY ZenonT(60)
<1>16. /\ w \in Nat /\ b \in Nat /\ x.sendEp = w + 0 /\ x.recvEp = b + 0
       /\ w > 0 => Staged(i, x, mem[r], w)
  BY <1>14, <1>15, ZenonT(60) DEF Sending
<1>17. /\ p = "stage" => y.sendEp = w + 1 /\ y.recvEp = b + 0
       /\ p = "poll" => y.sendEp = w + 0 /\ y.recvEp = b + 1
       /\ w <= w /\ b <= b
  BY <1>9, <1>16, SMTT(60)
<1>18. w > 0 => Staged(i, y, mem'[r], w)
  BY <1>5, <1>9, <1>16, ZenonT(60) DEF Staged
<1>19. Sending(i, y, p, mem'[r])
  <2>1. mem'[r][y.desc].word = w /\ mem'[r][y.ack].word = b
    BY <1>5, <1>9, <1>15, ZenonT(60)
  <2>2. p \in {"stage", "poll"}
    BY <1>9, ZenonT(60)
  <2> QED BY <1>16, <1>17, <1>18, <2>1, <2>2, ZenonT(60) DEF Sending
<1>20. Tabled(inst[q][i]) => InWindow(y, p, mem'[r], inst[q][i], mem[q])
  BY <1>5, <1>9, <1>11, <1>14, ZenonT(60) DEF InWindow
<1>21. Agreed(y, p, inst[q][i])
  BY <1>5, <1>7, <1>9, <1>14, ZenonT(60) DEF Agreed
<1>22. Kept(x, y, mem[r], mem'[r])
  BY <1>5, <1>7, <1>9, <1>15, <1>16, <1>17, ZenonT(60) DEF Kept
<1>23. Receiving(r)'
  BY <1>11, ZenonT(60) DEF Receiving
<1>24. ViewInv'
  <2>1. inst'[q] = inst[q] /\ mem'[q] = mem[q] /\ pc'[q] = pc[q] /\ buf'[q] = buf[q]
    BY <1>5, <1>10, <1>11, ZenonT(60)
  <2>2. \A j \in Instances : j # i =>
          /\ inst'[r][j] = inst[r][j] /\ Place(r, j)' = Place(r, j)
          /\ Tabled(inst[r][j]) => \A a \in Blocks(inst[r][j]) : mem'[r][a] = mem[r][a]
    BY <1>5, <1>10, <1>13, ZenonT(60)
  <2>3. /\ Kept(inst[r][i], inst'[r][i], mem[r], mem'[r])
        /\ Agreed(inst'[r][i], Place(r, i)', inst[q][i])
        /\ Sending(i, inst'[r][i], Place(r, i)', mem'[r])
        /\ Tabled(inst[q][i]) => InWindow(inst'[r][i], Place(r, i)', mem'[r], inst[q][i], mem[q])
        /\ inst[r][i].st # "none"
    BY <1>5, <1>7, <1>10, <1>13, <1>19, <1>20, <1>21, <1>22, ZenonT(60)
  <2> QED BY <1>2, <1>6, <1>12, <1>23, <2>1, <2>2, <2>3, ViewStep, ZenonT(60)
<1>25. ScriptInv'
  <2>1. \A t \in Rank, j \in Instances : inst'[t][j].st = inst[t][j].st
    <3>1. \A j \in Instances : inst'[r][j].st = inst[r][j].st
      BY <1>7, <1>9, <1>10, ZenonT(60)
    <3> QED BY <1>3, <1>10, <3>1, ZenonT(60)
  <2>2. pos[r] = Len(script) => \A t \in Rank : inst[t][o.i].st # "gone"
    BY <1>3, <1>4, <1>5, ZenonT(60)
  <2>3. \A t \in Rank : t # r => pc'[t] = pc[t]
    BY <1>3, <1>11, ZenonT(60)
  <2>4. Start(r, o) /\ o.kind # "create"
    BY <1>4, <1>5, ZenonT(60)
  <2>5. \A t \in Rank, j \in Instances :
          /\ inst'[t][j].st # "none" <=>
               inst[t][j].st # "none" \/ (t = r /\ o.kind = "create" /\ j = o.i)
          /\ inst'[t][j].st = "gone" => inst[t][j].st = "gone"
    BY <2>1, <2>4, ZenonT(60)
  <2> QED BY <1>4, <1>6, <2>2, <2>3, <2>4, <2>5, ScriptStarted, ZenonT(60)
<1>26. MemType'
  BY <1>5, <1>6, ZenonT(60) DEF MemType, SliceType
<1> QED BY <1>24, <1>25, <1>26, ZenonT(60) DEF DeliverInv

\* direct_setup, second half: the ranks agree, and know each other's tables.
LEMMA SetupAgreeDelivers ==
  ASSUME DirectInv, DeliverInv, NEW r \in Rank, SetupAgree(r)
  PROVE  DeliverInv'
<1>1. PICK i, q : i = Op(r).i /\ q = Peer(r)
  BY ZenonT(60)
<1>2. q \in Rank /\ q # r /\ Peer(q) = r /\ \A t \in Rank : t = r \/ t = q
  BY <1>1, Ranks, ZenonT(60)
<1>3. MemType /\ ScriptInv /\ ViewInv /\ DirectType /\ DOMAIN pc = Rank
  BY ZenonT(60) DEF DeliverInv, DirectInv, DirectType
<1>4. i \in Instances /\ Cur(r) = inst[r][i] /\ inst[r][i].st = "setup" /\ pc[r] = "agree"
  <2>1. pc[r] = "agree" /\ InOp(r)
    BY ZenonT(60) DEF SetupAgree, DirectInv, RankInv
  <2>2. pc[r] \notin {"idle", "aborted"}
    BY <2>1, ZenonT(60)
  <2>3. script[pos[r]] \in OpSet
    BY <1>3, <2>1, <2>2, InScript, ZenonT(60)
  <2> QED BY <1>1, <2>1, <2>3, ZenonT(60) DEF InOp, Op, Cur, OpSet
<1>5. inst[r][i] \in InstSet
  BY <1>3, <1>4, ZenonT(60) DEF DirectType
<1>6. PICK x \in InstSet : x = inst[r][i]
  BY <1>5, ZenonT(60)
<1>7. PICK z : z = inst[q][i]
  BY ZenonT(60)
<1>8. PICK s : s = IF \A e \in {x, z} : e.desc # 0 /\ e.ack # 0 THEN "direct" ELSE "rings"
  BY ZenonT(60)
<1>9. PICK y : y = [x EXCEPT !.st = s, !.peerDesc = z.desc, !.peerAck = z.ack]
  BY ZenonT(60)
<1>10. /\ z.st # "none" /\ pc' = [pc EXCEPT ![r] = "idle"] /\ inst' = [inst EXCEPT ![r][i] = y]
       /\ script' = script /\ pos' = pos /\ mem' = mem /\ buf' = buf
  BY <1>1, <1>4, <1>6, <1>7, <1>8, <1>9, ZenonT(60) DEF SetupAgree
<1>11. /\ y.st = s /\ y.desc = x.desc /\ y.ack = x.ack /\ y.stag = x.stag
       /\ y.peerDesc = z.desc /\ y.peerAck = z.ack
       /\ y.sendEp = x.sendEp /\ y.recvEp = x.recvEp
  BY <1>9, SMTT(60) DEF InstSet
<1>12. /\ inst'[r][i] = y /\ \A j \in Instances : j # i => inst'[r][j] = inst[r][j]
       /\ inst'[q] = inst[q]
  <2>1. DOMAIN inst = Rank /\ DOMAIN inst[r] = Instances
    BY <1>3, ZenonT(60) DEF DirectType
  <2> QED BY <1>2, <1>4, <1>10, <2>1, ZenonT(60)
<1>13. pc'[r] = "idle" /\ pc'[q] = pc[q] /\ pc[r] \notin {"idle", "aborted"}
  BY <1>2, <1>3, <1>4, <1>10, ZenonT(60)
<1>14. script' = script /\ pos' = pos
  BY <1>10, ZenonT(60)
<1>15. /\ Op(q)' = Op(q) /\ Place(r, i)' = "idle"
       /\ \A j : j # i => Place(r, j)' = Place(r, j)
  BY <1>1, <1>2, <1>13, <1>14, PlaceMoves, ZenonT(60), ZenonT(60)
<1>16. /\ x.sendEp = 0 /\ x.recvEp = 0
       /\ Tabled(x) => Sending(i, x, "agree", mem[r])
       /\ Tabled(x) /\ Tabled(z) => InWindow(x, "agree", mem[r], z, mem[q])
  <2>1. Place(r, i) = "agree"
    BY <1>1, <1>4, ZenonT(60) DEF Place
  <2> QED BY <1>1, <1>3, <1>4, <1>6, <1>7, <2>1, ZenonT(60) DEF ViewInv, ObjectInv, Agreed
<1>17. s \in {"direct", "rings"} /\ (s = "direct" => /\ x.desc # 0 /\ x.ack # 0
                                                     /\ z.desc # 0 /\ z.ack # 0)
  BY <1>8, ZenonT(60)
<1>18. Tabled(y) => Tabled(x)
  BY <1>4, <1>6, <1>11, ZenonT(60) DEF Tabled
<1>19. Agreed(y, "idle", z)
  BY <1>10, <1>11, <1>17, ZenonT(60) DEF Agreed
<1>20. Tabled(y) => Sending(i, y, "idle", mem'[r])
  <2>1. \A k : Staged(i, x, mem[r], k) => Staged(i, y, mem[r], k)
    BY <1>11, ZenonT(60) DEF Staged
  <2>2. mem'[r] = mem[r]
    BY <1>10, ZenonT(60)
  <2> QED BY <1>11, <1>16, <1>18, <2>1, <2>2, ZenonT(60) DEF Sending
<1>21. Tabled(y) /\ Tabled(z) => InWindow(y, "idle", mem'[r], z, mem[q])
  BY <1>10, <1>11, <1>16, <1>18, ZenonT(60) DEF InWindow
<1>22. Kept(x, y, mem[r], mem'[r])
  <2>1. \A k \in Nat : k <= k
    BY SMTT(60)
  <2>2. x.st = "setup" /\ y.st # "none" /\ mem'[r] = mem[r]
    BY <1>4, <1>6, <1>10, <1>11, <1>17, ZenonT(60)
  <2> QED BY <1>11, <1>16, <2>1, <2>2, ZenonT(60) DEF Kept, Sending
<1>23. Receiving(r)'
  BY <1>13, ZenonT(60) DEF Receiving
<1>24. ViewInv'
  <2>1. inst'[q] = inst[q] /\ mem'[q] = mem[q] /\ pc'[q] = pc[q] /\ buf'[q] = buf[q]
    BY <1>10, <1>12, <1>13, ZenonT(60)
  <2>2. \A j \in Instances : j # i =>
          /\ inst'[r][j] = inst[r][j] /\ Place(r, j)' = Place(r, j)
          /\ Tabled(inst[r][j]) => \A a \in Blocks(inst[r][j]) : mem'[r][a] = mem[r][a]
    BY <1>10, <1>12, <1>15, ZenonT(60)
  <2>3. /\ Kept(inst[r][i], inst'[r][i], mem[r], mem'[r])
        /\ Agreed(inst'[r][i], Place(r, i)', inst[q][i])
        /\ Tabled(inst'[r][i]) => Sending(i, inst'[r][i], Place(r, i)', mem'[r])
        /\ Tabled(inst'[r][i]) /\ Tabled(inst[q][i]) =>
             InWindow(inst'[r][i], Place(r, i)', mem'[r], inst[q][i], mem[q])
        /\ inst[r][i].st # "none"
    BY <1>4, <1>6, <1>7, <1>12, <1>15, <1>19, <1>20, <1>21, <1>22, ZenonT(60)
  <2> QED BY <1>1, <1>3, <1>4, <1>15, <1>23, <2>1, <2>2, <2>3, ViewStep, ZenonT(60)
<1>25. ScriptInv'
  <2>1. \A t \in Rank, j \in Instances :
          /\ inst'[t][j].st = "none" <=> inst[t][j].st = "none"
          /\ inst'[t][j].st = "gone" => inst[t][j].st = "gone"
    <3>1. inst'[r][i].st \notin {"none", "gone"} /\ inst[r][i].st # "none"
      BY <1>4, <1>11, <1>12, <1>17, ZenonT(60)
    <3> QED BY <1>2, <1>12, <3>1, ZenonT(60)
  <2>2. pc[r] # "idle" /\ \A t \in Rank : t # r => pc'[t] = pc[t]
    BY <1>2, <1>13, ZenonT(60)
  <2> QED BY <1>3, <1>14, <2>1, <2>2, ScriptKept, ZenonT(60), ZenonT(60)
<1>26. MemType'
  BY <1>3, <1>10, ZenonT(60) DEF MemType, SliceType
<1> QED BY <1>24, <1>25, <1>26, ZenonT(60) DEF DeliverInv

\* Two allocations in a row give two blocks that belonged to no object.
LEMMA TwoBlocks ==
  ASSUME DirectInv, NEW r \in Rank, NEW n \in Nat \ {0}, CanAlloc(arena[r], n),
         CanAlloc(AfterAlloc(arena[r], n), n), NEW d, d = BlockOf(arena[r], n),
         NEW e, e = BlockOf(AfterAlloc(arena[r], n), n)
  PROVE  /\ d \in 1 .. Slice /\ e \in 1 .. Slice /\ d # e
         /\ \A j \in Instances : d \notin Blocks(inst[r][j]) /\ e \notin Blocks(inst[r][j])
<1>1. PICK B, O, a : B = BlocksOf(inst[r]) /\ O = owned[r] /\ a = AfterAlloc(arena[r], n)
  BY ZenonT(60)
<1>2. HoldInv(arena[r], B, O)
  BY <1>1, ZenonT(60) DEF DirectInv, RankInv
<1>3. HoldInv(a, B, O \union {d}) /\ d \in 1 .. Slice /\ d \notin Held(B, O)
  <2>1. HoldInv(AfterAlloc(arena[r], n), B, O \union {d}) /\ d \in 1 .. Slice /\ d \notin Held(B, O)
    BY <1>2, HoldOwn, ZenonT(60)
  <2> QED BY <1>1, <2>1, ZenonT(60)
<1>4. e \in 1 .. Slice /\ e \notin Held(B, O \union {d})
  <2>1. CanAlloc(a, n) /\ e = BlockOf(a, n)
    BY <1>1, ZenonT(60)
  <2> QED BY <1>3, <2>1, HoldOwn, ZenonT(60)
<1>5. d # e /\ \A j \in Instances : d \notin B[j] /\ e \notin B[j]
  BY <1>3, <1>4, ZenonT(60) DEF Held
<1> QED BY <1>1, <1>3, <1>4, <1>5, ZenonT(60) DEF BlocksOf

\* Both tables are cleared.
TablesCleared(r, d, e) == [mem EXCEPT ![r][d] = Zeroed, ![r][e] = Zeroed]

LEMMA Cleared ==
  ASSUME MemType, NEW r \in Rank, NEW d \in 1 .. Slice, NEW e \in 1 .. Slice, d # e,
         mem' = TablesCleared(r, d, e), buf' = buf
  PROVE  /\ MemType' /\ \A q \in Rank : q # r => mem'[q] = mem[q]
         /\ mem'[r][d].word = 0 /\ mem'[r][e].word = 0
         /\ \A a \in 1 .. Slice : a # d /\ a # e => mem'[r][a] = mem[r][a]
<1>1. PICK z, l : z = mem[r] /\ l = Zeroed
  BY ZenonT(60)
<1>2. PICK m : m = [z EXCEPT ![d] = l]
  BY ZenonT(60)
<1>3. PICK n : n = [m EXCEPT ![e] = l]
  BY ZenonT(60)
<1>4. SliceType(z) /\ DOMAIN mem = Rank /\ DOMAIN l = Fields /\ l.word = 0
  BY <1>1, NewLines, ZenonT(60) DEF MemType
<1>5. DOMAIN m = 1 .. Slice /\ m[d] = l /\ \A a \in 1 .. Slice : a # d => m[a] = z[a]
  BY <1>2, <1>4, ZenonT(60) DEF SliceType
<1>6. DOMAIN n = 1 .. Slice /\ n[e] = l /\ \A a \in 1 .. Slice : a # e => n[a] = m[a]
  BY <1>3, <1>5, ZenonT(60)
<1>7. mem' = [mem EXCEPT ![r] = n]
  BY <1>1, <1>2, <1>3, <1>4, ZenonT(60) DEF TablesCleared
<1>8. mem'[r] = n /\ DOMAIN mem' = Rank /\ \A q \in Rank : q # r => mem'[q] = mem[q]
  BY <1>4, <1>7, ZenonT(60)
<1>9. SliceType(n)
  BY <1>4, <1>5, <1>6, ZenonT(60) DEF SliceType
<1>10. \A q \in Rank : SliceType(mem'[q])
  BY <1>8, <1>9, ZenonT(60) DEF MemType
<1>11. DOMAIN buf' = Rank
  BY ZenonT(60) DEF MemType
<1>12. MemType'
  BY <1>8, <1>10, <1>11, ZenonT(60) DEF MemType
<1> QED BY <1>1, <1>4, <1>5, <1>6, <1>8, <1>12, ZenonT(60)

\* A distributor that a rank still has to create is not gone for its peer.
LEMMA NotGone ==
  ASSUME DirectInv, ScriptInv, NEW r \in Rank, NEW i \in Instances, inst[r][i].st = "none"
  PROVE  \A t \in Rank : inst[t][i].st # "gone"
<1>1. SUFFICES ASSUME NEW t \in Rank, inst[t][i].st = "gone" PROVE FALSE
  BY ZenonT(60)
<1>2. Created(t) /\ Created(r) /\ DoneWith(r, i)
  BY <1>1, ZenonT(60) DEF ScriptInv, NobodyUses
<1>3. inst[t][i].st # "none"
  BY <1>1, SMTT(60)
<1>4. PICK k \in 1 .. pos[t] : script[k].kind = "create" /\ script[k].i = i
  BY <1>2, <1>3, ZenonT(60) DEF Created
<1>5. k \in 1 .. Len(script)
  BY ScriptOps, ZenonT(60)
<1>6. k < pos[r] \/ k = pos[r]
  BY <1>2, <1>4, <1>5, ZenonT(60) DEF DoneWith
<1>7. k \in 1 .. pos[r]
  <2>1. pos[r] \in Nat
    BY ZenonT(60) DEF DirectInv, DirectType
  <2> QED BY <1>5, <1>6, <2>1, SMTT(60)
<1> QED BY <1>2, <1>4, <1>7, ZenonT(60) DEF Created

\* direct_setup, first half: the tables are cleared before the peer learns
\* where they are.
LEMMA SetupLocalDelivers ==
  ASSUME DirectInv, DeliverInv, NEW r \in Rank, NEW i \in Instances, SetupLocal(r, i)
  PROVE  DeliverInv'
<1>1. PICK o : o = [kind |-> "create", i |-> i, rev |-> FALSE, bytes |-> 0]
  BY ZenonT(60)
<1>2. PICK q : q = Peer(r)
  BY ZenonT(60)
<1>3. q \in Rank /\ q # r /\ Peer(q) = r /\ \A t \in Rank : t = r \/ t = q
  BY <1>2, Ranks, ZenonT(60)
<1>4. PICK n, a : n = TableLines /\ a = arena[r]
  BY ZenonT(60)
<1>5. PICK b : b = AfterAlloc(a, n)
  BY ZenonT(60)
<1>6. PICK ok, d, e : /\ ok = (CanAlloc(a, n) /\ CanAlloc(b, n))
                      /\ d = (IF CanAlloc(a, n) THEN BlockOf(a, n) ELSE 0)
                      /\ e = (IF ok THEN BlockOf(b, n) ELSE 0)
  BY ZenonT(60)
<1>7. PICK y : y = [NoInst EXCEPT !.st = "setup", !.desc = d, !.ack = e]
  BY ZenonT(60)
<1>8. /\ Start(r, o) /\ {j \in Instances : inst[r][j].st # "none"} = 1 .. (i - 1)
      /\ inst' = [inst EXCEPT ![r][i] = y] /\ pc' = [pc EXCEPT ![r] = "agree"] /\ buf' = buf
      /\ mem' = IF ok THEN TablesCleared(r, d, e) ELSE mem
  BY <1>1, <1>4, <1>5, <1>6, <1>7, ZenonT(60) DEF SetupLocal, TablesCleared
<1>9. o \in OpSet /\ o.i = i /\ o.kind = "create"
  BY <1>1, SMTT(60) DEF OpSet
<1>10. MemType /\ ScriptInv /\ ViewInv /\ DirectType /\ DOMAIN pc = Rank
  BY ZenonT(60) DEF DeliverInv, DirectInv, DirectType
<1>11. inst[r][i].st = "none"
  <2>1. i \notin 1 .. (i - 1)
    BY DirectAssumption, SMTT(60)
  <2> QED BY <1>8, <2>1, ZenonT(60)
<1>12. /\ y.st = "setup" /\ y.desc = d /\ y.ack = e /\ y.sendEp = 0 /\ y.recvEp = 0
  BY <1>7, ZenonT(60) DEF NoInst
<1>13. /\ inst'[r][i] = y /\ \A j \in Instances : j # i => inst'[r][j] = inst[r][j]
       /\ inst'[q] = inst[q]
  <2>1. DOMAIN inst = Rank /\ DOMAIN inst[r] = Instances
    BY <1>10, ZenonT(60) DEF DirectType
  <2> QED BY <1>3, <1>8, <2>1, ZenonT(60)
<1>14. pc'[r] = "agree" /\ pc'[q] = pc[q]
  BY <1>3, <1>8, <1>10, ZenonT(60)
<1>15. pc[r] = "idle" /\ Op(r)' = o /\ (pc[q] \notin {"idle", "aborted"} => Op(q)' = Op(q))
  BY <1>2, <1>8, <1>9, PeerStays, ZenonT(60)
<1>16. Place(r, i)' = "agree" /\ \A j : j # i => Place(r, j)' = Place(r, j)
  BY <1>9, <1>14, <1>15, ZenonT(60) DEF Place
<1>17. /\ MemType' /\ mem'[q] = mem[q]
       /\ \A j \in Instances : \A c \in Blocks(inst[r][j]) : mem'[r][c] = mem[r][c]
       /\ ok => mem'[r][d].word = 0 /\ mem'[r][e].word = 0
  <2>1. CASE ok
    <3>1. CanAlloc(arena[r], n) /\ CanAlloc(AfterAlloc(arena[r], n), n)
      BY <1>4, <1>5, <1>6, <2>1, ZenonT(60)
    <3>2. d = BlockOf(arena[r], n) /\ e = BlockOf(AfterAlloc(arena[r], n), n)
      BY <1>4, <1>5, <1>6, <2>1, <3>1, ZenonT(60)
    <3>3. n \in Nat \ {0}
      BY <1>4, SMTT(60) DEF TableLines
    <3>4. /\ d \in 1 .. Slice /\ e \in 1 .. Slice /\ d # e
          /\ \A j \in Instances : d \notin Blocks(inst[r][j]) /\ e \notin Blocks(inst[r][j])
      BY <3>1, <3>2, <3>3, TwoBlocks, ZenonT(60)
    <3>5. mem' = TablesCleared(r, d, e) /\ buf' = buf
      BY <1>8, <2>1, ZenonT(60)
    <3>6. /\ MemType' /\ \A t \in Rank : t # r => mem'[t] = mem[t]
          /\ mem'[r][d].word = 0 /\ mem'[r][e].word = 0
          /\ \A c \in 1 .. Slice : c # d /\ c # e => mem'[r][c] = mem[r][c]
      BY <1>10, <3>4, <3>5, Cleared, ZenonT(60)
    <3>7. \A j \in Instances : Blocks(inst[r][j]) \subseteq 1 .. Slice
      BY ObjectBlocks, ZenonT(60)
    <3> QED BY <1>3, <3>4, <3>6, <3>7, ZenonT(60)
  <2>2. CASE ~ok
    <3>1. mem' = mem /\ buf' = buf
      BY <1>8, <2>2, ZenonT(60)
    <3>2. MemType'
      BY <1>10, <3>1, ZenonT(60) DEF MemType, SliceType
    <3> QED BY <2>2, <3>1, <3>2, ZenonT(60)
  <2> QED BY <2>1, <2>2, ZenonT(60)
<1>18. Tabled(y) => ok
  BY <1>6, <1>12, ZenonT(60) DEF Tabled
<1>19. Tabled(y) => Sending(i, y, "agree", mem'[r])
  <2>1. 0 \in Nat /\ 0 = 0 + 0 /\ ~(0 > 0)
    BY SMTT(60)
  <2> QED BY <1>12, <1>17, <1>18, <2>1, ZenonT(60) DEF Sending
<1>20. PICK z, p : z = inst[q][i] /\ p = Place(q, i)
  BY ZenonT(60)
<1>21. ASSUME Tabled(y), Tabled(z)
       PROVE  InWindow(y, "agree", mem'[r], z, mem[q]) /\ InWindow(z, p, mem[q], y, mem'[r])
  <2>1. Agreed(z, p, inst[r][i]) /\ Sending(i, z, p, mem[q])
    BY <1>3, <1>10, <1>20, <1>21, ZenonT(60) DEF ViewInv, ObjectInv
  <2>2. z.st = "setup"
    <3>1. inst[q][i] \in InstSet
      BY <1>3, <1>10, ZenonT(60) DEF DirectType
    <3>2. z.st \in {"none", "setup", "direct", "rings", "gone"}
      BY <1>20, <3>1, ZenonT(60) DEF InstSet
    <3> QED BY <1>11, <1>21, <2>1, <3>2, ZenonT(60) DEF Agreed, Tabled
  <2>3. p = "agree" /\ z.sendEp = 0
    BY <2>1, <2>2, ZenonT(60) DEF Agreed
  <2>4. PICK w, v : w = mem[q][z.desc].word /\ v = mem[q][z.ack].word
    BY ZenonT(60)
  <2>5. w \in Nat /\ v \in Nat /\ z.sendEp = w + 0
    BY <2>1, <2>3, <2>4, ZenonT(60) DEF Sending
  <2>6. 0 <= v + 1 /\ w <= 0 + 1
    BY <2>3, <2>5, SMTT(60)
  <2>7. mem'[r][y.desc].word = 0 /\ mem'[r][y.ack].word = 0
    BY <1>12, <1>17, <1>18, <1>21, ZenonT(60)
  <2> QED BY <2>3, <2>4, <2>6, <2>7, ZenonT(60) DEF InWindow
<1>22. Agreed(y, "agree", z)
  BY <1>12, ZenonT(60) DEF Agreed
<1>23. Kept(inst[r][i], y, mem[r], mem'[r])
  BY <1>11, ZenonT(60) DEF Kept, Tabled
<1>24. Receiving(r)'
  BY <1>14, ZenonT(60) DEF Receiving
<1>25. ViewInv'
  <2>1. inst'[q] = inst[q] /\ mem'[q] = mem[q] /\ pc'[q] = pc[q] /\ buf'[q] = buf[q]
    BY <1>8, <1>13, <1>14, <1>17, ZenonT(60)
  <2>2. \A j \in Instances : j # i =>
          /\ inst'[r][j] = inst[r][j] /\ Place(r, j)' = Place(r, j)
          /\ Tabled(inst[r][j]) => \A c \in Blocks(inst[r][j]) : mem'[r][c] = mem[r][c]
    BY <1>13, <1>16, <1>17, ZenonT(60)
  <2>3. /\ Kept(inst[r][i], inst'[r][i], mem[r], mem'[r])
        /\ Agreed(inst'[r][i], Place(r, i)', inst[q][i])
        /\ Tabled(inst'[r][i]) => Sending(i, inst'[r][i], Place(r, i)', mem'[r])
        /\ Tabled(inst'[r][i]) /\ Tabled(inst[q][i]) =>
             /\ InWindow(inst'[r][i], Place(r, i)', mem'[r], inst[q][i], mem[q])
             /\ InWindow(inst[q][i], Place(q, i), mem[q], inst'[r][i], mem'[r])
    BY <1>13, <1>16, <1>19, <1>20, <1>21, <1>22, <1>23, ZenonT(60)
  <2> QED BY <1>2, <1>10, <1>15, <1>24, <2>1, <2>2, <2>3, ViewStep, ZenonT(60)
<1>26. ScriptInv'
  <2>1. \A t \in Rank, j \in Instances :
          /\ inst'[t][j].st # "none" <=>
               inst[t][j].st # "none" \/ (t = r /\ o.kind = "create" /\ j = o.i)
          /\ inst'[t][j].st = "gone" => inst[t][j].st = "gone"
    BY <1>3, <1>9, <1>11, <1>12, <1>13, ZenonT(60), ZenonT(60)
  <2>2. \A t \in Rank : inst[t][o.i].st # "gone"
    BY <1>9, <1>10, <1>11, NotGone, ZenonT(60)
  <2>3. Start(r, o) /\ \A t \in Rank : t # r => pc'[t] = pc[t]
    BY <1>3, <1>8, <1>14, ZenonT(60)
  <2> QED BY <1>9, <1>10, <2>1, <2>2, <2>3, ScriptStarted, ZenonT(60), ZenonT(60)
<1> QED BY <1>17, <1>25, <1>26, ZenonT(60) DEF DeliverInv

\* ~ShmDistributor: the object is gone when nobody uses it any more.
LEMMA DestroyDelivers ==
  ASSUME DirectInv, DeliverInv, Synchronised, NEW r \in Rank, NEW i \in Instances, Destroy(r, i)
  PROVE  DeliverInv'
<1>1. PICK q : q = Peer(r)
  BY ZenonT(60)
<1>2. q \in Rank /\ q # r /\ Peer(q) = r /\ \A t \in Rank : t = r \/ t = q
  BY <1>1, Ranks, ZenonT(60)
<1>3. PICK x : x = inst[r][i]
  BY ZenonT(60)
<1>4. PICK y : y = [NoInst EXCEPT !.st = "gone", !.desc = x.desc, !.ack = x.ack]
  BY ZenonT(60)
<1>5. /\ pc[r] = "idle" /\ x.st \in {"direct", "rings"} /\ DoneWith(r, i) /\ DoneWith(q, i)
      /\ inst' = [inst EXCEPT ![r][i] = y]
      /\ pc' = pc /\ script' = script /\ pos' = pos /\ mem' = mem /\ buf' = buf
  BY <1>1, <1>3, <1>4, ZenonT(60) DEF Destroy
<1>6. MemType /\ ScriptInv /\ ViewInv /\ DirectType
  BY ZenonT(60) DEF DeliverInv, DirectInv
<1>7. y.st = "gone" /\ y.desc = x.desc /\ y.ack = x.ack
  BY <1>4, ZenonT(60) DEF NoInst
<1>8. /\ inst'[r][i] = y /\ \A j \in Instances : j # i => inst'[r][j] = inst[r][j]
      /\ inst'[q] = inst[q]
  <2>1. DOMAIN inst = Rank /\ DOMAIN inst[r] = Instances
    BY <1>6, ZenonT(60) DEF DirectType
  <2> QED BY <1>2, <1>5, <2>1, ZenonT(60)
<1>9. pc' = pc /\ script' = script /\ pos' = pos /\ mem' = mem /\ buf' = buf
  BY <1>5, ZenonT(60)
<1>10. Op(q)' = Op(q) /\ \A j : Place(r, j)' = Place(r, j)
  BY <1>9, ZenonT(60) DEF Op, Place
<1>11. Kept(x, y, mem[r], mem'[r])
  <2>1. \A n \in Nat : n <= n
    BY SMTT(60)
  <2>2. Tabled(x) => Sending(i, x, Place(r, i), mem[r])
    BY <1>3, <1>6, ZenonT(60) DEF ViewInv, ObjectInv
  <2>3. mem'[r] = mem[r] /\ x.st # "gone"
    BY <1>5, ZenonT(60)
  <2> QED BY <1>7, <2>1, <2>2, <2>3, ZenonT(60) DEF Kept, Sending
<1>12. ~Tabled(y) /\ Agreed(y, Place(r, i)', inst[q][i])
  BY <1>7, ZenonT(60) DEF Tabled, Agreed
<1>13. Receiving(r)'
  BY <1>5, <1>9, ZenonT(60) DEF Receiving
<1>14. ViewInv'
  <2>1. inst'[q] = inst[q] /\ mem'[q] = mem[q] /\ pc'[q] = pc[q] /\ buf'[q] = buf[q]
    BY <1>8, <1>9, ZenonT(60)
  <2>2. \A j \in Instances : j # i =>
          /\ inst'[r][j] = inst[r][j] /\ Place(r, j)' = Place(r, j)
          /\ Tabled(inst[r][j]) => \A c \in Blocks(inst[r][j]) : mem'[r][c] = mem[r][c]
    BY <1>8, <1>9, <1>10, ZenonT(60)
  <2>3. /\ Kept(inst[r][i], inst'[r][i], mem[r], mem'[r])
        /\ Agreed(inst'[r][i], Place(r, i)', inst[q][i]) /\ ~Tabled(inst'[r][i])
    BY <1>3, <1>8, <1>11, <1>12, ZenonT(60)
  <2> QED BY <1>1, <1>6, <1>10, <1>13, <2>1, <2>2, <2>3, ViewStep, ZenonT(60)
<1>15. ScriptInv'
  <2>1. NobodyUses(i)
    BY <1>2, <1>5, ZenonT(60) DEF NobodyUses
  <2>2. inst[r][i].st # "none" /\ inst'[r][i].st = "gone"
    BY <1>3, <1>5, <1>7, <1>8, ZenonT(60)
  <2>3. \A t \in Rank, j \in Instances :
          /\ inst'[t][j].st = "none" <=> inst[t][j].st = "none"
          /\ inst'[t][j].st = "gone" => inst[t][j].st = "gone" \/ NobodyUses(j)
    <3>1. \A t \in Rank, j \in Instances : (t = r /\ j = i) \/ inst'[t][j] = inst[t][j]
      BY <1>2, <1>8, ZenonT(60)
    <3> QED BY <2>1, <2>2, <3>1, ZenonT(60)
  <2> QED BY <1>6, <1>9, <2>3, ScriptKept, ZenonT(60)
<1>16. MemType'
  BY <1>6, <1>9, ZenonT(60) DEF MemType, SliceType
<1> QED BY <1>14, <1>15, <1>16, ZenonT(60) DEF DeliverInv

\* The block of a new vector is filled.
VectorStore(r, b) == [mem EXCEPT ![r][b] = Payload(<<"vector">>)]

LEMMA VectorStored ==
  ASSUME MemType, NEW r \in Rank, NEW b \in 1 .. Slice, mem' = VectorStore(r, b), buf' = buf
  PROVE  /\ MemType' /\ \A q \in Rank : q # r => mem'[q] = mem[q]
         /\ \A a \in 1 .. Slice : a # b => mem'[r][a] = mem[r][a]
<1>1. PICK z, l : z = mem[r] /\ l = Payload(<<"vector">>)
  BY ZenonT(60)
<1>2. PICK n : n = [z EXCEPT ![b] = l]
  BY ZenonT(60)
<1>3. SliceType(z) /\ DOMAIN mem = Rank /\ DOMAIN l = Fields
  BY <1>1, NewLines, ZenonT(60) DEF MemType
<1>4. DOMAIN n = 1 .. Slice /\ n[b] = l /\ \A a \in 1 .. Slice : a # b => n[a] = z[a]
  BY <1>2, <1>3, ZenonT(60) DEF SliceType
<1>5. mem' = [mem EXCEPT ![r] = n]
  BY <1>1, <1>2, ZenonT(60) DEF VectorStore
<1>6. mem'[r] = n /\ DOMAIN mem' = Rank /\ \A q \in Rank : q # r => mem'[q] = mem[q]
  BY <1>3, <1>5, ZenonT(60)
<1>7. SliceType(n)
  BY <1>3, <1>4, ZenonT(60) DEF SliceType
<1>8. \A q \in Rank : SliceType(mem'[q])
  BY <1>6, <1>7, ZenonT(60) DEF MemType
<1>9. DOMAIN buf' = Rank
  BY ZenonT(60) DEF MemType
<1>10. MemType'
  BY <1>6, <1>8, <1>9, ZenonT(60) DEF MemType
<1> QED BY <1>1, <1>4, <1>6, <1>10, ZenonT(60)

\* A vector takes a block that no object has.
LEMMA NewVectorDelivers ==
  ASSUME DirectInv, DeliverInv, NEW r \in Rank, NEW bytes \in VectorSizes, NewVector(r, bytes)
  PROVE  DeliverInv'
<1>1. PICK n, b, q : n = Lines(bytes) /\ b = BlockOf(arena[r], n) /\ q = Peer(r)
  BY ZenonT(60)
<1>2. q \in Rank /\ q # r /\ Peer(q) = r /\ \A t \in Rank : t = r \/ t = q
  BY <1>1, Ranks, ZenonT(60)
<1>3. MemType /\ ScriptInv /\ ViewInv
  BY ZenonT(60) DEF DeliverInv
<1>4. /\ CanAlloc(arena[r], n) /\ pc[r] = "idle" /\ mem' = VectorStore(r, b)
      /\ pc' = pc /\ script' = script /\ pos' = pos /\ inst' = inst /\ buf' = buf
  BY <1>1, ZenonT(60) DEF NewVector, VectorStore
<1>5. n \in Nat \ {0}
  <2>1. bytes \in Nat \ {0}
    BY DirectAssumption, SMTT(60)
  <2> QED BY <1>1, <2>1, SMTT(60) DEF Lines, Line
<1>6. b \in 1 .. Slice /\ \A j \in Instances : b \notin Blocks(inst[r][j])
  BY <1>1, <1>4, <1>5, NewBlock, ZenonT(60)
<1>7. /\ MemType' /\ \A t \in Rank : t # r => mem'[t] = mem[t]
      /\ \A a \in 1 .. Slice : a # b => mem'[r][a] = mem[r][a]
  BY <1>3, <1>4, <1>6, VectorStored, ZenonT(60)
<1>8. \A j \in Instances : \A a \in Blocks(inst[r][j]) : mem'[r][a] = mem[r][a]
  <2>1. \A j \in Instances : Blocks(inst[r][j]) \subseteq 1 .. Slice
    BY ObjectBlocks, ZenonT(60)
  <2> QED BY <1>6, <1>7, <2>1, ZenonT(60)
<1>9. pc' = pc /\ script' = script /\ pos' = pos /\ inst' = inst /\ buf' = buf /\ mem'[q] = mem[q]
  BY <1>2, <1>4, <1>7, ZenonT(60)
<1>10. Op(q)' = Op(q) /\ \A j : Place(r, j)' = Place(r, j)
  BY <1>9, ZenonT(60) DEF Op, Place
<1>11. Receiving(r)'
  BY <1>4, <1>9, ZenonT(60) DEF Receiving
<1>12. ViewInv'
  <2>1. CASE Instances = {}
    <3>1. pc[q] \notin {"copy", "ack"}
      BY <1>2, <1>3, <2>1, InExchange, ZenonT(60)
    <3>2. Receiving(q)'
      BY <1>9, <3>1, ZenonT(60) DEF Receiving
    <3> QED BY <1>2, <1>11, <2>1, <3>2, ZenonT(60) DEF ViewInv
  <2>2. CASE Instances # {}
    <3>1. PICK i \in Instances : TRUE
      BY <2>2, ZenonT(60)
    <3>2. PICK x, z, p, m, k : /\ x = inst[r][i] /\ z = inst[q][i] /\ p = Place(r, i)
                               /\ m = mem[r] /\ k = mem'[r]
      BY ZenonT(60)
    <3>3. /\ Agreed(x, p, z) /\ (Tabled(x) => Sending(i, x, p, m))
          /\ (Tabled(x) /\ Tabled(z) => InWindow(x, p, m, z, mem[q]))
      BY <1>1, <1>3, <3>1, <3>2, ZenonT(60) DEF ViewInv, ObjectInv
    <3>4. \A a \in Blocks(x) : k[a] = m[a]
      BY <1>8, <3>1, <3>2, ZenonT(60)
    <3>5. Tabled(x) => Sending(i, x, p, k) /\ k[x.desc] = m[x.desc] /\ k[x.ack] = m[x.ack]
      <4>1. SUFFICES ASSUME Tabled(x)
                     PROVE  Sending(i, x, p, k) /\ k[x.desc] = m[x.desc] /\ k[x.ack] = m[x.ack]
        BY ZenonT(60)
      <4>2. Sending(i, x, p, m)
        BY <3>3, <4>1, ZenonT(60)
      <4> QED BY <3>4, <4>1, <4>2, SendingFrame, SMTT(60)
    <3>6. Tabled(x) /\ Tabled(z) => InWindow(x, p, k, z, mem[q])
      BY <3>3, <3>5, ZenonT(60) DEF InWindow
    <3>7. Kept(x, x, m, k)
      <4>1. \A a \in Nat : a <= a
        BY SMTT(60)
      <4> QED BY <3>3, <3>5, <4>1, ZenonT(60) DEF Kept, Sending
    <3>8. /\ Kept(inst[r][i], inst'[r][i], mem[r], mem'[r])
          /\ Agreed(inst'[r][i], Place(r, i)', inst[q][i])
          /\ Tabled(inst'[r][i]) => Sending(i, inst'[r][i], Place(r, i)', mem'[r])
          /\ Tabled(inst'[r][i]) /\ Tabled(inst[q][i]) =>
               InWindow(inst'[r][i], Place(r, i)', mem'[r], inst[q][i], mem[q])
          /\ Tabled(inst'[r][i]) => inst[r][i].st # "none"
      BY <1>9, <1>10, <3>2, <3>3, <3>5, <3>6, <3>7, ZenonT(60) DEF Tabled
    <3>9. inst'[q] = inst[q] /\ mem'[q] = mem[q] /\ pc'[q] = pc[q] /\ buf'[q] = buf[q]
      BY <1>9, ZenonT(60)
    <3>10. \A j \in Instances : j # i =>
             /\ inst'[r][j] = inst[r][j] /\ Place(r, j)' = Place(r, j)
             /\ Tabled(inst[r][j]) => \A a \in Blocks(inst[r][j]) : mem'[r][a] = mem[r][a]
      BY <1>8, <1>9, <1>10, ZenonT(60)
    <3> QED BY <1>1, <1>3, <1>10, <1>11, <3>1, <3>8, <3>9, <3>10, ViewStep, ZenonT(60)
  <2> QED BY <2>1, <2>2, ZenonT(60)
<1>13. ScriptInv'
  BY <1>3, <1>9, ScriptKept, ZenonT(60)
<1> QED BY <1>7, <1>12, <1>13, ZenonT(60) DEF DeliverInv

LEMMA DeliverInit == Init => DeliverInv
<1> SUFFICES ASSUME Init PROVE DeliverInv
  BY ZenonT(60)
<1>1. \A r \in Rank : /\ pc[r] = "idle" /\ pos[r] = 0
                      /\ \A i \in Instances : inst[r][i].st = "none"
  BY ZenonT(60) DEF Init, NoInst
<1>2. MemType
  <2>1. \A r \in Rank : DOMAIN mem[r] = 1 .. Slice /\ \A a \in 1 .. Slice : mem[r][a] = Zeroed
    BY ZenonT(60) DEF Init
  <2>2. \A r \in Rank : SliceType(mem[r])
    BY <2>1, NewLines, ZenonT(60) DEF SliceType
  <2> QED BY <2>2, ZenonT(60) DEF Init, MemType
<1>3. ScriptInv
  <2>1. \A k \in 1 .. 0 : FALSE
    BY SMTT(60)
  <2>2. \A r \in Rank : Created(r)
    BY <1>1, <2>1, ZenonT(60) DEF Created
  <2> QED BY <1>1, <2>2, ZenonT(60) DEF ScriptInv
<1>4. ViewInv
  <2>1. \A r \in Rank : Receiving(r)
    BY <1>1, ZenonT(60) DEF Receiving
  <2>2. \A r \in Rank, i \in Instances : ObjectInv(r, i)
    BY <1>1, ZenonT(60) DEF ObjectInv, Agreed, Tabled
  <2> QED BY <2>1, <2>2, ZenonT(60) DEF ViewInv
<1> QED BY <1>2, <1>3, <1>4, ZenonT(60) DEF DeliverInv

\* Every step keeps the invariant of delivery.
LEMMA DeliverStep ==
  ASSUME Synchronised, DirectInv, DeliverInv, [Next]_vars
  PROVE  DeliverInv'
<1>1. CASE UNCHANGED vars
  <2>1. /\ pc' = pc /\ script' = script /\ pos' = pos /\ inst' = inst /\ mem' = mem /\ buf' = buf
    BY <1>1, ZenonT(60) DEF vars
  <2>2. MemType'
    BY <2>1, ZenonT(60) DEF DeliverInv, MemType, SliceType
  <2>3. ScriptInv'
    <3>1. ScriptInv /\ 0 \in Rank /\ \A t \in Rank : pc'[t] = pc[t]
      BY <2>1, ZenonT(60) DEF DeliverInv, Rank
    <3>2. \A t \in Rank, j \in Instances : inst'[t][j].st = inst[t][j].st
      BY <2>1, ZenonT(60)
    <3>3. pc'[0] = pc[0] /\ pos' = pos /\ script' = script
      BY <2>1, ZenonT(60)
    <3> QED BY <3>1, <3>2, <3>3, ScriptKept, ZenonT(60)
  <2>4. \A r, i : Place(r, i)' = Place(r, i)
    BY <2>1, ZenonT(60) DEF Place, Op
  <2>5. \A r \in Rank, i \in Instances : ObjectInv(r, i)'
    <3>1. \A r \in Rank, i \in Instances : ObjectInv(r, i)
      BY ZenonT(60) DEF DeliverInv, ViewInv
    <3> QED BY <2>1, <2>4, <3>1, ZenonT(60) DEF ObjectInv
  <2>6. \A r \in Rank : Receiving(r)'
    BY <2>1, ZenonT(60) DEF DeliverInv, ViewInv, Receiving, Cur, Op
  <2> QED BY <2>2, <2>3, <2>5, <2>6, ZenonT(60) DEF DeliverInv, ViewInv
<1>2. ASSUME NEW r \in Rank, NEW i \in Instances, SetupLocal(r, i) \/ Destroy(r, i)
      PROVE  DeliverInv'
  BY <1>2, SetupLocalDelivers, DestroyDelivers, ZenonT(60)
<1>3. ASSUME NEW r \in Rank, NEW i \in Instances, NEW rev \in BOOLEAN, NEW b \in Sizes,
             Enter(r, i, rev, b)
      PROVE  DeliverInv'
  BY <1>3, EnterDelivers, ZenonT(60)
<1>4. ASSUME NEW r \in Rank, NEW b \in VectorSizes, NewVector(r, b) PROVE DeliverInv'
  BY <1>4, NewVectorDelivers, ZenonT(60)
<1>5. ASSUME NEW r \in Rank, Exchanging(r) PROVE DeliverInv'
  <2>1. CASE SetupAgree(r)
    BY <2>1, SetupAgreeDelivers, ZenonT(60)
  <2>2. CASE Stage(r) \/ StageGrow(r)
    BY <2>2, StageDelivers, StageGrowDelivers, ZenonT(60)
  <2>3. CASE StageExhausted(r)
    <3>1. pc[r] \in {"stage", "poll"} /\ pc' = [pc EXCEPT ![r] = "aborted"]
      BY <2>3, ZenonT(60) DEF StageExhausted, Abort
    <3>2. UNCHANGED <<script, pos, inst, mem, buf>>
      BY <2>3, ZenonT(60) DEF StageExhausted, Abort
    <3> QED BY <3>1, <3>2, AbortDelivers, ZenonT(60)
  <2>4. CASE Publish(r) \/ CopyMsg(r) \/ Ack(r)
    BY <2>4, PublishDelivers, CopyDelivers, AckDelivers, ZenonT(60)
  <2>5. CASE See(r)
    <3>1. pc[r] = "poll" /\ Published(r) /\ UNCHANGED <<script, pos, inst, mem, buf>>
      BY <2>5, ZenonT(60) DEF See, Abort
    <3>2. CASE pc' = [pc EXCEPT ![r] = "copy"]
      BY <3>1, <3>2, SeeDelivers, ZenonT(60)
    <3>3. CASE pc' = [pc EXCEPT ![r] = "aborted"]
      BY <3>1, <3>3, AbortDelivers, ZenonT(60)
    <3> QED BY <2>5, <3>2, <3>3, ZenonT(60) DEF See, Abort
  <2> QED BY <1>5, <2>1, <2>2, <2>3, <2>4, <2>5, ZenonT(60) DEF Exchanging
<1> QED BY <1>1, <1>2, <1>3, <1>4, <1>5, ZenonT(60) DEF Next

\* DirectDelivers for every slice, number of instances and operations, given
\* that an application destroys a distributor only when its peer is done with it:
\* in exchange() a receiver copies exactly the message of its epoch, although
\* staging, descriptors and acks live in blocks that are recycled.
THEOREM DirectDeliversAlways ==
  ASSUME Synchronised
  PROVE  MCSpec => []DirectDelivers
<1>1. MCInit => DirectInv /\ DeliverInv
  BY DirectInit, DeliverInit, ZenonT(60) DEF MCInit
<1>2. DirectInv /\ DeliverInv /\ [MCNext]_<<user, vars, vecVars>> => (DirectInv /\ DeliverInv)'
  <2>1. [MCNext]_<<user, vars, vecVars>> => [Next]_vars
    BY ZenonT(60) DEF MCNext
  <2> QED BY <2>1, DirectStep, DeliverStep, ZenonT(60)
<1>3. DirectInv /\ DeliverInv => DirectDelivers
  BY ZenonT(60) DEF DeliverInv, ViewInv, Receiving, DirectDelivers
<1> QED BY <1>1, <1>2, <1>3, PTL DEF MCSpec

\* StagingKept under the same condition: what a receiver is about to copy is
\* still there.  Without the condition the sender's staging may be recycled.
THEOREM StagingKeptAlways ==
  ASSUME Synchronised
  PROVE  MCSpec => []StagingKept
<1>1. MCInit => DirectInv /\ DeliverInv
  BY DirectInit, DeliverInit, ZenonT(60) DEF MCInit
<1>2. DirectInv /\ DeliverInv /\ [MCNext]_<<user, vars, vecVars>> => (DirectInv /\ DeliverInv)'
  <2>1. [MCNext]_<<user, vars, vecVars>> => [Next]_vars
    BY ZenonT(60) DEF MCNext
  <2> QED BY <2>1, DirectStep, DeliverStep, ZenonT(60)
<1>3. DirectInv /\ DeliverInv => StagingKept
  BY CopyFinds, ZenonT(60) DEF StagingKept
<1> QED BY <1>1, <1>2, <1>3, PTL DEF MCSpec

-----------------------------------------------------------------------------
(* The vectors *)

\* The allocator of ShmVectors is the one of ShmDirect.
LEMMA SameAllocator ==
  ASSUME NEW a, NEW n
  PROVE  /\ V!CanAlloc(a, n) = CanAlloc(a, n) /\ V!BlockOf(a, n) = BlockOf(a, n)
         /\ V!AfterAlloc(a, n) = AfterAlloc(a, n) /\ V!AfterFree(a, n) = AfterFree(a, n)
         /\ V!Lines(n) = Lines(n) /\ V!InArena(n) = InArena(n) /\ V!NewArena = NewArena
         /\ V!FreeBlocks(a) = FreeBlocks(a) /\ V!Extent(a, n) = Extent(a, n)
<1>1. V!CanAlloc(a, n) = CanAlloc(a, n)
  BY ZenonT(60) DEF V!CanAlloc, V!Recycles, V!Carves, CanAlloc, Recycles, Carves
<1>2. V!BlockOf(a, n) = BlockOf(a, n)
  BY ZenonT(60) DEF V!BlockOf, V!Recycles, BlockOf, Recycles
<1>3. V!AfterAlloc(a, n) = AfterAlloc(a, n)
  BY ZenonT(60) DEF V!AfterAlloc, V!Recycles, AfterAlloc, Recycles
<1>4. V!AfterFree(a, n) = AfterFree(a, n)
  BY ZenonT(60) DEF V!AfterFree, AfterFree
<1>5. V!Lines(n) = Lines(n) /\ V!InArena(n) = InArena(n) /\ V!NewArena = NewArena
  BY ZenonT(60) DEF V!Lines, V!Line, Lines, Line, V!InArena, InArena, V!NewArena, NewArena
<1>6. V!FreeBlocks(a) = FreeBlocks(a)
  BY ZenonT(60) DEF V!FreeBlocks, V!Listed, FreeBlocks, Listed
<1>7. V!Extent(a, n) = Extent(a, n)
  BY ZenonT(60) DEF V!Extent, Extent
<1> QED BY <1>1, <1>2, <1>3, <1>4, <1>5, <1>6, <1>7, ZenonT(60)

VecSet == [kind : {"absent", "copy", "view"},
           values : [in : {"none", "arena", "heap"}, at : Nat]]

\* The vectors that own storage in w, the arena or the heap, and its blocks.
Owners(f, w) == {v \in Vectors : f[v].kind = "copy" /\ f[v].values.in = w}
At(f, w) == {f[v].values.at : v \in Owners(f, w)}
OneVector(f, w) ==
  \A u, v \in Owners(f, w) : f[u].values.at = f[v].values.at => u = v

\* The blocks in use are those of the vectors, each of one vector.
VecInv ==
  /\ vec \in [Vectors -> VecSet] /\ news \in Nat
  /\ ArenaInv(vecArena, At(vec, "arena")) /\ OneVector(vec, "arena")
  /\ heap = At(vec, "heap") /\ OneVector(vec, "heap")
  /\ \A h \in heap : h \in 1 .. news

\* A vector gets a block of w that no vector has.
LEMMA VecGets ==
  ASSUME NEW f, NEW g, NEW w, NEW v \in Vectors, NEW b,
         v \notin Owners(f, w), b \notin At(f, w), OneVector(f, w),
         g[v].kind = "copy", g[v].values.in = w, g[v].values.at = b,
         \A u \in Vectors : u # v => g[u] = f[u]
  PROVE  At(g, w) = At(f, w) \union {b} /\ OneVector(g, w)
<1>1. v \in Owners(g, w) /\ \A u \in Vectors : u # v => (u \in Owners(g, w) <=> u \in Owners(f, w))
  BY ZenonT(60) DEF Owners
<1>2. Owners(f, w) \subseteq Vectors /\ Owners(g, w) \subseteq Vectors
  BY ZenonT(60) DEF Owners
<1>3. ASSUME NEW x \in At(g, w) PROVE x \in At(f, w) \union {b}
  BY <1>1, <1>2, <1>3, ZenonT(60) DEF At
<1>4. ASSUME NEW x \in At(f, w) \union {b} PROVE x \in At(g, w)
  <2>1. CASE x = b
    BY <1>1, <2>1, ZenonT(60) DEF At
  <2>2. CASE x \in At(f, w)
    <3>1. PICK u \in Owners(f, w) : x = f[u].values.at
      BY <2>2, ZenonT(60) DEF At
    <3>2. u # v /\ u \in Owners(g, w) /\ x = g[u].values.at
      BY <1>1, <1>2, <3>1, ZenonT(60)
    <3> QED BY <3>2, ZenonT(60) DEF At
  <2> QED BY <2>1, <2>2, ZenonT(60)
<1>5. \A u \in Owners(f, w) : f[u].values.at # b
  BY ZenonT(60) DEF At
<1>6. OneVector(g, w)
  <2> SUFFICES ASSUME NEW s \in Owners(g, w), NEW t \in Owners(g, w),
                      g[s].values.at = g[t].values.at
               PROVE  s = t
    BY ZenonT(60) DEF OneVector
  <2>1. CASE s # v /\ t # v
    <3>1. s \in Owners(f, w) /\ t \in Owners(f, w) /\ g[s] = f[s] /\ g[t] = f[t]
      BY <1>1, <1>2, <2>1, ZenonT(60)
    <3> QED BY <3>1, ZenonT(60) DEF OneVector
  <2>2. CASE s = v /\ t # v
    BY <1>1, <1>2, <1>5, <2>2, ZenonT(60)
  <2>3. CASE s # v /\ t = v
    BY <1>1, <1>2, <1>5, <2>3, ZenonT(60)
  <2> QED BY <2>1, <2>2, <2>3, ZenonT(60)
<1> QED BY <1>3, <1>4, <1>6, ZenonT(60)

\* A vector gives up its block of w.
LEMMA VecDrops ==
  ASSUME NEW f, NEW g, NEW w, NEW v \in Vectors,
         v \in Owners(f, w), v \notin Owners(g, w), OneVector(f, w),
         \A u \in Vectors : u # v => g[u] = f[u]
  PROVE  At(g, w) = At(f, w) \ {f[v].values.at} /\ OneVector(g, w)
<1>1. \A u \in Vectors : u # v => (u \in Owners(g, w) <=> u \in Owners(f, w))
  BY ZenonT(60) DEF Owners
<1>2. Owners(f, w) \subseteq Vectors /\ Owners(g, w) \subseteq Vectors
  BY ZenonT(60) DEF Owners
<1>3. ASSUME NEW x \in At(g, w) PROVE x \in At(f, w) \ {f[v].values.at}
  <2>1. PICK u \in Owners(g, w) : x = g[u].values.at
    BY ZenonT(60) DEF At
  <2>2. u # v /\ u \in Owners(f, w) /\ x = f[u].values.at
    BY <1>1, <1>2, <2>1, ZenonT(60)
  <2> QED BY <2>2, ZenonT(60) DEF At, OneVector
<1>4. ASSUME NEW x \in At(f, w) \ {f[v].values.at} PROVE x \in At(g, w)
  <2>1. PICK u \in Owners(f, w) : x = f[u].values.at
    BY ZenonT(60) DEF At
  <2>2. u # v
    BY <2>1, ZenonT(60)
  <2>3. u \in Owners(g, w) /\ x = g[u].values.at
    BY <1>1, <1>2, <2>1, <2>2, ZenonT(60)
  <2> QED BY <2>3, ZenonT(60) DEF At
<1>5. OneVector(g, w)
  <2>1. \A u \in Owners(g, w) : u \in Owners(f, w) /\ g[u] = f[u]
    BY <1>1, <1>2, ZenonT(60)
  <2> SUFFICES ASSUME NEW s \in Owners(g, w), NEW t \in Owners(g, w),
                      g[s].values.at = g[t].values.at
               PROVE  s = t
    BY ZenonT(60) DEF OneVector
  <2>2. f[s].values.at = f[t].values.at
    BY <2>1, ZenonT(60)
  <2> QED BY <2>1, <2>2, ZenonT(60) DEF OneVector
<1> QED BY <1>3, <1>4, <1>5, ZenonT(60)

\* A vector that owns nothing in w before and after.
LEMMA VecKeeps ==
  ASSUME NEW f, NEW g, NEW w, NEW v \in Vectors,
         v \notin Owners(f, w), v \notin Owners(g, w), OneVector(f, w),
         \A u \in Vectors : u # v => g[u] = f[u]
  PROVE  At(g, w) = At(f, w) /\ OneVector(g, w)
<1>1. \A u \in Vectors : u # v => (u \in Owners(g, w) <=> u \in Owners(f, w))
  BY ZenonT(60) DEF Owners
<1>2. Owners(f, w) \subseteq Vectors /\ Owners(g, w) \subseteq Vectors
  BY ZenonT(60) DEF Owners
<1>3. ASSUME NEW x \in At(g, w) PROVE x \in At(f, w)
  BY <1>1, <1>2, <1>3, ZenonT(60) DEF At
<1>4. ASSUME NEW x \in At(f, w) PROVE x \in At(g, w)
  BY <1>1, <1>2, <1>4, ZenonT(60) DEF At
<1>5. OneVector(g, w)
  <2>1. \A u \in Owners(g, w) : u \in Owners(f, w) /\ g[u] = f[u]
    BY <1>1, <1>2, ZenonT(60)
  <2> SUFFICES ASSUME NEW s \in Owners(g, w), NEW t \in Owners(g, w),
                      g[s].values.at = g[t].values.at
               PROVE  s = t
    BY ZenonT(60) DEF OneVector
  <2>2. f[s].values.at = f[t].values.at
    BY <2>1, ZenonT(60)
  <2> QED BY <2>1, <2>2, ZenonT(60) DEF OneVector
<1> QED BY <1>3, <1>4, <1>5, ZenonT(60)

\* No vector exists.
LEMMA VecInit == V!Init => VecInv
<1> SUFFICES ASSUME V!Init PROVE VecInv
  BY SMTT(60)
<1>1. /\ vecArena = NewArena /\ vec = [v \in Vectors |-> V!Absent] /\ heap = {} /\ news = 0
  BY SameAllocator, ZenonT(60) DEF V!Init
<1>2. V!Absent \in VecSet /\ V!Absent.kind = "absent"
  BY ZenonT(60) DEF V!Absent, V!NoValues, VecSet
<1>3. vec \in [Vectors -> VecSet] /\ \A v \in Vectors : vec[v].kind # "copy"
  BY <1>1, <1>2, ZenonT(60)
<1>4. \A w : Owners(vec, w) = {}
  BY <1>3, ZenonT(60) DEF Owners
<1>5. \A w : At(vec, w) = {} /\ OneVector(vec, w)
  BY <1>4, ZenonT(60) DEF At, OneVector
<1>6. news \in Nat
  BY <1>1, ZenonT(60)
<1> QED BY <1>1, <1>3, <1>5, <1>6, NewArenaInv, ZenonT(60) DEF VecInv

\* The free blocks and the blocks of the vectors.
LEMMA VecInvSound == VecInv => VectorsSound
<1> SUFFICES ASSUME VecInv PROVE VectorsSound
  BY ZenonT(60)
<1> USE ArenaAssumption
<1>1. PICK a : a = vecArena
  BY ZenonT(60)
<1>2. PICK U : U = At(vec, "arena")
  BY ZenonT(60)
<1>3. a \in ArenaType /\ Placed(a) /\ Covered(a) /\ Lists(a) /\ Parted(a, U)
  BY <1>1, <1>2, ZenonT(60) DEF VecInv, ArenaInv
<1>4. a.bump \in 0 .. Slice /\ a.size \in [0 .. Slice -> 0 .. Slice]
  BY <1>3, ArenaFields, ZenonT(60)
<1>5. \A v \in Vectors : V!Owner(v) <=> v \in Owners(vec, "arena")
  BY ZenonT(60) DEF V!Owner, Owners
<1>6. \A v \in Vectors : V!Owner(v) => V!Block(v) \in U
  BY <1>2, <1>5, ZenonT(60) DEF V!Block, At
<1>7. \A x \in U : x \in 0 .. Slice /\ IsBlock(a, x) /\ x \notin FreeBlocks(a)
  BY <1>3, ZenonT(60) DEF Parted, FreeBlocks
<1>8. ASSUME NEW x \in 0 .. Slice, IsBlock(a, x) PROVE Extent(a, x) \subseteq 0 .. a.bump - 1
  <2>1. x > 0 /\ x + a.size[x] <= a.bump /\ a.size[x] \in 0 .. Slice
    BY <1>3, <1>4, <1>8, ZenonT(60) DEF Placed
  <2>2. PICK k \in 0 .. Slice : k = a.size[x]
    BY <2>1, ZenonT(60)
  <2>3. PICK m \in 0 .. Slice : m = a.bump
    BY <1>4, ZenonT(60)
  <2>4. x > 0 /\ x + k <= m
    BY <2>1, <2>2, <2>3, ZenonT(60)
  <2>5. x - 1 .. x + k - 1 \subseteq 0 .. m - 1
    BY <2>4, SMTT(60)
  <2> QED BY <2>2, <2>3, <2>5, ZenonT(60) DEF Extent
<1>9. ASSUME NEW x \in 0 .. Slice, NEW y \in 0 .. Slice, IsBlock(a, x), IsBlock(a, y), x < y
      PROVE  Extent(a, x) \cap Extent(a, y) = {}
  <2>1. x + a.size[x] < y /\ a.size[x] \in 0 .. Slice /\ a.size[y] \in 0 .. Slice
    BY <1>3, <1>4, <1>9, ZenonT(60) DEF Placed
  <2> QED BY <2>1, SMTT(60) DEF Extent
<1>10. \A x, y \in 0 .. Slice : (IsBlock(a, x) /\ IsBlock(a, y) /\ x # y) =>
         Extent(a, x) \cap Extent(a, y) = {}
  <2>1. \A x, y \in 0 .. Slice : x # y => x < y \/ y < x
    BY SMTT(60)
  <2> QED BY <1>9, <2>1, ZenonT(60)
<1>11. V!BlocksDisjoint
  <2>1. ASSUME NEW v \in Vectors, NEW u \in Vectors, V!Owner(v), V!Owner(u), v # u
        PROVE  Extent(a, V!Block(v)) \cap Extent(a, V!Block(u)) = {}
    <3>1. V!Block(v) # V!Block(u)
      BY <1>5, <2>1, ZenonT(60) DEF VecInv, OneVector, V!Block
    <3>2. V!Block(v) \in U /\ V!Block(u) \in U
      BY <1>6, <2>1, ZenonT(60)
    <3> QED BY <1>7, <1>10, <3>1, <3>2, ZenonT(60)
  <2>2. ASSUME NEW v \in Vectors, V!Owner(v)
        PROVE  Extent(a, V!Block(v)) \subseteq 0 .. Slice - 1
    <3>1. Extent(a, V!Block(v)) \subseteq 0 .. a.bump - 1
      BY <1>6, <1>7, <1>8, <2>2, ZenonT(60)
    <3>2. 0 .. a.bump - 1 \subseteq 0 .. Slice - 1
      BY <1>4, SMTT(60)
    <3> QED BY <3>1, <3>2, ZenonT(60)
  <2> QED BY <1>1, <2>1, <2>2, SameAllocator, ZenonT(60) DEF V!BlocksDisjoint
<1>12. V!FreeListsSound
  <2>1. Lists(vecArena)
    BY <1>1, <1>3, ZenonT(60)
  <2>2. \A v \in Vectors : V!Owner(v) => V!Block(v) \notin FreeBlocks(a)
    BY <1>6, <1>7, ZenonT(60)
  <2>3. \A v \in Vectors : V!Owner(v) => V!Block(v) \notin V!FreeBlocks(vecArena)
    BY <1>1, <2>2, SameAllocator, ZenonT(60)
  <2> QED BY <2>1, <2>3, ZenonT(60) DEF Lists, V!FreeListsSound
<1>13. V!NothingLost
  <2> DEFINE S == {V!Extent(vecArena, V!Block(v)) : v \in {x \in Vectors : V!Owner(x)}}
                    \cup {V!Extent(vecArena, x) : x \in V!FreeBlocks(vecArena)}
  <2>1. \A x \in 0 .. Slice : IsBlock(a, x) <=> x \in U \/ x \in FreeBlocks(a)
    BY <1>3, ZenonT(60) DEF Parted, FreeBlocks
  <2>2. \A x \in FreeBlocks(a) : x \in 0 .. Slice /\ IsBlock(a, x)
    BY <2>1, ZenonT(60) DEF FreeBlocks
  <2>3. \A x \in U : \E v \in Vectors : V!Owner(v) /\ V!Block(v) = x
    BY <1>2, <1>5, ZenonT(60) DEF At, Owners, V!Block
  <2>4. \A e \in S : \E x \in 0 .. Slice : IsBlock(a, x) /\ e = Extent(a, x)
    BY <1>1, <1>6, <1>7, <2>2, SameAllocator, ZenonT(60)
  <2>5. \A x \in 0 .. Slice : IsBlock(a, x) => Extent(a, x) \in S
    BY <1>1, <2>1, <2>3, SameAllocator, ZenonT(60)
  <2> HIDE DEF S
  <2>6. \A l \in 0 .. a.bump - 1 : l \in UNION S
    BY <1>3, <2>5, ZenonT(60) DEF Covered
  <2>7. \A l \in UNION S : l \in 0 .. a.bump - 1
    BY <1>8, <2>4, ZenonT(60)
  <2>8. 0 .. vecArena.bump - 1 = UNION S
    BY <1>1, <2>6, <2>7, ZenonT(60)
  <2>9. heap = {vec[v].values.at : v \in {x \in Vectors : vec[x].kind = "copy"
                                                          /\ vec[x].values.in = "heap"}}
    BY ZenonT(60) DEF VecInv, At, Owners
  <2> QED BY <2>8, <2>9, ZenonT(60) DEF V!NothingLost, S
<1> QED BY <1>11, <1>12, <1>13, ZenonT(60) DEF VectorsSound, V!ArenaSound

\* One vector changes.
LEMMA VecUpdate ==
  ASSUME VecInv, NEW v \in Vectors, NEW y \in VecSet, vec' = [vec EXCEPT ![v] = y]
  PROVE  /\ vec' \in [Vectors -> VecSet] /\ vec'[v] = y
         /\ \A u \in Vectors : u # v => vec'[u] = vec[u]
<1>1. vec \in [Vectors -> VecSet]
  BY ZenonT(60) DEF VecInv
<1> QED BY <1>1, ZenonT(60)

\* A vector that does not exist owns nothing.
LEMMA AbsentOwns ==
  ASSUME NEW f, NEW v, NEW w, f[v] = V!Absent
  PROVE  v \notin Owners(f, w)
<1>1. V!Absent.kind # "copy"
  BY SMTT(60) DEF V!Absent, V!NoValues
<1> QED BY <1>1, ZenonT(60) DEF Owners

\* AllocateForCopy in the arena.
LEMMA CopyInArenaStep ==
  ASSUME VecInv, NEW v \in Vectors, NEW bytes \in VecSizes, V!CopyInArena(v, bytes)
  PROVE  VecInv'
<1>1. PICK n : n = Lines(bytes)
  BY ZenonT(60)
<1>2. PICK b : b = BlockOf(vecArena, n)
  BY ZenonT(60)
<1>3. PICK y : y = [kind |-> "copy", values |-> [in |-> "arena", at |-> b]]
  BY ZenonT(60)
<1>4. /\ vec[v] = V!Absent /\ bytes > 0 /\ CanAlloc(vecArena, n)
      /\ vec' = [vec EXCEPT ![v] = y] /\ vecArena' = AfterAlloc(vecArena, n)
      /\ UNCHANGED <<heap, news>>
  BY <1>1, <1>2, <1>3, SameAllocator, ZenonT(60) DEF V!CopyInArena, V!Owned
<1>5. n \in Nat \ {0}
  <2>1. bytes \in Nat /\ bytes > 0
    BY <1>4, VectorsAssumption, ZenonT(60)
  <2> QED BY <1>1, <2>1, SMTT(60) DEF Lines, Line
<1>6. b \in 1 .. Slice /\ b \notin At(vec, "arena")
      /\ ArenaInv(vecArena', At(vec, "arena") \union {b})
  <2>1. ArenaInv(vecArena, At(vec, "arena"))
    BY ZenonT(60) DEF VecInv
  <2>2. b \in 1 .. Slice /\ b \notin At(vec, "arena")
        /\ ArenaInv(AfterAlloc(vecArena, n), At(vec, "arena") \union {b})
    BY <1>2, <1>4, <1>5, <2>1, AllocInv, ZenonT(60)
  <2> QED BY <1>4, <2>2, ZenonT(60)
<1>7. y \in VecSet /\ y.kind = "copy" /\ y.values.in = "arena" /\ y.values.at = b
  <2>1. b \in Nat
    BY <1>6, ArenaAssumption, SMTT(60)
  <2> QED BY <1>3, <2>1, ZenonT(60) DEF VecSet
<1>8. /\ vec' \in [Vectors -> VecSet] /\ vec'[v] = y
      /\ \A u \in Vectors : u # v => vec'[u] = vec[u]
  BY <1>4, <1>7, VecUpdate, ZenonT(60)
<1>9. At(vec', "arena") = At(vec, "arena") \union {b} /\ OneVector(vec', "arena")
  <2>1. v \notin Owners(vec, "arena")
    BY <1>4, AbsentOwns, ZenonT(60)
  <2>2. vec'[v].kind = "copy" /\ vec'[v].values.in = "arena" /\ vec'[v].values.at = b
    BY <1>7, <1>8, ZenonT(60)
  <2>3. OneVector(vec, "arena")
    BY ZenonT(60) DEF VecInv
  <2> QED BY <1>6, <1>8, <2>1, <2>2, <2>3, VecGets, SMTT(60)
<1>10. At(vec', "heap") = At(vec, "heap") /\ OneVector(vec', "heap")
  <2>1. v \notin Owners(vec, "heap")
    BY <1>4, AbsentOwns, ZenonT(60)
  <2>2. v \notin Owners(vec', "heap")
    BY <1>7, <1>8, ZenonT(60) DEF Owners
  <2> QED BY <1>8, <2>1, <2>2, VecKeeps, ZenonT(60) DEF VecInv
<1> QED BY <1>4, <1>6, <1>8, <1>9, <1>10, ZenonT(60) DEF VecInv

\* AllocateForCopy on the heap.
LEMMA CopyOnHeapStep ==
  ASSUME VecInv, NEW v \in Vectors, NEW bytes \in VecSizes, V!CopyOnHeap(v, bytes)
  PROVE  VecInv'
<1>1. PICK h : h = news + 1
  BY ZenonT(60)
<1>2. PICK y : y = [kind |-> "copy", values |-> [in |-> "heap", at |-> h]]
  BY ZenonT(60)
<1>3. /\ vec[v] = V!Absent /\ vec' = [vec EXCEPT ![v] = y] /\ heap' = heap \union {h}
      /\ news' = h /\ UNCHANGED vecArena
  BY <1>1, <1>2, ZenonT(60) DEF V!CopyOnHeap, V!Owned
<1>4. news \in Nat /\ h \in Nat /\ h \in 1 .. h /\ \A k \in 1 .. news : k \in 1 .. h /\ k # h
  BY <1>1, SMTT(60) DEF VecInv
<1>5. y \in VecSet /\ y.kind = "copy" /\ y.values.in = "heap" /\ y.values.at = h
  BY <1>2, <1>4, ZenonT(60) DEF VecSet
<1>6. /\ vec' \in [Vectors -> VecSet] /\ vec'[v] = y
      /\ \A u \in Vectors : u # v => vec'[u] = vec[u]
  BY <1>3, <1>5, VecUpdate, ZenonT(60)
<1>7. At(vec', "heap") = At(vec, "heap") \union {h} /\ OneVector(vec', "heap")
  <2>1. v \notin Owners(vec, "heap")
    BY <1>3, AbsentOwns, ZenonT(60)
  <2>2. h \notin At(vec, "heap")
    BY <1>4, ZenonT(60) DEF VecInv
  <2>3. vec'[v].kind = "copy" /\ vec'[v].values.in = "heap" /\ vec'[v].values.at = h
    BY <1>5, <1>6, ZenonT(60)
  <2>4. OneVector(vec, "heap")
    BY ZenonT(60) DEF VecInv
  <2> QED BY <1>6, <2>1, <2>2, <2>3, <2>4, VecGets, SMTT(60)
<1>8. At(vec', "arena") = At(vec, "arena") /\ OneVector(vec', "arena")
  <2>1. v \notin Owners(vec, "arena")
    BY <1>3, AbsentOwns, ZenonT(60)
  <2>2. v \notin Owners(vec', "arena")
    BY <1>5, <1>6, ZenonT(60) DEF Owners
  <2> QED BY <1>6, <2>1, <2>2, VecKeeps, ZenonT(60) DEF VecInv
<1>9. \A k \in heap' : k \in 1 .. news'
  BY <1>3, <1>4, ZenonT(60) DEF VecInv
<1>10. heap' = At(vec', "heap") /\ news' \in Nat
  BY <1>3, <1>4, <1>7, ZenonT(60) DEF VecInv
<1>11. ArenaInv(vecArena', At(vec', "arena"))
  BY <1>3, <1>8, ZenonT(60) DEF VecInv
<1> QED BY <1>6, <1>7, <1>8, <1>9, <1>10, <1>11, ZenonT(60) DEF VecInv

\* A vector without storage of its own appears or goes.
LEMMA VecOwnsNothing ==
  ASSUME VecInv, NEW v \in Vectors, NEW y \in VecSet, vec' = [vec EXCEPT ![v] = y],
         \A w \in {"arena", "heap"} : v \notin Owners(vec, w),
         y.kind # "copy" \/ y.values.in = "none",
         UNCHANGED <<vecArena, heap, news>>
  PROVE  VecInv'
<1>1. /\ vec' \in [Vectors -> VecSet] /\ vec'[v] = y
      /\ \A u \in Vectors : u # v => vec'[u] = vec[u]
  BY VecUpdate, ZenonT(60)
<1>2. PICK g : g = vec'
  BY ZenonT(60)
<1>3. g[v] = y /\ \A u \in Vectors : u # v => g[u] = vec[u]
  BY <1>1, <1>2, ZenonT(60)
<1>4. \A w \in {"arena", "heap"} : v \notin Owners(g, w)
  BY <1>3, ZenonT(60) DEF Owners
<1>5. \A w \in {"arena", "heap"} : OneVector(vec, w)
  BY ZenonT(60) DEF VecInv
<1>6. \A w \in {"arena", "heap"} : At(g, w) = At(vec, w) /\ OneVector(g, w)
  BY <1>3, <1>4, <1>5, VecKeeps, ZenonT(60)
<1> QED BY <1>1, <1>2, <1>6, ZenonT(60) DEF VecInv

\* ~Epetra_MultiVector frees what the vector owns, where it is.
LEMMA VecDestroyStep ==
  ASSUME VecInv, NEW v \in Vectors, V!Destroy(v)
  PROVE  VecInv'
<1>1. PICK x \in VecSet : x = vec[v]
  BY ZenonT(60) DEF VecInv
<1>2. PICK y : y = V!Absent
  BY ZenonT(60)
<1>3. y \in VecSet /\ y.kind # "copy"
  BY <1>2, ZenonT(60) DEF V!Absent, V!NoValues, VecSet
<1>4. /\ vec' = [vec EXCEPT ![v] = y] /\ UNCHANGED news
      /\ IF x.kind = "copy" THEN V!Release(x.values) ELSE UNCHANGED <<vecArena, heap>>
  BY <1>1, <1>2, ZenonT(60) DEF V!Destroy
<1>5. /\ vec' \in [Vectors -> VecSet] /\ vec'[v] = y
      /\ \A u \in Vectors : u # v => vec'[u] = vec[u]
  BY <1>3, <1>4, VecUpdate, ZenonT(60)
<1>6. \A w : v \notin Owners(vec', w)
  BY <1>3, <1>5, ZenonT(60) DEF Owners
<1>7. x.values.in \in {"none", "arena", "heap"} /\ x.values.at \in Nat
  BY ZenonT(60) DEF VecSet
<1>8. CASE x.kind # "copy" \/ x.values.in = "none"
  <2>1. UNCHANGED <<vecArena, heap>>
    BY <1>4, <1>8, ZenonT(60) DEF V!Release
  <2>2. \A w \in {"arena", "heap"} : v \notin Owners(vec, w)
    BY <1>1, <1>8, ZenonT(60) DEF Owners
  <2> QED BY <1>3, <1>4, <2>1, <2>2, VecOwnsNothing, ZenonT(60)
<1>9. CASE x.kind = "copy" /\ x.values.in = "arena"
  <2>1. PICK b : b = x.values.at
    BY ZenonT(60)
  <2>2. v \in Owners(vec, "arena") /\ v \notin Owners(vec, "heap")
    BY <1>1, <1>9, ZenonT(60) DEF Owners
  <2>3. b \in At(vec, "arena")
    BY <1>1, <2>1, <2>2, ZenonT(60) DEF At
  <2>4. ArenaInv(vecArena, At(vec, "arena"))
    BY ZenonT(60) DEF VecInv
  <2>5. InArena(b)
    <3>1. b \in 0 .. Slice /\ IsBlock(vecArena, b) /\ Placed(vecArena) /\ vecArena \in ArenaType
      BY <2>3, <2>4, ZenonT(60) DEF ArenaInv, Parted
    <3>2. PICK m \in 0 .. Slice : m = vecArena.bump
      BY <3>1, ArenaFields, ZenonT(60)
    <3>3. PICK k \in Nat : k = vecArena.size[b]
      BY <3>1, ArenaFields, ZenonT(60)
    <3>4. b + k <= m /\ k > 0
      BY <3>1, <3>2, <3>3, ZenonT(60) DEF Placed, IsBlock
    <3> QED BY <3>1, <3>4, ArenaAssumption, SMTT(60) DEF InArena
  <2>6. vecArena' = AfterFree(vecArena, b) /\ heap' = heap
    BY <1>4, <1>9, <2>1, <2>5, SameAllocator, ZenonT(60) DEF V!Release
  <2>7. ArenaInv(AfterFree(vecArena, b), At(vec, "arena") \ {b})
    BY <2>3, <2>4, FreeInv, ZenonT(60)
  <2>8. At(vec', "arena") = At(vec, "arena") \ {b} /\ OneVector(vec', "arena")
    <3>1. At(vec', "arena") = At(vec, "arena") \ {vec[v].values.at} /\ OneVector(vec', "arena")
      BY <1>5, <1>6, <2>2, VecDrops, ZenonT(60) DEF VecInv
    <3> QED BY <1>1, <2>1, <3>1, ZenonT(60)
  <2>9. At(vec', "heap") = At(vec, "heap") /\ OneVector(vec', "heap")
    BY <1>5, <1>6, <2>2, VecKeeps, ZenonT(60) DEF VecInv
  <2> QED BY <1>4, <1>5, <2>6, <2>7, <2>8, <2>9, ZenonT(60) DEF VecInv
<1>10. CASE x.kind = "copy" /\ x.values.in = "heap"
  <2>1. PICK b : b = x.values.at
    BY ZenonT(60)
  <2>2. v \in Owners(vec, "heap") /\ v \notin Owners(vec, "arena")
    BY <1>1, <1>10, ZenonT(60) DEF Owners
  <2>3. vecArena' = vecArena /\ heap' = heap \ {b}
    BY <1>4, <1>10, <2>1, ZenonT(60) DEF V!Release
  <2>4. At(vec', "heap") = At(vec, "heap") \ {b} /\ OneVector(vec', "heap")
    <3>1. At(vec', "heap") = At(vec, "heap") \ {vec[v].values.at} /\ OneVector(vec', "heap")
      BY <1>5, <1>6, <2>2, VecDrops, ZenonT(60) DEF VecInv
    <3> QED BY <1>1, <2>1, <3>1, ZenonT(60)
  <2>5. At(vec', "arena") = At(vec, "arena") /\ OneVector(vec', "arena")
    BY <1>5, <1>6, <2>2, VecKeeps, ZenonT(60) DEF VecInv
  <2>6. \A h \in heap' : h \in 1 .. news'
    BY <1>4, <2>3, ZenonT(60) DEF VecInv
  <2>7. heap' = At(vec', "heap")
    BY <2>3, <2>4, ZenonT(60) DEF VecInv
  <2> QED BY <1>4, <1>5, <2>3, <2>4, <2>5, <2>6, <2>7, ZenonT(60) DEF VecInv
<1> QED BY <1>7, <1>8, <1>9, <1>10, ZenonT(60)

\* The steps of the vectors.
LEMMA VecStep == VecInv /\ [V!Next]_vecVars => VecInv'
<1> SUFFICES ASSUME VecInv, [V!Next]_vecVars PROVE VecInv'
  BY SMTT(60)
<1>1. CASE UNCHANGED vecVars
  BY <1>1, ZenonT(60) DEF vecVars, VecInv
<1>2. CASE V!Activate
  BY <1>2, ZenonT(60) DEF V!Activate, VecInv
<1>3. ASSUME NEW v \in Vectors, V!CopyEmpty(v) PROVE VecInv'
  <2>1. PICK y : y = [kind |-> "copy", values |-> V!NoValues]
    BY ZenonT(60)
  <2>2. y \in VecSet /\ y.values.in = "none"
    BY <2>1, ZenonT(60) DEF V!NoValues, VecSet
  <2>3. vec[v] = V!Absent /\ vec' = [vec EXCEPT ![v] = y] /\ UNCHANGED <<vecArena, heap, news>>
    BY <1>3, <2>1, ZenonT(60) DEF V!CopyEmpty
  <2>4. \A w \in {"arena", "heap"} : v \notin Owners(vec, w)
    BY <2>3, AbsentOwns, ZenonT(60)
  <2> QED BY <2>2, <2>3, <2>4, VecOwnsNothing, ZenonT(60)
<1>4. ASSUME NEW v \in Vectors, NEW u \in Vectors, V!View(v, u) PROVE VecInv'
  <2>1. PICK x \in VecSet : x = vec[u]
    BY ZenonT(60) DEF VecInv
  <2>2. PICK y : y = [kind |-> "view", values |-> x.values]
    BY ZenonT(60)
  <2>3. y \in VecSet /\ y.kind # "copy"
    BY <2>2, ZenonT(60) DEF VecSet
  <2>4. vec[v] = V!Absent /\ vec' = [vec EXCEPT ![v] = y] /\ UNCHANGED <<vecArena, heap, news>>
    BY <1>4, <2>1, <2>2, ZenonT(60) DEF V!View
  <2>5. \A w \in {"arena", "heap"} : v \notin Owners(vec, w)
    BY <2>4, AbsentOwns, ZenonT(60)
  <2> QED BY <2>3, <2>4, <2>5, VecOwnsNothing, ZenonT(60)
<1>5. CASE V!Next
  BY <1>2, <1>3, <1>4, <1>5, CopyInArenaStep, CopyOnHeapStep, VecDestroyStep, ZenonT(60) DEF V!Next
<1> QED BY <1>1, <1>5, ZenonT(60)

\* Vectors of AllocateForCopy never share a line of the slice, the destructor
\* frees each block once and where it came from, and no line is lost, for any
\* slice, sizes and number of vectors, with views of them alive or not.
THEOREM VectorsSoundAlways == MCSpec => []VectorsSound
<1>1. MCInit => VecInv
  BY VecInit, ZenonT(60) DEF MCInit
<1>2. VecInv /\ [MCNext]_<<user, vars, vecVars>> => VecInv'
  <2>1. [MCNext]_<<user, vars, vecVars>> => [V!Next]_vecVars
    BY ZenonT(60) DEF MCNext
  <2> QED BY <2>1, VecStep, ZenonT(60)
<1> QED BY <1>1, <1>2, VecInvSound, PTL DEF MCSpec
=============================================================================
