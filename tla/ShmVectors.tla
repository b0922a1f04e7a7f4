----------------------------- MODULE ShmVectors -----------------------------
(***************************************************************************)
(* Shared-resident vector storage of mpi/shmcomm.cpp: the interposed       *)
(* Epetra_MultiVector::AllocateForCopy, AllocateForView and destructor of  *)
(* one rank, on top of its arena slice.  A vector's values live in the     *)
(* arena if it is mapped and has room, else on the heap; a view points     *)
(* into storage that somebody else owns.                                   *)
(***************************************************************************)
EXTENDS ArenaOps, FiniteSets

CONSTANTS
  Vectors,   \* the MultiVector objects
  Sizes,     \* bytes a vector may need; 0: no local points
  MaxHeap    \* bound: heap allocations

VARIABLES
  active,  \* arena_on(): state = ACTIVE and the arena is mapped
  arena,   \* the rank's allocator
  vec,     \* the vectors
  heap,    \* heap blocks in use
  news     \* heap blocks ever handed out

vars == <<active, arena, vec, heap, news>>

\* Values_: nothing, an arena block or a heap block.
NoValues == [in |-> "none", at |-> 0]
Absent == [kind |-> "absent", values |-> NoValues]

Init ==
  /\ active = FALSE
  /\ arena = NewArena
  /\ vec = [v \in Vectors |-> Absent]
  /\ heap = {}
  /\ news = 0

\* init_once() maps the segment; vectors may already exist.
Activate ==
  /\ ~active
  /\ active' = TRUE
  /\ UNCHANGED <<arena, vec, heap, news>>

Owned(v, where, a) == [vec EXCEPT ![v] = [kind |-> "copy", values |-> [in |-> where, at |-> a]]]

\* AllocateForCopy: arena, else heap; no storage for no points.
CopyInArena(v, bytes) ==
  LET n == Lines(bytes)
  IN /\ vec[v] = Absent /\ bytes > 0
     /\ active /\ CanAlloc(arena, n)
     /\ vec' = Owned(v, "arena", BlockOf(arena, n))
     /\ arena' = AfterAlloc(arena, n)
     /\ UNCHANGED <<active, heap, news>>

CopyOnHeap(v, bytes) ==
  /\ vec[v] = Absent /\ bytes > 0
  /\ ~(active /\ CanAlloc(arena, Lines(bytes)))
  /\ news < MaxHeap
  /\ vec' = Owned(v, "heap", news + 1)
  /\ heap' = heap \cup {news + 1}
  /\ news' = news + 1
  /\ UNCHANGED <<active, arena>>

CopyEmpty(v) ==
  /\ vec[v] = Absent
  /\ vec' = [vec EXCEPT ![v] = [kind |-> "copy", values |-> NoValues]]
  /\ UNCHANGED <<active, arena, heap, news>>

\* AllocateForView: the values are those of another vector, which owns them.
View(v, u) ==
  /\ vec[v] = Absent /\ vec[u].kind = "copy"
  /\ vec' = [vec EXCEPT ![v] = [kind |-> "view", values |-> vec[u].values]]
  /\ UNCHANGED <<active, arena, heap, news>>

Release(x) ==
  /\ arena' = IF x.in = "arena" /\ InArena(x.at) THEN AfterFree(arena, x.at) ELSE arena
  /\ heap' = IF x.in = "heap" THEN heap \ {x.at} ELSE heap

\* Mutant: the destructor does not look at UserAllocated_.
DestroyAny(v) ==
  /\ vec[v] # Absent
  /\ vec' = [vec EXCEPT ![v] = Absent]
  /\ Release(vec[v].values)
  /\ UNCHANGED <<active, news>>

\* Mutant: everything is freed with delete[].
DestroyHeapOnly(v) ==
  /\ vec[v] # Absent
  /\ vec' = [vec EXCEPT ![v] = Absent]
  /\ heap' = heap \ {vec[v].values.at}
  /\ UNCHANGED <<active, arena, news>>

\* ~Epetra_MultiVector: only owned values are freed, the address says where.
Destroy(v) ==
  /\ vec[v] # Absent
  /\ vec' = [vec EXCEPT ![v] = Absent]
  /\ IF vec[v].kind = "copy" THEN Release(vec[v].values) ELSE UNCHANGED <<arena, heap>>
  /\ UNCHANGED <<active, news>>

Next ==
  \/ Activate
  \/ \E v \in Vectors :
       \/ \E b \in Sizes : CopyInArena(v, b) \/ CopyOnHeap(v, b)
       \/ CopyEmpty(v)
       \/ \E u \in Vectors : View(v, u)
       \/ Destroy(v)

Spec == Init /\ [][Next]_vars

-----------------------------------------------------------------------------
Owner(v) == vec[v].kind = "copy" /\ vec[v].values.in = "arena"
Block(v) == vec[v].values.at

\* Two vectors never share storage, and a block lies inside the rank's slice
\* with its header: the allocator recycles and carves blocks that nobody uses.
BlocksDisjoint ==
  /\ \A v, u \in Vectors : (Owner(v) /\ Owner(u) /\ v # u) =>
       Extent(arena, Block(v)) \cap Extent(arena, Block(u)) = {}
  /\ \A v \in Vectors : Owner(v) => Extent(arena, Block(v)) \subseteq 0 .. Slice - 1

\* A free list holds a block once, of the list's size, and no live vector
\* owns it: no double free, no use of a recycled block.
FreeListsSound ==
  /\ \A n \in 0 .. Slice : \A i, j \in 1 .. Len(arena.free[n]) :
       /\ arena.size[arena.free[n][i]] = n
       /\ arena.free[n][i] = arena.free[n][j] => i = j
  /\ \A v \in Vectors : Owner(v) => Block(v) \notin FreeBlocks(arena)

\* Nothing leaks and nothing is freed in the wrong place: every line of the
\* bumped part of the slice belongs to a live vector or to a free block, and
\* the heap holds exactly the vectors that fell back to it.
NothingLost ==
  /\ 0 .. arena.bump - 1
       = UNION ({Extent(arena, Block(v)) : v \in {x \in Vectors : Owner(x)}}
                  \cup {Extent(arena, a) : a \in FreeBlocks(arena)})
  /\ heap = {vec[v].values.at : v \in {x \in Vectors : vec[x].kind = "copy"
                                                       /\ vec[x].values.in = "heap"}}

\* The arena hands out each line once, at any time to at most one user, and
\* gets back exactly what it handed out.
ArenaSound == BlocksDisjoint /\ FreeListsSound /\ NothingLost
=============================================================================
