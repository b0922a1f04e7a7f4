------------------------------ MODULE ArenaOps ------------------------------
(***************************************************************************)
(* The allocator of one rank's slice of the shared arena in               *)
(* mpi/shmcomm.cpp: arena_alloc, arena_free and in_my_arena as operators   *)
(* on the allocator's process-local state.  Storage is counted in lines of *)
(* 64 bytes, the unit every size is rounded up to.  A block has a header   *)
(* line that holds its size, and is named by the line after the header.    *)
(***************************************************************************)
EXTENDS Naturals, Sequences

CONSTANT Slice  \* arena_slice, in lines

ASSUME ArenaAssumption == Slice \in Nat

Line == 64

\* (n + 63) & ~63, in lines.
Lines(bytes) == (bytes + Line - 1) \div Line

\* bump: arena_bump; free: arena_free_; size: the header of every block carved
\* so far, 0 for lines that are not the start of a block.
NewArena ==
  [bump |-> 0,
   free |-> [n \in 0 .. Slice |-> <<>>],
   size |-> [a \in 0 .. Slice |-> 0]]

Recycles(arena, n) == n <= Slice /\ arena.free[n] # <<>>

Carves(arena, n) == arena.bump + 1 + n <= Slice

\* arena_alloc(n): is there a block, which one, and the allocator after it.
CanAlloc(arena, n) == Recycles(arena, n) \/ Carves(arena, n)

BlockOf(arena, n) ==
  IF Recycles(arena, n) THEN arena.free[n][Len(arena.free[n])]
                        ELSE arena.bump + 1

\* Mutant: the header gets no line.
AfterAllocNoHeader(arena, n) ==
  IF Recycles(arena, n)
    THEN [arena EXCEPT !.free[n] = SubSeq(@, 1, Len(@) - 1)]
    ELSE [arena EXCEPT !.size[arena.bump + 1] = n, !.bump = @ + n]

AfterAlloc(arena, n) ==
  IF Recycles(arena, n)
    THEN [arena EXCEPT !.free[n] = SubSeq(@, 1, Len(@) - 1)]
    ELSE [arena EXCEPT !.size[arena.bump + 1] = n, !.bump = @ + 1 + n]

\* arena_free(p): the header says which list the block goes to.
AfterFree(arena, a) == [arena EXCEPT !.free[arena.size[a]] = Append(@, a)]

\* in_my_arena(p).
InArena(a) == a \in 0 .. Slice - 1

-----------------------------------------------------------------------------
\* The blocks on the free lists, and the lines a block takes with its header.
Listed(arena, a) == \E n \in 0 .. Slice : \E i \in 1 .. Len(arena.free[n]) : arena.free[n][i] = a
FreeBlocks(arena) == {a \in 0 .. Slice : Listed(arena, a)}
Extent(arena, a) == a - 1 .. a + arena.size[a] - 1
=============================================================================
