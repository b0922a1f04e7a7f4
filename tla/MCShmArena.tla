----------------------------- MODULE MCShmArena -----------------------------
(***************************************************************************)
(* The users of the arena for TLC: two ranks with distributors and vectors *)
(* as in ShmDirect, or one rank with many vectors and views as in          *)
(* ShmVectors, before and after the arena is mapped.  A behaviour is one   *)
(* or the other.                                                           *)
(***************************************************************************)
EXTENDS ShmDirect

CONSTANTS Vectors, VecSizes, MaxHeap

ASSUME VectorsAssumption == VecSizes \subseteq Nat /\ MaxHeap \in Nat

VARIABLES user, active, vecArena, vec, heap, news

vecVars == <<active, vecArena, vec, heap, news>>

V == INSTANCE ShmVectors WITH Sizes <- VecSizes, arena <- vecArena

MCInit == user \in {"distributors", "vectors"} /\ Init /\ V!Init

MCNext ==
  \/ user = "distributors" /\ Next /\ UNCHANGED <<user, vecVars>>
  \/ user = "vectors" /\ V!Next /\ UNCHANGED <<user, vars>>

MCSpec == MCInit /\ [][MCNext]_<<user, vars, vecVars>>
MCFairSpec == MCSpec /\ \A r \in Rank : WF_vars(Exchanging(r))

\* ArenaSound of ShmVectors: vectors allocated by AllocateForCopy never share
\* a line, and the destructor frees each block once and in the right place.
VectorsSound == V!ArenaSound
=============================================================================
