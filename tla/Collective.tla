----------------------------- MODULE Collective -----------------------------
(***************************************************************************)
(* What the shared-memory collectives promise their callers: a sequence of *)
(* synchronising collective calls, as MPI defines them for one             *)
(* communicator.  No segment, no slots, no sequence numbers.               *)
(***************************************************************************)
EXTENDS Naturals, Sequences

CONSTANTS Rank, Calls, Delivered(_, _)

VARIABLES
  issued,    \* the calls each rank has made
  returned,  \* how many of them have returned
  out        \* the caller's output buffer

vars == <<issued, returned, out>>

Init ==
  /\ issued = [r \in Rank |-> <<>>]
  /\ returned = [r \in Rank |-> 0]
  /\ out = [r \in Rank |-> [q \in Rank |-> 0]]

\* A rank makes its next call; all ranks make the same ones.
Call(r, c) ==
  /\ returned[r] = Len(issued[r])
  /\ \A q \in Rank : Len(issued[q]) > Len(issued[r])
                       => issued[q][Len(issued[r]) + 1] = c
  /\ issued' = [issued EXCEPT ![r] = Append(@, c)]
  /\ UNCHANGED <<returned, out>>

\* The call returns, once every rank has made it, with its payload.
Return(r) ==
  LET g == Len(issued[r])
      c == issued[r][g]
  IN /\ returned[r] < g
     /\ \A q \in Rank : Len(issued[q]) >= g /\ issued[q][g] = c
     /\ returned' = [returned EXCEPT ![r] = g]
     /\ out' = [out EXCEPT ![r] = IF c.bytes = 0 THEN @ ELSE Delivered(c, g)]
     /\ UNCHANGED issued

Next == \E r \in Rank : Return(r) \/ \E c \in Calls : Call(r, c)

Spec == Init /\ [][Next]_vars
=============================================================================
