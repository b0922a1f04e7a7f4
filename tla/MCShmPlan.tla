----------------------------- MODULE MCShmPlan ------------------------------
(* Instances of ShmPlan for two and for three ranks. *)
EXTENDS ShmPlan

\* Two ranks, plans that no rank can take for one another: one item each
\* way, and three where rank 0 has them out of order.
MCTold ==
  {[r \in Rank |-> IF r = 0 THEN <<1>> ELSE <<0>>],
   [r \in Rank |-> IF r = 0 THEN <<1, 0, 1>> ELSE <<0, 0, 1>>]}

\* Three ranks: 0 and 1 exchange, and 2 joins or not.
MCTriplePlans ==
  {[r \in Rank |-> CASE r = 0 -> <<1>> [] r = 1 -> s [] OTHER -> <<>>] :
     s \in {<<0>>, <<0, 2>>}}

MCCalls ==
  {"sends", "recvs", "rebuild", "clone", "do", "rev",
   "posts", "rposts", "vposts", "vrposts", "waits", "rwaits"}
MCRebuildCalls == {"sends", "rebuild", "do"}

\* The first instance meets the condition of the theorems in ShmPlanProofs.
ASSUME ToldHolds == Plans = MCTold => ToldApart
=============================================================================
