----------------------------- MODULE MCShmHalo ------------------------------
(***************************************************************************)
(* Two ranks on rings of two bytes: messages of three bytes both ways, so  *)
(* that the ranks fill the rings against each other, a self block, a       *)
(* one-way message in reverse and a zero-length block.                     *)
(***************************************************************************)
EXTENDS ShmHalo, TLC

B(p, n) == [proc |-> p, len |-> n]

MCBoth ==
  [to |-> (0 :> <<B(0, 1), B(1, 3)>> @@ 1 :> <<B(0, 3)>>),
   from |-> (0 :> <<B(0, 1), B(1, 3)>> @@ 1 :> <<B(0, 3)>>),
   rev |-> FALSE]

MCOneWay ==
  [to |-> (0 :> <<B(1, 1)>> @@ 1 :> <<B(0, 0)>>),
   from |-> (0 :> <<B(1, 0)>> @@ 1 :> <<B(0, 1)>>),
   rev |-> TRUE]

MCExchanges == {MCBoth, MCOneWay}
=============================================================================
