----------------------------- MODULE MCMbArray ------------------------------
(* Two cores: core 0 combines the host's input with a value of core 1, and   *)
(* core 1 displays the result.                                               *)
EXTENDS MbArray

Recv == [op |-> "recv", dst |-> 0]
Post(d) == [op |-> "post", dst |-> d]

MCProgram ==
  [i \in {0, 1} |-> IF i = 0 THEN <<Recv, Recv, Post(1)>> ELSE <<Post(0), Recv, Post(2)>>]
=============================================================================
