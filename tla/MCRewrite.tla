----------------------------- MODULE MCRewrite -----------------------------
EXTENDS Rewrite
MCFuncAddr == 1 :> 12 @@ 2 :> 36 @@ 3 :> 52
MCPltFuncs == {1, 3}
MCSecFuncs == {3}
calls == {[k |-> "call", f |-> f] : f \in {1, 2}}
units(kind, u) == [k |-> kind, f |-> 1, units |-> u]
MCInsns == [
    riscv |-> {[k |-> "call", f |-> 1], [k |-> "call", f |-> 2], [k |-> "far", f |-> 1], [k |-> "far", f |-> 2], [k |-> "tail", f |-> 2],
       units("plain", <<Half(0)>>), units("plain", <<H("addi", "a0", "a0", 0), Half(0)>>),
       units("plain", <<H("jal", "zero", "-", 0), Half(4)>>), units("data", <<H("jal", "ra", "-", 0)>>)},
    arm |-> calls \cup {[k |-> "call", f |-> 3],  units("plain", <<H("add", "-", "-", 0)>>), units("data", <<H("bl", "-", "-", 2)>>)},
    x86 |-> calls \cup {[k |-> "call", f |-> 3], units("plain", <<1>>), units("mov", <<MOV, CALL>>), units("mov", <<MOV, 7>>)}]
MCOptions == {Option(TRUE, FALSE, {}), Option(FALSE, TRUE, {1}), Option(FALSE, FALSE, {}),
              Option(FALSE, FALSE, {1}), Option(FALSE, FALSE, {2, 3, 99})}
=============================================================================
