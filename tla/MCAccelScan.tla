---------------------------- MODULE MCAccelScan ----------------------------
(***************************************************************************)
(* AccelScan for TLC: functions of two parameters, a local x and an array, *)
(* in plain C and outside of it.                                           *)
(***************************************************************************)
EXTENDS AccelScan

MCParams == {"a", "b"}
a == ref("a")
b == ref("b")
x == ref("x")
block(s) == [braces |-> TRUE, body |-> s]
one(s) == [braces |-> FALSE, body |-> <<s>>]
decl(n, e) == [k |-> "decl", n |-> n, e |-> e]
set(n, e) == [k |-> "set", n |-> n, e |-> e]
op(n, o, e) == [k |-> "op", n |-> n, op |-> o, e |-> e]
put(n, i, e) == [k |-> "put", a |-> n, i |-> i, e |-> e]
inc(n) == [k |-> "inc", n |-> n]
ret(e) == [k |-> "ret", e |-> e]
ifelse(c, t, f) == [k |-> "if", c |-> c, t |-> t, else |-> TRUE, f |-> f]
ifonly(c, t) == [k |-> "if", c |-> c, t |-> t, else |-> FALSE]
for(lo, rel, hi, by, body) ==
    [k |-> "for", v |-> "i", lo |-> lo, rel |-> rel, hi |-> hi, step |-> by, body |-> body]

MCStmts ==
    {decl("x", e) : e \in {bin("+", a, b), cast(bin("-", a, b)), cond(bin("<", a, b), a, b)}}
      \cup {[k |-> "array", n |-> "t", len |-> 2], put("t", num(1), bin("*", a, b)),
            set("a", bin("^", a, num(3))), op("a", "+", b), op("x", "*", a), op("b", ">>", num(1)), inc("a"),
            ifonly(bin("==", a, b), block(<<set("a", b)>>)),
            for(0, "<", 2, 1, block(<<op("a", "+", ref("i")), op("b", "^", a)>>)),
            for(0, "<=", 2, 2, block(<<op("a", "+", b)>>)),
            for(1, "!=", 2, 1, one(op("a", "|", b))),
            for(0, "<", 3, 1, block(<<decl("y", a), op("a", "-", b)>>))}
MCFinals ==
    {ret(e) : e \in {a, bin("&", a, un("~", b)), un("!", cast(a)), call("f"),
                     bin("<<", a, bin("<", cast(a), b)), un("-", bin("-", a, b)), x, bin("-", elem("t", num(1)), a)}}
      \cup {ifelse(bin("<", a, b), block(<<ret(a)>>), block(<<ret(bin("&&", a, b))>>)),
            ifelse(bin("<", a, b), one(ret(a)), one(ret(b))),
            ifelse(a, block(<<set("b", num(1)), ret(b)>>), block(<<ret(b)>>)),
            set("a", num(0))}
MCUses == [s \in MCStmts \cup MCFinals |->
              CASE s \in {ret(x), op("x", "*", a)} -> {"x"}
                [] s.k = "put" \/ s = ret(bin("-", elem("t", num(1)), a)) -> {"t"}
                [] OTHER -> {}]
=============================================================================
