-------------------------------- MODULE C2V --------------------------------
(***************************************************************************)
(* python/c2v.py: a C function becomes one combinational expression.  The  *)
(* converter walks the statements once, keeping for every local variable   *)
(* the expression of its current value; the emitter prints the tree, and   *)
(* Verilog's rules on widths decide what the printed expression computes.  *)
(*                                                                         *)
(* A C function here is a sequence of statements over unsigned values of   *)
(* W bits, with casts to the narrower type of N bits.  CRun is what such a *)
(* function returns in C; VValue(Convert(src).expr) what its hardware      *)
(* returns.                                                                *)
(*                                                                         *)
(* Expressions: num(v), ref(n), bin(op, l, r), un(op, e), cond(c, t, e),   *)
(* cast(e), elem(a, i), member(s, f), call(f).  Statements are below.      *)
(***************************************************************************)
EXTENDS Integers, Sequences, SequencesExt

CONSTANTS W, N,       \* widths of the wide and of the narrow type
          Params,     \* names of the parameters
          Unroll      \* the largest number of iterations that is unrolled

ASSUME WidthAssumption == N \in Nat \ {0} /\ W \in Nat /\ N < W
ASSUME UnrollAssumption == Unroll \in Nat

Mod(v) == v % 2^W
num(v) == [k |-> "num", v |-> v]
ref(n) == [k |-> "ref", n |-> n]
bin(op, l, r) == [k |-> "bin", op |-> op, l |-> l, r |-> r]
un(op, e) == [k |-> "un", op |-> op, e |-> e]
cond(c, t, e) == [k |-> "cond", c |-> c, t |-> t, e |-> e]
cast(e) == [k |-> "cast", e |-> e]
elem(a, i) == [k |-> "elem", a |-> a, i |-> i]
call(f) == [k |-> "call", f |-> f]

(* Operators.  Truth is 1 and 0; a shift by W or more gives 0.             *)
Bit(v, i) == (v \div 2^i) % 2
Bits(f(_, _), l, r, w) ==
    FoldLeft(LAMBDA s, i : s + 2^(i - 1) * f(Bit(l, i - 1), Bit(r, i - 1)),
             0, [i \in 1..w |-> i])
Truth(b) == IF b THEN 1 ELSE 0
C_TO_V_OPS == {"+", "-", "*", "&", "|", "^", "<<", ">>", "<", "==", "&&"}
Apply(op, l, r, w) ==
    CASE op = "+" -> (l + r) % 2^w
      [] op = "-" -> (l - r) % 2^w
      [] op = "*" -> (l * r) % 2^w
      [] op = "&" -> Bits(LAMBDA a, b : a * b, l, r, w)
      [] op = "|" -> Bits(LAMBDA a, b : a + b - a * b, l, r, w)
      [] op = "^" -> Bits(LAMBDA a, b : (a + b) % 2, l, r, w)
      [] op = "<<" -> IF r >= w THEN 0 ELSE (l * 2^r) % 2^w
      [] op = ">>" -> IF r >= w THEN 0 ELSE l \div 2^r
      [] op = "<" -> Truth(l < r)
      [] op = "==" -> Truth(l = r)
      [] op = "&&" -> Truth(l # 0 /\ r # 0)
Unary(op, v, w) ==
    CASE op = "~" -> 2^w - 1 - v
      [] op = "-" -> (-v) % 2^w
      [] op = "!" -> Truth(v = 0)

-----------------------------------------------------------------------------
(* The tree the converter builds.  Every node has the width of its C type. *)
VConst(v, w) == [k |-> "const", v |-> v, w |-> w]
VInput(n) == [k |-> "input", n |-> n, w |-> W]
VBinOp(op, l, r) == [k |-> "bin", op |-> op, l |-> l, r |-> r, w |-> W]
VUnaryOp(op, e) == [k |-> "un", op |-> op, e |-> e, w |-> IF op = "!" THEN 1 ELSE W]
VMux(s, t, e) == [k |-> "mux", s |-> s, t |-> t, e |-> e, w |-> W]
VCast(e) == [k |-> "vcast", e |-> e, w |-> N]

(* The converter's state: the expressions of locals, the elements of local *)
(* arrays, the fields of structs, the wires so far and how many were       *)
(* numbered.  None stands for Python's None.                               *)
None == [k |-> "none"]
Start == [locals |-> <<>>, arrays |-> <<>>, fields |-> <<>>, wires |-> <<>>,
          counter |-> 0]
Bind(f, n, x) == [m \in DOMAIN f \cup {n} |-> IF m = n THEN x ELSE f[m]]

RECURSIVE Expr(_, _)
Expr(st, e) ==
    CASE e.k = "num" -> VConst(e.v, W)
      [] e.k = "ref" -> IF e.n \in DOMAIN st.locals THEN st.locals[e.n]
                        ELSE VInput(e.n)
      [] e.k = "bin" -> VBinOp(e.op, Expr(st, e.l), Expr(st, e.r))
      [] e.k = "un" -> VUnaryOp(e.op, Expr(st, e.e))
      [] e.k = "cond" -> VMux(Expr(st, e.c), Expr(st, e.t), Expr(st, e.e))
      [] e.k = "cast" ->
            LET inner == Expr(st, e.e)
            IN  IF inner.k = "const" THEN VConst(inner.v, N)
                ELSE IF inner.w # N THEN VCast(inner) ELSE inner
      [] e.k = "elem" ->
            LET i == Expr(st, e.i)
            IN  IF e.a \in DOMAIN st.arrays /\ i.k = "const"
                   /\ i.v < Len(st.arrays[e.a])
                THEN st.arrays[e.a][i.v + 1] ELSE VInput(e.a)
      [] OTHER -> VConst(0, W)

(* A new wire for a new value of a local: its own name when it is declared *)
(* with a value, else its name and the next number.                        *)
Declare(st, n, x) ==
    [st EXCEPT !.locals = Bind(@, n, x), !.wires = Append(@, <<n, 0>>)]
Assign(st, n, x) ==
    [st EXCEPT !.locals = Bind(@, n, x), !.counter = @ + 1,
               !.wires = Append(@, <<n, st.counter + 1>>)]

(* Statements: decl(n, e), array(n, len), set(n, e), op(n, op, e), put(a,  *)
(* i, e), inc(n), ret(e), if(c, t, e) and for(v, lo, rel, hi, step, body). *)
(* A branch is a block of statements in braces, or one statement without.  *)
_is_assignment(st, s) == s.n \in DOMAIN st.locals \/ s.n \in Params


CompoundAssign(st, s) ==
    LET old == IF s.n \in DOMAIN st.locals THEN st.locals[s.n] ELSE VInput(s.n)
    IN  IF s.n \in DOMAIN st.locals \/ s.n \in Params
        THEN Assign(st, s.n, VBinOp(s.op, old, Expr(st, s.e))) ELSE st

ArrayAssign(st, s) ==
    LET i == Expr(st, s.i)
    IN  IF s.a \in DOMAIN st.arrays /\ i.k = "const" /\ i.v < Len(st.arrays[s.a])
        THEN [st EXCEPT !.arrays[s.a][i.v + 1] = Expr(st, s.e)] ELSE st

(* The bounds of a loop, read off its tokens; its increment is not looked  *)
(* at.  A loop that cannot be unrolled is left out.                        *)
Iterations(s) ==
    LET end == s.hi + IF s.rel = "<=" THEN 1 ELSE 0
    IN  IF s.rel \notin {"<", "<=", "!="} \/ end <= s.lo \/ end - s.lo > Unroll
        THEN <<>> ELSE [i \in 1..(end - s.lo) |-> s.lo + i - 1]

(* Walk(st, ret, body): the state after the statements of a block, and the *)
(* expression of its return value.  Both branches of an if are walked on   *)
(* the same state, one after the other; a return does not end the walk;    *)
(* statements of other kinds (n++) are passed over.                        *)
RECURSIVE Walk(_, _, _)
Branch(st, b) ==
    IF b.braces THEN Walk(st, None, b.body) ELSE [st |-> st, ret |-> VConst(0, W)]

_handle_if(st, s) ==
    LET c == Expr(st, s.c)
        t == Branch(st, s.t)
        f == IF s.else THEN Branch(t.st, s.f) ELSE [st |-> t.st, ret |-> None]
    IN  [st |-> f.st,
         ret |-> IF t.ret # None /\ f.ret # None THEN VMux(c, t.ret, f.ret)
                 ELSE t.ret]

_handle_for(st, s) ==
    FoldLeft(LAMBDA at, i :
               LET here == [at EXCEPT !.locals = Bind(@, s.v, VConst(i, W))]
               IN  IF s.body.braces THEN Walk(here, None, s.body.body).st
                   ELSE IF Head(s.body.body).k = "op"
                           /\ Head(s.body.body).n \in DOMAIN here.locals
                        THEN CompoundAssign(here, Head(s.body.body)) ELSE here,
             st, Iterations(s))

Walk(st, ret, body) ==
    IF body = <<>> THEN [st |-> st, ret |-> ret]
    ELSE LET s == Head(body)
             rest == Tail(body)
             then(st2) == Walk(st2, ret, rest)
         IN  CASE s.k = "ret" -> Walk(st, Expr(st, s.e), rest)
               [] s.k = "decl" -> then(Declare(st, s.n, Expr(st, s.e)))
               [] s.k = "array" ->
                    then([st EXCEPT !.arrays =
                            Bind(@, s.n, [i \in 1..s.len |-> VConst(0, W)])])
               [] s.k = "set" ->
                    then(IF _is_assignment(st, s) THEN Assign(st, s.n, Expr(st, s.e))
                         ELSE st)
               [] s.k = "op" -> then(CompoundAssign(st, s))
               [] s.k = "put" -> then(ArrayAssign(st, s))
               [] s.k = "if" -> LET r == _handle_if(st, s)
                                IN  Walk(r.st, r.ret, rest)
               [] s.k = "for" -> then(_handle_for(st, s))
               [] OTHER -> then(st)

(* convert_function: None when there is no return.                         *)
Convert(src) ==
    LET r == Walk(Start, None, src)
    IN  [expr |-> r.ret, wires |-> r.st.wires]

-----------------------------------------------------------------------------
(* What the emitted Verilog computes.  An operand takes the width of its   *)
(* context; the operands of a comparison, a condition and a shift amount   *)
(* have a context of their own.  A cast to a narrower type selects bits of *)
(* a wire as wide as the operand.                                          *)
RECURSIVE Width(_)
Width(x) ==
    CASE x.k = "bin" -> IF x.op \in {"<", "==", "&&"} THEN 1
                        ELSE IF x.op \in {"<<", ">>"} THEN Width(x.l)
                        ELSE IF Width(x.l) > Width(x.r) THEN Width(x.l) ELSE Width(x.r)
      [] x.k = "un" -> IF x.op = "!" THEN 1 ELSE Width(x.e)
      [] x.k = "mux" -> IF Width(x.t) > Width(x.e) THEN Width(x.t) ELSE Width(x.e)
      [] OTHER -> x.w

Wider(a, b) == IF a > b THEN a ELSE b

RECURSIVE _node_to_expr(_, _, _)
_node_to_expr(x, in, w) ==
    CASE x.k = "const" -> x.v % 2^x.w
      [] x.k = "input" -> in[x.n]
      [] x.k = "bin" ->
            LET own == IF x.op \in {"<", "=="} THEN Wider(Width(x.l), Width(x.r)) ELSE w
                lw == IF x.op = "&&" THEN Width(x.l) ELSE own
                rw == IF x.op \in {"<<", ">>", "&&"} THEN Width(x.r) ELSE own
            IN  Apply(x.op, _node_to_expr(x.l, in, lw), _node_to_expr(x.r, in, rw), own)
      [] x.k = "un" ->
            LET ow == IF x.op = "!" THEN Width(x.e) ELSE w
            IN  Unary(x.op, _node_to_expr(x.e, in, ow), ow)
      [] x.k = "mux" ->
            IF _node_to_expr(x.s, in, Width(x.s)) # 0
            THEN _node_to_expr(x.t, in, w) ELSE _node_to_expr(x.e, in, w)
      [] x.k = "vcast" -> _node_to_expr(x.e, in, Wider(x.e.w, Width(x.e))) % 2^N

(* The module's output for inputs in; the wires it declares, by name.      *)
VValue(expr, in) == Mod(_node_to_expr(expr, in, Wider(W, Width(expr))))
emit(conv) == SelectSeq(conv.wires, LAMBDA x : ~(x[2] = 0 /\ x[1] \in Params \cup {"result"}))

(* What the asynchronous version computes, given that the ncl_ functions   *)
(* compute their operators: every operator has the width of its node, and  *)
(* the logical ones are printed as bitwise ones.                           *)
RECURSIVE NclExpr(_, _)
NclExpr(x, in) ==
    CASE x.k = "const" -> x.v % 2^x.w
      [] x.k = "input" -> in[x.n]
      [] x.k = "bin" -> Apply(IF x.op = "&&" THEN "&" ELSE x.op,
                              NclExpr(x.l, in), NclExpr(x.r, in), x.w)
      [] x.k = "un" -> Unary(IF x.op = "!" THEN "~" ELSE x.op, NclExpr(x.e, in), W)
      [] x.k = "mux" -> IF NclExpr(x.s, in) # 0 THEN NclExpr(x.t, in) ELSE NclExpr(x.e, in)
      [] x.k = "vcast" -> NclExpr(x.e, in) % 2^N

-----------------------------------------------------------------------------
(* C.  mem maps variables and arrays to values; ret is None until the      *)
(* function returns.                                                       *)
RECURSIVE CEval(_, _)
CEval(mem, e) ==
    CASE e.k = "num" -> Mod(e.v)
      [] e.k = "ref" -> mem[e.n]
      [] e.k = "bin" -> Apply(e.op, CEval(mem, e.l), CEval(mem, e.r), W)
      [] e.k = "un" -> Unary(e.op, CEval(mem, e.e), W)
      [] e.k = "cond" -> IF CEval(mem, e.c) # 0 THEN CEval(mem, e.t) ELSE CEval(mem, e.e)
      [] e.k = "cast" -> CEval(mem, e.e) % 2^N
      [] e.k = "elem" -> mem[e.a][CEval(mem, e.i) + 1]

RECURSIVE CRun(_, _)
RECURSIVE CLoop(_, _)
CRun(c, body) ==
    IF body = <<>> \/ c.ret # None THEN c
    ELSE LET s == Head(body)
             to(n, v) == [c EXCEPT !.mem = Bind(@, n, v)]
             next ==
               CASE s.k = "ret" -> [c EXCEPT !.ret = [k |-> "value", v |-> CEval(c.mem, s.e)]]
                 [] s.k \in {"decl", "set"} -> to(s.n, CEval(c.mem, s.e))
                 [] s.k = "array" -> to(s.n, [i \in 1..s.len |-> 0])
                 [] s.k = "op" -> to(s.n, Apply(s.op, c.mem[s.n], CEval(c.mem, s.e), W))
                 [] s.k = "inc" -> to(s.n, Mod(c.mem[s.n] + 1))
                 [] s.k = "put" ->
                      to(s.a, [c.mem[s.a] EXCEPT ![CEval(c.mem, s.i) + 1] = CEval(c.mem, s.e)])
                 [] s.k = "if" ->
                      IF CEval(c.mem, s.c) # 0 THEN CRun(c, s.t.body)
                      ELSE IF s.else THEN CRun(c, s.f.body) ELSE c
                 [] s.k = "for" -> CLoop(to(s.v, s.lo), s)
         IN  CRun(next, Tail(body))

CLoop(c, s) ==
    LET i == c.mem[s.v]
        goes == CASE s.rel = "<" -> i < s.hi
                  [] s.rel = "<=" -> i <= s.hi
                  [] s.rel = "!=" -> i # s.hi
                  [] s.rel = ">" -> i > s.hi
        done == CRun(c, s.body.body)
    IN  IF ~goes \/ c.ret # None THEN c
        ELSE CLoop([done EXCEPT !.mem = Bind(@, s.v, @[s.v] + s.step)], s)

CValue(src, in) == CRun([mem |-> in, ret |-> None], src).ret
=============================================================================
