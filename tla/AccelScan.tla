----------------------------- MODULE AccelScan -----------------------------
(***************************************************************************)
(* python/ldx_accel_scan.py: the functions of a C file that c2v might      *)
(* convert are converted, and the Verilog is compared with the compiled    *)
(* function on test vectors, through five programs any of which may fail.  *)
(*                                                                         *)
(* A behaviour writes one function, statement by statement, and then scans *)
(* the file.                                                               *)
(***************************************************************************)
EXTENDS C2V, FiniteSets

CONSTANTS Stmts,      \* statements the function's body is made of
          Finals,     \* statements it ends with
          Uses,       \* the locals each statement uses
          MaxStmts    \* bound: statements before the last

ASSUME ScanAssumption == MaxStmts \in Nat

VARIABLES src,        \* the function
          scanStep,   \* what the scan does next
          entry,      \* its entry of the manifest
          workdir     \* whether the directory of the verification exists

scanVars == <<src, scanStep, entry, workdir>>

ScanInit ==
    /\ src = <<>> /\ scanStep = "edit" /\ workdir = FALSE
    /\ entry = [eligible |-> FALSE, converted |-> FALSE, verified |-> FALSE,
                error |-> FALSE]

(* A function gcc accepts declares its names once, before it uses them.    *)
Declared == Params \cup {src[i].n : i \in {j \in DOMAIN src : src[j].k \in {"decl", "array"}}}
Valid(s) ==
    IF s.k \in {"decl", "array"} THEN s.n \notin Declared
    ELSE Uses[s] \subseteq Declared

WriteStmt(s) ==
    /\ scanStep = "edit" /\ Len(src) < MaxStmts /\ Valid(s)
    /\ src' = Append(src, s)
    /\ UNCHANGED <<scanStep, entry, workdir>>

Finish(s) ==
    /\ scanStep = "edit" /\ Valid(s)
    /\ src' = Append(src, s) /\ scanStep' = "scan"
    /\ UNCHANGED <<entry, workdir>>

-----------------------------------------------------------------------------
RECURSIVE Calls(_)
Calls(e) ==
    CASE e.k = "call" -> TRUE
      [] e.k = "bin" -> Calls(e.l) \/ Calls(e.r)
      [] e.k \in {"un", "cast"} -> Calls(e.e)
      [] e.k = "cond" -> Calls(e.c) \/ Calls(e.t) \/ Calls(e.e)
      [] OTHER -> FALSE

(* Functions that call others are not candidates; those without parameters *)
(* or with pointers are left out of the statements already.                *)
check_eligibility(body) ==
    ~\E i \in DOMAIN body : body[i].k \in {"ret", "set", "decl", "op"} /\ Calls(body[i].e)

scan_functions ==
    /\ scanStep = "scan"
    /\ entry' = [entry EXCEPT !.eligible = check_eligibility(src)]
    /\ scanStep' = IF check_eligibility(src) THEN "convert" ELSE "done"
    /\ UNCHANGED <<src, workdir>>

(* c2v raises when it finds no return value.                               *)
try_convert ==
    LET good == Convert(src).expr # None
    IN  /\ scanStep = "convert"
        /\ entry' = [entry EXCEPT !.converted = good]
        /\ scanStep' = IF good THEN "gcc" ELSE "done"
        /\ workdir' = good
        /\ UNCHANGED src

(* The values of one parameter in gen_test_vectors: the first three of the *)
(* list for its width.                                                     *)
vals_for_width == {0, 1, 2}
gen_test_vectors == [Params -> vals_for_width]

(* The testbench compares every vector with the reference data.            *)
Agree(body, expr, in) ==
    LET c == CValue(body, in)
    IN  c # None /\ c.v = VValue(expr, in)
AllPass(body) ==
    LET expr == Convert(body).expr
    IN  \A in \in gen_test_vectors : Agree(body, expr, in)

(* iverilog refuses a name that is declared twice.                         *)
Compiles(body) == IsInjective(emit(Convert(body)))

(* verify_with_iverilog: gcc, the reference program, iverilog and vvp in   *)
(* turn.  Each may fail, the simulation may also exceed its time; the      *)
(* directory is removed on every way out.                                  *)
Leave(verified, error) ==
    /\ entry' = [entry EXCEPT !.verified = verified, !.error = error]
    /\ scanStep' = "done" /\ workdir' = FALSE
    /\ UNCHANGED src

Following == [gcc |-> "ref", ref |-> "iverilog", iverilog |-> "vvp"]
ToolOk ==
    /\ scanStep \in DOMAIN Following
    /\ scanStep = "iverilog" => Compiles(src)
    /\ scanStep' = Following[scanStep]
    /\ UNCHANGED <<src, entry, workdir>>
ToolFails == scanStep \in DOMAIN Following \cup {"vvp"} /\ Leave(FALSE, TRUE)


vvp == scanStep = "vvp" /\ Leave(AllPass(src), FALSE)

ScanNext ==
    \/ \E s \in Stmts : WriteStmt(s)
    \/ \E s \in Finals : Finish(s)
    \/ scan_functions
    \/ try_convert
    \/ ToolOk
    \/ ToolFails
    \/ vvp

-----------------------------------------------------------------------------
RECURSIVE Reads(_, _)
Reads(e, n) ==
    CASE e.k = "ref" -> e.n = n
      [] e.k = "bin" -> Reads(e.l, n) \/ Reads(e.r, n)
      [] e.k \in {"un", "cast"} -> Reads(e.e, n)
      [] e.k = "cond" -> Reads(e.c, n) \/ Reads(e.t, n) \/ Reads(e.e, n)
      [] e.k = "elem" -> Reads(e.i, n)
      [] OTHER -> FALSE
(* Expressions without the logical operators.                              *)
RECURSIVE OnlyBitwise(_)
OnlyBitwise(x) ==
    CASE x.k = "bin" -> x.op # "&&" /\ OnlyBitwise(x.l) /\ OnlyBitwise(x.r)
      [] x.k = "un" -> x.op # "!" /\ OnlyBitwise(x.e)
      [] x.k = "mux" -> OnlyBitwise(x.s) /\ OnlyBitwise(x.t) /\ OnlyBitwise(x.e)
      [] x.k = "vcast" -> OnlyBitwise(x.e)
      [] OTHER -> TRUE
StmtReads(s, n) == s.k \in {"ret", "set", "decl", "op", "put"} /\ Reads(s.e, n)

(* The subset of C that c2v translates: statements one after another, a    *)
(* counted loop in braces whose variable is not used after it, and one     *)
(* return at the end, or one if with a return in each branch.              *)
Returns(b) == b.braces /\ Len(b.body) = 1 /\ b.body[1].k = "ret"
PlainLoop(s) ==
    /\ s.step = 1 /\ s.rel # ">" /\ s.hi - s.lo < Unroll
    /\ s.body.braces
    /\ \A i \in DOMAIN s.body.body :
          s.body.body[i].k \in {"set", "op"} /\ s.body.body[i].n # s.v
PlainAt(body, j) ==
    LET s == body[j]
    IN  IF j = Len(body)
        THEN s.k = "ret" \/ (s.k = "if" /\ s.else /\ Returns(s.t) /\ Returns(s.f))
        ELSE \/ s.k \in {"decl", "set", "op", "array", "put"}
             \/ /\ s.k = "for" /\ PlainLoop(s)
                /\ \A i \in (j + 1)..Len(body) : ~StmtReads(body[i], s.v)
Plain(body) == check_eligibility(body) /\ \A j \in DOMAIN body : PlainAt(body, j)


=============================================================================
