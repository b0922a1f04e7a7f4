-------------------------------- MODULE Hooks --------------------------------
(***************************************************************************)
(* Redirection, hooks and the profiler of src/ldx.c: one thread patches    *)
(* the GOT slots of a running program (dlreplace, dlreplaceq,              *)
(* ldx_add_hook, ldx_prof_add, ldx_prof_reset) while other threads call    *)
(* through them.                                                           *)
(*                                                                         *)
(* A code address is <<"lib", sym>> (the function), <<"new", sym>> (a      *)
(* replacement), <<"stub", i>> (the PLT stub of slot i, which a lazily     *)
(* bound slot holds before its first call) or <<"tramp", k>> (the k-th     *)
(* trampoline).  A thread is the stack of the codes it is executing.       *)
(*                                                                         *)
(* Every hook here is prof_hook.  Machine registers, the parsing of a      *)
(* target and the ELF tables are left out: Slots is what the walk yields.  *)
(* The operations of two patching threads are not interleaved.             *)
(***************************************************************************)
EXTENDS Integers, Sequences

CONSTANTS
  Slots,        \* what ldx_walk_got visits, in order: [sym, obj, lazy]
  Targets,      \* what the operations are asked for: [sym, lib]
  Threads,      \* the threads of the program
  MAX_HOOKS,    \* entries of the hook table
  PerPage,      \* trampolines that fit in a page
  MaxUses,      \* bound: operations of the patching thread and calls together
  MaxDepth,     \* bound: frames of a thread
  MaxClock      \* bound: ticks of the clock

Syms == {Slots[i].sym : i \in 1 .. Len(Slots)}

ASSUME HooksAssumption ==
    /\ Len(Slots) \in Nat
    /\ \A i \in 1 .. Len(Slots) : Slots[i].sym \in Nat
    /\ \A target \in Targets : target.sym \in Syms
    /\ PerPage \in Nat \ {0}
    /\ {MAX_HOOKS, MaxUses, MaxDepth, MaxClock} \subseteq Nat

AnyLib == "*"
Never == MaxClock + 1                    \* min_time = 1e30

VARIABLES
  got,       \* the value of every slot
  hooks,     \* the table up to hook_count, without the numbers
  prof,      \* the profiler's numbers of every entry
  tramps,    \* the trampolines generated
  page,      \* tramp_page: "null", "mapped", "failed" (MAP_FAILED) or "fault"
             \* (a trampoline was written to MAP_FAILED), and what is used of it
  job,       \* the operation of the patching thread
  saved,     \* per symbol the original dlreplace returned
  stack,     \* per thread its frames, innermost first
  ts,        \* per thread prof_entry_ts
  clock, uses,
  took       \* history: per entry the durations measured against, and their sum

hkVars == <<got, hooks, prof, tramps, page, job, saved, stack, ts, clock, uses,
            took>>

Zeroed == [call_count |-> 0, total_time |-> 0, min_time |-> Never, max_time |-> 0]
None == <<>>
Job(op, syms, lib, new) ==
    [op |-> op, syms |-> syms, lib |-> lib, new |-> new, pos |-> 1, cur |-> None,
     first |-> None, count |-> 0]
NoJob == Job("none", {}, AnyLib, None)
NoHistory == [all |-> {}, sum |-> 0, nested |-> FALSE, reset |-> FALSE]

HkInit ==
    /\ got = [i \in 1 .. Len(Slots) |->
                IF Slots[i].lazy THEN <<"stub", i>> ELSE <<"lib", Slots[i].sym>>]
    /\ hooks = <<>> /\ prof = [i \in 1 .. MAX_HOOKS |-> Zeroed] /\ tramps = <<>>
    /\ page = [is |-> "null", used |-> 0]
    /\ job = NoJob /\ saved = [s \in Syms |-> None]
    /\ stack = [t \in Threads |-> <<>>]
    /\ ts = [t \in Threads |-> [i \in 1 .. MAX_HOOKS |-> 0]]
    /\ clock = 0 /\ uses = 0
    /\ took = [i \in 1 .. MAX_HOOKS |-> NoHistory]

(***************************************************************************)
(* The walk over the slots, and what it does at each.                      *)
(***************************************************************************)

\* The object dladdr finds an address in; trampolines are in none.
Provider(v) ==
    CASE v[1] = "lib" -> "libm"
      [] v[1] = "new" -> "main"
      [] v[1] = "stub" -> Slots[v[2]].obj
      [] v[1] = "tramp" -> "none"

provider_matches(v, lib) == lib = AnyLib \/ Provider(v) = lib

Start(j) ==
    /\ job = NoJob /\ uses < MaxUses
    /\ job' = j
    /\ uses' = uses + 1
    /\ UNCHANGED <<got, hooks, prof, tramps, page, saved, stack, ts, clock, took>>

\* dlreplace with a new function, or with the original it returned before.
dlreplace(target) ==
    \E new \in {<<"new", target.sym>>, saved[target.sym]} \ {None} :
        Start(Job("replace", {target.sym}, target.lib, new))

dlreplaceq(pattern) == Start(Job("replaceq", pattern, AnyLib, None))

ldx_prof_add(target) == Start(Job("hook", {target.sym}, target.lib, None))

ldx_prof_reset == Start(Job("reset", {}, AnyLib, None))

Walking == job.op \in {"replace", "replaceq", "hook"}
Matched(op) == job.op = op /\ job.cur # None
Past(j) == [j EXCEPT !.pos = @ + 1, !.cur = None]

\* walk_rel_table reads the slot and the callback compares names; what was
\* read is used when the callback patches.
Walk ==
    /\ Walking /\ job.pos <= Len(Slots) /\ job.cur = None
    /\ LET v == got[job.pos]
       IN  job' = IF Slots[job.pos].sym \in job.syms /\ provider_matches(v, job.lib)
                  THEN [job EXCEPT !.cur = v]
                  ELSE Past(job)
    /\ UNCHANGED <<got, hooks, prof, tramps, page, saved, stack, ts, clock, uses,
                   took>>

\* patch_got_slot, which fails when mprotect does.
patch_got_slot(ok, v) == got' = IF ok THEN [got EXCEPT ![job.pos] = v] ELSE got

replace_cb(ok) ==
    /\ Matched("replace")
    /\ patch_got_slot(ok, job.new)
    /\ job' = Past([job EXCEPT !.first = IF job.count = 0 THEN job.cur ELSE @,
                               !.count = IF ok THEN @ + 1 ELSE @])
    /\ UNCHANGED <<hooks, prof, tramps, page, saved, stack, ts, clock, uses,
                   took>>

\* The callback of dlreplaceq names a replacement or keeps the function.
replaceq_cb(ok, keep) ==
    /\ Matched("replaceq")
    /\ patch_got_slot(ok /\ ~keep, <<"new", Slots[job.pos].sym>>)
    /\ job' = Past(job)
    /\ UNCHANGED <<hooks, prof, tramps, page, saved, stack, ts, clock, uses,
                   took>>

\* generate_trampoline asks for a page when it has none or has used it up.  A
\* first mmap that fails leaves MAP_FAILED in tramp_page and tramp_offset at 0,
\* which the next call takes for a page.
Room == page.is # "null" /\ page.used < PerPage
generate_trampoline(mapped) ==
    page' = IF Room
            THEN [is |-> IF page.is = "mapped" THEN "mapped" ELSE "fault",
                  used |-> page.used + 1]
            ELSE IF mapped THEN [is |-> "mapped", used |-> 1]
            ELSE [page EXCEPT !.is = "failed"]

Entry(i, original, k) ==
    [original |-> original, trampoline |-> k, sym |-> Slots[i].sym,
     lib |-> Slots[i].obj]

\* Mutant: the index baked in is the one before.
OffByOne(idx, original) == [idx |-> idx - 1, original |-> original]

\* idx is hook_count before its increment: entries count from 1 here.
Trampoline(idx, original) == [idx |-> idx, original |-> original]

\* A trampoline without a page, or a slot that cannot be written, gives the
\* entry back; the trampoline of the second case stays where it is.
hook_add_cb(mapped, ok) ==
    /\ Matched("hook")
    /\ IF Len(hooks) >= MAX_HOOKS
       THEN /\ job' = [job EXCEPT !.pos = Len(Slots) + 1, !.cur = None]
            /\ UNCHANGED <<got, hooks, prof, tramps, page>>
       ELSE /\ generate_trampoline(mapped)
            /\ prof' = [prof EXCEPT ![Len(hooks) + 1] = Zeroed]
            /\ job' = Past(job)
            /\ IF page'.is = "mapped"
               THEN /\ tramps' = Append(tramps, Trampoline(Len(hooks) + 1, job.cur))
                    /\ patch_got_slot(ok, <<"tramp", Len(tramps')>>)
                    /\ hooks' = IF ok
                                THEN Append(hooks, Entry(job.pos, job.cur, Len(tramps')))
                                ELSE hooks
               ELSE UNCHANGED <<got, hooks, tramps>>
    /\ UNCHANGED <<saved, stack, ts, clock, uses, took>>

WalkEnds ==
    /\ Walking /\ job.pos > Len(Slots) /\ job' = NoJob
    /\ saved' = IF job.op = "replace" /\ job.first # None
                THEN [s \in Syms |-> IF s \in job.syms THEN job.first ELSE saved[s]]
                ELSE saved
    /\ UNCHANGED <<got, hooks, prof, tramps, page, stack, ts, clock, uses, took>>

Fields == <<"call_count", "total_time", "min_time", "max_time">>

\* ldx_prof_reset stores the four fields of every entry, one after another.
ResetStore ==
    /\ job.op = "reset"
    /\ LET i == ((job.pos - 1) \div 4) + 1
           f == Fields[((job.pos - 1) % 4) + 1]
       IN  IF i > Len(hooks)
           THEN job' = NoJob /\ UNCHANGED <<prof, took>>
           ELSE /\ prof' = [prof EXCEPT ![i][f] = Zeroed[f]]
                /\ took' = [took EXCEPT ![i].reset = TRUE]
                /\ job' = [job EXCEPT !.pos = @ + 1]
    /\ UNCHANGED <<got, hooks, tramps, page, saved, stack, ts, clock, uses>>

(***************************************************************************)
(* The threads that call.                                                  *)
(***************************************************************************)

Frame(v) == [code |-> v, at |-> "in", idx |-> 0, start |-> 0, elapsed |-> 0,
             seen |-> 0]
Top(t) == Head(stack[t])
In(t, kind, at) == stack[t] # <<>> /\ Top(t).code[1] = kind /\ Top(t).at = at
SetTop(t, f) == stack' = [stack EXCEPT ![t] = <<f>> \o Tail(@)]
Running(t) == stack[t] = <<>> \/ In(t, "lib", "in") \/ In(t, "new", "in")

\* The program, a function or a replacement calls through slot i.
Call(t, i) ==
    /\ Running(t) /\ uses < MaxUses /\ Len(stack[t]) < MaxDepth
    /\ uses' = uses + 1
    /\ stack' = [stack EXCEPT ![t] = <<Frame(got[i])>> \o @]
    /\ UNCHANGED <<got, hooks, prof, tramps, page, job, saved, ts, clock, took>>

\* The dynamic linker binds the slot of the stub, whatever it holds by now.
Resolve(t) ==
    /\ In(t, "stub", "in")
    /\ LET i == Top(t).code[2]
       IN  /\ got' = [got EXCEPT ![i] = <<"lib", Slots[i].sym>>]
           /\ SetTop(t, Frame(<<"lib", Slots[i].sym>>))
    /\ UNCHANGED <<hooks, prof, tramps, page, job, saved, ts, clock, uses, took>>

\* prof_hook searches the table for the names its trampoline's entry has.
Named(h) ==
    CHOOSE i \in 1 .. Len(hooks) :
        /\ hooks[i].sym = h.sym /\ hooks[i].lib = h.lib
        /\ \A j \in 1 .. i - 1 : hooks[j].sym # h.sym \/ hooks[j].lib # h.lib
Profiled(t) == Named(hooks[tramps[Top(t).code[2]].idx])
Inside(t, i) == \E k \in 2 .. Len(stack[t]) : stack[t][k].idx = i

\* Mutant: the entry times are not thread-local.
StampShared(t, i) == ts' = [u \in Threads |-> [ts[u] EXCEPT ![i] = clock]]

\* prof_entry_ts is __thread.
Stamp(t, i) == ts' = [ts EXCEPT ![t][i] = clock]

\* hook_entry, and the call of the original.
HookEntry(t) ==
    /\ In(t, "tramp", "in") /\ Len(stack[t]) < MaxDepth
    /\ LET i == Profiled(t)
           f == [Top(t) EXCEPT !.at = "out", !.idx = i, !.start = clock]
       IN  /\ Stamp(t, i)
           /\ took' = [took EXCEPT ![i].nested = @ \/ Inside(t, i)]
           /\ stack' = [stack EXCEPT ![t] =
                          <<Frame(tramps[Top(t).code[2]].original), f>> \o Tail(@)]
    /\ UNCHANGED <<got, hooks, prof, tramps, page, job, saved, clock, uses>>

Returns(t) ==
    /\ In(t, "lib", "in") \/ In(t, "new", "in")
    /\ stack' = [stack EXCEPT ![t] = Tail(@)]
    /\ UNCHANGED <<got, hooks, prof, tramps, page, job, saved, ts, clock, uses,
                   took>>

\* hook_exit: the count is atomic, the sum is loaded to be stored later.
HookExit(t) ==
    /\ In(t, "tramp", "out")
    /\ LET i == Profiled(t)
       IN  /\ prof' = [prof EXCEPT ![i].call_count = @ + 1]
           /\ SetTop(t, [Top(t) EXCEPT !.at = "total", !.elapsed = clock - ts[t][i],
                                       !.seen = prof[i].total_time])
           /\ took' = [took EXCEPT ![i].all = @ \union {clock - Top(t).start},
                                   ![i].sum = @ + clock - Top(t).start]
    /\ UNCHANGED <<got, hooks, tramps, page, job, saved, ts, clock, uses>>

\* total_time is stored; the comparisons with min_time and with max_time are
\* apart from the stores they lead to.
StoreTotal(t) ==
    /\ In(t, "tramp", "total")
    /\ LET f == Top(t)
       IN  /\ prof' = [prof EXCEPT ![f.idx].total_time = f.seen + f.elapsed]
           /\ SetTop(t, [f EXCEPT !.at = "min", !.seen = prof[f.idx].min_time])
    /\ UNCHANGED <<got, hooks, tramps, page, job, saved, ts, clock, uses, took>>

StoreMin(t) ==
    /\ In(t, "tramp", "min")
    /\ LET f == Top(t)
       IN  /\ prof' = IF f.elapsed < f.seen
                       THEN [prof EXCEPT ![f.idx].min_time = f.elapsed] ELSE prof
           /\ SetTop(t, [f EXCEPT !.at = "max", !.seen = prof[f.idx].max_time])
    /\ UNCHANGED <<got, hooks, tramps, page, job, saved, ts, clock, uses, took>>

StoreMax(t) ==
    /\ In(t, "tramp", "max")
    /\ LET f == Top(t)
       IN  prof' = IF f.elapsed > f.seen
                    THEN [prof EXCEPT ![f.idx].max_time = f.elapsed] ELSE prof
    /\ stack' = [stack EXCEPT ![t] = Tail(@)]
    /\ UNCHANGED <<got, hooks, tramps, page, job, saved, ts, clock, uses, took>>

\* Time matters while a hook is between its entry and its exit.
Timed(t) == \E k \in 1 .. Len(stack[t]) : stack[t][k].at = "out"
Tick ==
    /\ clock < MaxClock /\ \E t \in Threads : Timed(t)
    /\ clock' = clock + 1
    /\ UNCHANGED <<got, hooks, prof, tramps, page, job, saved, stack, ts, uses,
                   took>>

Patcher ==
    \/ \E target \in Targets : dlreplace(target) \/ ldx_prof_add(target)
    \/ dlreplaceq(Syms) \/ ldx_prof_reset
    \/ Walk \/ WalkEnds \/ ResetStore
    \/ \E ok \in BOOLEAN : replace_cb(ok)
    \/ \E ok, keep \in BOOLEAN : replaceq_cb(ok, keep)
    \/ \E mapped, ok \in BOOLEAN : hook_add_cb(mapped, ok)

CallerStep(t) ==
    \/ \E i \in 1 .. Len(Slots) : Call(t, i)
    \/ Resolve(t) \/ HookEntry(t) \/ Returns(t)
    \/ HookExit(t) \/ StoreTotal(t) \/ StoreMin(t) \/ StoreMax(t)

\* A trampoline written to MAP_FAILED ends the process.
HkNext == page.is # "fault" /\ (Patcher \/ Tick \/ \E t \in Threads : CallerStep(t))

HkSpec == HkInit /\ [][HkNext]_hkVars

(***************************************************************************)
(* Properties.                                                             *)
(***************************************************************************)

\* A call of v is one of symbol s: v is a function, replacement or stub of s, or
\* the trampoline of an entry of s that knows the code the trampoline calls.
SymOf(v) == IF v[1] = "stub" THEN Slots[v[2]].sym ELSE v[2]
Leads(v, s) ==
    IF v[1] = "tramp"
    THEN LET c == tramps[v[2]]
         IN  /\ v[2] \in 1 .. Len(tramps) /\ c.idx \in 1 .. Len(hooks)
             /\ hooks[c.idx].trampoline = v[2] /\ hooks[c.idx].original = c.original
             /\ hooks[c.idx].sym = s
    ELSE SymOf(v) = s

\* Whatever was hooked, replaced, restored or refused in whatever order, a call
\* through a slot goes through trampolines of entries for the slot's symbol,
\* each older than the one before it, and ends at a function, replacement or
\* stub of that symbol (the indices hook_add_cb takes, bakes in and gives back).
Chained ==
    /\ \A i \in 1 .. Len(Slots) : Leads(got[i], Slots[i].sym)
    /\ \A i \in 1 .. Len(hooks) :
         LET v == hooks[i].original
         IN  Leads(v, hooks[i].sym) /\ (v[1] = "tramp" => v[2] < hooks[i].trampoline)

Exiting(i) ==
    \E t \in Threads : \E k \in 1 .. Len(stack[t]) :
        stack[t][k].idx = i /\ stack[t][k].at \in {"total", "min", "max"}

\* The profiler never reports more time than the calls took, nor a call longer
\* than the longest, although threads lose each other's updates and recursion
\* overwrites entry times.  If nothing was reset and no thread called the
\* function from itself, the shortest and the longest times reported are those
\* of calls that were made (prof_hook's thread-local times and its updates).
ProfileHonest ==
    \A i \in 1 .. Len(hooks) :
        LET e == prof[i]
            h == took[i]
        IN  /\ e.total_time <= h.sum
            /\ \E d \in h.all \union {0} : e.max_time <= d
            /\ (e.call_count > 0 /\ ~Exiting(i) /\ ~h.nested /\ ~h.reset)
                 => {e.min_time, e.max_time} \subseteq h.all
=============================================================================
