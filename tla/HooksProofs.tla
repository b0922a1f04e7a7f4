---------------------------- MODULE HooksProofs ----------------------------
(***************************************************************************)
(* Proofs about Hooks, for any slots, targets, threads, table size and     *)
(* clock: where calls through patched slots lead (Chained), and what the   *)
(* profiler reports of them (ProfileHonest).                               *)
(***************************************************************************)
EXTENDS Hooks, WellFoundedInduction, TLAPS

Code == {"lib", "new", "stub", "tramp"} \X Nat
MaybeCode == Code \union {None}

Objs == {Slots[i].obj : i \in 1 .. Len(Slots)}

JobType ==
    [op : {"none", "replace", "replaceq", "hook", "reset"}, syms : SUBSET Syms,
     lib : {AnyLib} \union {target.lib : target \in Targets}, new : MaybeCode,
     pos : Nat \ {0}, cur : MaybeCode, first : MaybeCode, count : Nat]

Types ==
    /\ got \in [1 .. Len(Slots) -> Code]
    /\ hooks \in Seq([original : Code, trampoline : Nat, sym : Nat, lib : Objs])
    /\ tramps \in Seq([idx : Nat, original : Code])
    /\ saved \in [Syms -> MaybeCode]
    /\ job \in JobType

\* What the patching thread holds: the originals it was given, the value the
\* walk has read, and the function and first original of a dlreplace.
Held ==
    /\ \A s \in Syms : saved[s] # None => Leads(saved[s], s)
    /\ job.cur # None => /\ Walking /\ job.pos \in 1 .. Len(Slots)
                         /\ Slots[job.pos].sym \in job.syms
                         /\ Leads(job.cur, Slots[job.pos].sym)
    /\ job.op = "replace" =>
         \E x \in Syms : /\ job.syms = {x} /\ job.new # None /\ Leads(job.new, x)
                         /\ job.first # None => Leads(job.first, x)

IInv == Types /\ Chained /\ Held

\* An element of a sequence over S is in S.
LEMMA ElementOfSeq ==
  ASSUME NEW S, NEW q \in Seq(S), NEW k \in 1 .. Len(q)
  PROVE  q[k] \in S
OBVIOUS

\* So are its head and the elements of its tail.
LEMMA HeadAndTail ==
  ASSUME NEW S, NEW q \in Seq(S), q # <<>>
  PROVE  Head(q) \in S /\ Tail(q) \in Seq(S)
OBVIOUS

\* Every slot's symbol is one of Syms.
LEMMA SlotSym ==
  ASSUME NEW i \in 1 .. Len(Slots)
  PROVE  Slots[i].sym \in Syms /\ Slots[i].sym \in Nat /\ Slots[i].obj \in Objs
BY HooksAssumption, ZenonT(60) DEF Syms, Objs

\* Symbols are numbers.
LEMMA SymsNat == Syms \subseteq Nat
BY HooksAssumption, ZenonT(60) DEF Syms

\* None is no code address.
LEMMA NoneIsNoCode == None \notin Code
BY DEF None, Code

\* At the start a slot holds the function of its symbol or its own stub.
LEMMA InitIInv == HkInit => IInv
<1> SUFFICES ASSUME HkInit PROVE IInv BY ZenonT(60)
<1>1. Types
  <2>1. \A i \in 1 .. Len(Slots) : got[i] \in {<<"stub", i>>, <<"lib", Slots[i].sym>>}
    BY ZenonT(60) DEF HkInit
  <2>2. \A i \in 1 .. Len(Slots) : got[i] \in Code
    BY <2>1, HooksAssumption, SlotSym, SMTT(60) DEF Code
  <2>3. got \in [1 .. Len(Slots) -> Code]
    BY <2>2, ZenonT(60) DEF HkInit
  <2>4. hooks = <<>> /\ tramps = <<>> /\ saved \in [Syms -> MaybeCode]
    BY ZenonT(60) DEF HkInit, MaybeCode
  <2>5. job \in JobType
    <3>1. None \in MaybeCode /\ {} \in SUBSET Syms
      BY ZenonT(60) DEF MaybeCode
    <3> QED BY <3>1 DEF HkInit, NoJob, Job, JobType
  <2> QED BY <2>3, <2>4, <2>5 DEF Types
<1>2. Chained
  BY HooksAssumption, SlotSym, SMTT(60) DEF HkInit, Chained, Leads, SymOf
<1>3. Held
  BY ZenonT(60) DEF HkInit, Held, NoJob, Job
<1> QED BY <1>1, <1>2, <1>3, ZenonT(60) DEF IInv

-----------------------------------------------------------------------------
\* Steps that add no trampoline.

\* Slots that lead to their symbols, over the same table and trampolines.
LEMMA ChainedKept ==
  ASSUME Chained, UNCHANGED <<hooks, tramps>>,
         \A i \in 1 .. Len(Slots) : Leads(got'[i], Slots[i].sym)
  PROVE  Chained'
BY ZenonT(60) DEF Chained, Leads

\* What the patching thread holds depends on its own state only.
LEMMA HeldSame ==
  ASSUME Held, UNCHANGED <<hooks, tramps, saved, job>>
  PROVE  Held'
BY ZenonT(60) DEF Held, Leads, Walking

\* The threads leave table, trampolines and the patching thread's state alone;
\* the dynamic linker puts the function of its own symbol into a slot.
LEMMA CallerIInv ==
  ASSUME IInv, NEW t \in Threads, CallerStep(t)
  PROVE  IInv'
<1>1. UNCHANGED <<hooks, tramps, saved, job>>
  BY ZenonT(60) DEF CallerStep, Call, Resolve, HookEntry, Returns, HookExit, StoreTotal,
         StoreMin, StoreMax
<1>2. /\ got' \in [1 .. Len(Slots) -> Code]
      /\ \A i \in 1 .. Len(Slots) : Leads(got'[i], Slots[i].sym)
  <2>1. CASE got' = got
    BY <2>1, ZenonT(60) DEF IInv, Types, Chained
  <2>2. CASE Resolve(t)
    <3> DEFINE i == Top(t).code[2]
    <3>1. got' = [got EXCEPT ![i] = <<"lib", Slots[i].sym>>]
      BY <2>2, ZenonT(60) DEF Resolve
    <3> HIDE DEF i
    <3>2. CASE i \in 1 .. Len(Slots)
      <4>1. <<"lib", Slots[i].sym>> \in Code
        BY <3>2, SlotSym, ZenonT(60) DEF Code
      <4>2. Leads(<<"lib", Slots[i].sym>>, Slots[i].sym)
        BY DEF Leads, SymOf
      <4> QED BY <3>1, <3>2, <4>1, <4>2, ZenonT(60) DEF IInv, Types, Chained
    <3>3. CASE i \notin 1 .. Len(Slots)
      BY <3>1, <3>3, ZenonT(60) DEF IInv, Types, Chained
    <3> QED BY <3>2, <3>3, ZenonT(60)
  <2> QED
    BY <2>1, <2>2, ZenonT(60) DEF CallerStep, Call, HookEntry, Returns, HookExit, StoreTotal,
                      StoreMin, StoreMax
<1> QED BY <1>1, <1>2, ChainedKept, HeldSame, ZenonT(60) DEF IInv, Types

\* dlreplaceq, ldx_prof_add and ldx_prof_reset start.
LEMMA StartIInv ==
  ASSUME IInv, NEW op \in {"replaceq", "hook", "reset"}, NEW syms \in SUBSET Syms,
         NEW lib \in {AnyLib} \union {target.lib : target \in Targets},
         Start(Job(op, syms, lib, None))
  PROVE  IInv'
<1>1. job' = Job(op, syms, lib, None) /\ UNCHANGED <<got, hooks, tramps, saved>>
  BY ZenonT(60) DEF Start
<1>2. job' \in JobType
  BY <1>1 DEF Job, JobType, MaybeCode
<1>3. job'.cur = None /\ job'.op # "replace"
  BY <1>1, ZenonT(60) DEF Job
<1>4. Held'
  BY <1>1, <1>3, ZenonT(60) DEF Held, Leads, IInv
<1>5. Chained'
  BY <1>1, ChainedKept, ZenonT(60) DEF IInv, Chained
<1> QED BY <1>1, <1>2, <1>4, <1>5, ZenonT(60) DEF IInv, Types

\* dlreplace starts, with a new function or with one it returned before.
LEMMA DlreplaceIInv ==
  ASSUME IInv, NEW target \in Targets, dlreplace(target)
  PROVE  IInv'
<1> DEFINE x == target.sym
<1>0. x \in Syms
  BY HooksAssumption, ZenonT(60)
<1>1. PICK new \in {<<"new", x>>, saved[x]} \ {None} :
        Start(Job("replace", {x}, target.lib, new))
  BY ZenonT(60) DEF dlreplace
<1>2. new \in Code /\ Leads(new, x)
  <2>1. CASE new = <<"new", x>>
    BY <1>0, <2>1, SymsNat, ZenonT(60) DEF Code, Leads, SymOf
  <2>2. CASE new = saved[x]
    BY <1>0, <1>1, <2>2, ZenonT(60) DEF IInv, Held, Types, MaybeCode
  <2> QED BY <1>1, <2>1, <2>2, ZenonT(60)
<1>3. job' = Job("replace", {x}, target.lib, new) /\ UNCHANGED <<got, hooks, tramps, saved>>
  BY <1>1, ZenonT(60) DEF Start
<1> HIDE DEF x
<1>4. job' \in JobType
  BY <1>0, <1>2, <1>3 DEF Job, JobType, MaybeCode
<1>5. Held'
  <2>1. /\ job'.cur = None /\ job'.syms = {x} /\ job'.new = new
        /\ job'.first = None
    BY <1>3, ZenonT(60) DEF Job
  <2>2. Leads(new, x)' /\ new # None
    BY <1>1, <1>2, <1>3, ZenonT(60) DEF Leads
  <2>3. (\A s \in Syms : saved[s] # None => Leads(saved[s], s))'
    BY <1>3, ZenonT(60) DEF IInv, Held, Leads
  <2> QED BY <1>0, <2>1, <2>2, <2>3, ZenonT(60) DEF Held
<1>6. Chained'
  BY <1>3, ChainedKept, ZenonT(60) DEF IInv, Chained
<1> QED BY <1>3, <1>4, <1>5, <1>6, ZenonT(60) DEF IInv, Types

Recorded(j, c, n) == [j EXCEPT !.first = c, !.count = n]

\* Updates of the patching thread's record keep its type.
LEMMA JobUpdates ==
  ASSUME NEW j \in JobType, NEW c \in MaybeCode, NEW n \in Nat
  PROVE  /\ [j EXCEPT !.cur = c] \in JobType
         /\ Recorded(j, c, n) \in JobType
         /\ Recorded(j, c, n).first = c /\ Recorded(j, c, n).syms = j.syms
         /\ Recorded(j, c, n).new = j.new
BY ZenonT(60) DEF JobType, Recorded

\* The walk goes on to the next slot.
LEMMA PastJob ==
  ASSUME NEW j \in JobType
  PROVE  /\ Past(j) \in JobType /\ Past(j).cur = None /\ Past(j).op = j.op
         /\ Past(j).syms = j.syms /\ Past(j).new = j.new /\ Past(j).first = j.first
<1>1. None \in MaybeCode
  BY ZenonT(60) DEF MaybeCode
<1>2. j.pos + 1 \in Nat \ {0}
  BY DEF JobType
<1> QED BY <1>1, <1>2, ZenonT(60) DEF JobType, Past

\* A walk reads a slot, or goes on to the next.
LEMMA WalkIInv ==
  ASSUME IInv, Walk
  PROVE  IInv'
<1>1. UNCHANGED <<got, hooks, tramps, saved>>
  BY ZenonT(60) DEF Walk
<1>2. job \in JobType /\ job.pos \in 1 .. Len(Slots) /\ job.cur = None
  BY HooksAssumption, SMTT(60) DEF Walk, IInv, Types, JobType
<1>3. got[job.pos] \in Code /\ Leads(got[job.pos], Slots[job.pos].sym)
  BY <1>2, ZenonT(60) DEF IInv, Types, Chained
<1>4. \/ Slots[job.pos].sym \in job.syms /\ job' = [job EXCEPT !.cur = got[job.pos]]
      \/ job' = Past(job)
  BY ZenonT(60) DEF Walk
<1>5. /\ job' \in JobType /\ job'.op = job.op /\ job'.syms = job.syms
      /\ job'.new = job.new /\ job'.first = job.first
  <2>1. CASE job' = [job EXCEPT !.cur = got[job.pos]]
    <3>1. got[job.pos] \in MaybeCode
      BY <1>3, ZenonT(60) DEF MaybeCode
    <3>2. job' \in JobType
      BY <1>2, <2>1, <3>1, JobUpdates, ZenonT(60)
    <3> QED BY <1>2, <2>1, <3>2, ZenonT(60) DEF JobType
  <2>2. CASE job' = Past(job)
    BY <1>2, <2>2, PastJob, ZenonT(60)
  <2> QED BY <1>4, <2>1, <2>2, ZenonT(60)
<1>6. (job.cur # None => /\ Walking /\ job.pos \in 1 .. Len(Slots)
                         /\ Slots[job.pos].sym \in job.syms
                         /\ Leads(job.cur, Slots[job.pos].sym))'
  BY <1>1, <1>2, <1>3, <1>4, ZenonT(60) DEF JobType, Past, Leads, Walk, Walking
<1>7. Held'
  BY <1>1, <1>5, <1>6, ZenonT(60) DEF IInv, Held, Leads
<1>8. Chained'
  BY <1>1, ChainedKept, ZenonT(60) DEF IInv, Chained
<1> QED BY <1>1, <1>5, <1>7, <1>8, ZenonT(60) DEF IInv, Types

\* Patching with a code of the slot's symbol.
LEMMA PatchSlots ==
  ASSUME IInv, NEW ok, NEW v \in Code, job.pos \in 1 .. Len(Slots),
         Leads(v, Slots[job.pos].sym), patch_got_slot(ok, v)
  PROVE  /\ got' \in [1 .. Len(Slots) -> Code]
         /\ \A i \in 1 .. Len(Slots) : Leads(got'[i], Slots[i].sym)
<1>1. got' = got \/ got' = [got EXCEPT ![job.pos] = v]
  BY DEF patch_got_slot
<1> QED BY <1>1, ZenonT(60) DEF IInv, Types, Chained

\* The callback of dlreplace.
LEMMA ReplaceIInv ==
  ASSUME IInv, NEW ok \in BOOLEAN, replace_cb(ok)
  PROVE  IInv'
<1>1. UNCHANGED <<hooks, tramps, saved>>
  BY ZenonT(60) DEF replace_cb
<1>2. /\ job \in JobType /\ job.op = "replace" /\ job.cur # None
      /\ job.pos \in 1 .. Len(Slots) /\ Slots[job.pos].sym \in job.syms
      /\ Leads(job.cur, Slots[job.pos].sym)
  BY ZenonT(60) DEF replace_cb, Matched, IInv, Types, Held
<1>3. PICK x \in Syms : /\ job.syms = {x} /\ job.new # None /\ Leads(job.new, x)
                        /\ job.first # None => Leads(job.first, x)
  BY <1>2, ZenonT(60) DEF IInv, Held
<1>4. job.new \in Code /\ x = Slots[job.pos].sym
  BY <1>2, <1>3, ZenonT(60) DEF JobType, MaybeCode
<1>5. /\ got' \in [1 .. Len(Slots) -> Code]
      /\ \A i \in 1 .. Len(Slots) : Leads(got'[i], Slots[i].sym)
  BY <1>2, <1>3, <1>4, PatchSlots, ZenonT(60) DEF replace_cb
<1>6. \E f \in {job.cur, job.first}, n \in {job.count, job.count + 1} :
         job' = Past([job EXCEPT !.first = f, !.count = n])
  <2> DEFINE f == IF job.count = 0 THEN job.cur ELSE job.first
             n == IF ok THEN job.count + 1 ELSE job.count
  <2>1. job' = Past([job EXCEPT !.first = f, !.count = n])
    BY <1>2, ZenonT(60) DEF replace_cb, JobType
  <2>2. f \in {job.cur, job.first} /\ n \in {job.count, job.count + 1}
    BY ZenonT(60)
  <2> QED BY <2>1, <2>2, ZenonT(60)
<1>7. PICK f \in {job.cur, job.first}, n \in {job.count, job.count + 1} :
         job' = Past([job EXCEPT !.first = f, !.count = n])
  BY <1>6, ZenonT(60)
<1>8. /\ job' \in JobType /\ job'.cur = None /\ job'.syms = {x}
      /\ job'.new = job.new /\ job'.first = f
  <2>1. f \in MaybeCode /\ n \in Nat
    BY <1>2 DEF JobType
  <2>2. /\ Recorded(job, f, n) \in JobType /\ Recorded(job, f, n).first = f
        /\ Recorded(job, f, n).syms = job.syms /\ Recorded(job, f, n).new = job.new
    BY <1>2, <2>1, JobUpdates, ZenonT(60)
  <2>3. job' = Past(Recorded(job, f, n))
    BY <1>7, ZenonT(60) DEF Recorded
  <2> QED BY <1>3, <2>2, <2>3, PastJob, ZenonT(60)
<1>9. f # None => Leads(f, x)
  BY <1>2, <1>3, <1>4, ZenonT(60)
<1>10. (\E y \in Syms : /\ job.syms = {y} /\ job.new # None /\ Leads(job.new, y)
                        /\ job.first # None => Leads(job.first, y))'
  BY <1>1, <1>3, <1>8, <1>9, ZenonT(60) DEF Leads
<1>11. (\A s \in Syms : saved[s] # None => Leads(saved[s], s))'
  BY <1>1, ZenonT(60) DEF IInv, Held, Leads
<1>12. Held'
  BY <1>8, <1>10, <1>11, ZenonT(60) DEF Held
<1> QED BY <1>1, <1>5, <1>8, <1>12, ChainedKept, ZenonT(60) DEF IInv, Types

\* The callback of dlreplaceq.
LEMMA ReplaceqIInv ==
  ASSUME IInv, NEW ok \in BOOLEAN, NEW keep \in BOOLEAN, replaceq_cb(ok, keep)
  PROVE  IInv'
<1>1. UNCHANGED <<hooks, tramps, saved>> /\ job' = Past(job)
  BY ZenonT(60) DEF replaceq_cb
<1>2. /\ job \in JobType /\ job.op = "replaceq" /\ job.cur # None
      /\ job.pos \in 1 .. Len(Slots)
  BY ZenonT(60) DEF replaceq_cb, Matched, IInv, Types, Held
<1> DEFINE v == <<"new", Slots[job.pos].sym>>
<1>3. v \in Code /\ Leads(v, Slots[job.pos].sym)
  BY <1>2, SlotSym, ZenonT(60) DEF Code, Leads, SymOf
<1>4. patch_got_slot(ok /\ ~keep, v)
  BY ZenonT(60) DEF replaceq_cb
<1> HIDE DEF v
<1>5. /\ got' \in [1 .. Len(Slots) -> Code]
      /\ \A i \in 1 .. Len(Slots) : Leads(got'[i], Slots[i].sym)
  BY <1>2, <1>3, <1>4, PatchSlots, ZenonT(60)
<1>6. job' \in JobType /\ job'.cur = None /\ job'.op # "replace"
  BY <1>1, <1>2, PastJob, ZenonT(60)
<1>7. (\A s \in Syms : saved[s] # None => Leads(saved[s], s))'
  BY <1>1, ZenonT(60) DEF IInv, Held, Leads
<1>8. Held'
  BY <1>6, <1>7, ZenonT(60) DEF Held
<1> QED BY <1>1, <1>5, <1>6, <1>8, ChainedKept, ZenonT(60) DEF IInv, Types

\* The walk is over, and dlreplace returns the original.
LEMMA WalkEndsIInv ==
  ASSUME IInv, WalkEnds
  PROVE  IInv'
<1>1. UNCHANGED <<got, hooks, tramps>> /\ job' = NoJob
  BY ZenonT(60) DEF WalkEnds
<1>2. job' \in JobType /\ job'.cur = None /\ job'.op # "replace"
  <2>1. None \in MaybeCode /\ {} \in SUBSET Syms
    BY ZenonT(60) DEF MaybeCode
  <2> QED BY <1>1, <2>1 DEF NoJob, Job, JobType
<1>3. saved' \in [Syms -> MaybeCode] /\ \A s \in Syms : saved'[s] # None => Leads(saved'[s], s)
  <2>1. CASE saved' = saved
    BY <2>1, ZenonT(60) DEF IInv, Types, Held
  <2>2. CASE /\ job.op = "replace" /\ job.first # None
             /\ saved' = [s \in Syms |-> IF s \in job.syms THEN job.first ELSE saved[s]]
    <3>1. PICK x \in Syms : job.syms = {x} /\ Leads(job.first, x)
      BY <2>2, ZenonT(60) DEF IInv, Held
    <3>2. job.first \in MaybeCode
      BY ZenonT(60) DEF IInv, Types, JobType
    <3> QED BY <2>2, <3>1, <3>2, ZenonT(60) DEF IInv, Types, Held
  <2> QED BY <2>1, <2>2, ZenonT(60) DEF WalkEnds
<1>4. (\A s \in Syms : saved[s] # None => Leads(saved[s], s))'
  BY <1>1, <1>3, ZenonT(60) DEF Leads
<1>5. Held'
  BY <1>2, <1>4, ZenonT(60) DEF Held
<1>6. Chained'
  BY <1>1, ChainedKept, ZenonT(60) DEF IInv, Chained
<1> QED BY <1>1, <1>2, <1>3, <1>5, <1>6, ZenonT(60) DEF IInv, Types

\* ldx_prof_reset stores a field.
LEMMA ResetIInv ==
  ASSUME IInv, ResetStore
  PROVE  IInv'
<1>1. UNCHANGED <<got, hooks, tramps, saved>> /\ job.op = "reset"
  BY ZenonT(60) DEF ResetStore
<1>2. job' = NoJob \/ job' = [job EXCEPT !.pos = @ + 1]
  BY ZenonT(60) DEF ResetStore

<1>3. job' \in JobType /\ job'.cur = None /\ job'.op # "replace"
  <2>1. CASE job' = NoJob
    <3>1. None \in MaybeCode /\ {} \in SUBSET Syms
      BY DEF MaybeCode
    <3> QED BY <2>1, <3>1 DEF NoJob, Job, JobType
  <2>2. CASE job' = [job EXCEPT !.pos = @ + 1]
    <3>1. job \in JobType /\ job.cur = None /\ job.pos + 1 \in Nat \ {0}
      BY <1>1, SMTT(60) DEF IInv, Types, Held, Walking, JobType
    <3> QED BY <1>1, <2>2, <3>1, ZenonT(60) DEF JobType
  <2> QED BY <1>2, <2>1, <2>2, ZenonT(60)
<1>4. (\A s \in Syms : saved[s] # None => Leads(saved[s], s))'
  BY <1>1, ZenonT(60) DEF IInv, Held, Leads
<1>5. Held'
  BY <1>3, <1>4 DEF Held
<1>6. Chained'
  BY <1>1, ChainedKept, ZenonT(60) DEF IInv, Chained
<1> QED BY <1>1, <1>3, <1>5, <1>6, ZenonT(60) DEF IInv, Types

-----------------------------------------------------------------------------
\* Steps that add a trampoline.

TrampType == [idx : Nat, original : Code]
EntryType == [original : Code, trampoline : Nat, sym : Nat, lib : Objs]

\* A sequence with one more element.
LEMMA AppendKeeps ==
  ASSUME NEW S, NEW q \in Seq(S), NEW x \in S
  PROVE  /\ Append(q, x) \in Seq(S) /\ Len(Append(q, x)) = Len(q) + 1
         /\ Append(q, x)[Len(q) + 1] = x /\ Len(q) \in Nat
         /\ \A i \in 1 .. Len(q) : Append(q, x)[i] = q[i]
OBVIOUS

\* One more trampoline and entry leave a code leading where it led.
LEMMA LeadsKept ==
  ASSUME Types, NEW v \in Code, NEW s, Leads(v, s),
         NEW c \in TrampType, tramps' = Append(tramps, c),
         NEW e \in EntryType, hooks' \in {hooks, Append(hooks, e)}
  PROVE  Leads(v, s)'
<1>1. CASE v[1] # "tramp"
  BY <1>1, ZenonT(60) DEF Leads, SymOf
<1>2. CASE v[1] = "tramp"
  <2>1. /\ v[2] \in 1 .. Len(tramps) /\ tramps[v[2]].idx \in 1 .. Len(hooks)
        /\ hooks[tramps[v[2]].idx].trampoline = v[2] /\ hooks[tramps[v[2]].idx].original = tramps[v[2]].original
        /\ hooks[tramps[v[2]].idx].sym = s
    BY <1>2, ZenonT(60) DEF Leads
  <2>2. v[2] \in 1 .. Len(tramps') /\ tramps'[v[2]] = tramps[v[2]]
    BY <2>1, SMTT(60) DEF Types, TrampType
  <2>3. tramps[v[2]].idx \in 1 .. Len(hooks') /\ hooks'[tramps[v[2]].idx] = hooks[tramps[v[2]].idx]
    <3>1. CASE hooks' = hooks
      BY <2>1, <3>1, ZenonT(60)
    <3>2. CASE hooks' = Append(hooks, e)
      <4>1. hooks \in Seq(EntryType)
        BY ZenonT(60) DEF Types, EntryType
      <4> QED BY <2>1, <3>2, <4>1, AppendKeeps, SMTT(60)
    <3> QED BY <3>1, <3>2, ZenonT(60)
  <2> QED BY <1>2, <2>1, <2>2, <2>3, ZenonT(60) DEF Leads
<1> QED BY <1>1, <1>2, ZenonT(60)

\* The new entry and its trampoline extend the chain of the slot.
LEMMA HookChained ==
  ASSUME IInv, NEW p \in 1 .. Len(Slots), NEW v \in Code, Leads(v, Slots[p].sym),
         NEW k, k = Len(tramps) + 1, NEW c \in TrampType, NEW e \in EntryType,
         c.idx = Len(hooks) + 1, c.original = v, e.original = v, e.trampoline = k,
         e.sym = Slots[p].sym, tramps' = Append(tramps, c),
         hooks' = Append(hooks, e), got' = [got EXCEPT ![p] = <<"tramp", k>>]
  PROVE  Chained'
<1>1. hooks \in Seq(EntryType) /\ tramps \in Seq(TrampType)
  BY ZenonT(60) DEF IInv, Types, EntryType, TrampType
<1>2. \A w \in Code : \A s : Leads(w, s) => Leads(w, s)'
  BY LeadsKept, ZenonT(60) DEF IInv
<1>3. /\ Len(hooks') = Len(hooks) + 1 /\ hooks'[Len(hooks) + 1] = e
      /\ Len(hooks) \in Nat /\ \A i \in 1 .. Len(hooks) : hooks'[i] = hooks[i]
  BY <1>1, AppendKeeps
<1>4. Len(tramps') = k /\ tramps'[k] = c /\ k \in Nat \ {0}
  BY <1>1, AppendKeeps
<1>5. Leads(<<"tramp", k>>, Slots[p].sym)'
  BY <1>3, <1>4, SMTT(60) DEF Leads
<1>6. ASSUME NEW i \in 1 .. Len(Slots)
      PROVE  Leads(got[i], Slots[i].sym)'
  <2>1. CASE i = p
    <3>1. got'[i] = <<"tramp", k>>
      BY <2>1 DEF IInv, Types
    <3> QED BY <1>5, <2>1, <3>1, ZenonT(60)
  <2>2. CASE i # p
    <3>1. got'[i] = got[i] /\ got[i] \in Code /\ Leads(got[i], Slots[i].sym)
      BY <2>2, ZenonT(60) DEF IInv, Types, Chained
    <3>2. PICK w \in Code : w = got[i] /\ Leads(w, Slots[i].sym)'
      BY <1>2, <3>1, ZenonT(60)
    <3> QED BY <3>1, <3>2, ZenonT(60)
  <2> QED BY <2>1, <2>2, ZenonT(60)
<1>7. ASSUME NEW i \in 1 .. Len(hooks')
      PROVE  /\ Leads(hooks[i].original, hooks[i].sym)'
             /\ hooks'[i].original[1] = "tramp"
                  => hooks'[i].original[2] < hooks'[i].trampoline
  <2>1. CASE i = Len(hooks) + 1
    <3>1. hooks'[i] = e
      BY <1>3, <2>1, ZenonT(60)
    <3>2. Leads(v, Slots[p].sym)'
      BY <1>2, ZenonT(60)
    <3>3. v[1] = "tramp" => v[2] \in 1 .. Len(tramps)
      BY ZenonT(60) DEF Leads
    <3>4. v[1] = "tramp" => v[2] < k
      BY <1>4, <3>3, SMTT(60)
    <3> QED BY <3>1, <3>2, <3>4, ZenonT(60)
  <2>2. CASE i # Len(hooks) + 1
    <3>1. i \in 1 .. Len(hooks) /\ hooks'[i] = hooks[i]
      BY <1>3, <2>2, SMTT(60)
    <3>2. hooks[i] \in EntryType
      BY <1>1, <3>1, ElementOfSeq, ZenonT(60)
    <3>3. PICK w \in Code, s \in Nat : w = hooks[i].original /\ s = hooks[i].sym
      BY <3>2, ZenonT(60) DEF EntryType
    <3>4. Leads(w, s) /\ (w[1] = "tramp" => w[2] < hooks[i].trampoline)
      BY <3>1, <3>3, ZenonT(60) DEF IInv, Chained
    <3>5. Leads(w, s)'
      BY <1>2, <3>4, ZenonT(60)
    <3> QED BY <3>1, <3>3, <3>4, <3>5, ZenonT(60)
  <2> QED BY <2>1, <2>2
<1> QED BY <1>6, <1>7, ZenonT(60) DEF Chained

\* A trampoline whose slot could not be written changes no chain.
LEMMA OrphanChained ==
  ASSUME IInv, NEW c \in TrampType, tramps' = Append(tramps, c),
         UNCHANGED <<got, hooks>>, NEW e \in EntryType
  PROVE  Chained'
<1>1. \A w \in Code : \A s : Leads(w, s) => Leads(w, s)'
  BY LeadsKept, ZenonT(60) DEF IInv
<1>2. ASSUME NEW i \in 1 .. Len(Slots)
      PROVE  Leads(got[i], Slots[i].sym)'
  <2>1. PICK w \in Code : w = got[i] /\ Leads(w, Slots[i].sym)
    BY ZenonT(60) DEF IInv, Types, Chained
  <2> QED BY <1>1, <2>1, ZenonT(60)
<1>3. ASSUME NEW i \in 1 .. Len(hooks)
      PROVE  Leads(hooks[i].original, hooks[i].sym)'
  <2>1. hooks[i] \in EntryType
    BY ElementOfSeq, ZenonT(60) DEF IInv, Types, EntryType
  <2>2. PICK w \in Code, s \in Nat : w = hooks[i].original /\ s = hooks[i].sym
    BY <2>1, ZenonT(60) DEF EntryType
  <2>3. Leads(w, s)
    BY <2>2, ZenonT(60) DEF IInv, Chained
  <2>4. Leads(w, s)'
    BY <1>1, <2>3, ZenonT(60)
  <2> QED BY <2>2, <2>4, ZenonT(60)
<1> QED BY <1>2, <1>3, ZenonT(60) DEF IInv, Chained

\* A hook that is refused, fails or succeeds.
LEMMA HookIInv ==
  ASSUME IInv, NEW mapped \in BOOLEAN, NEW ok \in BOOLEAN, hook_add_cb(mapped, ok)
  PROVE  IInv'
<1>1. /\ job \in JobType /\ job.op = "hook" /\ job.cur # None /\ job.cur \in Code
      /\ job.pos \in 1 .. Len(Slots) /\ Leads(job.cur, Slots[job.pos].sym)
  BY ZenonT(60) DEF hook_add_cb, Matched, IInv, Types, Held, JobType, MaybeCode
<1>2. UNCHANGED saved /\ job' \in JobType /\ job'.cur = None /\ job'.op # "replace"
  <2>1. job' = Past(job) \/ job' = [job EXCEPT !.pos = Len(Slots) + 1, !.cur = None]
    BY ZenonT(60) DEF hook_add_cb
  <2>2. None \in MaybeCode /\ Len(Slots) + 1 \in Nat \ {0}
    BY HooksAssumption DEF MaybeCode
  <2>3. CASE job' = Past(job)
    BY <1>1, <2>3, PastJob, ZenonT(60) DEF hook_add_cb
  <2>4. CASE job' = [job EXCEPT !.pos = Len(Slots) + 1, !.cur = None]
    BY <1>1, <2>2, <2>4, ZenonT(60) DEF hook_add_cb, JobType
  <2> QED BY <2>1, <2>3, <2>4, ZenonT(60)
<1>3. CASE UNCHANGED <<got, hooks, tramps>>
  <2>1. (\A s \in Syms : saved[s] # None => Leads(saved[s], s))'
    BY <1>2, <1>3, ZenonT(60) DEF IInv, Held, Leads
  <2>2. Held'
    BY <1>2, <2>1, ZenonT(60) DEF Held
  <2>3. Chained'
    BY <1>3, ChainedKept, ZenonT(60) DEF IInv, Chained
  <2> QED BY <1>2, <1>3, <2>2, <2>3, ZenonT(60) DEF IInv, Types
<1>4. PICK p \in 1 .. Len(Slots), v \in Code, k \in Nat, n \in Nat :
        /\ p = job.pos /\ v = job.cur /\ k = Len(tramps) + 1 /\ n = Len(hooks) + 1
  BY <1>1, SMTT(60) DEF IInv, Types
<1>5. PICK c \in TrampType : c = Trampoline(n, v) /\ c.idx = n /\ c.original = v
  <2>1. Trampoline(n, v) \in TrampType
    BY ZenonT(60) DEF Trampoline, TrampType
  <2>2. Trampoline(n, v).idx = n /\ Trampoline(n, v).original = v
    BY ZenonT(60) DEF Trampoline
  <2> QED BY <2>1, <2>2, ZenonT(60)
<1>6. PICK e \in EntryType : /\ e = Entry(p, v, k) /\ e.original = v
                             /\ e.trampoline = k /\ e.sym = Slots[p].sym
  <2>1. Entry(p, v, k) \in EntryType
    BY SlotSym, ZenonT(60) DEF Entry, EntryType
  <2>2. /\ Entry(p, v, k).original = v /\ Entry(p, v, k).trampoline = k
        /\ Entry(p, v, k).sym = Slots[p].sym
    BY ZenonT(60) DEF Entry
  <2> QED BY <2>1, <2>2, ZenonT(60)
<1>7. hooks \in Seq(EntryType) /\ tramps \in Seq(TrampType)
  BY ZenonT(60) DEF IInv, Types, EntryType, TrampType
<1>8. CASE /\ tramps' = Append(tramps, c)
           /\ \/ UNCHANGED <<got, hooks>>
              \/ hooks' = Append(hooks, e) /\ got' = [got EXCEPT ![p] = <<"tramp", k>>]
  <2>1. hooks' \in Seq(EntryType) /\ tramps' \in Seq(TrampType)
    <3>1. Append(hooks, e) \in Seq(EntryType)
      BY <1>7, AppendKeeps, ZenonT(60)
    <3>2. Append(tramps, c) \in Seq(TrampType)
      BY <1>7, AppendKeeps
    <3> QED BY <1>7, <1>8, <3>1, <3>2, ZenonT(60)
  <2>2. got' \in [1 .. Len(Slots) -> Code]
    <3>1. got \in [1 .. Len(Slots) -> Code]
      BY ZenonT(60) DEF IInv, Types
    <3>2. PICK a \in Code : a = <<"tramp", k>>
      BY ZenonT(60) DEF Code
    <3>3. [got EXCEPT ![p] = a] \in [1 .. Len(Slots) -> Code]
      BY <3>1
    <3> QED BY <1>8, <3>1, <3>2, <3>3, ZenonT(60)
  <2>3. Types'
    BY <1>2, <2>1, <2>2, ZenonT(60) DEF IInv, Types, EntryType, TrampType
  <2>4. \A w \in Code : \A s : Leads(w, s) => Leads(w, s)'
    BY <1>8, LeadsKept, ZenonT(60) DEF IInv
  <2>5. ASSUME NEW s \in Syms, saved'[s] # None
        PROVE  Leads(saved[s], s)'
    <3>1. PICK w \in Code : w = saved[s] /\ Leads(w, s)
      BY <1>2, <2>5, ZenonT(60) DEF IInv, Types, Held, MaybeCode
    <3> QED BY <1>2, <2>4, <3>1, ZenonT(60)
  <2>6. Held'
    BY <1>2, <2>5, ZenonT(60) DEF Held
  <2>7. Chained'
    <3>1. CASE UNCHANGED <<got, hooks>>
      BY <1>8, <3>1, OrphanChained, ZenonT(60)
    <3>2. CASE hooks' = Append(hooks, e) /\ got' = [got EXCEPT ![p] = <<"tramp", k>>]
      <4>1. Leads(v, Slots[p].sym) /\ k = Len(tramps) + 1 /\ c.idx = Len(hooks) + 1
        BY <1>1, <1>4, <1>5
      <4> QED BY <1>5, <1>6, <1>8, <3>2, <4>1, HookChained, ZenonT(60)
    <3> QED BY <1>8, <3>1, <3>2, ZenonT(60)
  <2> QED BY <2>3, <2>6, <2>7, ZenonT(60) DEF IInv
<1>9. \/ UNCHANGED <<got, hooks, tramps>>
      \/ /\ tramps' = Append(tramps, Trampoline(Len(hooks) + 1, job.cur))
         /\ patch_got_slot(ok, <<"tramp", Len(tramps')>>)
         /\ hooks' = IF ok THEN Append(hooks, Entry(job.pos, job.cur, Len(tramps')))
                     ELSE hooks
  BY ZenonT(60) DEF hook_add_cb
<1>10. CASE /\ tramps' = Append(tramps, Trampoline(Len(hooks) + 1, job.cur))
            /\ patch_got_slot(ok, <<"tramp", Len(tramps')>>)
            /\ hooks' = IF ok THEN Append(hooks, Entry(job.pos, job.cur, Len(tramps')))
                        ELSE hooks
  <2>1. tramps' = Append(tramps, c)
    BY <1>4, <1>5, <1>10, ZenonT(60)
  <2>2. Len(tramps') = k
    BY <1>4, <1>7, <2>1, AppendKeeps, ZenonT(60)
  <2>3. CASE ok
    BY <1>4, <1>6, <1>8, <1>10, <2>1, <2>2, <2>3, ZenonT(60) DEF patch_got_slot
  <2>4. CASE ~ok
    BY <1>8, <1>10, <2>1, <2>4, ZenonT(60) DEF patch_got_slot
  <2> QED BY <2>3, <2>4, ZenonT(60)
<1> QED BY <1>3, <1>9, <1>10, ZenonT(60)

-----------------------------------------------------------------------------
\* Every step of the patching library keeps the invariant.
LEMMA NextIInv == IInv /\ [HkNext]_hkVars => IInv'
<1> SUFFICES ASSUME IInv, [HkNext]_hkVars PROVE IInv'
  BY ZenonT(60)
<1>1. CASE UNCHANGED hkVars \/ Tick
  <2>1. UNCHANGED <<got, hooks, tramps, saved, job>>
    BY <1>1, ZenonT(60) DEF hkVars, Tick
  <2> QED BY <2>1, ChainedKept, HeldSame, ZenonT(60) DEF IInv, Types, Chained
<1>2. CASE \E t \in Threads : CallerStep(t)
  BY <1>2, CallerIInv, ZenonT(60)
<1>3. CASE \E target \in Targets : dlreplace(target)
  BY <1>3, DlreplaceIInv, ZenonT(60)
<1>4. CASE \E target \in Targets : ldx_prof_add(target)
  BY <1>4, StartIInv, HooksAssumption, ZenonT(60) DEF ldx_prof_add
<1>5. CASE dlreplaceq(Syms) \/ ldx_prof_reset
  BY <1>5, StartIInv, ZenonT(60) DEF dlreplaceq, ldx_prof_reset
<1>6. CASE Walk \/ WalkEnds \/ ResetStore
  BY <1>6, WalkIInv, WalkEndsIInv, ResetIInv, ZenonT(60)
<1>7. CASE \E ok \in BOOLEAN : replace_cb(ok)
  BY <1>7, ReplaceIInv, ZenonT(60)
<1>8. CASE \E ok, keep \in BOOLEAN : replaceq_cb(ok, keep)
  BY <1>8, ReplaceqIInv, ZenonT(60)
<1>9. CASE \E mapped, ok \in BOOLEAN : hook_add_cb(mapped, ok)
  BY <1>9, HookIInv, ZenonT(60)
<1> QED
  BY <1>1, <1>2, <1>3, <1>4, <1>5, <1>6, <1>7, <1>8, <1>9, ZenonT(60) DEF HkNext, Patcher

\* However hooks, replacements, restorations and failures follow each other
\* while threads call, every slot leads through trampolines of its symbol to a
\* function of its symbol (hook_add_cb and the index it bakes into its code).
THEOREM ChainedHolds == HkSpec => []Chained
<1>1. IInv => Chained
  BY DEF IInv
<1> QED BY InitIInv, NextIInv, <1>1, PTL DEF HkSpec
-----------------------------------------------------------------------------
\* The profiler's numbers.

Times == 0 .. MaxClock
FrameCode == Code \union {<<"lib", Slots[i].sym>> : i \in Nat}
FrameRec ==
    [code : FrameCode, at : {"in", "out", "total", "min", "max"}, idx : 0 .. MAX_HOOKS,
     start : Times, elapsed : Times, seen : Nat]
ProfRec ==
    [call_count : Nat, total_time : Nat, min_time : 0 .. Never, max_time : Times]
TookRec == [all : SUBSET Times, sum : Nat, nested : BOOLEAN, reset : BOOLEAN]

ProfTypes ==
    /\ Len(hooks) <= MAX_HOOKS
    /\ prof \in [1 .. MAX_HOOKS -> ProfRec]
    /\ took \in [1 .. MAX_HOOKS -> TookRec]
    /\ clock \in Times
    /\ ts \in [Threads -> [1 .. MAX_HOOKS -> Times]]
    /\ \A t \in Threads : \A i \in 1 .. MAX_HOOKS : ts[t][i] <= clock
    /\ stack \in [Threads -> Seq(FrameRec)]

\* Entry i is the first of the table with the names of entry n.
FirstNamed(i, n) ==
    /\ i \in 1 .. Len(hooks) /\ n \in 1 .. Len(hooks)
    /\ hooks[i].sym = hooks[n].sym /\ hooks[i].lib = hooks[n].lib
    /\ \A j \in 1 .. i - 1 : hooks[j].sym # hooks[n].sym \/ hooks[j].lib # hooks[n].lib

\* A trampoline on a stack has its entry, and one that has called its hook
\* counts for the first entry of that name.
CodeInv(f) ==
    /\ f.code[1] = "tramp" => f.code \in Code /\ \E s \in Nat : Leads(f.code, s)
    /\ f.at = "in" => f.idx = 0
    /\ f.at # "in" => /\ f.code[1] = "tramp"
                      /\ FirstNamed(f.idx, tramps[f.code[2]].idx)

\* The times of a frame against what its call took and what is in the table.
TimeInv(t, f) ==
    LET e == prof[f.idx]
        h == took[f.idx]
    IN  /\ f.at = "out" => /\ f.start <= ts[t][f.idx]
                           /\ ~h.nested => f.start = ts[t][f.idx]
        /\ f.at \in {"total", "min", "max"} =>
             /\ \E d \in h.all : f.elapsed <= d
             /\ ~h.nested => f.elapsed \in h.all
        /\ f.at = "total" => f.seen + f.elapsed <= h.sum
        /\ f.at = "min" /\ ~h.reset => (f.seen # Never => e.min_time # Never)
        /\ f.at = "max" /\ ~h.reset =>
             e.min_time # Never /\ (f.seen # 0 => e.max_time # 0)

FrameInv(t, f) == CodeInv(f) /\ TimeInv(t, f)

\* Without recursion a thread has one frame for an entry.
OneFrame(t) ==
    \A k, l \in 1 .. Len(stack[t]) :
        LET i == stack[t][k].idx
        IN  i # 0 /\ stack[t][l].idx = i /\ ~took[i].nested => k = l

\* The numbers of an entry against what its calls took.
EntryInv(i) ==
    LET e == prof[i]
        h == took[i]
    IN  /\ e.total_time <= h.sum
        /\ \E d \in h.all \union {0} : e.max_time <= d
        /\ ~h.reset /\ ~h.nested =>
             /\ e.min_time \in h.all \union {Never} /\ e.max_time \in h.all \union {0}
             /\ e.call_count > 0 => Exiting(i) \/ {e.min_time, e.max_time} \subseteq h.all

FramesInv == \A t \in Threads : \A k \in 1 .. Len(stack[t]) : FrameInv(t, stack[t][k])

ProfInv ==
    /\ ProfTypes
    /\ FramesInv
    /\ \A t \in Threads : OneFrame(t)
    /\ \A i \in 1 .. MAX_HOOKS : EntryInv(i)

-----------------------------------------------------------------------------
\* A set of numbers with a member has a smallest one.
LEMMA LeastOf ==
  ASSUME NEW S \in SUBSET Nat, S # {}
  PROVE  \E i \in S : \A j \in S : i <= j
<1> DEFINE R == {ss \in Nat \X Nat : ss[1] < ss[2]}
<1>1. IsWellFoundedOn(R, Nat)
  BY NatLessThanWellFounded, ZenonT(60) DEF OpToRel
<1>2. \A i, j \in Nat : ~(<<j, i>> \in R) => i <= j
  OBVIOUS
<1> HIDE DEF R
<1>3. PICK i \in S : \A j \in S : ~(<<j, i>> \in R)
  BY <1>1, WFMin, ZenonT(60)
<1> QED BY <1>2, <1>3, ZenonT(60)

\* prof_hook's search finds the first entry of the name.
LEMMA NamedIsFirst ==
  ASSUME Types, NEW n \in 1 .. Len(hooks)
  PROVE  FirstNamed(Named(hooks[n]), n)
<1>0. Len(hooks) \in Nat
  BY DEF Types
<1> DEFINE S == {i \in 1 .. Len(hooks) : hooks[i].sym = hooks[n].sym /\ hooks[i].lib = hooks[n].lib}
<1>1. S \in SUBSET Nat /\ S # {}
  <2>1. n \in S
    BY ZenonT(60)
  <2>2. \A i \in S : i \in Nat
    BY <1>0
  <2> QED BY <2>1, <2>2, ZenonT(60)
<1>2. PICK i \in S : \A j \in S : i <= j
  BY <1>1, LeastOf, ZenonT(60)
<1>3. i \in 1 .. Len(hooks) /\ hooks[i].sym = hooks[n].sym /\ hooks[i].lib = hooks[n].lib
  BY <1>2, ZenonT(60)
<1>4. \A j \in 1 .. i - 1 : hooks[j].sym # hooks[n].sym \/ hooks[j].lib # hooks[n].lib
  <2> SUFFICES ASSUME NEW j \in 1 .. i - 1
               PROVE  j \notin S
    BY <1>0, <1>3
  <2>1. ~(i <= j)
    BY <1>0, <1>3
  <2> QED BY <1>2, <2>1, ZenonT(60)
<1> HIDE DEF S
<1>5. PICK h : h = hooks[n]
  BY ZenonT(60)
<1>6. \E k \in 1 .. Len(hooks) :
        /\ hooks[k].sym = h.sym /\ hooks[k].lib = h.lib
        /\ \A j \in 1 .. k - 1 : hooks[j].sym # h.sym \/ hooks[j].lib # h.lib
  BY <1>3, <1>4, <1>5, ZenonT(60)
<1>7. /\ Named(h) \in 1 .. Len(hooks)
      /\ hooks[Named(h)].sym = h.sym /\ hooks[Named(h)].lib = h.lib
      /\ \A j \in 1 .. Named(h) - 1 : hooks[j].sym # h.sym \/ hooks[j].lib # h.lib
  BY <1>6, ZenonT(60) DEF Named
<1> QED BY <1>5, <1>7, ZenonT(60) DEF FirstNamed

\* There is one first entry of a name.
LEMMA FirstIsOne ==
  ASSUME Types, NEW n, NEW i, NEW j, FirstNamed(i, n), FirstNamed(j, n)
  PROVE  i = j
<1>1. Len(hooks) \in Nat
  BY DEF Types
<1> QED BY <1>1 DEF FirstNamed

\* It is an entry of the table.
LEMMA FirstInTable ==
  ASSUME IInv, ProfTypes, NEW i, NEW n, FirstNamed(i, n)
  PROVE  i \in 1 .. MAX_HOOKS /\ i # 0
<1>1. i \in 1 .. Len(hooks) /\ Len(hooks) <= MAX_HOOKS
  BY ZenonT(60) DEF FirstNamed, ProfTypes
<1>2. Len(hooks) \in Nat /\ MAX_HOOKS \in Nat
  BY HooksAssumption DEF IInv, Types
<1> QED BY <1>1, <1>2

-----------------------------------------------------------------------------
\* Stacks.

Pushed(q, r, f) ==
    /\ r \in Seq(FrameRec) /\ Len(r) = Len(q) + 1 /\ Len(q) \in Nat /\ r[1] = f
    /\ \A k \in 2 .. Len(r) : k - 1 \in 1 .. Len(q) /\ r[k] = q[k - 1]
Swapped(q, r, f) ==
    /\ r \in Seq(FrameRec) /\ Len(r) = Len(q) /\ Len(q) \in Nat \ {0} /\ r[1] = f
    /\ \A k \in 2 .. Len(r) : r[k] = q[k]
Popped(q, r) ==
    /\ r \in Seq(FrameRec) /\ Len(q) = Len(r) + 1 /\ Len(r) \in Nat
    /\ \A k \in 1 .. Len(r) : k + 1 \in 2 .. Len(q) /\ r[k] = q[k + 1]
    /\ \A k \in 2 .. Len(q) : k - 1 \in 1 .. Len(r) /\ q[k] = r[k - 1]

\* The stack operations of the model.
LEMMA StackOps ==
  ASSUME NEW q \in Seq(FrameRec), NEW f \in FrameRec
  PROVE  /\ Pushed(q, <<f>> \o q, f)
         /\ q # <<>> => /\ Popped(q, Tail(q)) /\ Swapped(q, <<f>> \o Tail(q), f)
                        /\ Head(q) = q[1] /\ q[1] \in FrameRec /\ 1 \in 1 .. Len(q)
<1>1. \A r \in Seq(FrameRec) : Pushed(r, <<f>> \o r, f)
  <2> SUFFICES ASSUME NEW r \in Seq(FrameRec) PROVE Pushed(r, <<f>> \o r, f)
    BY ZenonT(60)
  <2>1. <<f>> \in Seq(FrameRec) /\ Len(<<f>>) = 1 /\ <<f>>[1] = f
    OBVIOUS
  <2>2. <<f>> \o r \in Seq(FrameRec) /\ Len(<<f>> \o r) = Len(r) + 1 /\ Len(r) \in Nat
    BY <2>1
  <2>3. \A k \in 1 .. Len(r) + 1 : (<<f>> \o r)[k] = IF k = 1 THEN f ELSE r[k - 1]
    BY <2>1, <2>2
  <2> QED BY <2>2, <2>3 DEF Pushed
<1>2. ASSUME q # <<>>
      PROVE  /\ Popped(q, Tail(q)) /\ Head(q) = q[1] /\ q[1] \in FrameRec
             /\ 1 \in 1 .. Len(q)
  <2>1. /\ Tail(q) \in Seq(FrameRec) /\ Len(q) \in Nat \ {0} /\ Len(Tail(q)) = Len(q) - 1
        /\ \A k \in 1 .. Len(q) - 1 : Tail(q)[k] = q[k + 1]
    BY <1>2
  <2>2. Popped(q, Tail(q))
    BY <2>1 DEF Popped
  <2> QED BY <1>2, <2>1, <2>2, SMTT(60)
<1>3. ASSUME q # <<>>
      PROVE  Swapped(q, <<f>> \o Tail(q), f)
  <2>1. Popped(q, Tail(q))
    BY <1>2, <1>3, ZenonT(60)
  <2>2. Tail(q) \in Seq(FrameRec)
    BY <2>1, ZenonT(60) DEF Popped
  <2>3. Pushed(Tail(q), <<f>> \o Tail(q), f)
    BY <1>1, <2>2, ZenonT(60)
  <2> QED BY <2>1, <2>3 DEF Popped, Pushed, Swapped
<1> QED BY <1>1, <1>2, <1>3, ZenonT(60)

-----------------------------------------------------------------------------
\* What a step may do to the times of an entry while frames count for it.

Grows(i) ==
    /\ took[i].all \subseteq took'[i].all /\ took[i].sum <= took'[i].sum
    /\ took[i].nested => took'[i].nested
    /\ took[i].reset => took'[i].reset
    /\ ~took'[i].reset =>
         /\ prof[i].min_time # Never => prof'[i].min_time # Never
         /\ prof[i].max_time # 0 => prof'[i].max_time # 0

StampKept(t, i) == ts'[t][i] = ts[t][i] \/ (ts'[t][i] = clock /\ took'[i].nested)

\* A frame that a step does not touch.
LEMMA TimeKept ==
  ASSUME ProfTypes, ProfTypes', NEW t \in Threads, NEW f \in FrameRec, TimeInv(t, f),
         f.idx \in 1 .. MAX_HOOKS, Grows(f.idx), f.at = "out" => StampKept(t, f.idx)
  PROVE  TimeInv(t, f)'
<1>1. PICK i \in 1 .. MAX_HOOKS : i = f.idx
  BY ZenonT(60)
<1>2. /\ took[i] \in TookRec /\ took'[i] \in TookRec /\ prof[i] \in ProfRec
      /\ prof'[i] \in ProfRec
  BY ZenonT(60) DEF ProfTypes
<1>3. /\ took[i].sum \in Nat /\ took'[i].sum \in Nat /\ took[i].nested \in BOOLEAN
      /\ took'[i].nested \in BOOLEAN /\ took[i].reset \in BOOLEAN
      /\ took'[i].reset \in BOOLEAN
  BY <1>2, ZenonT(60) DEF TookRec
<1>4. f.start \in Nat /\ f.elapsed \in Nat /\ f.seen \in Nat
  BY DEF FrameRec, Times
<1>5. ts[t][i] \in Nat /\ ts[t][i] <= clock /\ clock \in Nat
  <2>1. ts[t] \in [1 .. MAX_HOOKS -> Times] /\ clock \in Times /\ ts[t][i] <= clock
    BY ZenonT(60) DEF ProfTypes
  <2> QED BY <2>1, HooksAssumption, SMTT(60) DEF Times
<1>6. f.at = "out" => /\ f.start <= ts'[t][i]
                      /\ ~took'[i].nested => f.start = ts'[t][i]
  <2> SUFFICES ASSUME f.at = "out"
               PROVE  /\ f.start <= ts'[t][i]
                      /\ ~took'[i].nested => f.start = ts'[t][i]
    BY ZenonT(60)
  <2>1. f.start <= ts[t][i] /\ (~took[i].nested => f.start = ts[t][i])
    BY <1>1, ZenonT(60) DEF TimeInv
  <2>2. ts'[t][i] = ts[t][i] \/ (ts'[t][i] = clock /\ took'[i].nested)
    BY <1>1, ZenonT(60) DEF StampKept
  <2>3. took[i].nested => took'[i].nested
    BY <1>1, ZenonT(60) DEF Grows
  <2>4. f.start <= clock
    BY <1>4, <1>5, <2>1, SMTT(60)
  <2> QED BY <2>1, <2>2, <2>3, <2>4, ZenonT(60)
<1>7. f.at \in {"total", "min", "max"} =>
             /\ \E d \in took'[i].all : f.elapsed <= d
             /\ ~took'[i].nested => f.elapsed \in took'[i].all
  BY <1>1, ZenonT(60) DEF TimeInv, Grows
<1>8. f.at = "total" => f.seen + f.elapsed <= took'[i].sum
  BY <1>1, <1>3, <1>4, SMTT(60) DEF TimeInv, Grows
<1>9. /\ f.at = "min" /\ ~took'[i].reset => (f.seen # Never => prof'[i].min_time # Never)
      /\ f.at = "max" /\ ~took'[i].reset =>
             prof'[i].min_time # Never /\ (f.seen # 0 => prof'[i].max_time # 0)
  BY <1>1, ZenonT(60) DEF TimeInv, Grows
<1> QED BY <1>1, <1>6, <1>7, <1>8, <1>9, ZenonT(60) DEF TimeInv

\* A frame in a call of a function has no times.
LEMMA NoTimes ==
  ASSUME NEW t, NEW f, f.at = "in"
  PROVE  TimeInv(t, f) /\ TimeInv(t, f)'
BY ZenonT(60) DEF TimeInv

\* Codes keep their entries while table and trampolines stay.
LEMMA CodeKept ==
  ASSUME NEW f, CodeInv(f), UNCHANGED <<hooks, tramps>>
  PROVE  CodeInv(f)'
BY ZenonT(60) DEF CodeInv, Leads, FirstNamed

\* ... in a step that leaves the table and the trampolines alone.
LEMMA FrameKept ==
  ASSUME ProfTypes, ProfTypes', NEW t \in Threads, NEW f \in FrameRec, FrameInv(t, f),
         UNCHANGED <<hooks, tramps>>, \A i \in 1 .. MAX_HOOKS : Grows(i),
         f.at = "out" => StampKept(t, f.idx)
  PROVE  FrameInv(t, f)'
<1>1. CodeInv(f)'
  BY CodeKept, ZenonT(60) DEF FrameInv
<1>2. CASE f.at = "in"
  BY <1>1, <1>2, NoTimes, ZenonT(60) DEF FrameInv
<1>3. CASE f.at # "in"
  <2>1. f.idx \in 1 .. MAX_HOOKS
    <3>1. f.idx \in 1 .. Len(hooks) /\ f.idx \in 0 .. MAX_HOOKS
      BY <1>3, ZenonT(60) DEF FrameInv, CodeInv, FirstNamed, FrameRec
    <3> QED BY <3>1, HooksAssumption, SMTT(60)
  <2> QED BY <1>1, <2>1, TimeKept, ZenonT(60) DEF FrameInv
<1> QED BY <1>2, <1>3, ZenonT(60)

\* The frames after a step of thread t.
LEMMA FramesNext ==
  ASSUME ProfInv, ProfTypes', NEW t \in Threads, NEW r, stack' = [stack EXCEPT ![t] = r],
         UNCHANGED <<hooks, tramps>>, \A i \in 1 .. MAX_HOOKS : Grows(i),
         \A u \in Threads \ {t} : ts'[u] = ts[u],
         \A k \in 1 .. Len(r) : \A f : f = r[k] => FrameInv(t, f)'
  PROVE  FramesInv'
<1>1. /\ r = stack'[t] /\ stack \in [Threads -> Seq(FrameRec)]
      /\ \A u \in Threads \ {t} : stack'[u] = stack[u]
  BY ZenonT(60) DEF ProfInv, ProfTypes
<1>2. ASSUME NEW u \in Threads, NEW k \in 1 .. Len(stack'[u])
      PROVE  FrameInv(u, stack[u][k])'
  <2>1. PICK f : f = stack'[u][k]
    BY ZenonT(60)
  <2>2. CASE u = t
    BY <1>1, <2>1, <2>2, ZenonT(60)
  <2>3. CASE u # t
    <3>1. /\ stack[u] \in Seq(FrameRec) /\ stack'[u] = stack[u] /\ k \in 1 .. Len(stack[u])
          /\ f = stack[u][k]
      BY <1>1, <2>1, <2>3, ZenonT(60)
    <3>2. f \in FrameRec
      BY <3>1, ElementOfSeq, ZenonT(60)
    <3>3. FrameInv(u, f)
      BY <3>1, ZenonT(60) DEF ProfInv, FramesInv
    <3>4. StampKept(u, f.idx)
      BY <2>3, ZenonT(60) DEF StampKept
    <3>5. FrameInv(u, f)'
      BY <3>2, <3>3, <3>4, FrameKept, ZenonT(60) DEF ProfInv
    <3> QED BY <2>1, <3>5, ZenonT(60)
  <2> QED BY <2>2, <2>3, ZenonT(60)
<1> QED BY <1>2, ZenonT(60) DEF FramesInv

\* The old frames of the thread that takes the step.
LEMMA OwnFrame ==
  ASSUME ProfInv, ProfTypes', NEW t \in Threads, NEW k \in 1 .. Len(stack[t]),
         UNCHANGED <<hooks, tramps>>, \A i \in 1 .. MAX_HOOKS : Grows(i),
         ts' = ts, NEW f, f = stack[t][k]
  PROVE  FrameInv(t, f)'
<1>1. f \in FrameRec
  BY ElementOfSeq, ZenonT(60) DEF ProfInv, ProfTypes
<1>2. FrameInv(t, f)
  BY ZenonT(60) DEF ProfInv, FramesInv
<1> QED BY <1>1, <1>2, FrameKept, ZenonT(60) DEF ProfInv, StampKept

\* The indices of a stack that is shifted, with frames that count for none.
LEMMA OneFrameNext ==
  ASSUME ProfTypes, ProfTypes', NEW t \in Threads, OneFrame(t), NEW d \in Int,
         \A k \in 1 .. Len(stack'[t]) : stack'[t][k].idx # 0 =>
            k + d \in 1 .. Len(stack[t]) /\ stack[t][k + d].idx = stack'[t][k].idx,
         \A i \in 1 .. MAX_HOOKS : took[i].nested => took'[i].nested
  PROVE  OneFrame(t)'
<1> SUFFICES ASSUME NEW k \in 1 .. Len(stack'[t]), NEW l \in 1 .. Len(stack'[t]),
                    NEW i, i = stack'[t][k].idx, i # 0, stack'[t][l].idx = i,
                    ~took'[i].nested
             PROVE  k = l
  BY ZenonT(60) DEF OneFrame
<1>1. i \in 1 .. MAX_HOOKS
  <2>1. stack'[t][k] \in FrameRec
    BY ElementOfSeq, SMTT(60) DEF ProfTypes
  <2> QED BY <2>1, HooksAssumption, SMTT(60) DEF FrameRec
<1>2. /\ k + d \in 1 .. Len(stack[t]) /\ stack[t][k + d].idx = i
      /\ l + d \in 1 .. Len(stack[t]) /\ stack[t][l + d].idx = i
  BY ZenonT(60)
<1>3. k + d = l + d
  BY <1>1, <1>2, ZenonT(60) DEF OneFrame
<1>4. k \in Int /\ l \in Int
  OBVIOUS
<1> QED BY <1>3, <1>4

\* A step down, as a shift.
LEMMA BackShift == \E d \in Int : \A k \in Int : k + d = k - 1
<1>1. \A k \in Int : k + (-1) = k - 1
  BY ZenonT(60)
<1> WITNESS -1 \in Int
<1> QED BY <1>1, ZenonT(60)

\* The identity on numbers, as a shift.
LEMMA NoShift == \E d \in Int : \A k \in Int : k + d = k
<1>1. \A k \in Int : k + 0 = k
  OBVIOUS
<1> WITNESS 0 \in Int
<1> QED BY <1>1, ZenonT(60)

\* The other threads.
LEMMA OneFrameOthers ==
  ASSUME ProfTypes, ProfTypes', NEW t \in Threads, OneFrame(t), stack'[t] = stack[t],
         \A i \in 1 .. MAX_HOOKS : took[i].nested => took'[i].nested
  PROVE  OneFrame(t)'
<1>1. PICK d \in Int : \A k \in Int : k + d = k
  BY NoShift, ZenonT(60)
<1>2. \A k \in 1 .. Len(stack'[t]) : stack'[t][k].idx # 0 =>
        k + d \in 1 .. Len(stack[t]) /\ stack[t][k + d].idx = stack'[t][k].idx
  BY <1>1
<1> QED BY <1>2, OneFrameNext, ZenonT(60)

\* An entry whose numbers a step leaves alone.
LEMMA EntryKept ==
  ASSUME ProfTypes, ProfTypes', NEW i \in 1 .. MAX_HOOKS, EntryInv(i), prof'[i] = prof[i],
         Grows(i), Exiting(i) => Exiting(i)'
  PROVE  EntryInv(i)'
<1>1. /\ took[i] \in TookRec /\ took'[i] \in TookRec /\ prof[i] \in ProfRec
  BY ZenonT(60) DEF ProfTypes
<1>2. /\ took[i].sum \in Nat /\ took'[i].sum \in Nat /\ prof[i].total_time \in Nat
  BY <1>1, ZenonT(60) DEF TookRec, ProfRec
<1>3. prof'[i].total_time <= took'[i].sum
  BY <1>2 DEF EntryInv, Grows
<1>4. \E d \in took'[i].all \union {0} : prof'[i].max_time <= d
  BY ZenonT(60) DEF EntryInv, Grows
<1>5. ~took'[i].reset /\ ~took'[i].nested =>
        /\ prof'[i].min_time \in took'[i].all \union {Never}
        /\ prof'[i].max_time \in took'[i].all \union {0}
        /\ prof'[i].call_count > 0 =>
             Exiting(i)' \/ {prof'[i].min_time, prof'[i].max_time} \subseteq took'[i].all
  BY ZenonT(60) DEF EntryInv, Grows
<1> QED BY <1>3, <1>4, <1>5, ZenonT(60) DEF EntryInv

Leaving(f, i) == f.idx = i /\ f.at \in {"total", "min", "max"}

\* An entry that a thread is leaving.
LEMMA ExitingNext ==
  ASSUME ProfTypes, NEW i, NEW t \in Threads, NEW r, stack' = [stack EXCEPT ![t] = r],
         \A k \in 1 .. Len(stack[t]) :
            Leaving(stack[t][k], i) => \E l \in 1 .. Len(r) : Leaving(r[l], i),
         Exiting(i)
  PROVE  Exiting(i)'
<1>1. /\ r = stack'[t] /\ \A u \in Threads \ {t} : stack'[u] = stack[u]
  BY ZenonT(60) DEF ProfTypes
<1>2. PICK u \in Threads : \E k \in 1 .. Len(stack[u]) : Leaving(stack[u][k], i)
  BY ZenonT(60) DEF Exiting, Leaving
<1>3. CASE u = t
  <2>1. PICK l \in 1 .. Len(r) : Leaving(r[l], i)
    BY <1>2, <1>3, ZenonT(60)
  <2> QED BY <1>1, <2>1, ZenonT(60) DEF Exiting, Leaving
<1>4. CASE u # t
  BY <1>1, <1>2, <1>4, SMTT(60) DEF Exiting, Leaving
<1> QED BY <1>3, <1>4, ZenonT(60)

\* Frames move by d places; those that come and go are in no hook.
Moves(q, r, d) ==
    /\ \A k \in 1 .. Len(r) : \/ r[k].at = "in" /\ CodeInv(r[k])
                              \/ k + d \in 1 .. Len(q) /\ r[k] = q[k + d]
    /\ \A k \in 1 .. Len(q) : q[k].at = "in" \/ \E l \in 1 .. Len(r) : r[l] = q[k]

\* A step that only moves frames that count for no entry.
LEMMA QuietStep ==
  ASSUME ProfInv, NEW t \in Threads, NEW q, q = stack[t], NEW r \in Seq(FrameRec),
         stack' = [stack EXCEPT ![t] = r], NEW d \in Int,
         UNCHANGED <<hooks, tramps, prof, took, ts, clock>>, Moves(q, r, d)
  PROVE  ProfInv'
<1>1. ProfTypes'
  BY ZenonT(60) DEF ProfInv, ProfTypes
<1>2. \A i \in 1 .. MAX_HOOKS : Grows(i)
  <2>1. ASSUME NEW i \in 1 .. MAX_HOOKS PROVE Grows(i)
    <3>1. took[i].sum \in Nat
      BY ZenonT(60) DEF ProfInv, ProfTypes, TookRec
    <3> QED BY <3>1 DEF Grows
  <2> QED BY <2>1, ZenonT(60)
<1>3. FramesInv'
  <2>1. ASSUME NEW k \in 1 .. Len(r), NEW f, f = r[k]
        PROVE  FrameInv(t, f)'
    <3>1. CASE f.at = "in" /\ CodeInv(f)
      <4>1. CodeInv(f)'
        BY <3>1, CodeKept, ZenonT(60)
      <4> QED BY <3>1, <4>1, NoTimes, ZenonT(60) DEF FrameInv
    <3>2. CASE k + d \in 1 .. Len(q) /\ f = q[k + d]
      BY <1>1, <1>2, <3>2, OwnFrame, ZenonT(60)
    <3> QED BY <2>1, <3>1, <3>2, SMTT(60) DEF Moves
  <2> QED BY <1>1, <1>2, <2>1, FramesNext, ZenonT(60)
<1>4. /\ stack'[t] = r /\ \A u \in Threads \ {t} : stack'[u] = stack[u]
  BY ZenonT(60) DEF ProfInv, ProfTypes
<1>5. ASSUME NEW u \in Threads PROVE OneFrame(u)'
  <2>1. CASE u = t
    <3>1. \A k \in 1 .. Len(stack'[t]) : stack'[t][k].idx # 0 =>
            k + d \in 1 .. Len(stack[t]) /\ stack[t][k + d].idx = stack'[t][k].idx
      BY <1>4, SMTT(60) DEF CodeInv, Moves
    <3> QED BY <1>1, <2>1, <3>1, OneFrameNext, ZenonT(60) DEF ProfInv
  <2>2. CASE u # t
    BY <1>1, <1>4, <2>2, OneFrameOthers, ZenonT(60) DEF ProfInv
  <2> QED BY <2>1, <2>2, ZenonT(60)
<1>6. ASSUME NEW i \in 1 .. MAX_HOOKS PROVE EntryInv(i)'
  <2>1. ASSUME NEW k \in 1 .. Len(stack[t]), Leaving(stack[t][k], i)
        PROVE  \E l \in 1 .. Len(r) : Leaving(r[l], i)
    BY <2>1, ZenonT(60) DEF Leaving, Moves
  <2>2. Exiting(i) => Exiting(i)'
    BY <2>1, ExitingNext, ZenonT(60) DEF ProfInv
  <2> QED BY <1>1, <1>2, <2>2, EntryKept, ZenonT(60) DEF ProfInv
<1> QED BY <1>1, <1>3, <1>5, <1>6, ZenonT(60) DEF ProfInv

\* The code of a frame that begins.
LEMMA NewFrame ==
  ASSUME NEW v \in FrameCode, v[1] = "tramp" => v \in Code /\ \E s \in Nat : Leads(v, s)
  PROVE  /\ Frame(v) \in FrameRec /\ CodeInv(Frame(v)) /\ Frame(v).at = "in"
<1>1. 0 \in Times /\ 0 \in 0 .. MAX_HOOKS
  BY HooksAssumption DEF Times
<1> QED BY <1>1, ZenonT(60) DEF Frame, FrameRec, CodeInv

\* A call through a slot.
LEMMA CallProf ==
  ASSUME IInv, ProfInv, NEW t \in Threads, NEW i \in 1 .. Len(Slots), Call(t, i)
  PROVE  ProfInv'
<1>1. PICK g : g = Frame(got[i])
  BY ZenonT(60)
<1>2. got[i] \in Code /\ Leads(got[i], Slots[i].sym) /\ Slots[i].sym \in Nat
  BY SlotSym, ZenonT(60) DEF IInv, Types, Chained
<1>3. g \in FrameRec /\ CodeInv(g) /\ g.at = "in"
  BY <1>1, <1>2, NewFrame, ZenonT(60) DEF FrameCode
<1>4. PICK q \in Seq(FrameRec) : q = stack[t]
  BY ZenonT(60) DEF ProfInv, ProfTypes
<1>5. PICK r : r = <<g>> \o q
  BY ZenonT(60)
<1>6. stack' = [stack EXCEPT ![t] = r] /\ UNCHANGED <<hooks, tramps, prof, took, ts, clock>>
  BY <1>1, <1>4, <1>5, ZenonT(60) DEF Call
<1>7. Pushed(q, r, g)
  BY <1>3, <1>4, <1>5, StackOps, ZenonT(60)
<1>8. PICK d \in Int : \A k \in Int : k + d = k - 1
  BY BackShift, ZenonT(60)
<1>9. \A k \in 1 .. Len(r) : \/ r[k].at = "in" /\ CodeInv(r[k])
                             \/ k + d \in 1 .. Len(q) /\ r[k] = q[k + d]
  <2>1. ASSUME NEW k \in 1 .. Len(r), k # 1 PROVE k + d \in 1 .. Len(q) /\ r[k] = q[k + d]
    BY <1>7, <1>8, <2>1, SMTT(60) DEF Pushed
  <2> QED BY <1>3, <1>7, <2>1, ZenonT(60) DEF Pushed
<1>10. \A k \in 1 .. Len(q) : \E l \in 1 .. Len(r) : r[l] = q[k]
  <2>1. ASSUME NEW k \in 1 .. Len(q) PROVE k + 1 \in 1 .. Len(r) /\ r[k + 1] = q[k]
    BY <1>7, SMTT(60) DEF Pushed
  <2> QED BY <2>1, ZenonT(60)
<1>11. Moves(q, r, d) /\ r \in Seq(FrameRec)
  BY <1>7, <1>9, <1>10, ZenonT(60) DEF Moves, Pushed
<1> QED BY <1>4, <1>6, <1>11, QuietStep, ZenonT(60)

\* The dynamic linker's step.
LEMMA ResolveProf ==
  ASSUME ProfInv, NEW t \in Threads, Resolve(t)
  PROVE  ProfInv'
<1>1. PICK q \in Seq(FrameRec) : q = stack[t]
  BY ZenonT(60) DEF ProfInv, ProfTypes
<1>2. PICK f : f = Top(t)
  BY ZenonT(60)
<1>3. q # <<>> /\ f = Head(q) /\ f.at = "in"
  BY <1>1, <1>2, ZenonT(60) DEF Resolve, In, Top
<1>4. f = q[1] /\ f \in FrameRec
  BY <1>1, <1>3, StackOps, SMTT(60)
<1>5. PICK g : g = Frame(<<"lib", Slots[f.code[2]].sym>>)
  BY ZenonT(60)
<1>6. g \in FrameRec /\ CodeInv(g) /\ g.at = "in"
  <2>1. f.code \in FrameCode /\ f.code[1] = "stub"
    BY <1>2, <1>4, ZenonT(60) DEF Resolve, In, FrameRec
  <2>2. f.code[2] \in Nat
    BY <2>1, SMTT(60) DEF FrameCode, Code
  <2>3. <<"lib", Slots[f.code[2]].sym>> \in FrameCode
    BY <2>2 DEF FrameCode
  <2> QED BY <1>5, <2>3, NewFrame, ZenonT(60)
<1>7. PICK r : r = <<g>> \o Tail(q)
  BY ZenonT(60)
<1>8. stack' = [stack EXCEPT ![t] = r] /\ UNCHANGED <<hooks, tramps, prof, took, ts, clock>>
  BY <1>1, <1>2, <1>5, <1>7, ZenonT(60) DEF Resolve, SetTop
<1>9. Swapped(q, r, g)
  BY <1>1, <1>3, <1>6, <1>7, StackOps, ZenonT(60)
<1>10. PICK d \in Int : \A k \in Int : k + d = k
  BY NoShift, ZenonT(60)
<1>11. Moves(q, r, d) /\ r \in Seq(FrameRec)
  <2>1. ASSUME NEW k \in 1 .. Len(r), k # 1
        PROVE  k + d \in 1 .. Len(q) /\ r[k] = q[k + d] /\ k \in 1 .. Len(q)
    BY <1>9, <1>10, <2>1, SMTT(60) DEF Swapped
  <2>2. r[1] = g /\ Len(q) = Len(r) /\ r \in Seq(FrameRec)
    BY <1>9, ZenonT(60) DEF Swapped
  <2>3. \A k \in 1 .. Len(r) : \/ r[k].at = "in" /\ CodeInv(r[k])
                               \/ k + d \in 1 .. Len(q) /\ r[k] = q[k + d]
    BY <1>6, <2>1, <2>2, ZenonT(60)
  <2>4. \A k \in 1 .. Len(q) : q[k].at = "in" \/ \E l \in 1 .. Len(r) : r[l] = q[k]
    <3>1. \A k \in 1 .. Len(q) : k # 1 => r[k] = q[k]
      BY <1>9, SMTT(60) DEF Swapped
    <3> QED BY <1>3, <1>4, <2>2, <3>1, ZenonT(60)
  <2> QED BY <2>2, <2>3, <2>4, SMTT(60) DEF Moves
<1> QED BY <1>1, <1>8, <1>11, QuietStep, ZenonT(60)

\* A function or a replacement returns.
LEMMA ReturnsProf ==
  ASSUME ProfInv, NEW t \in Threads, Returns(t)
  PROVE  ProfInv'
<1>1. PICK q \in Seq(FrameRec) : q = stack[t]
  BY DEF ProfInv, ProfTypes
<1>2. q # <<>> /\ Head(q).at = "in"
  BY <1>1, ZenonT(60) DEF Returns, In, Top
<1>3. Head(q) = q[1] /\ q[1] \in FrameRec
  BY <1>1, <1>2, StackOps
<1>4. PICK r : r = Tail(q)
  BY ZenonT(60)
<1>5. stack' = [stack EXCEPT ![t] = r] /\ UNCHANGED <<hooks, tramps, prof, took, ts, clock>>
  BY <1>1, <1>4, ZenonT(60) DEF Returns
<1>6. Popped(q, r)
  BY <1>1, <1>2, <1>3, <1>4, StackOps, ZenonT(60)
<1>0. PICK d \in Int : d = 1
  OBVIOUS
<1>7. Moves(q, r, d) /\ r \in Seq(FrameRec)
  <2>1. \A k \in 1 .. Len(r) : k + d \in 1 .. Len(q) /\ r[k] = q[k + d]
    BY <1>0, <1>6, SMTT(60) DEF Popped
  <2>2. ASSUME NEW k \in 1 .. Len(q), k # 1 PROVE k - 1 \in 1 .. Len(r) /\ r[k - 1] = q[k]
    BY <1>6, <2>2, SMTT(60) DEF Popped
  <2>3. \A k \in 1 .. Len(q) : q[k].at = "in" \/ \E l \in 1 .. Len(r) : r[l] = q[k]
    BY <1>2, <1>3, <2>2, ZenonT(60)
  <2> QED BY <1>6, <2>1, <2>3, ZenonT(60) DEF Moves, Popped
<1> QED BY <1>1, <1>5, <1>7, QuietStep

Entered(q, r, g, f) ==
    /\ r \in Seq(FrameRec) /\ Len(r) = Len(q) + 1 /\ Len(q) \in Nat \ {0}
    /\ r[1] = g /\ r[2] = f
    /\ \A k \in 3 .. Len(r) : k - 1 \in 2 .. Len(q) /\ r[k] = q[k - 1]
    /\ \A k \in 2 .. Len(q) : k + 1 \in 3 .. Len(r) /\ q[k] = r[k + 1]

\* The stack after a trampoline has called the original.
LEMMA EnteredStack ==
  ASSUME NEW q \in Seq(FrameRec), q # <<>>, NEW g \in FrameRec, NEW f \in FrameRec
  PROVE  Entered(q, <<g, f>> \o Tail(q), g, f)
<1>0. Tail(q) \in Seq(FrameRec)
  BY HeadAndTail, ZenonT(60)
<1>1. PICK s \in Seq(FrameRec) : s = Tail(q)
  BY <1>0, ZenonT(60)
<1>2. Len(s) = Len(q) - 1 /\ Len(q) \in Nat \ {0} /\ \A k \in 1 .. Len(s) : s[k] = q[k + 1]
  BY <1>1, SMTT(60)
<1>3. <<g, f>> \in Seq(FrameRec) /\ Len(<<g, f>>) = 2 /\ <<g, f>>[1] = g /\ <<g, f>>[2] = f
  OBVIOUS
<1>4. PICK p \in Seq(FrameRec) : p = <<g, f>>
  BY <1>3, ZenonT(60)
<1>5. p \o s \in Seq(FrameRec) /\ Len(p \o s) = Len(s) + 2
  BY <1>3, <1>4, SMTT(60)
<1>6. \A k \in 1 .. Len(s) + 2 : (p \o s)[k] = IF k <= 2 THEN p[k] ELSE s[k - 2]
  BY <1>3, <1>4, <1>5, SMTT(60)
<1>7. PICK r \in Seq(FrameRec) : r = p \o s
  BY <1>5, ZenonT(60)
<1>8. Len(r) = Len(q) + 1
  BY <1>2, <1>5, <1>7, SMTT(60)
<1>9. r[1] = g /\ r[2] = f
  BY <1>2, <1>3, <1>4, <1>6, <1>7, SMTT(60)
<1>10. ASSUME NEW k \in 3 .. Len(r) PROVE k - 1 \in 2 .. Len(q) /\ r[k] = q[k - 1]
  <2>1. k - 2 \in 1 .. Len(s) /\ k \in 1 .. Len(s) + 2 /\ ~(k <= 2) /\ (k - 2) + 1 = k - 1
    BY <1>2, <1>8
  <2>2. r[k] = s[k - 2]
    BY <1>6, <1>7, <2>1, SMTT(60)
  <2> QED BY <1>2, <1>8, <2>1, <2>2, SMTT(60)
<1>11. ASSUME NEW k \in 2 .. Len(q) PROVE k + 1 \in 3 .. Len(r) /\ q[k] = r[k + 1]
  <2>1. k + 1 \in 3 .. Len(r) /\ (k + 1) - 1 = k
    BY <1>2, <1>8, SMTT(60)
  <2> QED BY <1>10, <2>1, ZenonT(60)
<1> QED BY <1>1, <1>2, <1>4, <1>7, <1>8, <1>9, <1>10, <1>11, ZenonT(60) DEF Entered

\* The entry a trampoline counts for, and the code it calls.
LEMMA TrampolineEntry ==
  ASSUME IInv, NEW f, f.code[1] = "tramp", NEW s \in Nat, f.code \in Code, Leads(f.code, s),
         NEW n, n = tramps[f.code[2]].idx
  PROVE  /\ n \in 1 .. Len(hooks) /\ FirstNamed(Named(hooks[n]), n)
         /\ tramps[f.code[2]].original \in Code
         /\ Leads(tramps[f.code[2]].original, s)
<1>1. PICK k : k = f.code[2]
  BY ZenonT(60)
<1>2. /\ k \in 1 .. Len(tramps) /\ n \in 1 .. Len(hooks)
      /\ hooks[n].original = tramps[k].original /\ hooks[n].sym = s
  BY <1>1, ZenonT(60) DEF Leads
<1>3. tramps[k].original \in Code
  <2>1. k \in 1 .. Len(tramps) /\ tramps \in Seq([idx : Nat, original : Code])
    BY <1>2, ZenonT(60) DEF IInv, Types
  <2>2. tramps[k] \in [idx : Nat, original : Code]
    BY <2>1, ElementOfSeq, ZenonT(60)
  <2> QED BY <2>2, ZenonT(60)
<1>4. Leads(tramps[k].original, s)
  BY <1>2, ZenonT(60) DEF IInv, Chained
<1>5. FirstNamed(Named(hooks[n]), n)
  BY <1>2, NamedIsFirst, SMTT(60) DEF IInv
<1> QED BY <1>1, <1>2, <1>3, <1>4, <1>5, ZenonT(60)

\* prof_hook on entry: the time is noted, and the original is called.
LEMMA HookEntryProf ==
  ASSUME IInv, ProfInv, NEW t \in Threads, HookEntry(t)
  PROVE  ProfInv'
<1>1. PICK q \in Seq(FrameRec) : q = stack[t]
  BY ZenonT(60) DEF ProfInv, ProfTypes
<1>2. PICK a : a = Top(t)
  BY ZenonT(60)
<1>3. q # <<>> /\ a = Head(q) /\ a.at = "in" /\ a.code[1] = "tramp"
  BY <1>1, <1>2, ZenonT(60) DEF HookEntry, In, Top
<1>4. a = q[1] /\ a \in FrameRec /\ 1 \in 1 .. Len(q)
  BY <1>1, <1>3, StackOps, SMTT(60)
<1>5. CodeInv(a)
  BY <1>1, <1>4, ZenonT(60) DEF ProfInv, FramesInv, FrameInv
<1>6. PICK s \in Nat : a.code \in Code /\ Leads(a.code, s)
  BY <1>3, <1>5, ZenonT(60) DEF CodeInv
<1>7. PICK n : n = tramps[a.code[2]].idx
  BY ZenonT(60)
<1>8. /\ n \in 1 .. Len(hooks) /\ FirstNamed(Named(hooks[n]), n)
      /\ tramps[a.code[2]].original \in Code
      /\ Leads(tramps[a.code[2]].original, s)
  BY <1>3, <1>6, <1>7, TrampolineEntry, ZenonT(60)
<1>9. PICK i : i = Named(hooks[n])
  BY ZenonT(60)
<1>10. i = Profiled(t) /\ FirstNamed(i, n)
  BY <1>2, <1>7, <1>8, <1>9, ZenonT(60) DEF Profiled
<1>11. i \in 1 .. MAX_HOOKS /\ i # 0
  BY <1>10, FirstInTable, ZenonT(60) DEF ProfInv
<1>12. PICK g : g = Frame(tramps[a.code[2]].original)
  BY ZenonT(60)
<1>13. g \in FrameRec /\ CodeInv(g) /\ g.at = "in"
  <2>1. PICK c : c = tramps[a.code[2]].original
    BY ZenonT(60)
  <2>2. c \in Code /\ Leads(c, s)
    BY <1>8, <2>1, ZenonT(60)
  <2>3. c \in FrameCode
    BY <2>2, ZenonT(60) DEF FrameCode
  <2> QED BY <1>12, <2>1, <2>2, <2>3, NewFrame, ZenonT(60)
<1>14. PICK f : f = [a EXCEPT !.at = "out", !.idx = i, !.start = clock]
  BY ZenonT(60)
<1>15. /\ f \in FrameRec /\ f.at = "out" /\ f.idx = i /\ f.start = clock
       /\ f.code = a.code
  <2>1. clock \in Times /\ i \in 0 .. MAX_HOOKS
    BY <1>11, SMTT(60) DEF ProfInv, ProfTypes
  <2> QED BY <1>4, <1>14, <2>1, ZenonT(60) DEF FrameRec
<1>16. PICK r : r = <<g, f>> \o Tail(q)
  BY ZenonT(60)
<1>17. Entered(q, r, g, f) /\ r \in Seq(FrameRec)
  BY <1>1, <1>3, <1>13, <1>15, <1>16, EnteredStack, SMTT(60) DEF Entered
<1>18. /\ stack' = [stack EXCEPT ![t] = r] /\ ts' = [ts EXCEPT ![t][i] = clock]
       /\ took' = [took EXCEPT ![i].nested = @ \/ Inside(t, i)]
       /\ UNCHANGED <<hooks, tramps, prof, clock>>
  BY <1>1, <1>2, <1>10, <1>12, <1>14, <1>16, ZenonT(60) DEF HookEntry, Stamp
<1>19. /\ took'[i].all = took[i].all /\ took'[i].sum = took[i].sum
       /\ took'[i].reset = took[i].reset
       /\ took'[i].nested = (took[i].nested \/ Inside(t, i))
       /\ took'[i] \in TookRec
       /\ \A j \in 1 .. MAX_HOOKS \ {i} : took'[j] = took[j]
       /\ \A j \in 1 .. MAX_HOOKS : took[j] \in TookRec
  <2>1. took \in [1 .. MAX_HOOKS -> TookRec]
    BY ZenonT(60) DEF ProfInv, ProfTypes
  <2>2. Inside(t, i) \in BOOLEAN
    BY ZenonT(60) DEF Inside
  <2>3. took'[i] = [took[i] EXCEPT !.nested = @ \/ Inside(t, i)]
    BY <1>11, <1>18, <2>1, ZenonT(60)
  <2>4. \A j \in 1 .. MAX_HOOKS \ {i} : took'[j] = took[j]
    BY <1>11, <1>18, <2>1, ZenonT(60)
  <2>5. took[i] \in TookRec
    BY <1>11, <2>1, ZenonT(60)
  <2>6. PICK b \in BOOLEAN : b = (took[i].nested \/ Inside(t, i))
    BY <2>2, ZenonT(60)
  <2>7. took'[i] = [took[i] EXCEPT !.nested = b]
    BY <2>3, <2>6, ZenonT(60)
  <2> HIDE DEF Inside
  <2> QED BY <2>1, <2>4, <2>5, <2>6, <2>7, ZenonT(60) DEF TookRec
<1>20. /\ ts'[t][i] = clock /\ \A j \in 1 .. MAX_HOOKS \ {i} : ts'[t][j] = ts[t][j]
       /\ \A u \in Threads \ {t} : ts'[u] = ts[u]
  BY <1>11, <1>18, ZenonT(60) DEF ProfInv, ProfTypes
<1>21. ProfTypes'
  <2>1. took' \in [1 .. MAX_HOOKS -> TookRec]
    BY <1>18, <1>19, ZenonT(60) DEF ProfInv, ProfTypes
  <2>2. ts' \in [Threads -> [1 .. MAX_HOOKS -> Times]]
    BY <1>11, <1>18, ZenonT(60) DEF ProfInv, ProfTypes
  <2>3. stack' \in [Threads -> Seq(FrameRec)]
    BY <1>17, <1>18, ZenonT(60) DEF ProfInv, ProfTypes
  <2>4. \A u \in Threads : \A j \in 1 .. MAX_HOOKS : ts'[u][j] <= clock'
    <3>1. clock <= clock
      BY HooksAssumption, SMTT(60) DEF ProfInv, ProfTypes, Times
    <3> QED BY <1>18, <1>20, <3>1, ZenonT(60) DEF ProfInv, ProfTypes
  <2> QED BY <1>18, <2>1, <2>2, <2>3, <2>4, ZenonT(60) DEF ProfInv, ProfTypes
<1>22. \A j \in 1 .. MAX_HOOKS : Grows(j)
  <2>1. ASSUME NEW j \in 1 .. MAX_HOOKS PROVE Grows(j)
    <3>1. took[j].sum <= took[j].sum
      BY <1>19, SMTT(60) DEF TookRec
    <3>2. CASE j = i
      BY <1>18, <1>19, <3>1, <3>2, ZenonT(60) DEF Grows
    <3>3. CASE j # i
      BY <1>18, <1>19, <3>1, <3>3, ZenonT(60) DEF Grows
    <3> QED BY <3>2, <3>3, ZenonT(60)
  <2> QED BY <2>1, ZenonT(60)
<1>23. stack'[t] = r /\ \A u \in Threads \ {t} : stack'[u] = stack[u]
  BY <1>18, ZenonT(60) DEF ProfInv, ProfTypes
<1>24. \A k \in 3 .. Len(r) : k - 1 \in 2 .. Len(q) /\ r[k] = q[k - 1]
  BY <1>17, ZenonT(60) DEF Entered
<1>25. r[1] = g /\ r[2] = f /\ g.idx = 0 /\ Len(q) \in Nat \ {0} /\ Len(r) = Len(q) + 1
  BY <1>13, <1>17, ZenonT(60) DEF Entered, CodeInv
<1>26. FramesInv'
  <2>1. FrameInv(t, g)'
    <3>1. CodeInv(g)'
      BY <1>13, <1>18, CodeKept, ZenonT(60)
    <3> QED BY <1>13, <3>1, NoTimes, ZenonT(60) DEF FrameInv
  <2>2. FrameInv(t, f)'
    <3>0. CodeInv(f)
      BY <1>3, <1>6, <1>7, <1>10, <1>15, ZenonT(60) DEF CodeInv
    <3>1. CodeInv(f)'
      BY <1>18, <3>0, CodeKept, ZenonT(60)
    <3>2. clock <= clock
      BY HooksAssumption DEF ProfInv, ProfTypes, Times
    <3>3. TimeInv(t, f)'
      BY <1>15, <1>20, <3>2, ZenonT(60) DEF TimeInv
    <3> QED BY <3>1, <3>3, ZenonT(60) DEF FrameInv
  <2>3. ASSUME NEW k \in 3 .. Len(r), NEW h, h = r[k]
        PROVE  FrameInv(t, h)'
    <3>1. PICK l \in 2 .. Len(q) : h = q[l]
      BY <1>24, <2>3, ZenonT(60)
    <3>2. l \in 1 .. Len(q)
      BY <1>25, SMTT(60)
    <3>3. h \in FrameRec /\ FrameInv(t, h)
      BY <1>1, <3>1, <3>2, ElementOfSeq, ZenonT(60) DEF ProfInv, FramesInv
    <3>4. ASSUME h.at = "out" PROVE StampKept(t, h.idx)
      <4>1. CASE h.idx = i
        <5>1. Inside(t, i)
          BY <1>1, <3>1, <4>1, SMTT(60) DEF Inside
        <5> QED BY <1>19, <1>20, <4>1, <5>1, ZenonT(60) DEF StampKept
      <4>2. CASE h.idx # i
        <5>1. FirstNamed(h.idx, tramps[h.code[2]].idx)
          BY <3>3, <3>4, ZenonT(60) DEF FrameInv, CodeInv
        <5>2. h.idx \in 1 .. MAX_HOOKS
          BY <5>1, FirstInTable, ZenonT(60) DEF ProfInv
        <5> QED BY <1>20, <4>2, <5>2, SMTT(60) DEF StampKept
      <4> QED BY <4>1, <4>2, SMTT(60)
    <3> QED BY <1>18, <1>21, <1>22, <3>3, <3>4, FrameKept, ZenonT(60) DEF ProfInv
  <2>4. ASSUME NEW k \in 1 .. Len(r), NEW h, h = r[k]
        PROVE  FrameInv(t, h)'
    <3>1. k = 1 \/ k = 2 \/ k \in 3 .. Len(r)
      BY <1>25, SMTT(60)
    <3> QED BY <1>25, <2>1, <2>2, <2>3, <2>4, <3>1, SMTT(60)
  <2> QED BY <1>18, <1>20, <1>21, <1>22, <2>4, FramesNext, ZenonT(60)
<1>27. OneFrame(t)'
  <2> SUFFICES ASSUME NEW k \in 1 .. Len(r), NEW l \in 1 .. Len(r),
                      NEW j, j = r[k].idx, j # 0, r[l].idx = j, ~took'[j].nested
               PROVE  k = l
    BY <1>23, SMTT(60) DEF OneFrame
  <2>1. /\ k = 2 \/ k \in 3 .. Len(r)
        /\ l = 2 \/ l \in 3 .. Len(r)
    BY <1>25, SMTT(60)
  <2>2. ASSUME NEW m \in 3 .. Len(r), r[m].idx = i PROVE took'[i].nested
    <3>1. Inside(t, i)
      BY <1>1, <1>24, <2>2, ZenonT(60) DEF Inside
    <3> QED BY <1>19, <3>1, ZenonT(60)
  <2>3. CASE j = i
    BY <2>1, <2>2, <2>3, ZenonT(60)
  <2>4. CASE j # i
    <3>1. k \in 3 .. Len(r) /\ l \in 3 .. Len(r)
      BY <1>15, <1>25, <2>1, <2>4, ZenonT(60)
    <3>2. /\ k - 1 \in 1 .. Len(q) /\ l - 1 \in 1 .. Len(q)
          /\ q[k - 1].idx = j /\ q[l - 1].idx = j
      BY <1>24, <1>25, <3>1, SMTT(60)
    <3>3. j \in 1 .. MAX_HOOKS
      <4>1. r[k] \in FrameRec
        BY <1>17, ElementOfSeq, ZenonT(60)
      <4> QED BY <4>1, HooksAssumption, SMTT(60) DEF FrameRec
    <3>4. ~took[j].nested
      BY <1>19, <2>4, <3>3, ZenonT(60)
    <3>5. k - 1 = l - 1
      BY <1>1, <3>2, <3>4, ZenonT(60) DEF ProfInv, OneFrame
    <3> QED BY <1>25, <3>1, <3>5
  <2> QED BY <2>3, <2>4, ZenonT(60)
<1>28. ASSUME NEW u \in Threads \ {t} PROVE OneFrame(u)'
  BY <1>21, <1>22, <1>23, OneFrameOthers, ZenonT(60) DEF ProfInv, Grows
<1>29. ASSUME NEW j \in 1 .. MAX_HOOKS PROVE EntryInv(j)'
  <2>1. ASSUME NEW k \in 1 .. Len(stack[t]), Leaving(stack[t][k], j)
        PROVE  \E l \in 1 .. Len(r) : Leaving(r[l], j)
    <3>1. k # 1
      BY <1>1, <1>3, <1>4, <2>1, ZenonT(60) DEF Leaving
    <3>2. k \in 2 .. Len(q)
      BY <1>1, <1>25, <3>1, SMTT(60)
    <3>3. k + 1 \in 3 .. Len(r) /\ q[k] = r[k + 1]
      BY <1>17, <3>2, ZenonT(60) DEF Entered
    <3>4. k + 1 \in 1 .. Len(r)
      BY <1>25, <3>3, SMTT(60)
    <3> QED BY <1>1, <2>1, <3>3, <3>4, ZenonT(60)
  <2>2. Exiting(j) => Exiting(j)'
    BY <1>18, <2>1, ExitingNext, ZenonT(60) DEF ProfInv
  <2> QED BY <1>18, <1>21, <1>22, <2>2, EntryKept, ZenonT(60) DEF ProfInv
<1> QED BY <1>21, <1>26, <1>27, <1>28, <1>29, ZenonT(60) DEF ProfInv

\* The hook on its way out: the frame on top goes on, and counts for the same
\* entry.
LEMMA SwapStep ==
  ASSUME ProfInv, ProfTypes', NEW t \in Threads, NEW q, q = stack[t], NEW r,
         stack' = [stack EXCEPT ![t] = r], NEW g, Swapped(q, r, g), g.idx = q[1].idx,
         UNCHANGED <<hooks, tramps, ts>>, \A i \in 1 .. MAX_HOOKS : Grows(i),
         FrameInv(t, g)'
  PROVE  FramesInv' /\ \A u \in Threads : OneFrame(u)'
<1>1. /\ stack'[t] = r /\ \A u \in Threads \ {t} : stack'[u] = stack[u]
  BY ZenonT(60) DEF ProfInv, ProfTypes
<1>2. /\ Len(r) = Len(q) /\ Len(q) \in Nat \ {0} /\ r[1] = g
      /\ \A k \in 2 .. Len(r) : r[k] = q[k]
  BY ZenonT(60) DEF Swapped
<1>3. ASSUME NEW k \in 1 .. Len(r), NEW h, h = r[k]
      PROVE  FrameInv(t, h)'
  <2>1. CASE k = 1
    BY <1>2, <1>3, <2>1, ZenonT(60)
  <2>2. CASE k # 1
    <3>1. h = stack[t][k] /\ k \in 1 .. Len(stack[t])
      BY <1>2, <1>3, <2>2, SMTT(60)
    <3> QED BY <3>1, OwnFrame, SMTT(60)
  <2> QED BY <2>1, <2>2, ZenonT(60)
<1>4. FramesInv'
  BY <1>3, FramesNext, ZenonT(60)
<1>5. \A i \in 1 .. MAX_HOOKS : took[i].nested => took'[i].nested
  BY ZenonT(60) DEF Grows
<1>6. OneFrame(t)'
  <2>1. PICK d \in Int : \A k \in Int : k + d = k
    BY NoShift, ZenonT(60)
  <2>2. \A k \in 1 .. Len(stack'[t]) : stack'[t][k].idx # 0 =>
          k + d \in 1 .. Len(stack[t]) /\ stack[t][k + d].idx = stack'[t][k].idx
    <3>1. ASSUME NEW k \in 1 .. Len(r) PROVE k \in 1 .. Len(q) /\ q[k].idx = r[k].idx
      <4>1. CASE k = 1
        BY <1>2, <4>1, ZenonT(60)
      <4>2. CASE k # 1
        BY <1>2, <4>2, SMTT(60)
      <4> QED BY <4>1, <4>2, ZenonT(60)
    <3> QED BY <1>1, <2>1, <3>1, SMTT(60)
  <2> QED BY <1>5, <2>2, OneFrameNext, ZenonT(60) DEF ProfInv
<1>7. ASSUME NEW u \in Threads, u # t PROVE OneFrame(u)'
  BY <1>1, <1>5, <1>7, OneFrameOthers, ZenonT(60) DEF ProfInv
<1> QED BY <1>4, <1>6, <1>7, ZenonT(60)

\* What a frame on top that has called its hook counts for.
LEMMA TopFrame ==
  ASSUME IInv, ProfInv, NEW t \in Threads, NEW at, In(t, "tramp", at), at # "in"
  PROVE  LET f == Top(t)
         IN  /\ stack[t] \in Seq(FrameRec) /\ stack[t] # <<>> /\ f = stack[t][1]
             /\ f \in FrameRec /\ f.at = at /\ f.code[1] = "tramp"
             /\ f.idx \in 1 .. MAX_HOOKS /\ f.idx = Profiled(t) /\ CodeInv(f)
             /\ TimeInv(t, f)
<1>1. PICK q \in Seq(FrameRec) : q = stack[t]
  BY ZenonT(60) DEF ProfInv, ProfTypes
<1>2. PICK f : f = Top(t)
  BY ZenonT(60)
<1>3. q # <<>> /\ f = Head(q) /\ f.at = at /\ f.code[1] = "tramp"
  BY <1>1, <1>2, ZenonT(60) DEF In, Top
<1>4. f = q[1] /\ f \in FrameRec /\ 1 \in 1 .. Len(q)
  BY <1>1, <1>3, StackOps, SMTT(60)
<1>5. CodeInv(f) /\ TimeInv(t, f)
  BY <1>1, <1>4, ZenonT(60) DEF ProfInv, FramesInv, FrameInv
<1>6. PICK n : n = tramps[f.code[2]].idx
  BY ZenonT(60)
<1>7. FirstNamed(f.idx, n)
  BY <1>3, <1>5, <1>6, ZenonT(60) DEF CodeInv
<1>8. f.idx \in 1 .. MAX_HOOKS
  BY <1>7, FirstInTable, ZenonT(60) DEF ProfInv
<1>9. f.idx = Profiled(t)
  <2>1. FirstNamed(Named(hooks[n]), n)
    BY <1>7, NamedIsFirst, ZenonT(60) DEF FirstNamed, IInv
  <2>2. Named(hooks[n]) = f.idx
    BY <1>7, <2>1, FirstIsOne, SMTT(60) DEF IInv
  <2> QED BY <1>2, <1>6, <2>2, SMTT(60) DEF Profiled
<1> QED BY <1>1, <1>2, <1>3, <1>4, <1>5, <1>8, <1>9, ZenonT(60)

\* The entry of that frame, and every other, is being left as before.
LEMMA SwapExiting ==
  ASSUME ProfTypes, NEW t \in Threads, NEW q, q = stack[t], NEW r,
         stack' = [stack EXCEPT ![t] = r], NEW g, Swapped(q, r, g), g.idx = q[1].idx,
         g.at \in {"total", "min", "max"}, NEW i
  PROVE  /\ Exiting(i) => Exiting(i)'
         /\ i = g.idx => Exiting(i)'
<1>1. /\ Len(r) = Len(q) /\ Len(q) \in Nat \ {0} /\ r[1] = g /\ 1 \in 1 .. Len(r)
      /\ \A k \in 2 .. Len(r) : r[k] = q[k]
  BY DEF Swapped
<1>2. ASSUME NEW k \in 1 .. Len(stack[t]), Leaving(stack[t][k], i)
      PROVE  \E l \in 1 .. Len(r) : Leaving(r[l], i)
  <2>1. CASE k = 1
    BY <1>1, <1>2, <2>1, ZenonT(60) DEF Leaving
  <2>2. CASE k # 1
    <3>1. k \in 2 .. Len(r) /\ k \in 1 .. Len(r)
      BY <1>1, <2>2, SMTT(60)
    <3> QED BY <1>1, <1>2, <3>1, ZenonT(60)
  <2> QED BY <2>1, <2>2, ZenonT(60)
<1>3. Exiting(i) => Exiting(i)'
  BY <1>2, ExitingNext, ZenonT(60)
<1>4. ASSUME i = g.idx PROVE Exiting(i)'
  <2>1. stack'[t] = r
    BY ZenonT(60) DEF ProfTypes
  <2> QED BY <1>1, <1>4, <2>1, ZenonT(60) DEF Exiting
<1> QED BY <1>3, <1>4, ZenonT(60)

\* A step that writes the numbers of entry i only.
OneEntry(i, e, h) ==
    /\ prof'[i] = e /\ took'[i] = h
    /\ \A j \in 1 .. MAX_HOOKS \ {i} : prof'[j] = prof[j] /\ took'[j] = took[j]

\* The types after a step of a hook.
LEMMA HookTypes ==
  ASSUME ProfInv, NEW t \in Threads, NEW r \in Seq(FrameRec),
         stack' = [stack EXCEPT ![t] = r], NEW i \in 1 .. MAX_HOOKS,
         NEW e \in ProfRec, prof' = [prof EXCEPT ![i] = e],
         NEW h \in TookRec, took' = [took EXCEPT ![i] = h],
         UNCHANGED <<hooks, ts, clock>>
  PROVE  ProfTypes' /\ OneEntry(i, e, h)
<1>1. /\ prof \in [1 .. MAX_HOOKS -> ProfRec] /\ took \in [1 .. MAX_HOOKS -> TookRec]
      /\ stack \in [Threads -> Seq(FrameRec)]
  BY ZenonT(60) DEF ProfInv, ProfTypes
<1>2. /\ prof' \in [1 .. MAX_HOOKS -> ProfRec] /\ took' \in [1 .. MAX_HOOKS -> TookRec]
      /\ stack' \in [Threads -> Seq(FrameRec)]
  BY <1>1, ZenonT(60)
<1>3. /\ prof'[i] = e /\ took'[i] = h /\ prof[i] \in ProfRec /\ took[i] \in TookRec
      /\ \A j \in 1 .. MAX_HOOKS \ {i} : prof'[j] = prof[j] /\ took'[j] = took[j]
  BY <1>1, ZenonT(60)
<1> QED BY <1>2, <1>3, ZenonT(60) DEF ProfInv, ProfTypes, OneEntry

\* Entries that a step leaves alone only grow.
LEMMA GrowsSame ==
  ASSUME ProfTypes, NEW i \in 1 .. MAX_HOOKS, prof'[i] = prof[i], took'[i] = took[i]
  PROVE  Grows(i)
<1>1. took[i].sum <= took[i].sum
  BY SMTT(60) DEF ProfTypes, TookRec
<1> QED BY <1>1, ZenonT(60) DEF Grows

\* The other entries after a step of a hook.
LEMMA OtherEntries ==
  ASSUME ProfInv, ProfTypes', NEW j \in 1 .. MAX_HOOKS,
         prof'[j] = prof[j], took'[j] = took[j], Exiting(j) => Exiting(j)'
  PROVE  EntryInv(j)'
BY GrowsSame, EntryKept, ZenonT(60) DEF ProfInv

\* What a call took against what is measured.
LEMMA Measured ==
  ASSUME ProfInv, NEW t \in Threads, NEW i \in 1 .. MAX_HOOKS, NEW f \in FrameRec,
         f.idx = i, f.at = "out", TimeInv(t, f)
  PROVE  /\ clock - ts[t][i] \in Times /\ clock - f.start \in Times
         /\ clock - ts[t][i] <= clock - f.start
         /\ ~took[i].nested => clock - ts[t][i] = clock - f.start
<1>1. clock \in 0 .. MaxClock /\ ts[t][i] \in 0 .. MaxClock /\ ts[t][i] <= clock
  BY ZenonT(60) DEF ProfInv, ProfTypes, Times
<1>2. f.start \in 0 .. MaxClock /\ f.start <= ts[t][i]
  BY ZenonT(60) DEF FrameRec, Times, TimeInv
<1>3. ~took[i].nested => ts[t][i] = f.start
  BY ZenonT(60) DEF TimeInv
<1>4. PICK c \in Nat : c = clock /\ c <= MaxClock
  BY <1>1, HooksAssumption, SMTT(60)
<1>5. PICK s \in Nat : s = ts[t][i] /\ s <= c
  BY <1>1, <1>4, HooksAssumption, SMTT(60)
<1>6. PICK b \in Nat : b = f.start /\ b <= s
  BY <1>2, <1>5, HooksAssumption, SMTT(60)
<1>7. c - s \in 0 .. MaxClock /\ c - b \in 0 .. MaxClock /\ c - s <= c - b
  <2>1. MaxClock \in Nat
    BY HooksAssumption, ZenonT(60)
  <2>2. /\ c \in Nat /\ s \in Nat /\ b \in Nat /\ c <= MaxClock /\ s <= c
        /\ b <= s
    BY <1>4, <1>5, <1>6, ZenonT(60)
  <2> QED BY <2>1, <2>2, SMTT(60)
<1> QED BY <1>3, <1>4, <1>5, <1>6, <1>7, ZenonT(60) DEF Times

\* prof_hook on exit: the call is counted and measured.
LEMMA HookExitProf ==
  ASSUME IInv, ProfInv, NEW t \in Threads, HookExit(t)
  PROVE  ProfInv'
<1>1. PICK f : f = Top(t)
  BY ZenonT(60)
<1>2. PICK q \in Seq(FrameRec) : q = stack[t]
  BY SMTT(60) DEF ProfInv, ProfTypes
<1>3. PICK i : i = f.idx
  BY ZenonT(60)
<1>4. /\ q # <<>> /\ f = q[1] /\ f \in FrameRec /\ f.at = "out" /\ f.code[1] = "tramp"
      /\ i \in 1 .. MAX_HOOKS /\ i = Profiled(t) /\ CodeInv(f) /\ TimeInv(t, f)
  BY <1>1, <1>2, <1>3, TopFrame, ZenonT(60) DEF HookExit
<1>5. PICK el : el = clock - ts[t][i]
  BY ZenonT(60)
<1>6. PICK d : d = clock - f.start
  BY ZenonT(60)
<1>7. el \in Times /\ d \in Times /\ el <= d /\ (~took[i].nested => el = d)
  BY <1>3, <1>4, <1>5, <1>6, Measured, ZenonT(60)
<1>8. el \in Nat /\ d \in Nat /\ clock \in Nat /\ f.start \in Nat
  <2>1. f.start \in Times /\ clock \in Times
    BY <1>4, SMTT(60) DEF ProfInv, ProfTypes, FrameRec
  <2> QED BY <1>7, <2>1, HooksAssumption, SMTT(60) DEF Times
<1>9. prof[i] \in ProfRec /\ took[i] \in TookRec
  BY <1>4, ZenonT(60) DEF ProfInv, ProfTypes
<1>10. PICK e : e = [prof[i] EXCEPT !.call_count = @ + 1]
  BY ZenonT(60)
<1>11. /\ e \in ProfRec /\ e.total_time = prof[i].total_time
       /\ e.min_time = prof[i].min_time /\ e.max_time = prof[i].max_time
  BY <1>9, <1>10, SMTT(60) DEF ProfRec
<1>12. PICK h : h = [took[i] EXCEPT !.all = @ \union {d}, !.sum = @ + d]
  BY ZenonT(60)
<1>13. /\ h \in TookRec /\ h.all = took[i].all \union {d} /\ h.sum = took[i].sum + d
       /\ h.nested = took[i].nested /\ h.reset = took[i].reset
  <2>1. /\ took[i].all \union {d} \in SUBSET Times /\ took[i].sum + d \in Nat
    BY <1>7, <1>8, <1>9, SMTT(60) DEF TookRec
  <2> QED BY <1>9, <1>12, <2>1, ZenonT(60) DEF TookRec
<1>14. PICK g : g = [f EXCEPT !.at = "total", !.elapsed = el, !.seen = prof[i].total_time]
  BY ZenonT(60)
<1>15. /\ g \in FrameRec /\ g.at = "total" /\ g.elapsed = el
       /\ g.seen = prof[i].total_time /\ g.idx = i /\ g.code = f.code
  BY <1>3, <1>4, <1>7, <1>9, <1>14, ZenonT(60) DEF FrameRec, ProfRec
<1>16. PICK r : r = <<g>> \o Tail(q)
  BY ZenonT(60)
<1>17. Swapped(q, r, g) /\ r \in Seq(FrameRec)
  BY <1>2, <1>4, <1>15, <1>16, StackOps, SMTT(60) DEF Swapped
<1>18. /\ stack' = [stack EXCEPT ![t] = r] /\ UNCHANGED <<hooks, tramps, ts, clock>>
  BY <1>1, <1>2, <1>4, <1>5, <1>14, <1>16, ZenonT(60) DEF HookExit, SetTop
<1>22. /\ prof' = [prof EXCEPT ![i].call_count = @ + 1]
       /\ took' = [took EXCEPT ![i].all = @ \union {d}, ![i].sum = @ + clock - f.start]
  BY <1>1, <1>2, <1>4, <1>5, <1>6, <1>14, <1>16, ZenonT(60) DEF HookExit, SetTop
<1>19. prof' = [prof EXCEPT ![i] = e]
  BY <1>10, <1>22, ZenonT(60)
<1>20. took' = [took EXCEPT ![i] = h]
  <2>1. took[i].sum + clock - f.start = took[i].sum + d
    BY <1>6, <1>8, <1>9, ZenonT(60) DEF TookRec
  <2>2. took \in [1 .. MAX_HOOKS -> TookRec]
    BY SMTT(60) DEF ProfInv, ProfTypes
  <2> QED BY <1>4, <1>12, <1>22, <2>1, <2>2, ZenonT(60) DEF TookRec
<1>21. ProfTypes' /\ OneEntry(i, e, h)
  BY <1>4, <1>11, <1>13, <1>17, <1>18, <1>19, <1>20, HookTypes, ZenonT(60)
<1>23. \A j \in 1 .. MAX_HOOKS : Grows(j)
  <2>1. Grows(i)
    <3>1. took[i].sum <= took[i].sum + d
      BY <1>8, <1>9, SMTT(60) DEF TookRec
    <3> QED BY <1>11, <1>13, <1>21, <3>1, ZenonT(60) DEF Grows, OneEntry
  <2>2. ASSUME NEW j \in 1 .. MAX_HOOKS \ {i} PROVE Grows(j)
    BY <1>21, GrowsSame, ZenonT(60) DEF OneEntry, ProfInv
  <2> QED BY <2>1, <2>2, ZenonT(60)
<1>24. EntryInv(i) /\ prof[i].total_time \in Nat /\ took[i].sum \in Nat
  BY <1>4, <1>9, ZenonT(60) DEF ProfInv, ProfRec, TookRec
<1>25. FrameInv(t, g)'
  <2>1. CodeInv(g)
    BY <1>3, <1>4, <1>15, ZenonT(60) DEF CodeInv
  <2>2. CodeInv(g)'
    BY <1>18, <2>1, CodeKept, ZenonT(60)
  <2>3. /\ \E b \in took'[i].all : g.elapsed <= b
        /\ ~took'[i].nested => g.elapsed \in took'[i].all
    BY <1>7, <1>13, <1>15, <1>21, ZenonT(60) DEF OneEntry
  <2>4. g.seen + g.elapsed <= took'[i].sum
    <3>1. prof[i].total_time <= took[i].sum
      BY <1>24, ZenonT(60) DEF EntryInv
    <3>2. prof[i].total_time + el <= took[i].sum + d
      BY <1>7, <1>8, <1>24, <3>1, SMTT(60)
    <3> QED BY <1>13, <1>15, <1>21, <3>2, ZenonT(60) DEF OneEntry
  <2>5. TimeInv(t, g)'
    BY <1>15, <2>3, <2>4, ZenonT(60) DEF TimeInv
  <2> QED BY <2>2, <2>5, ZenonT(60) DEF FrameInv
<1>26. FramesInv' /\ \A u \in Threads : OneFrame(u)'
  BY <1>2, <1>3, <1>4, <1>15, <1>17, <1>18, <1>21, <1>23, <1>25, SwapStep, ZenonT(60)
<1>27. ASSUME NEW j \in 1 .. MAX_HOOKS
       PROVE  (Exiting(j) => Exiting(j)') /\ (j = i => Exiting(j)')
  BY <1>2, <1>3, <1>4, <1>15, <1>17, <1>18, SwapExiting, ZenonT(60) DEF ProfInv
<1>28. EntryInv(i)'
  <2>1. prof'[i].total_time <= took'[i].sum
    BY <1>8, <1>11, <1>13, <1>21, <1>24, SMTT(60) DEF OneEntry, EntryInv
  <2>2. \E b \in took'[i].all \union {0} : prof'[i].max_time <= b
    BY <1>11, <1>13, <1>21, <1>24, ZenonT(60) DEF OneEntry, EntryInv
  <2>3. ~took'[i].reset /\ ~took'[i].nested =>
          /\ prof'[i].min_time \in took'[i].all \union {Never}
          /\ prof'[i].max_time \in took'[i].all \union {0}
    BY <1>11, <1>13, <1>21, <1>24, ZenonT(60) DEF OneEntry, EntryInv
  <2>4. Exiting(i)'
    BY <1>4, <1>27, SMTT(60)
  <2> QED BY <2>1, <2>2, <2>3, <2>4, ZenonT(60) DEF EntryInv
<1>29. ASSUME NEW j \in 1 .. MAX_HOOKS, j # i PROVE EntryInv(j)'
  <2>1. prof'[j] = prof[j] /\ took'[j] = took[j]
    BY <1>21, <1>29, SMTT(60) DEF OneEntry
  <2> QED BY <1>21, <1>27, <2>1, OtherEntries, ZenonT(60)
<1> QED BY <1>21, <1>26, <1>28, <1>29, ZenonT(60) DEF ProfInv

\* The numbers of an entry that is being left.
Numbers(e, h) ==
    /\ e.total_time <= h.sum
    /\ \E d \in h.all \union {0} : e.max_time <= d
    /\ ~h.reset /\ ~h.nested => /\ e.min_time \in h.all \union {Never}
                                /\ e.max_time \in h.all \union {0}

\* A store of a hook into its entry.
LEMMA StoreStep ==
  ASSUME ProfInv, NEW t \in Threads, NEW q \in Seq(FrameRec), q = stack[t], q # <<>>,
         NEW i \in 1 .. MAX_HOOKS, i = q[1].idx, NEW e \in ProfRec,
         prof' = [prof EXCEPT ![i] = e], UNCHANGED <<hooks, tramps, ts, clock, took>>,
         NEW r \in Seq(FrameRec), stack' = [stack EXCEPT ![t] = r]
  PROVE  /\ ProfTypes' /\ OneEntry(i, e, took[i]) /\ took[i] \in TookRec
         /\ prof[i] \in ProfRec
<1>1. took[i] \in TookRec /\ prof[i] \in ProfRec
  BY ZenonT(60) DEF ProfInv, ProfTypes
<1>2. took' = [took EXCEPT ![i] = took[i]]
  BY DEF ProfInv, ProfTypes
<1> QED BY <1>1, <1>2, HookTypes, ZenonT(60)

\* ... after which the hook has more to store.
LEMMA SwapProf ==
  ASSUME ProfInv, ProfTypes', NEW t \in Threads, NEW q \in Seq(FrameRec), q = stack[t],
         NEW i \in 1 .. MAX_HOOKS, i = q[1].idx, NEW e, OneEntry(i, e, took[i]),
         UNCHANGED <<hooks, tramps, ts, clock, took>>,
         NEW r, stack' = [stack EXCEPT ![t] = r], NEW g, Swapped(q, r, g), g.idx = i,
         g.at \in {"total", "min", "max"}, Grows(i), Numbers(e, took[i]), FrameInv(t, g)'
  PROVE  ProfInv'
<1>1. \A j \in 1 .. MAX_HOOKS : Grows(j)
  <2>1. ASSUME NEW j \in 1 .. MAX_HOOKS, j # i PROVE Grows(j)
    BY <2>1, GrowsSame, ZenonT(60) DEF OneEntry, ProfInv
  <2> QED BY <2>1, ZenonT(60)
<1>2. FramesInv' /\ \A u \in Threads : OneFrame(u)'
  BY <1>1, SwapStep, ZenonT(60)
<1>3. ASSUME NEW j \in 1 .. MAX_HOOKS
      PROVE  (Exiting(j) => Exiting(j)') /\ (j = i => Exiting(j)')
  BY SwapExiting, ZenonT(60) DEF ProfInv
<1>4. EntryInv(i)'
  <2>1. Exiting(i)' /\ prof'[i] = e /\ took'[i] = took[i]
    BY <1>3, SMTT(60) DEF OneEntry
  <2> QED BY <2>1, ZenonT(60) DEF EntryInv, Numbers
<1>5. ASSUME NEW j \in 1 .. MAX_HOOKS, j # i PROVE EntryInv(j)'
  <2>1. prof'[j] = prof[j] /\ took'[j] = took[j]
    BY <1>5, SMTT(60) DEF OneEntry
  <2> QED BY <1>3, <2>1, OtherEntries, ZenonT(60)
<1> QED BY <1>2, <1>4, <1>5, ZenonT(60) DEF ProfInv

\* total_time is stored.
LEMMA StoreTotalProf ==
  ASSUME IInv, ProfInv, NEW t \in Threads, StoreTotal(t)
  PROVE  ProfInv'
<1>1. PICK f : f = Top(t)
  BY SMTT(60)
<1>2. PICK q \in Seq(FrameRec) : q = stack[t]
  BY DEF ProfInv, ProfTypes
<1>3. PICK i : i = f.idx
  OBVIOUS
<1>4. /\ q # <<>> /\ f = q[1] /\ f \in FrameRec /\ f.at = "total" /\ f.code[1] = "tramp"
      /\ i \in 1 .. MAX_HOOKS /\ CodeInv(f) /\ TimeInv(t, f)
  BY <1>1, <1>2, <1>3, TopFrame, ZenonT(60) DEF StoreTotal
<1>5. prof[i] \in ProfRec /\ took[i] \in TookRec /\ EntryInv(i)
  BY <1>4, ZenonT(60) DEF ProfInv, ProfTypes
<1>6. PICK e : e = [prof[i] EXCEPT !.total_time = f.seen + f.elapsed]
  BY ZenonT(60)
<1>7. /\ e \in ProfRec /\ e.total_time = f.seen + f.elapsed
      /\ e.min_time = prof[i].min_time /\ e.max_time = prof[i].max_time
  <2>1. f.seen \in Nat /\ f.elapsed \in Times
    BY <1>4, ZenonT(60) DEF FrameRec
  <2>2. f.seen + f.elapsed \in Nat
    BY <2>1, HooksAssumption, SMTT(60) DEF Times
  <2> QED BY <1>5, <1>6, <2>2, ZenonT(60) DEF ProfRec
<1>8. PICK g : g = [f EXCEPT !.at = "min", !.seen = prof[i].min_time]
  BY ZenonT(60)
<1>9. /\ g \in FrameRec /\ g.at = "min" /\ g.elapsed = f.elapsed
      /\ g.seen = prof[i].min_time /\ g.idx = i /\ g.code = f.code
  <2>1. prof[i].min_time \in 0 .. Never
    BY <1>5, ZenonT(60) DEF ProfRec
  <2>2. prof[i].min_time \in Nat
    BY <2>1, HooksAssumption, SMTT(60) DEF Never
  <2> QED BY <1>3, <1>4, <1>8, <2>2, ZenonT(60) DEF FrameRec
<1>10. PICK r : r = <<g>> \o Tail(q)
  OBVIOUS
<1>11. Swapped(q, r, g) /\ r \in Seq(FrameRec)
  BY <1>2, <1>4, <1>9, <1>10, StackOps, SMTT(60) DEF Swapped
<1>12. stack' = [stack EXCEPT ![t] = r] /\ UNCHANGED <<hooks, tramps, ts, clock, took>>
  BY <1>1, <1>2, <1>3, <1>8, <1>10, ZenonT(60) DEF StoreTotal, SetTop
<1>13. prof' = [prof EXCEPT ![i] = e]
  BY <1>1, <1>3, <1>6, ZenonT(60) DEF StoreTotal
<1>14. ProfTypes' /\ OneEntry(i, e, took[i])
  BY <1>2, <1>3, <1>4, <1>7, <1>11, <1>12, <1>13, StoreStep, ZenonT(60)
<1>15. Grows(i)
  <2>1. took[i].sum <= took[i].sum
    BY <1>5, SMTT(60) DEF TookRec
  <2> QED BY <1>7, <1>14, <2>1, ZenonT(60) DEF Grows, OneEntry
<1>16. Numbers(e, took[i])
  BY <1>3, <1>4, <1>5, <1>7, ZenonT(60) DEF Numbers, EntryInv, TimeInv
<1>17. FrameInv(t, g)'
  <2>1. CodeInv(g)
    BY <1>3, <1>4, <1>9, ZenonT(60) DEF CodeInv
  <2>2. CodeInv(g)'
    BY <1>12, <2>1, CodeKept, ZenonT(60)
  <2>3. /\ \E b \in took'[i].all : g.elapsed <= b
        /\ ~took'[i].nested => g.elapsed \in took'[i].all
    BY <1>3, <1>4, <1>9, <1>14, ZenonT(60) DEF OneEntry, TimeInv
  <2>4. g.seen = prof'[i].min_time
    BY <1>7, <1>9, <1>14, ZenonT(60) DEF OneEntry
  <2>5. TimeInv(t, g)'
    BY <1>9, <2>3, <2>4, ZenonT(60) DEF TimeInv
  <2> QED BY <2>2, <2>5, SMTT(60) DEF FrameInv
<1> QED BY <1>2, <1>3, <1>4, <1>9, <1>11, <1>12, <1>14, <1>15, <1>16, <1>17, SwapProf, ZenonT(60)

\* min_time is compared and stored.
LEMMA StoreMinProf ==
  ASSUME IInv, ProfInv, NEW t \in Threads, StoreMin(t)
  PROVE  ProfInv'
<1>1. PICK f : f = Top(t)
  OBVIOUS
<1>2. PICK q \in Seq(FrameRec) : q = stack[t]
  BY DEF ProfInv, ProfTypes
<1>3. PICK i : i = f.idx
  OBVIOUS
<1>4. /\ q # <<>> /\ f = q[1] /\ f \in FrameRec /\ f.at = "min" /\ f.code[1] = "tramp"
      /\ i \in 1 .. MAX_HOOKS /\ CodeInv(f) /\ TimeInv(t, f)
  BY <1>1, <1>2, <1>3, TopFrame, ZenonT(60) DEF StoreMin
<1>5. prof[i] \in ProfRec /\ took[i] \in TookRec /\ EntryInv(i)
  BY <1>4, ZenonT(60) DEF ProfInv, ProfTypes
<1>6. PICK m : m = IF f.elapsed < f.seen THEN f.elapsed ELSE prof[i].min_time
  BY ZenonT(60)
<1>7. PICK e : e = [prof[i] EXCEPT !.min_time = m]
  BY ZenonT(60)
<1>8. /\ f.elapsed \in Times /\ f.elapsed \in 0 .. Never /\ f.elapsed # Never
      /\ f.elapsed \in Nat /\ f.seen \in Nat /\ Never \in Nat /\ f.elapsed < Never
  <2>1. f.elapsed \in Times /\ f.seen \in Nat
    BY <1>4, ZenonT(60) DEF FrameRec
  <2> QED BY <2>1, HooksAssumption, SMTT(60) DEF Times, Never
<1>9. /\ e \in ProfRec /\ e.total_time = prof[i].total_time
      /\ e.min_time = m /\ e.max_time = prof[i].max_time
  <2>1. m \in 0 .. Never
    BY <1>5, <1>6, <1>8, ZenonT(60) DEF ProfRec
  <2> QED BY <1>5, <1>7, <2>1, ZenonT(60) DEF ProfRec
<1>10. PICK g : g = [f EXCEPT !.at = "max", !.seen = prof[i].max_time]
  BY ZenonT(60)
<1>11. /\ g \in FrameRec /\ g.at = "max" /\ g.elapsed = f.elapsed
       /\ g.seen = prof[i].max_time /\ g.idx = i /\ g.code = f.code
  <2>1. prof[i].max_time \in Times
    BY <1>5, ZenonT(60) DEF ProfRec
  <2>2. prof[i].max_time \in Nat
    BY <2>1, HooksAssumption, SMTT(60) DEF Times
  <2> QED BY <1>3, <1>4, <1>10, <2>2, ZenonT(60) DEF FrameRec
<1>12. PICK r : r = <<g>> \o Tail(q)
  OBVIOUS
<1>13. Swapped(q, r, g) /\ r \in Seq(FrameRec)
  BY <1>2, <1>4, <1>11, <1>12, StackOps, SMTT(60) DEF Swapped
<1>14. stack' = [stack EXCEPT ![t] = r] /\ UNCHANGED <<hooks, tramps, ts, clock, took>>
  BY <1>1, <1>2, <1>3, <1>10, <1>12, ZenonT(60) DEF StoreMin, SetTop
<1>15. prof' = [prof EXCEPT ![i] = e]
  <2>1. prof' = IF f.elapsed < f.seen THEN [prof EXCEPT ![i].min_time = f.elapsed] ELSE prof
    BY <1>1, <1>3, ZenonT(60) DEF StoreMin
  <2>2. CASE f.elapsed < f.seen
    BY <1>6, <1>7, <2>1, <2>2, ZenonT(60)
  <2>3. CASE ~(f.elapsed < f.seen)
    <3>1. e = prof[i]
      BY <1>5, <1>6, <1>7, <2>3, ZenonT(60) DEF ProfRec
    <3> QED BY <1>4, <2>1, <2>3, <3>1, ZenonT(60) DEF ProfInv, ProfTypes
  <2> QED BY <2>2, <2>3, ZenonT(60)
<1>16. ProfTypes' /\ OneEntry(i, e, took[i])
  BY <1>2, <1>3, <1>4, <1>9, <1>13, <1>14, <1>15, StoreStep, ZenonT(60)
<1>17. /\ prof[i].min_time # Never => m # Never
       /\ ~took[i].reset => m # Never
  <2>1. ~took[i].reset /\ f.seen # Never => prof[i].min_time # Never
    BY <1>3, <1>4, ZenonT(60) DEF TimeInv
  <2> QED BY <1>6, <1>8, <2>1, ZenonT(60)
<1>18. Grows(i)
  <2>1. took[i].sum <= took[i].sum
    BY <1>5 DEF TookRec
  <2> QED BY <1>9, <1>16, <1>17, <2>1, ZenonT(60) DEF Grows, OneEntry
<1>19. ~took[i].nested => f.elapsed \in took[i].all
  BY <1>3, <1>4, ZenonT(60) DEF TimeInv
<1>20. Numbers(e, took[i])
  <2>1. ~took[i].reset /\ ~took[i].nested => m \in took[i].all \union {Never}
    BY <1>5, <1>6, <1>19, SMTT(60) DEF EntryInv
  <2> QED BY <1>5, <1>9, <2>1, ZenonT(60) DEF Numbers, EntryInv
<1>21. FrameInv(t, g)'
  <2>1. CodeInv(g)
    BY <1>3, <1>4, <1>11, ZenonT(60) DEF CodeInv
  <2>2. CodeInv(g)'
    BY <1>14, <2>1, CodeKept, SMTT(60)
  <2>3. /\ \E b \in took'[i].all : g.elapsed <= b
        /\ ~took'[i].nested => g.elapsed \in took'[i].all
    BY <1>3, <1>4, <1>11, <1>16, ZenonT(60) DEF OneEntry, TimeInv
  <2>4. /\ g.seen = prof'[i].max_time /\ prof'[i].min_time = m
        /\ took'[i].reset = took[i].reset
    BY <1>9, <1>11, <1>16, ZenonT(60) DEF OneEntry
  <2>5. TimeInv(t, g)'
    BY <1>11, <1>17, <2>3, <2>4, ZenonT(60) DEF TimeInv
  <2> QED BY <2>2, <2>5 DEF FrameInv
<1> QED BY <1>2, <1>3, <1>4, <1>11, <1>13, <1>14, <1>16, <1>18, <1>20, <1>21, SwapProf, ZenonT(60)

\* The frame of a hook that is done goes; all others stay.
LEMMA PopStep ==
  ASSUME ProfInv, ProfTypes', NEW t \in Threads, NEW q, q = stack[t], NEW r, Popped(q, r),
         stack' = [stack EXCEPT ![t] = r], UNCHANGED <<hooks, tramps, ts>>,
         \A i \in 1 .. MAX_HOOKS : Grows(i)
  PROVE  /\ FramesInv' /\ \A u \in Threads : OneFrame(u)'
         /\ \A j : j # q[1].idx => (Exiting(j) => Exiting(j)')
<1>1. /\ stack'[t] = r /\ \A u \in Threads \ {t} : stack'[u] = stack[u]
  BY ZenonT(60) DEF ProfInv, ProfTypes
<1>2. /\ \A k \in 1 .. Len(r) : k + 1 \in 2 .. Len(q) /\ r[k] = q[k + 1]
      /\ \A k \in 2 .. Len(q) : k - 1 \in 1 .. Len(r) /\ q[k] = r[k - 1]
      /\ Len(q) \in Nat /\ Len(r) \in Nat
  BY SMTT(60) DEF Popped
<1>3. ASSUME NEW k \in 1 .. Len(r), NEW h, h = r[k]
      PROVE  FrameInv(t, h)'
  <2>1. PICK l \in 1 .. Len(stack[t]) : h = stack[t][l]
    BY <1>2, <1>3, SMTT(60)
  <2> QED BY <2>1, OwnFrame, ZenonT(60)
<1>4. FramesInv'
  BY <1>3, FramesNext, ZenonT(60)
<1>5. \A i \in 1 .. MAX_HOOKS : took[i].nested => took'[i].nested
  BY ZenonT(60) DEF Grows
<1>6. OneFrame(t)'
  <2>1. PICK d \in Int : d = 1
    BY SMTT(60)
  <2>2. \A k \in 1 .. Len(stack'[t]) : stack'[t][k].idx # 0 =>
          k + d \in 1 .. Len(stack[t]) /\ stack[t][k + d].idx = stack'[t][k].idx
    <3>1. ASSUME NEW k \in 1 .. Len(r) PROVE k + 1 \in 1 .. Len(q) /\ q[k + 1].idx = r[k].idx
      BY <1>2, SMTT(60)
    <3> QED BY <1>1, <2>1, <3>1, SMTT(60)
  <2> QED BY <1>5, <2>2, OneFrameNext, ZenonT(60) DEF ProfInv
<1>7. ASSUME NEW u \in Threads, u # t PROVE OneFrame(u)'
  BY <1>1, <1>5, <1>7, OneFrameOthers, ZenonT(60) DEF ProfInv
<1>8. ASSUME NEW j, j # q[1].idx, Exiting(j) PROVE Exiting(j)'
  <2>1. ASSUME NEW k \in 1 .. Len(stack[t]), Leaving(stack[t][k], j)
        PROVE  \E l \in 1 .. Len(r) : Leaving(r[l], j)
    <3>1. k # 1
      BY <1>8, <2>1, ZenonT(60) DEF Leaving
    <3>2. k \in 2 .. Len(q)
      BY <1>2, <3>1, SMTT(60)
    <3> QED BY <1>2, <2>1, <3>2, SMTT(60)
  <2> QED BY <1>8, <2>1, ExitingNext, ZenonT(60) DEF ProfInv
<1> QED BY <1>4, <1>6, <1>7, <1>8, ZenonT(60)

\* max_time is compared and stored, and the hook is done.
LEMMA StoreMaxProf ==
  ASSUME IInv, ProfInv, NEW t \in Threads, StoreMax(t)
  PROVE  ProfInv'
<1>1. PICK f : f = Top(t)
  OBVIOUS
<1>2. PICK q \in Seq(FrameRec) : q = stack[t]
  BY DEF ProfInv, ProfTypes
<1>3. PICK i : i = f.idx
  OBVIOUS
<1>4. /\ q # <<>> /\ f = q[1] /\ f \in FrameRec /\ f.at = "max"
      /\ i \in 1 .. MAX_HOOKS /\ TimeInv(t, f)
  BY <1>1, <1>2, <1>3, TopFrame, ZenonT(60) DEF StoreMax
<1>5. prof[i] \in ProfRec /\ took[i] \in TookRec /\ EntryInv(i)
  BY <1>4, ZenonT(60) DEF ProfInv, ProfTypes
<1>6. PICK m : m = IF f.elapsed > f.seen THEN f.elapsed ELSE prof[i].max_time
  BY ZenonT(60)
<1>7. PICK e : e = [prof[i] EXCEPT !.max_time = m]
  BY ZenonT(60)
<1>8. f.elapsed \in Times /\ f.elapsed \in Nat /\ f.seen \in Nat
  <2>1. f.elapsed \in Times /\ f.seen \in Nat
    BY <1>4, ZenonT(60) DEF FrameRec
  <2> QED BY <2>1, HooksAssumption, SMTT(60) DEF Times
<1>9. /\ e \in ProfRec /\ e.total_time = prof[i].total_time
      /\ e.min_time = prof[i].min_time /\ e.max_time = m
  <2>1. m \in Times
    BY <1>5, <1>6, <1>8, SMTT(60) DEF ProfRec
  <2> QED BY <1>5, <1>7, <2>1, ZenonT(60) DEF ProfRec
<1>10. PICK r : r = Tail(q)
  BY ZenonT(60)
<1>11. Popped(q, r) /\ r \in Seq(FrameRec)
  BY <1>2, <1>4, <1>10, StackOps, ZenonT(60) DEF Popped
<1>12. stack' = [stack EXCEPT ![t] = r] /\ UNCHANGED <<hooks, tramps, ts, clock, took>>
  BY <1>2, <1>10, ZenonT(60) DEF StoreMax
<1>13. prof' = [prof EXCEPT ![i] = e]
  <2>1. prof' = IF f.elapsed > f.seen THEN [prof EXCEPT ![i].max_time = f.elapsed] ELSE prof
    BY <1>1, <1>3, ZenonT(60) DEF StoreMax
  <2>2. CASE f.elapsed > f.seen
    BY <1>6, <1>7, <2>1, <2>2, ZenonT(60)
  <2>3. CASE ~(f.elapsed > f.seen)
    <3>1. e = prof[i]
      BY <1>5, <1>6, <1>7, <2>3, SMTT(60) DEF ProfRec
    <3> QED BY <1>4, <2>1, <2>3, <3>1, ZenonT(60) DEF ProfInv, ProfTypes
  <2> QED BY <2>2, <2>3, ZenonT(60)
<1>14. ProfTypes' /\ OneEntry(i, e, took[i])
  BY <1>2, <1>3, <1>4, <1>9, <1>11, <1>12, <1>13, StoreStep, ZenonT(60)
<1>15. prof[i].max_time # 0 => m # 0
  BY <1>6, <1>8, SMTT(60)
<1>16. \A j \in 1 .. MAX_HOOKS : Grows(j)
  <2>1. took[i].sum <= took[i].sum
    BY <1>5 DEF TookRec
  <2>2. Grows(i)
    BY <1>9, <1>14, <1>15, <2>1, ZenonT(60) DEF Grows, OneEntry
  <2>3. ASSUME NEW j \in 1 .. MAX_HOOKS, j # i PROVE Grows(j)
    BY <1>14, <2>3, GrowsSame, ZenonT(60) DEF OneEntry, ProfInv
  <2> QED BY <2>2, <2>3, ZenonT(60)
<1>17. /\ FramesInv' /\ \A u \in Threads : OneFrame(u)'
       /\ \A j : j # i => (Exiting(j) => Exiting(j)')
  BY <1>2, <1>3, <1>4, <1>11, <1>12, <1>14, <1>16, PopStep, ZenonT(60)
<1>18. /\ \E d \in took[i].all : f.elapsed <= d
       /\ ~took[i].nested => f.elapsed \in took[i].all
       /\ ~took[i].reset => /\ prof[i].min_time # Never
                            /\ f.seen # 0 => prof[i].max_time # 0
  BY <1>3, <1>4, ZenonT(60) DEF TimeInv
<1>19. EntryInv(i)'
  <2>1. \E d \in took[i].all \union {0} : m <= d
    BY <1>5, <1>6, <1>18, ZenonT(60) DEF EntryInv
  <2>2. ~took[i].reset /\ ~took[i].nested =>
          m \in took[i].all /\ prof[i].min_time \in took[i].all
    <3> SUFFICES ASSUME ~took[i].reset, ~took[i].nested
                 PROVE  m \in took[i].all /\ prof[i].min_time \in took[i].all
      BY ZenonT(60)
    <3>1. /\ prof[i].min_time \in took[i].all \union {Never}
          /\ prof[i].max_time \in took[i].all \union {0}
      BY <1>5, ZenonT(60) DEF EntryInv
    <3>2. CASE f.elapsed > f.seen
      BY <1>6, <1>18, <3>1, <3>2, ZenonT(60)
    <3>3. CASE f.seen # 0 /\ ~(f.elapsed > f.seen)
      BY <1>6, <1>18, <3>1, <3>3, SMTT(60)
    <3>4. CASE f.seen = 0 /\ ~(f.elapsed > f.seen)
      <4>1. f.elapsed = 0
        BY <1>8, <3>4, SMTT(60)
      <4> QED BY <1>6, <1>18, <3>1, <3>4, <4>1, SMTT(60)
    <3> QED BY <3>2, <3>3, <3>4, ZenonT(60)
  <2>3. prof[i].total_time <= took[i].sum
    BY <1>5, ZenonT(60) DEF EntryInv
  <2>4. prof'[i] = e /\ took'[i] = took[i]
    BY <1>14, SMTT(60) DEF OneEntry
  <2> QED BY <1>9, <2>1, <2>2, <2>3, <2>4, ZenonT(60) DEF EntryInv
<1>20. ASSUME NEW j \in 1 .. MAX_HOOKS, j # i PROVE EntryInv(j)'
  <2>1. prof'[j] = prof[j] /\ took'[j] = took[j]
    BY <1>14, <1>20, ZenonT(60) DEF OneEntry
  <2> QED BY <1>14, <1>17, <1>20, <2>1, OtherEntries, ZenonT(60)
<1> QED BY <1>14, <1>17, <1>19, <1>20, ZenonT(60) DEF ProfInv

\* Steps that leave the profiler and the threads alone.
LEMMA AloneProf ==
  ASSUME ProfInv, ProfTypes', UNCHANGED <<hooks, tramps, prof, took, stack, ts>>
  PROVE  ProfInv'
<1>1. FramesInv'
  <2>1. ASSUME NEW t \in Threads, NEW k \in 1 .. Len(stack[t]), NEW f, f = stack[t][k]
        PROVE  FrameInv(t, f)'
    <3>1. CodeInv(f) /\ TimeInv(t, f)
      BY <2>1, ZenonT(60) DEF ProfInv, FramesInv, FrameInv
    <3>2. CodeInv(f)'
      BY <3>1, CodeKept, ZenonT(60)
    <3>3. TimeInv(t, f)'
      BY <3>1, ZenonT(60) DEF TimeInv
    <3> QED BY <3>2, <3>3, ZenonT(60) DEF FrameInv
  <2> QED BY <2>1, ZenonT(60) DEF FramesInv
<1>2. \A t \in Threads : OneFrame(t)'
  BY ZenonT(60) DEF ProfInv, OneFrame
<1>3. \A i \in 1 .. MAX_HOOKS : EntryInv(i)'
  BY ZenonT(60) DEF ProfInv, EntryInv, Exiting
<1> QED BY <1>1, <1>2, <1>3, ZenonT(60) DEF ProfInv

\* The clock.
LEMMA TickProf ==
  ASSUME ProfInv, Tick
  PROVE  ProfInv'
<1>1. UNCHANGED <<hooks, tramps, prof, took, stack, ts>> /\ clock' = clock + 1
  BY ZenonT(60) DEF Tick
<1>2. clock' \in Times /\ clock \in Nat
  BY <1>1, HooksAssumption, SMTT(60) DEF Tick, ProfInv, ProfTypes, Times
<1>3. ASSUME NEW t \in Threads, NEW i \in 1 .. MAX_HOOKS PROVE ts'[t][i] <= clock'
  <2>1. ts[t][i] \in Times /\ ts[t][i] <= clock
    BY ZenonT(60) DEF ProfInv, ProfTypes
  <2>2. ts[t][i] \in Nat
    BY <2>1, HooksAssumption, SMTT(60) DEF Times
  <2> QED BY <1>1, <1>2, <2>1, <2>2, SMTT(60)
<1>4. ProfTypes'
  BY <1>1, <1>2, <1>3, ZenonT(60) DEF ProfInv, ProfTypes
<1> QED BY <1>1, <1>4, AloneProf, ZenonT(60)

\* A first entry stays the first when the table grows.
LEMMA FirstStays ==
  ASSUME Types, NEW i, NEW n, FirstNamed(i, n), NEW e \in EntryType,
         hooks' \in {hooks, Append(hooks, e)}
  PROVE  FirstNamed(i, n)'
<1>1. hooks \in Seq(EntryType) /\ Len(hooks) \in Nat
  BY SMTT(60) DEF Types, EntryType
<1>2. /\ Len(hooks') \in {Len(hooks), Len(hooks) + 1}
      /\ \A j \in 1 .. Len(hooks) : hooks'[j] = hooks[j]
  BY <1>1, AppendKeeps, SMTT(60)
<1>3. /\ i \in 1 .. Len(hooks) /\ n \in 1 .. Len(hooks)
      /\ \A j \in 1 .. i - 1 : j \in 1 .. Len(hooks)
  BY <1>1, SMTT(60) DEF FirstNamed
<1>4. i \in 1 .. Len(hooks') /\ n \in 1 .. Len(hooks')
  BY <1>1, <1>2, <1>3, SMTT(60)
<1> QED BY <1>2, <1>3, <1>4, ZenonT(60) DEF FirstNamed

\* The codes on the stacks when a trampoline is added.
LEMMA CodeGrows ==
  ASSUME IInv, NEW f, CodeInv(f), NEW c \in TrampType, tramps' = Append(tramps, c),
         NEW e \in EntryType, hooks' \in {hooks, Append(hooks, e)}
  PROVE  CodeInv(f)'
<1>1. CASE f.code[1] # "tramp"
  BY <1>1, ZenonT(60) DEF CodeInv
<1>2. CASE f.code[1] = "tramp"
  <2>1. PICK s \in Nat : f.code \in Code /\ Leads(f.code, s)
    BY <1>2, ZenonT(60) DEF CodeInv
  <2>2. Leads(f.code, s)'
    BY <2>1, LeadsKept, ZenonT(60) DEF IInv
  <2>3. tramps'[f.code[2]] = tramps[f.code[2]]
    <3>1. f.code[2] \in 1 .. Len(tramps) /\ tramps \in Seq(TrampType)
      BY <1>2, <2>1, ZenonT(60) DEF Leads, IInv, Types, TrampType
    <3> QED BY <3>1, AppendKeeps, SMTT(60)
  <2>4. PICK n : n = tramps[f.code[2]].idx
    BY ZenonT(60)
  <2>5. f.at # "in" => FirstNamed(f.idx, n)'
    BY <2>4, FirstStays, ZenonT(60) DEF CodeInv, IInv
  <2> QED BY <1>2, <2>1, <2>2, <2>3, <2>4, <2>5, ZenonT(60) DEF CodeInv
<1> QED BY <1>1, <1>2, ZenonT(60)

\* The fresh numbers of an entry that is being added.
LEMMA FreshProf ==
  ASSUME IInv, ProfInv, NEW n, n = Len(hooks) + 1, n <= MAX_HOOKS,
         prof' = [prof EXCEPT ![n] = Zeroed], UNCHANGED <<took, stack, ts, clock>>,
         Len(hooks') \in {Len(hooks), n},
         \A f : CodeInv(f) => CodeInv(f)'
  PROVE  ProfInv'
<1>1. n \in 1 .. MAX_HOOKS /\ n \notin 1 .. Len(hooks) /\ Len(hooks) \in Nat
  BY HooksAssumption, SMTT(60) DEF IInv, Types
<1>2. Zeroed \in ProfRec
  <2>1. 0 \in Times /\ Never \in 0 .. Never
    BY HooksAssumption, SMTT(60) DEF Times, Never
  <2> QED BY <2>1, ZenonT(60) DEF Zeroed, ProfRec
<1>3. prof'[n] = Zeroed /\ \A i \in 1 .. MAX_HOOKS \ {n} : prof'[i] = prof[i]
  BY <1>1, ZenonT(60) DEF ProfInv, ProfTypes
<1>4. ProfTypes'
  <2>1. prof' \in [1 .. MAX_HOOKS -> ProfRec]
    BY <1>1, <1>2, ZenonT(60) DEF ProfInv, ProfTypes
  <2> QED BY <2>1, ZenonT(60) DEF ProfInv, ProfTypes
<1>5. FramesInv'
  <2>1. ASSUME NEW t \in Threads, NEW k \in 1 .. Len(stack[t]), NEW f, f = stack[t][k]
        PROVE  FrameInv(t, f)'
    <3>1. CodeInv(f) /\ TimeInv(t, f)
      BY <2>1, ZenonT(60) DEF ProfInv, FramesInv, FrameInv
    <3>2. CodeInv(f)'
      BY <3>1, ZenonT(60)
    <3>3. CASE f.at = "in"
      BY <3>2, <3>3, NoTimes, ZenonT(60) DEF FrameInv
    <3>4. CASE f.at # "in"
      <4>1. f.idx \in 1 .. MAX_HOOKS \ {n}
        <5>1. FirstNamed(f.idx, tramps[f.code[2]].idx)
          BY <3>1, <3>4, ZenonT(60) DEF CodeInv
        <5>2. f.idx \in 1 .. MAX_HOOKS
          BY <5>1, FirstInTable, ZenonT(60) DEF ProfInv
        <5> QED BY <1>1, <5>1, <5>2, ZenonT(60) DEF FirstNamed
      <4>2. prof'[f.idx] = prof[f.idx]
        BY <1>3, <4>1, ZenonT(60)
      <4>3. TimeInv(t, f)'
        BY <3>1, <4>2, ZenonT(60) DEF TimeInv
      <4> QED BY <3>2, <4>3, SMTT(60) DEF FrameInv
    <3> QED BY <3>3, <3>4, ZenonT(60)
  <2> QED BY <2>1, ZenonT(60) DEF FramesInv
<1>6. \A t \in Threads : OneFrame(t)'
  BY ZenonT(60) DEF ProfInv, OneFrame
<1>7. ASSUME NEW i \in 1 .. MAX_HOOKS, i # n PROVE EntryInv(i)'
  <2>1. prof'[i] = prof[i] /\ EntryInv(i)
    BY <1>3, <1>7, SMTT(60) DEF ProfInv
  <2> QED BY <2>1, ZenonT(60) DEF EntryInv, Exiting
<1>8. EntryInv(n)'
  <2>1. took[n].sum \in Nat
    BY <1>1, SMTT(60) DEF ProfInv, ProfTypes, TookRec
  <2> QED BY <1>3, <2>1, SMTT(60) DEF EntryInv, Zeroed
<1> QED BY <1>4, <1>5, <1>6, <1>7, <1>8, ZenonT(60) DEF ProfInv

\* A hook that is added, or given up.
LEMMA HookAddProf ==
  ASSUME IInv, ProfInv, NEW mapped \in BOOLEAN, NEW ok \in BOOLEAN, hook_add_cb(mapped, ok)
  PROVE  ProfInv'
<1>1. UNCHANGED <<stack, ts, clock, took>>
  BY ZenonT(60) DEF hook_add_cb
<1>2. CASE Len(hooks) >= MAX_HOOKS
  <2>1. UNCHANGED <<hooks, tramps, prof>>
    BY <1>2, ZenonT(60) DEF hook_add_cb
  <2>2. ProfTypes'
    BY <1>1, <2>1, ZenonT(60) DEF ProfInv, ProfTypes
  <2> QED BY <1>1, <2>1, <2>2, AloneProf, ZenonT(60)
<1>3. CASE ~(Len(hooks) >= MAX_HOOKS)
  <2>1. PICK n \in Nat : n = Len(hooks) + 1
    BY SMTT(60) DEF IInv, Types
  <2>2. n <= MAX_HOOKS
    BY <1>3, <2>1, HooksAssumption, SMTT(60) DEF IInv, Types
  <2>3. prof' = [prof EXCEPT ![n] = Zeroed]
    BY <1>3, <2>1, ZenonT(60) DEF hook_add_cb
  <2>4. CASE UNCHANGED <<hooks, tramps>>
    <3>1. \A f : CodeInv(f) => CodeInv(f)'
      BY <2>4, CodeKept, ZenonT(60)
    <3>2. Len(hooks') \in {Len(hooks), n}
      BY <2>4, SMTT(60)
    <3> QED BY <1>1, <2>1, <2>2, <2>3, <3>1, <3>2, FreshProf, ZenonT(60)
  <2>5. CASE /\ tramps' = Append(tramps, Trampoline(Len(hooks) + 1, job.cur))
             /\ hooks' \in {hooks, Append(hooks, Entry(job.pos, job.cur, Len(tramps')))}
    <3>1. /\ job.cur \in Code /\ job.pos \in 1 .. Len(Slots)
      BY ZenonT(60) DEF hook_add_cb, Matched, IInv, Types, Held, JobType, MaybeCode
    <3>2. PICK c \in TrampType : c = Trampoline(Len(hooks) + 1, job.cur)
      BY <2>1, <3>1, ZenonT(60) DEF Trampoline, TrampType
    <3>3. tramps' = Append(tramps, c) /\ tramps \in Seq(TrampType)
      BY <2>5, <3>2, ZenonT(60) DEF IInv, Types, TrampType
    <3>4. Len(tramps') \in Nat
      BY <3>3, AppendKeeps, ZenonT(60)
    <3>5. PICK e \in EntryType : e = Entry(job.pos, job.cur, Len(tramps'))
      BY <3>1, <3>4, SlotSym, ZenonT(60) DEF Entry, EntryType
    <3>6. hooks' \in {hooks, Append(hooks, e)} /\ hooks \in Seq(EntryType)
      BY <2>5, <3>5, ZenonT(60) DEF IInv, Types, EntryType
    <3>7. \A f : CodeInv(f) => CodeInv(f)'
      BY <3>3, <3>6, CodeGrows, ZenonT(60)
    <3>8. Len(hooks') \in {Len(hooks), n}
      BY <2>1, <3>6, AppendKeeps, SMTT(60)
    <3> QED BY <1>1, <2>1, <2>2, <2>3, <3>7, <3>8, FreshProf, ZenonT(60)
  <2>6. \/ UNCHANGED <<hooks, tramps>>
        \/ /\ tramps' = Append(tramps, Trampoline(Len(hooks) + 1, job.cur))
           /\ hooks' \in {hooks, Append(hooks, Entry(job.pos, job.cur, Len(tramps')))}
    BY <1>3, ZenonT(60) DEF hook_add_cb
  <2> QED BY <2>4, <2>5, <2>6, ZenonT(60)
<1> QED BY <1>2, <1>3, ZenonT(60)

\* The fields of an entry that a reset stores.
LEMMA ResetField ==
  ASSUME NEW e \in ProfRec, NEW f \in {"call_count", "total_time", "min_time", "max_time"}
  PROVE  /\ [e EXCEPT ![f] = Zeroed[f]] \in ProfRec
         /\ [e EXCEPT ![f] = Zeroed[f]].total_time \in {0, e.total_time}
         /\ [e EXCEPT ![f] = Zeroed[f]].max_time \in {0, e.max_time}
<1>1. 0 \in Times /\ Never \in 0 .. Never
  BY HooksAssumption, SMTT(60) DEF Times, Never
<1>2. CASE f = "call_count"
  BY <1>1, <1>2, ZenonT(60) DEF Zeroed, ProfRec
<1>3. CASE f = "total_time"
  BY <1>1, <1>3, ZenonT(60) DEF Zeroed, ProfRec
<1>4. CASE f = "min_time"
  BY <1>1, <1>4, ZenonT(60) DEF Zeroed, ProfRec
<1>5. CASE f = "max_time"
  BY <1>1, <1>5, SMTT(60) DEF Zeroed, ProfRec
<1> QED BY <1>2, <1>3, <1>4, <1>5, ZenonT(60)

\* Where ldx_prof_reset is.
LEMMA ResetPlace ==
  ASSUME NEW p \in Nat \ {0}
  PROVE  /\ ((p - 1) \div 4) + 1 \in Nat \ {0}
         /\ Fields[((p - 1) % 4) + 1] \in {"call_count", "total_time", "min_time", "max_time"}
<1>1. PICK a \in Nat : a = p - 1
  OBVIOUS
<1>2. a \div 4 \in Nat /\ a % 4 \in 0 .. 3
  BY SMTT(60)
<1>3. (a % 4) + 1 \in 1 .. 4
  BY <1>2, SMTT(60)
<1>4. \A k \in 1 .. 4 : Fields[k] \in {"call_count", "total_time", "min_time", "max_time"}
  BY DEF Fields
<1> QED BY <1>1, <1>2, <1>3, <1>4, SMTT(60)

\* A store of ldx_prof_reset.
LEMMA ResetProf ==
  ASSUME IInv, ProfInv, ResetStore
  PROVE  ProfInv'
<1>1. UNCHANGED <<hooks, tramps, stack, ts, clock>>
  BY ZenonT(60) DEF ResetStore
<1>2. CASE UNCHANGED <<prof, took>>
  <2>1. ProfTypes'
    BY <1>1, <1>2, SMTT(60) DEF ProfInv, ProfTypes
  <2> QED BY <1>1, <1>2, <2>1, AloneProf, ZenonT(60)
<1>3. ASSUME ~UNCHANGED <<prof, took>>
      PROVE  ProfInv'
  <2>1. PICK i, f : /\ i = ((job.pos - 1) \div 4) + 1 /\ f = Fields[((job.pos - 1) % 4) + 1]
    BY ZenonT(60)
  <2>2. job.pos \in Nat \ {0}
    BY ZenonT(60) DEF IInv, Types, JobType
  <2>3. i \in Nat \ {0} /\ f \in {"call_count", "total_time", "min_time", "max_time"}
    BY <2>1, <2>2, ResetPlace, ZenonT(60)
  <2>4. /\ ~(i > Len(hooks)) /\ prof' = [prof EXCEPT ![i][f] = Zeroed[f]]
        /\ took' = [took EXCEPT ![i].reset = TRUE]
    BY <1>3, <2>1, ZenonT(60) DEF ResetStore
  <2>5. i \in 1 .. MAX_HOOKS
    BY <2>3, <2>4, HooksAssumption, SMTT(60) DEF ProfInv, ProfTypes, IInv, Types
  <2>6. prof[i] \in ProfRec /\ took[i] \in TookRec /\ EntryInv(i)
    BY <2>5, ZenonT(60) DEF ProfInv, ProfTypes
  <2>7. PICK e : e = [prof[i] EXCEPT ![f] = Zeroed[f]]
    BY ZenonT(60)
  <2>8. /\ e \in ProfRec /\ e.total_time \in {0, prof[i].total_time}
        /\ e.max_time \in {0, prof[i].max_time}
    BY <2>3, <2>6, <2>7, ResetField, ZenonT(60)
  <2>9. PICK h : h = [took[i] EXCEPT !.reset = TRUE]
    BY ZenonT(60)
  <2>10. /\ h \in TookRec /\ h.all = took[i].all /\ h.sum = took[i].sum
         /\ h.nested = took[i].nested /\ h.reset
    BY <2>6, <2>9, ZenonT(60) DEF TookRec
  <2>11. prof' = [prof EXCEPT ![i] = e] /\ took' = [took EXCEPT ![i] = h]
    BY <2>4, <2>7, <2>9, ZenonT(60)
  <2>12. ProfTypes'
    <3>1. prof' \in [1 .. MAX_HOOKS -> ProfRec] /\ took' \in [1 .. MAX_HOOKS -> TookRec]
      BY <2>8, <2>10, <2>11, ZenonT(60) DEF ProfInv, ProfTypes
    <3> QED BY <1>1, <3>1, ZenonT(60) DEF ProfInv, ProfTypes
  <2>13. OneEntry(i, e, h)
    BY <2>5, <2>11, ZenonT(60) DEF ProfInv, ProfTypes, OneEntry
  <2>14. \A j \in 1 .. MAX_HOOKS : Grows(j)
    <3>1. took[i].sum <= took[i].sum
      BY <2>6, SMTT(60) DEF TookRec
    <3>2. Grows(i)
      BY <2>10, <2>13, <3>1, ZenonT(60) DEF Grows, OneEntry
    <3>3. ASSUME NEW j \in 1 .. MAX_HOOKS, j # i PROVE Grows(j)
      BY <2>13, <3>3, GrowsSame, ZenonT(60) DEF OneEntry, ProfInv
    <3> QED BY <3>2, <3>3, ZenonT(60)
  <2>15. FramesInv'
    <3>1. ASSUME NEW t \in Threads, NEW k \in 1 .. Len(stack[t]), NEW g, g = stack[t][k]
          PROVE  FrameInv(t, g)'
      BY <1>1, <2>12, <2>14, <3>1, OwnFrame, ZenonT(60)
    <3> QED BY <1>1, <3>1, ZenonT(60) DEF FramesInv
  <2>16. ASSUME NEW t \in Threads PROVE OneFrame(t)'
    BY <1>1, <2>12, <2>14, OneFrameOthers, ZenonT(60) DEF ProfInv, Grows
  <2>17. EntryInv(i)'
    <3>1. e.total_time <= took[i].sum
      BY <2>6, <2>8, SMTT(60) DEF EntryInv, TookRec
    <3>2. \E d \in took[i].all \union {0} : e.max_time <= d
      <4>1. CASE e.max_time = 0
        BY <4>1, SMTT(60)
      <4>2. CASE e.max_time = prof[i].max_time
        BY <2>6, <4>2, SMTT(60) DEF EntryInv
      <4> QED BY <2>8, <4>1, <4>2, SMTT(60)
    <3> QED BY <2>10, <2>13, <3>1, <3>2, ZenonT(60) DEF EntryInv, OneEntry
  <2>18. ASSUME NEW j \in 1 .. MAX_HOOKS, j # i PROVE EntryInv(j)'
    <3>1. prof'[j] = prof[j] /\ took'[j] = took[j]
      BY <2>13, <2>18, ZenonT(60) DEF OneEntry
    <3>2. Exiting(j) => Exiting(j)'
      BY <1>1, SMTT(60) DEF Exiting
    <3> QED BY <2>12, <3>1, <3>2, OtherEntries, SMTT(60)
  <2> QED BY <2>12, <2>15, <2>16, <2>17, <2>18, ZenonT(60) DEF ProfInv
<1> QED BY <1>2, <1>3, ZenonT(60)

\* At the start nothing was called.
LEMMA InitProf == HkInit => ProfInv
<1> SUFFICES ASSUME HkInit PROVE ProfInv BY SMTT(60)
<1>1. 0 \in Times /\ Never \in 0 .. Never /\ MAX_HOOKS \in Nat
  BY HooksAssumption, SMTT(60) DEF Times, Never
<1>2. Zeroed \in ProfRec /\ NoHistory \in TookRec
  BY <1>1, ZenonT(60) DEF Zeroed, NoHistory, ProfRec, TookRec
<1>3. hooks = <<>> /\ \A t \in Threads : stack[t] = <<>>
  BY ZenonT(60) DEF HkInit
<1>4. ProfTypes
  <2>1. \A t \in Threads : \A i \in 1 .. MAX_HOOKS : ts[t][i] <= clock
    BY SMTT(60) DEF HkInit
  <2>2. stack \in [Threads -> Seq(FrameRec)]
    BY SMTT(60) DEF HkInit
  <2> QED BY <1>1, <1>2, <2>1, <2>2, SMTT(60) DEF HkInit, ProfTypes
<1>5. FramesInv /\ \A t \in Threads : OneFrame(t)
  BY <1>3, SMTT(60) DEF FramesInv, OneFrame
<1>6. \A i \in 1 .. MAX_HOOKS : EntryInv(i)
  BY DEF HkInit, EntryInv, Zeroed, NoHistory
<1> QED BY <1>4, <1>5, <1>6, ZenonT(60) DEF ProfInv

\* Every step keeps the profiler's invariant.
LEMMA NextProf == IInv /\ ProfInv /\ [HkNext]_hkVars => ProfInv'
<1> SUFFICES ASSUME IInv, ProfInv, [HkNext]_hkVars PROVE ProfInv'
  BY ZenonT(60)
<1>1. CASE UNCHANGED <<hooks, tramps, prof, took, stack, ts, clock>>
  <2>1. ProfTypes'
    BY <1>1, SMTT(60) DEF ProfInv, ProfTypes
  <2> QED BY <1>1, <2>1, AloneProf, ZenonT(60)
<1>2. CASE \E t \in Threads : CallerStep(t)
  <2>1. PICK t \in Threads : CallerStep(t)
    BY <1>2, ZenonT(60)
  <2>2. CASE \E i \in 1 .. Len(Slots) : Call(t, i)
    BY <2>2, CallProf, ZenonT(60)
  <2>3. CASE Resolve(t) \/ HookEntry(t) \/ Returns(t)
    BY <2>3, ResolveProf, HookEntryProf, ReturnsProf, ZenonT(60)
  <2>4. CASE HookExit(t) \/ StoreTotal(t) \/ StoreMin(t) \/ StoreMax(t)
    BY <2>4, HookExitProf, StoreTotalProf, StoreMinProf, StoreMaxProf, ZenonT(60)
  <2> QED BY <2>1, <2>2, <2>3, <2>4, ZenonT(60) DEF CallerStep
<1>3. CASE Tick
  BY <1>3, TickProf, ZenonT(60)
<1>4. CASE Patcher
  <2>1. CASE \/ \E target \in Targets : dlreplace(target) \/ ldx_prof_add(target)
             \/ dlreplaceq(Syms) \/ ldx_prof_reset
    <3>1. UNCHANGED <<hooks, tramps, prof, took, stack, ts, clock>>
      BY <2>1, ZenonT(60) DEF dlreplace, ldx_prof_add, dlreplaceq, ldx_prof_reset, Start
    <3> QED BY <1>1, <3>1, ZenonT(60)
  <2>2. CASE \/ Walk \/ WalkEnds \/ \E ok \in BOOLEAN : replace_cb(ok)
             \/ \E ok, keep \in BOOLEAN : replaceq_cb(ok, keep)
    <3>1. UNCHANGED <<hooks, tramps, prof, took, stack, ts, clock>>
      BY <2>2, ZenonT(60) DEF Walk, WalkEnds, replace_cb, replaceq_cb
    <3> QED BY <1>1, <3>1, SMTT(60)
  <2>3. CASE ResetStore
    BY <2>3, ResetProf, ZenonT(60)
  <2>4. CASE \E mapped, ok \in BOOLEAN : hook_add_cb(mapped, ok)
    BY <2>4, HookAddProf, ZenonT(60)
  <2> QED BY <1>4, <2>1, <2>2, <2>3, <2>4, ZenonT(60) DEF Patcher
<1>5. CASE UNCHANGED hkVars
  BY <1>1, <1>5, ZenonT(60) DEF hkVars
<1> QED BY <1>2, <1>3, <1>4, <1>5, ZenonT(60) DEF HkNext

\* However many threads call, lose each other's updates and recurse while hooks
\* are added and numbers are reset, the profiler never reports more time than
\* the calls took nor a call longer than the longest, and without resets and
\* recursion its shortest and longest calls were made (prof_hook).
THEOREM ProfileHonestHolds == HkSpec => []ProfileHonest
<1>1. ProfInv => ProfileHonest
  <2> SUFFICES ASSUME ProfInv, NEW i \in 1 .. Len(hooks)
               PROVE  LET e == prof[i]
                          h == took[i]
                      IN  /\ e.total_time <= h.sum
                          /\ \E d \in h.all \union {0} : e.max_time <= d
                          /\ (e.call_count > 0 /\ ~Exiting(i) /\ ~h.nested /\ ~h.reset)
                               => {e.min_time, e.max_time} \subseteq h.all
    BY ZenonT(60) DEF ProfileHonest
  <2>1. i \in 1 .. MAX_HOOKS
    BY HooksAssumption, SMTT(60) DEF ProfInv, ProfTypes
  <2>2. EntryInv(i)
    BY <2>1 DEF ProfInv
  <2> QED BY <2>2, ZenonT(60) DEF EntryInv
<1> QED BY InitIInv, NextIInv, InitProf, NextProf, <1>1, PTL DEF HkSpec
=============================================================================
