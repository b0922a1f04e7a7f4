--------------------------- MODULE ShmPlanProofs ----------------------------
(***************************************************************************)
(* Proofs about ShmPlan for any number of ranks and calls: the ranks agree *)
(* on the transport of every call, what a rank sends over the rings was    *)
(* captured from the plan its peers follow, and a wait leaves nothing of   *)
(* the parent class pending.  Before that, proofs about ShmInit for any    *)
(* number of ranks: init_once leaves all ranks in the same state, and an   *)
(* ACTIVE rank has peers that all have mapped the one fresh segment.       *)
(***************************************************************************)
EXTENDS ShmPlan, FiniteSetTheorems, TLAPS

-----------------------------------------------------------------------------
(* ShmInit *)

USE InitAssumption DEF Nothing, Stale, Unsized, Segment, Rank

\* The initial states satisfy the invariant.
LEMMA InitIInv == Init => IInv
  BY DEF Init, IInv, TypeOK, Naming, Phase, Meeting, Outcome, Mapping, Alone, AllOk, Over

\* Start: a rank leaves the start, or returns because it is alone.
LEMMA StartStep ==
  ASSUME IInv, NEW r \in Rank, Start(r)
  PROVE  IInv'
<1> USE DEF IInv
<1>1. TypeOK'
  BY DEF Start, TypeOK, Goto, Enter, Unlinked
<1>2. Naming'
  BY DEF Start, TypeOK, Goto, Enter, Over, Naming, Phase, Meeting, Unlinked
<1>3. ASSUME NEW q \in Rank PROVE Phase(q)'
  BY <1>3, SMTT(60) DEF Start, TypeOK, Goto, Enter, Phase
<1>4. ASSUME NEW q \in Rank PROVE Meeting(q)'
  BY <1>4, SMTT(60) DEF Start, TypeOK, Goto, Enter, Over, Phase, Meeting, Alone
<1>5. ASSUME NEW q \in Rank PROVE Outcome(q)'
  BY <1>5 DEF Start, TypeOK, Goto, Enter, Over, Phase, Meeting, Outcome, AllOk, Alone
<1>6. ASSUME NEW q \in Rank PROVE Mapping(q)'
  BY <1>6 DEF Start, TypeOK, Goto, Enter, Over, Phase, Meeting, Naming, Mapping, AllOk
<1>7. QED
  BY <1>1, <1>2, <1>3, <1>4, <1>5, <1>6, ZenonT(60)

\* Names: a rank has seen all processor names.
LEMMA NamesStep ==
  ASSUME IInv, NEW r \in Rank, Names(r)
  PROVE  IInv'
<1> USE DEF IInv
<1>1. TypeOK'
  BY SMTT(60) DEF Names, TypeOK, Goto, Enter, Unlinked
<1>2. Naming'
  BY DEF Names, TypeOK, Goto, Enter, Over, Naming, Phase, Meeting, Unlinked
<1>3. ASSUME NEW q \in Rank PROVE Phase(q)'
  BY <1>3, SMTT(60) DEF Names, TypeOK, Goto, Enter, Phase
<1>4. ASSUME NEW q \in Rank PROVE Meeting(q)'
  BY <1>4, SMTT(60) DEF Names, TypeOK, Goto, Enter, Over, Phase, Meeting, Alone
<1>5. ASSUME NEW q \in Rank PROVE Outcome(q)'
  BY <1>5, SMTT(60) DEF Names, TypeOK, Goto, Enter, Over, Phase, Meeting, Outcome, AllOk, Alone
<1>6. ASSUME NEW q \in Rank PROVE Mapping(q)'
  BY <1>6, SMTT(60) DEF Names, TypeOK, Goto, Enter, Over, Phase, Meeting, Naming, Mapping, AllOk
<1>7. QED
  BY <1>1, <1>2, <1>3, <1>4, <1>5, <1>6

\* Pid: a rank has the pid of rank 0.
LEMMA PidStep ==
  ASSUME IInv, NEW r \in Rank, Pid(r)
  PROVE  IInv'
<1> USE DEF IInv
<1>1. TypeOK'
  BY SMTT(60) DEF Pid, TypeOK, Goto, Enter, Unlinked
<1>2. Naming'
  BY DEF Pid, TypeOK, Goto, Enter, Over, Naming, Phase, Meeting, Unlinked
<1>3. ASSUME NEW q \in Rank PROVE Phase(q)'
  BY <1>3, ZenonT(60) DEF Pid, TypeOK, Goto, Enter, Phase
<1>4. ASSUME NEW q \in Rank PROVE Meeting(q)'
  BY <1>4, SMTT(60) DEF Pid, TypeOK, Goto, Enter, Over, Phase, Meeting, Alone
<1>5. ASSUME NEW q \in Rank PROVE Outcome(q)'
  BY <1>5 DEF Pid, TypeOK, Goto, Enter, Over, Phase, Meeting, Outcome, AllOk, Alone
<1>6. ASSUME NEW q \in Rank PROVE Mapping(q)'
  BY <1>6 DEF Pid, TypeOK, Goto, Enter, Over, Phase, Meeting, Naming, Mapping, AllOk
<1>7. QED
  BY <1>1, <1>2, <1>3, <1>4, <1>5, <1>6

\* Create: rank 0 makes the segment.
LEMMA CreateStep ==
  ASSUME IInv, NEW r \in Rank, NEW o \in {Nothing, Stale, Unsized, Segment}, Create(r, o)
  PROVE  IInv'
<1> USE DEF IInv
<1>1. TypeOK'
  BY SMTT(60) DEF Create, TypeOK, Goto, Enter, Unlinked
<1>a. r = 0 /\ met[0] = 2 /\ name' = o /\ mapped' = mapped
  BY DEF Create, TypeOK, Phase
<1>b. met' = [met EXCEPT ![0] = 3] /\ pc' = [pc EXCEPT ![0] = "open"]
  BY <1>a, ZenonT(60) DEF Create, Goto, Enter
<1>c. ok'[0] => o = Segment
  BY <1>a, ZenonT(60) DEF Create, TypeOK
<1>d. ASSUME NEW q \in Rank PROVE met[q] < 4
  <2>1. met[q] >= 4 => met[0] >= 3
    BY <1>d DEF Meeting, Over
  <2>2. met[q] \in 0 .. 5
    BY <1>d, ZenonT(60) DEF TypeOK
  <2>3. QED
    BY <2>1, <2>2, <1>a, SMTT(60)
<1>e. met'[0] = 3 /\ pc'[0] = "open"
  BY <1>b, SMTT(60) DEF TypeOK
<1>2. Naming'
  BY <1>a, <1>c, <1>e, SMTT(60) DEF Naming
<1>3. ASSUME NEW q \in Rank PROVE Phase(q)'
  BY <1>3, ZenonT(60) DEF Create, TypeOK, Goto, Enter, Phase
<1>4. ASSUME NEW q \in Rank PROVE Meeting(q)'
  BY <1>4 DEF Create, TypeOK, Goto, Enter, Over, Phase, Meeting, Alone
<1>5. ASSUME NEW q \in Rank PROVE Outcome(q)'
  BY <1>5 DEF Create, TypeOK, Goto, Enter, Over, Phase, Meeting, Outcome, AllOk, Alone
<1>6. ASSUME NEW q \in Rank PROVE Mapping(q)'
  <2>1. met'[q] < 4 /\ (pc'[q] = "done" => pc[q] = "done")
    BY <1>6, <1>b, <1>d, SMTT(60) DEF TypeOK
  <2>2. mapped[q] = Nothing
    BY <1>6, <1>d, ZenonT(60) DEF Mapping
  <2>3. met'[q] \in 0 .. 5
    BY <1>6, <1>1, ZenonT(60) DEF TypeOK
  <2>4. QED
    BY <2>1, <2>2, <2>3, <1>a DEF Mapping
<1>7. QED
  BY <1>1, <1>2, <1>3, <1>4, <1>5, <1>6, ZenonT(60)

\* Attach: a rank maps the segment, or notes that it cannot.
LEMMA AttachStep ==
  ASSUME IInv, NEW r \in Rank, NEW opens \in BOOLEAN, NEW maps \in BOOLEAN, Attach(r, opens, maps)
  PROVE  IInv'
<1> USE DEF IInv
<1>1. TypeOK'
  BY SMTT(60) DEF Attach, TypeOK, Goto, Enter, Unlinked
<1>2. Naming'
  BY DEF Attach, TypeOK, Goto, Enter, Over, Naming, Phase, Meeting, Unlinked
<1>3. ASSUME NEW q \in Rank PROVE Phase(q)'
  BY <1>3, ZenonT(60) DEF Attach, TypeOK, Goto, Enter, Phase
<1>4. ASSUME NEW q \in Rank PROVE Meeting(q)'
  BY <1>4, SMTT(60) DEF Attach, TypeOK, Goto, Enter, Over, Phase, Meeting, Alone
<1>5. ASSUME NEW q \in Rank PROVE Outcome(q)'
  BY <1>5 DEF Attach, TypeOK, Goto, Enter, Over, Phase, Meeting, Outcome, AllOk, Alone
<1>a. met[r] = 3 /\ Over(3) /\ name' = name
  BY ZenonT(60) DEF Attach, TypeOK, Phase
<1>b. ASSUME NEW q \in Rank PROVE met[q] \in {3, 4} /\ pc[q] # "done"
  <2>1. met[q] \in 0 .. 5 /\ met[q] >= 3
    BY <1>a, <1>b, ZenonT(60) DEF TypeOK, Over
  <2>2. met[q] < 5
    BY <1>a, <1>b, <2>1, SMTT(60) DEF Meeting, Over
  <2>3. QED
    BY <1>b, <2>1, <2>2, SMTT(60) DEF Phase
<1>c. met' = [met EXCEPT ![r] = 4] /\ pc' = [pc EXCEPT ![r] = "agree"]
  BY ZenonT(60) DEF Attach, Goto, Enter
<1>d. ok'[0] => ok[0] /\ name = Segment
  <2>1. ok'[0] => ok[0]
    <3>1. CASE r = 0
      BY <3>1, ZenonT(60) DEF Attach, TypeOK
    <3>2. CASE r # 0
      BY <3>2, SMTT(60) DEF Attach, TypeOK
    <3>3. QED
      BY <3>1, <3>2, ZenonT(60)
  <2>2. QED
    BY <2>1, <1>b, SMTT(60) DEF Naming
<1>e. mapped'[r] = IF ok'[r] THEN name ELSE Nothing
  BY ZenonT(60) DEF Attach, TypeOK
<1>f. ASSUME NEW q \in Rank \ {r} PROVE mapped'[q] = mapped[q] /\ ok'[q] = ok[q]
  BY <1>f, ZenonT(60) DEF Attach, TypeOK
<1>6. ASSUME NEW q \in Rank PROVE Mapping(q)'
  <2>1. pc'[q] # "done"
    BY <1>6, <1>b, <1>c, ZenonT(60) DEF TypeOK
  <2>2. CASE q = r
    BY <2>1, <2>2, <1>c, <1>d, <1>e, SMTT(60) DEF TypeOK, Mapping
  <2>3. CASE q # r
    BY <1>6, <2>1, <2>3, <1>b, <1>c, <1>d, <1>f, SMTT(60) DEF TypeOK, Mapping
  <2>4. QED
    BY <2>2, <2>3, ZenonT(60)
<1>7. QED
  BY <1>1, <1>2, <1>3, <1>4, <1>5, <1>6, ZenonT(60)

\* Agree: a rank has the result of the Allreduce.
LEMMA AgreeStep ==
  ASSUME IInv, NEW r \in Rank, Agree(r)
  PROVE  IInv'
<1> USE DEF IInv
<1>1. TypeOK'
  BY SMTT(60) DEF Agree, TypeOK, Goto, Enter, Unlinked
<1>2. Naming'
  BY DEF Agree, TypeOK, Goto, Enter, Over, Naming, Phase, Meeting, Unlinked
<1>3. ASSUME NEW q \in Rank PROVE Phase(q)'
  BY <1>3, ZenonT(60) DEF Agree, TypeOK, Goto, Enter, Phase
<1>4. ASSUME NEW q \in Rank PROVE Meeting(q)'
  BY <1>4, SMTT(60) DEF Agree, TypeOK, Goto, Enter, Over, Phase, Meeting, Alone
<1>5. ASSUME NEW q \in Rank PROVE Outcome(q)'
  BY <1>5, SMTT(60) DEF Agree, TypeOK, Goto, Enter, Over, Phase, Meeting, Outcome, AllOk, Alone
<1>6. ASSUME NEW q \in Rank PROVE Mapping(q)'
  BY <1>6, SMTT(60) DEF Agree, TypeOK, Goto, Enter, Over, Phase, Meeting, Naming, Mapping, AllOk
<1>7. QED
  BY <1>1, <1>2, <1>3, <1>4, <1>5, <1>6

\* Finish: a rank draws the conclusion.
LEMMA FinishStep ==
  ASSUME IInv, NEW r \in Rank, Finish(r)
  PROVE  IInv'
<1> USE DEF IInv
<1>1. TypeOK'
  BY ZenonT(60) DEF Finish, TypeOK, Goto, Enter, Unlinked
<1>2. Naming'
  BY SMTT(60) DEF Finish, TypeOK, Goto, Enter, Over, Naming, Phase, Meeting, Unlinked
<1>3. ASSUME NEW q \in Rank PROVE Phase(q)'
  BY <1>3, SMTT(60) DEF Finish, TypeOK, Goto, Enter, Phase
<1>4. ASSUME NEW q \in Rank PROVE Meeting(q)'
  BY <1>4, SMTT(60) DEF Finish, TypeOK, Goto, Enter, Over, Phase, Meeting, Alone
<1>5. ASSUME NEW q \in Rank PROVE Outcome(q)'
  BY <1>5, SMTT(60) DEF Finish, TypeOK, Goto, Enter, Over, Phase, Meeting, Outcome, AllOk, Alone
<1>6. ASSUME NEW q \in Rank PROVE Mapping(q)'
  BY <1>6, SMTT(60) DEF Finish, TypeOK, Goto, Enter, Over, Phase, Meeting, Naming, Mapping, AllOk
<1>7. QED
  BY <1>1, <1>2, <1>3, <1>4, <1>5, <1>6

\* Every step preserves the invariant.
LEMMA NextIInv == IInv /\ [Next]_vars => IInv'
<1> SUFFICES ASSUME IInv, [Next]_vars PROVE IInv'
  BY ZenonT(60)
<1>1. ASSUME NEW r \in Rank, Step(r) PROVE IInv'
  BY <1>1, StartStep, NamesStep, PidStep, CreateStep, AttachStep, AgreeStep, FinishStep, ZenonT(60) DEF Step
<1>2. CASE UNCHANGED vars
  BY <1>2, SMTT(60) DEF vars, IInv, TypeOK, Naming, Phase, Meeting, Outcome, Mapping, AllOk, Over
<1>3. QED
  BY <1>1, <1>2, ZenonT(60) DEF Next

\* init_once keeps its invariant, for any number of ranks.
THEOREM InitInvariant == Spec => []IInv
<1>1. IInv /\ [Next]_vars => IInv'
  BY NextIInv, ZenonT(60)
<1>2. QED
  BY InitIInv, <1>1, PTL DEF Spec

\* Type correctness of init_once.
THEOREM InitTypeCorrect == Spec => []TypeOK
<1>1. IInv => TypeOK
  BY ZenonT(60) DEF IInv
<1>2. QED
  BY InitInvariant, <1>1, PTL

\* Once a rank is ACTIVE every rank has mapped the one fresh segment.
THEOREM ActiveMeansAllMappedHolds == Spec => []ActiveMeansAllMapped
<1>1. IInv => ActiveMeansAllMapped
  <2> SUFFICES ASSUME IInv, NEW r \in Rank, state[r] = "ACTIVE", NEW q \in Rank
               PROVE mapped[q] = Segment
    BY ZenonT(60) DEF ActiveMeansAllMapped
  <2>1. pc[r] = "done" /\ met[r] = 5 /\ AllOk
    BY ZenonT(60) DEF IInv, TypeOK, Phase, Outcome
  <2>2. met[q] >= 5
    BY <2>1, ZenonT(60) DEF IInv, Meeting, Over
  <2>3. ok[q] /\ ok[0] /\ met[q] >= 4
    BY <2>1, <2>2, SMTT(60) DEF IInv, TypeOK, AllOk
  <2>4. QED
    BY <2>1, <2>3, ZenonT(60) DEF IInv, Mapping
<1>2. QED
  BY InitInvariant, <1>1, PTL

\* The ranks that have returned from init_once are in the same state.
THEOREM StateUniformHolds == Spec => []StateUniform
<1>1. IInv => StateUniform
  <2> SUFFICES ASSUME IInv, NEW q \in Rank, NEW r \in Rank, pc[q] = "done", pc[r] = "done"
               PROVE state[q] = state[r]
    BY ZenonT(60) DEF StateUniform
  <2>1. met[q] = 5 <=> met[r] = 5
    <3>1. met[q] \in 0 .. 5 /\ met[r] \in 0 .. 5
      BY ZenonT(60) DEF IInv, TypeOK
    <3>2. met[q] = 5 => met[r] >= 5
      BY ZenonT(60) DEF IInv, Meeting, Over
    <3>3. met[r] = 5 => met[q] >= 5
      BY ZenonT(60) DEF IInv, Meeting, Over
    <3>4. QED
      BY <3>1, <3>2, <3>3
  <2>2. QED
    BY <2>1, ZenonT(60) DEF IInv, Outcome
<1>2. QED
  BY InitInvariant, <1>1, PTL

\* A job that is not active keeps no mapping, and none leaves its segment's
\* name behind.
THEOREM NothingLeftHolds == Spec => []NothingLeft
<1>1. IInv => NothingLeft
  <2> SUFFICES ASSUME IInv, \A r \in Rank : pc[r] = "done" PROVE NothingLeft
    BY ZenonT(60) DEF NothingLeft
  <2>1. name \in {Nothing, Stale}
    BY DEF IInv, Naming
  <2>2. ASSUME NEW r \in Rank, \A q \in Rank : state[q] # "ACTIVE" PROVE mapped[r] = Nothing
    <3>1. CASE met[r] = 5
      <4>1. N # 1
        BY <3>1, SMTT(60) DEF IInv, Meeting, Alone
      <4>2. ~AllOk
        BY <2>2, <3>1, <4>1, ZenonT(60) DEF IInv, Outcome
      <4>3. QED
        BY <4>2, ZenonT(60) DEF IInv, Mapping
    <3>2. CASE met[r] # 5
      BY <3>2, SMTT(60) DEF IInv, Phase, Mapping
    <3>3. QED
      BY <3>1, <3>2, ZenonT(60)
  <2>3. QED
    BY <2>1, <2>2, ZenonT(60) DEF NothingLeft
<1>2. QED
  BY InitInvariant, <1>1, PTL

HIDE InitAssumption DEF Nothing, Stale, Unsized, Segment, Rank

-----------------------------------------------------------------------------
(* Types *)

NoPrint == <<-1, -1, -1>>
Prints == {NoPrint} \cup {Fingerprint(p, r) : p \in Plans, r \in Rank}
Lists == {<<>>} \cup {p[r] : p \in Plans, r \in Rank}
PlanOrNone == Plans \cup {NoPlan}
CallSet == [kind : Calls, plan : PlanOrNone]
Object ==
  [plan : PlanOrNone, sblk : Lists, rings : BOOLEAN, fp : Prints,
   delegated : BOOLEAN, rdelegated : BOOLEAN, pend : SUBSET {"fwd", "rev"}]

PlanTypeOK ==
  /\ script \in Seq(CallSet) /\ pos \in [Rank -> Nat]
  /\ agreed \in [Rank -> Seq(BOOLEAN)] /\ obj \in [Rank -> Object]
  /\ used \in [Rank -> Seq({"none", "shm", "mpi"})]

-----------------------------------------------------------------------------
(* The inductive invariant *)

Build(c) == c.kind \in {"sends", "recvs"}

\* How far a rank is.  It has completed only builds that all have entered.
Progress(r) ==
  /\ Len(used[r]) = pos[r]
  /\ Len(agreed[r]) \in pos[r] .. pos[r] + 1 /\ Len(agreed[r]) <= Len(script)
  /\ Agreeing(r) => Build(script[pos[r] + 1])
  /\ \A k \in 1 .. pos[r], q \in Rank : Build(script[k]) => Len(agreed[q]) >= k

\* Posts of the parent are pending only while the flag says so.
Flags(r) ==
  /\ "fwd" \in obj[r].pend => obj[r].delegated
  /\ "rev" \in obj[r].pend => obj[r].rdelegated

\* Between the capture and the agreement: what the rank has captured.
Captured(r) ==
  Agreeing(r) => /\ obj[r].plan = script[pos[r] + 1].plan /\ obj[r].plan \in Plans
                 /\ agreed[r][pos[r] + 1] => obj[r].sblk = obj[r].plan[r]

\* What the object of every rank has in common after the same calls: whether
\* it uses the rings, the plan the fingerprint was taken of, if any, and the
\* parent's plan.
Common == [rings : BOOLEAN, built : SUBSET Plans, plan : PlanOrNone]
Fresh == [rings |-> FALSE, built |-> {}, plan |-> NoPlan]

AllAgree(k) == \A q \in Rank : agreed[q][k]

\* What call c makes of it.
After(st, c, all) ==
  CASE Build(c) -> [rings |-> all, built |-> {c.plan}, plan |-> c.plan]
    [] c.kind = "rebuild" -> [st EXCEPT !.plan = c.plan]
    [] c.kind = "clone" -> [st EXCEPT !.built = {}]
    [] OTHER -> st

\* The transport it leads to.
Current(st) == st.rings /\ st.built = {st.plan}
Transport(st, c) ==
  CASE c.kind \in {"do", "posts"} -> IF Current(st) /\ HaloMode >= 1 THEN "shm" ELSE "mpi"
    [] c.kind \in {"rev", "rposts"} -> IF Current(st) /\ HaloMode >= 2 THEN "shm" ELSE "mpi"
    [] c.kind \in {"vposts", "vrposts"} -> "mpi"
    [] OTHER -> "none"

\* The object of rank r is in this state.
Tracks(r, st) ==
  /\ obj[r].rings = st.rings
  /\ st.built = {} => obj[r].fp = NoPrint
  /\ \A p \in st.built : st.built = {p} /\ obj[r].fp = Fingerprint(p, r)
  /\ st.built # {} => st.plan \in Plans
  /\ (st.built # {} /\ "rebuild" \notin Calls) => st.built = {st.plan}
  /\ ~Agreeing(r) => /\ obj[r].plan = st.plan
                     /\ st.rings => \A p \in st.built : obj[r].sblk = p[r]

\* The history of that state, one entry for every call some rank has completed,
\* explains every object and every transport.
History(h) ==
  /\ h \in [Nat -> Common] /\ h[0] = Fresh
  /\ \A k \in Nat : (\E r \in Rank : pos[r] > k) =>
       h[k + 1] = After(h[k], script[k + 1], AllAgree(k + 1))
  /\ \A r \in Rank : /\ Tracks(r, h[pos[r]])
                     /\ \A k \in 1 .. pos[r] : used[r][k] = Transport(h[k - 1], script[k])

LocalIInv ==
  /\ PlanTypeOK
  /\ \A r \in Rank : Progress(r) /\ Flags(r) /\ Captured(r)
  /\ WaitsComplete

PlanIInv == LocalIInv /\ \E h : History(h)

-----------------------------------------------------------------------------
(* Lemmas about plans and states *)

\* No plan has the fingerprint of a new object.
LEMMA FingerprintTaken ==
  ASSUME NEW p \in PlanOrNone, NEW r \in Rank
  PROVE  Fingerprint(p, r) # NoPrint
<1>1. p[r] \in Seq(-1 .. N - 1)
  <2>1. CASE p \in Plans
    BY <2>1, PlanAssumption, SMTT(60)
  <2>2. CASE p = NoPlan
    <3>1. p[r] = <<>>
      BY <2>2, ZenonT(60) DEF NoPlan
    <3>2. QED
      BY <3>1
  <2>3. QED
    BY <2>1, <2>2, ZenonT(60) DEF PlanOrNone
<1>2. Targets(p[r]) \ {r} \subseteq 0 .. N - 1
  BY <1>1, InitAssumption, SMTT(60) DEF Targets, Range
<1>3. IsFiniteSet(0 .. N - 1)
  BY FS_Interval, InitAssumption
<1>4. NumSends(p, r) \in Nat
  BY <1>2, <1>3, FS_Subset, FS_CardinalityType, ZenonT(60) DEF NumSends
<1>5. NumSends(p, r) # -1
  BY <1>4, SMTT(60)
<1>6. QED
  BY <1>5, ZenonT(60) DEF Fingerprint, NoPrint

\* The parts of a state.
LEMMA CommonParts ==
  ASSUME NEW st \in Common
  PROVE  st.rings \in BOOLEAN /\ st.built \in SUBSET Plans /\ st.plan \in PlanOrNone
BY ZenonT(60) DEF Common

\* The parts of an object.
LEMMA ObjectParts ==
  ASSUME NEW o \in Object
  PROVE  /\ o.plan \in PlanOrNone /\ o.sblk \in Lists /\ o.rings \in BOOLEAN /\ o.fp \in Prints
         /\ o.delegated \in BOOLEAN /\ o.rdelegated \in BOOLEAN /\ o.pend \in SUBSET {"fwd", "rev"}
BY ZenonT(60) DEF Object

\* A rank's check for the rings tells what all ranks have in common.
LEMMA RingsCurrent ==
  ASSUME ToldApart, NEW r \in Rank, obj[r] \in Object, NEW st \in Common,
         Tracks(r, st), ~Agreeing(r)
  PROVE  (obj[r].rings /\ PlanCurrent(obj[r], r)) <=> Current(st)
<1>1. obj[r].plan = st.plan /\ obj[r].rings = st.rings /\ st.plan \in PlanOrNone
  BY CommonParts, ZenonT(60) DEF Tracks
<1>2. CASE st.built = {}
  <2>1. obj[r].fp = NoPrint
    BY <1>2, ZenonT(60) DEF Tracks
  <2>2. ~PlanCurrent(obj[r], r)
    BY <1>1, <2>1, FingerprintTaken, SMTT(60) DEF PlanCurrent
  <2>3. QED
    BY <1>2, <2>2, ZenonT(60) DEF Current
<1>3. CASE st.built # {}
  <2>1. PICK p \in st.built : st.built = {p} /\ obj[r].fp = Fingerprint(p, r)
    BY <1>3, ZenonT(60) DEF Tracks
  <2>2. p \in Plans /\ st.plan \in Plans
    BY <1>3, CommonParts, ZenonT(60) DEF Tracks
  <2>3. Fingerprint(p, r) = Fingerprint(st.plan, r) => p = st.plan
    <3>1. CASE "rebuild" \in Calls
      BY <2>2, <3>1, SMTT(60) DEF ToldApart
    <3>2. CASE "rebuild" \notin Calls
      BY <1>3, <2>1, <3>2, SMTT(60) DEF Tracks
    <3>3. QED
      BY <3>1, <3>2, ZenonT(60)
  <2>4. PlanCurrent(obj[r], r) <=> p = st.plan
    BY <1>1, <2>1, <2>3, ZenonT(60) DEF PlanCurrent
  <2>5. (st.built = {st.plan}) <=> p = st.plan
    BY <2>1, ZenonT(60)
  <2>6. QED
    BY <1>1, <2>4, <2>5, ZenonT(60) DEF Current
<1>4. QED
  BY <1>2, <1>3, ZenonT(60)

\* The next state is one.
LEMMA AfterType ==
  ASSUME NEW st \in Common, NEW c \in CallSet, NEW all \in BOOLEAN, Build(c) => c.plan \in Plans
  PROVE  After(st, c, all) \in Common
<1>1. c.plan \in PlanOrNone
  BY ZenonT(60) DEF CallSet
<1>2. QED
  BY <1>1, ZenonT(60) DEF After, Common

-----------------------------------------------------------------------------
(* The steps, seen from the sequences they extend *)

Others(r) ==
  \A q \in Rank \ {r} : /\ pos'[q] = pos[q] /\ agreed'[q] = agreed[q]
                        /\ obj'[q] = obj[q] /\ used'[q] = used[q]

\* The script has call c at position k, and what it had.
Calling(k, c) ==
  /\ k <= Len(script') /\ script'[k] = c
  /\ Len(script) <= Len(script') /\ \A j \in 1 .. Len(script) : script'[j] = script[j]

\* Rank r completes its next call, over transport t.
Completes(r, t) ==
  /\ Others(r)
  /\ pos'[r] = pos[r] + 1
  /\ Len(used'[r]) = pos[r] + 1 /\ used'[r][pos[r] + 1] = t
  /\ \A k \in 1 .. pos[r] : used'[r][k] = used[r][k]
  /\ Len(agreed'[r]) = pos[r] + 1
  /\ \A k \in 1 .. Len(agreed[r]) : agreed'[r][k] = agreed[r][k]

\* Rank r enters the agreement with b.
Enters(r, b) ==
  /\ Others(r)
  /\ pos'[r] = pos[r] /\ used'[r] = used[r]
  /\ Len(agreed'[r]) = pos[r] + 1 /\ agreed'[r][pos[r] + 1] = b
  /\ \A k \in 1 .. Len(agreed[r]) : agreed'[r][k] = agreed[r][k]

\* A call takes its place in the script.
LEMMA CallScript ==
  ASSUME PlanTypeOK, NEW r \in Rank, Progress(r), NEW kind, NEW p \in PlanOrNone, Call(r, kind, p)
  PROVE  /\ [kind |-> kind, plan |-> p] \in CallSet /\ script' \in Seq(CallSet)
         /\ Calling(pos[r] + 1, [kind |-> kind, plan |-> p])
         /\ ~Agreeing(r) /\ Len(agreed[r]) = pos[r]
<1>. DEFINE c == [kind |-> kind, plan |-> p]
<1>1. c \in CallSet
  BY ZenonT(60) DEF Call, CallSet
<1>2. script \in Seq(CallSet) /\ pos[r] \in Nat /\ agreed[r] \in Seq(BOOLEAN)
  BY ZenonT(60) DEF PlanTypeOK
<1>3. ~Agreeing(r) /\ Len(agreed[r]) = pos[r] /\ pos[r] <= Len(script)
  BY <1>2, SMTT(60) DEF Call, Agreeing, Progress
<1>4. IF pos[r] < Len(script) THEN script[pos[r] + 1] = c /\ script' = script
                              ELSE script' = Append(script, c)
  BY ZenonT(60) DEF Call
<1>. HIDE DEF c
<1>5. script' \in Seq(CallSet) /\ Calling(pos[r] + 1, c)
  <2>1. CASE pos[r] < Len(script)
    BY <1>2, <1>4, <2>1, SMTT(60) DEF Calling
  <2>2. CASE ~(pos[r] < Len(script))
    <3>1. script' = Append(script, c) /\ pos[r] = Len(script)
      BY <1>2, <1>3, <1>4, <2>2, SMTT(60)
    <3>2. script' \in Seq(CallSet)
      BY <1>1, <1>2, <3>1, SMTT(60)
    <3>3. /\ Len(script') = Len(script) + 1 /\ script'[Len(script) + 1] = c
          /\ \A j \in 1 .. Len(script) : script'[j] = script[j]
      BY <1>1, <1>2, <3>1, SMTT(60)
    <3>4. QED
      BY <1>2, <3>1, <3>2, <3>3, SMTT(60) DEF Calling
  <2>3. QED
    BY <2>1, <2>2, ZenonT(60)
<1>6. QED
  BY <1>1, <1>3, <1>5, SMTT(60) DEF c

\* A call that is over in one step completes; the types hold.
LEMMA DoneFacts ==
  ASSUME PlanTypeOK, NEW r \in Rank, Progress(r), NEW kind, NEW p \in PlanOrNone, Call(r, kind, p),
         NEW o \in Object, NEW t \in {"none", "shm", "mpi"}, Done(r, o, t)
  PROVE  PlanTypeOK' /\ Completes(r, t) /\ obj'[r] = o
<1>1. script' \in Seq(CallSet) /\ Len(agreed[r]) = pos[r]
  BY CallScript, ZenonT(60)
<1>2. /\ pos[r] \in Nat /\ agreed[r] \in Seq(BOOLEAN) /\ Len(used[r]) = pos[r]
      /\ used[r] \in Seq({"none", "shm", "mpi"})
  BY ZenonT(60) DEF PlanTypeOK, Progress
<1>3. pos' \in [Rank -> Nat] /\ pos'[r] = pos[r] + 1
  BY <1>2, SMTT(60) DEF PlanTypeOK, Done
<1>a. PICK b \in BOOLEAN : agreed' = [agreed EXCEPT ![r] = Append(@, b)]
  BY ZenonT(60) DEF Done
<1>4. agreed' \in [Rank -> Seq(BOOLEAN)] /\ agreed'[r] = Append(agreed[r], b)
  BY <1>2, <1>a, SMTT(60) DEF PlanTypeOK
<1>5. obj' \in [Rank -> Object] /\ obj'[r] = o
  BY ZenonT(60) DEF PlanTypeOK, Done
<1>6. used' \in [Rank -> Seq({"none", "shm", "mpi"})] /\ used'[r] = Append(used[r], t)
  BY <1>2, SMTT(60) DEF PlanTypeOK, Done
<1>7. Others(r)
  BY ZenonT(60) DEF PlanTypeOK, Done, Others
<1>8. /\ Len(agreed'[r]) = pos[r] + 1
      /\ \A k \in 1 .. Len(agreed[r]) : agreed'[r][k] = agreed[r][k]
  BY <1>1, <1>2, <1>4, SMTT(60)
<1>9. /\ Len(used'[r]) = pos[r] + 1 /\ used'[r][pos[r] + 1] = t
      /\ \A k \in 1 .. pos[r] : used'[r][k] = used[r][k]
  BY <1>2, <1>6, SMTT(60)
<1>10. QED
  BY <1>1, <1>3, <1>4, <1>5, <1>6, <1>7, <1>8, <1>9, SMTT(60) DEF PlanTypeOK, Completes

\* The end of the agreement completes the call.
LEMMA AgreeFacts ==
  ASSUME PlanTypeOK, NEW r \in Rank, Progress(r), agree(r), obj[r].plan \in Plans
  PROVE  /\ PlanTypeOK' /\ Completes(r, "none") /\ Agreeing(r)
         /\ Calling(pos[r] + 1, script[pos[r] + 1]) /\ agreed' = agreed
         /\ \A q \in Rank : Len(agreed[q]) >= pos[r] + 1
         /\ obj'[r] = [obj[r] EXCEPT !.rings = AllAgree(pos[r] + 1), !.fp = Fingerprint(obj[r].plan, r)]
<1>. DEFINE o == [obj[r] EXCEPT !.rings = AllAgree(pos[r] + 1), !.fp = Fingerprint(obj[r].plan, r)]
<1>1. /\ pos[r] \in Nat /\ agreed[r] \in Seq(BOOLEAN) /\ Len(used[r]) = pos[r]
      /\ used[r] \in Seq({"none", "shm", "mpi"}) /\ obj[r] \in Object
  BY ZenonT(60) DEF PlanTypeOK, Progress
<1>2. Agreeing(r) /\ Len(agreed[r]) = pos[r] + 1 /\ pos[r] + 1 <= Len(script)
  BY <1>1, SMTT(60) DEF agree, Progress, Agreeing
<1>3. \A q \in Rank : Len(agreed[q]) >= pos[r] + 1
  BY ZenonT(60) DEF agree
<1>4. obj' = [obj EXCEPT ![r] = o]
  BY ZenonT(60) DEF agree, AllAgree
<1>5. o \in Object
  <2>1. Fingerprint(obj[r].plan, r) \in Prints
    BY DEF Prints
  <2>2. AllAgree(pos[r] + 1) \in BOOLEAN
    BY ZenonT(60) DEF AllAgree
  <2>3. QED
    BY <1>1, <2>1, <2>2, ZenonT(60) DEF Object
<1>. HIDE DEF o
<1>6. pos' \in [Rank -> Nat] /\ pos'[r] = pos[r] + 1
  BY <1>1, SMTT(60) DEF PlanTypeOK, agree
<1>7. used' \in [Rank -> Seq({"none", "shm", "mpi"})] /\ used'[r] = Append(used[r], "none")
  BY <1>1 DEF PlanTypeOK, agree
<1>8. obj' \in [Rank -> Object] /\ obj'[r] = o
  BY <1>4, <1>5, ZenonT(60) DEF PlanTypeOK
<1>9. script' = script /\ agreed' = agreed
  BY ZenonT(60) DEF agree
<1>10. Others(r)
  BY <1>4, <1>9, ZenonT(60) DEF PlanTypeOK, agree, Others
<1>11. /\ Len(used'[r]) = pos[r] + 1 /\ used'[r][pos[r] + 1] = "none"
       /\ \A k \in 1 .. pos[r] : used'[r][k] = used[r][k]
  BY <1>1, <1>7, SMTT(60)
<1>12. PlanTypeOK'
  BY <1>6, <1>7, <1>8, <1>9, SMTT(60) DEF PlanTypeOK
<1>13. Completes(r, "none")
  BY <1>2, <1>6, <1>9, <1>10, <1>11, SMTT(60) DEF Completes
<1>14. Calling(pos[r] + 1, script[pos[r] + 1])
  BY <1>2, <1>9, SMTT(60) DEF Calling, PlanTypeOK
<1>15. QED
  BY <1>2, <1>3, <1>8, <1>9, <1>12, <1>13, <1>14, SMTT(60) DEF o

\* Entering the agreement with object o.
LEMMA EnterFacts ==
  ASSUME PlanTypeOK, NEW r \in Rank, Progress(r), NEW kind, NEW p \in PlanOrNone, Call(r, kind, p),
         NEW o \in Object, NEW b \in BOOLEAN, obj' = [obj EXCEPT ![r] = o],
         agreed' = [agreed EXCEPT ![r] = Append(@, b)], UNCHANGED <<pos, used>>
  PROVE  PlanTypeOK' /\ Enters(r, b) /\ obj'[r] = o
<1>1. script' \in Seq(CallSet) /\ Len(agreed[r]) = pos[r]
  BY CallScript, ZenonT(60)
<1>2. pos[r] \in Nat /\ agreed[r] \in Seq(BOOLEAN)
  BY ZenonT(60) DEF PlanTypeOK
<1>3. agreed' \in [Rank -> Seq(BOOLEAN)] /\ agreed'[r] = Append(agreed[r], b)
  BY <1>2 DEF PlanTypeOK
<1>4. obj' \in [Rank -> Object] /\ obj'[r] = o
  BY ZenonT(60) DEF PlanTypeOK
<1>5. Others(r)
  BY ZenonT(60) DEF PlanTypeOK, Others
<1>6. /\ Len(agreed'[r]) = pos[r] + 1 /\ agreed'[r][pos[r] + 1] = b
      /\ \A k \in 1 .. Len(agreed[r]) : agreed'[r][k] = agreed[r][k]
  BY <1>1, <1>2, <1>3, SMTT(60)
<1>7. QED
  BY <1>1, <1>3, <1>4, <1>5, <1>6, SMTT(60) DEF PlanTypeOK, Enters

-----------------------------------------------------------------------------
(* What a step does to the local parts of the invariant *)

\* The script up to a rank's entries does not change, and no rank's entries shrink.
LEMMA PrefixKept ==
  ASSUME PlanTypeOK, PlanTypeOK', \A q \in Rank : Progress(q),
         NEW r \in Rank, NEW c \in CallSet, Calling(pos[r] + 1, c),
         Others(r), pos'[r] \in {pos[r], pos[r] + 1}, Len(agreed'[r]) = pos[r] + 1
  PROVE  /\ \A q \in Rank : /\ pos[q] \in Nat /\ pos[q] <= Len(agreed[q])
                            /\ Len(agreed[q]) \in Nat /\ Len(agreed[q]) <= Len(agreed'[q])
         /\ \A q \in Rank, k \in Nat : (1 <= k /\ k <= Len(agreed[q])) => script'[k] = script[k]
<1>1. \A q \in Rank : /\ pos[q] \in Nat /\ Len(agreed[q]) \in Nat
                      /\ Len(agreed[q]) \in pos[q] .. pos[q] + 1 /\ Len(agreed[q]) <= Len(script)
  BY SMTT(60) DEF PlanTypeOK, Progress
<1>2. Len(script) \in Nat
  BY SMTT(60) DEF PlanTypeOK
<1>3. ASSUME NEW q \in Rank PROVE Len(agreed[q]) <= Len(agreed'[q])
  BY <1>1, <1>3, SMTT(60) DEF Others
<1>4. ASSUME NEW q \in Rank, NEW k \in Nat, 1 <= k, k <= Len(agreed[q])
      PROVE  script'[k] = script[k]
  BY <1>1, <1>2, <1>4, SMTT(60) DEF Calling
<1>5. QED
  BY <1>1, <1>3, <1>4, SMTT(60)

\* The other ranks' progress and capture stay.
LEMMA OthersKept ==
  ASSUME PlanTypeOK, PlanTypeOK', \A q \in Rank : Progress(q),
         NEW r \in Rank, NEW c \in CallSet, Calling(pos[r] + 1, c),
         Others(r), pos'[r] \in {pos[r], pos[r] + 1}, Len(agreed'[r]) = pos[r] + 1,
         NEW q \in Rank, q # r, Flags(q), Captured(q)
  PROVE  Progress(q)' /\ Flags(q)' /\ Captured(q)'
<1>1. /\ pos'[q] = pos[q] /\ agreed'[q] = agreed[q] /\ obj'[q] = obj[q] /\ used'[q] = used[q]
  BY ZenonT(60) DEF Others
<1>2. pos[q] \in Nat /\ pos[q] <= Len(agreed[q]) /\ Len(agreed[q]) \in Nat
  BY PrefixKept, ZenonT(60)
<1>3. \A k \in Nat : (1 <= k /\ k <= Len(agreed[q])) => script'[k] = script[k]
  BY PrefixKept, ZenonT(60)
<1>4. \A p \in Rank : Len(agreed[p]) <= Len(agreed'[p]) /\ Len(agreed[p]) \in Nat /\ Len(agreed'[p]) \in Nat
  <2>1. \A p \in Rank : Len(agreed[p]) <= Len(agreed'[p]) /\ Len(agreed[p]) \in Nat
    BY PrefixKept, ZenonT(60)
  <2>2. \A p \in Rank : Len(agreed'[p]) \in Nat
    BY DEF PlanTypeOK
  <2>3. QED
    BY <2>1, <2>2, ZenonT(60)
<1>5. Agreeing(q)' <=> Agreeing(q)
  BY <1>1, ZenonT(60) DEF Agreeing
<1>6. Agreeing(q) => script'[pos[q] + 1] = script[pos[q] + 1]
  BY <1>2, <1>3, SMTT(60) DEF Agreeing
<1>7. Flags(q)'
  BY <1>1, ZenonT(60) DEF Flags
<1>8. Captured(q)'
  <2>1. SUFFICES ASSUME Agreeing(q)'
                 PROVE  /\ obj'[q].plan = script'[pos'[q] + 1].plan /\ obj'[q].plan \in Plans
                        /\ agreed'[q][pos'[q] + 1] => obj'[q].sblk = obj'[q].plan[q]
    BY ZenonT(60) DEF Captured
  <2>2. /\ obj[q].plan = script[pos[q] + 1].plan /\ obj[q].plan \in Plans
        /\ agreed[q][pos[q] + 1] => obj[q].sblk = obj[q].plan[q]
    BY <1>5, <2>1, ZenonT(60) DEF Captured
  <2>3. QED
    BY <1>1, <1>5, <1>6, <2>1, <2>2, ZenonT(60)
<1>9. Progress(q)'
  <2>1. Len(used'[q]) = pos'[q] /\ Len(agreed'[q]) \in pos'[q] .. pos'[q] + 1
    BY <1>1, ZenonT(60) DEF Progress
  <2>2. Len(agreed'[q]) <= Len(script')
    BY <1>1, <1>2, SMTT(60) DEF Progress, Calling, PlanTypeOK
  <2>3. Agreeing(q)' => Build(script'[pos'[q] + 1])
    BY <1>1, <1>5, <1>6, SMTT(60) DEF Progress
  <2>4. ASSUME NEW k \in 1 .. pos'[q], NEW p \in Rank, Build(script'[k])
        PROVE  Len(agreed'[p]) >= k
    <3>1. k \in 1 .. pos[q] /\ script'[k] = script[k]
      BY <1>1, <1>2, <1>3, SMTT(60)
    <3>2. Len(agreed[p]) >= k
      BY <2>4, <3>1, ZenonT(60) DEF Progress
    <3>3. QED
      BY <1>2, <1>4, <3>1, <3>2, SMTT(60)
  <2>5. QED
    BY <2>1, <2>2, <2>3, <2>4, SMTT(60) DEF Progress
<1>10. QED
  BY <1>7, <1>8, <1>9, SMTT(60)

\* A rank that completes a call is in order again.
LEMMA CompleteProgress ==
  ASSUME PlanTypeOK, PlanTypeOK', \A q \in Rank : Progress(q),
         NEW r \in Rank, NEW c \in CallSet, NEW t, Calling(pos[r] + 1, c), Completes(r, t),
         Build(c) => \A q \in Rank : Len(agreed[q]) >= pos[r] + 1
  PROVE  Progress(r)' /\ Captured(r)' /\ ~Agreeing(r)'
<1>1. /\ Others(r) /\ pos'[r] = pos[r] + 1 /\ Len(agreed'[r]) = pos[r] + 1
      /\ Len(used'[r]) = pos[r] + 1
  BY ZenonT(60) DEF Completes
<1>2. pos[r] \in Nat /\ pos[r] <= Len(agreed[r]) /\ Len(agreed[r]) \in Nat
  BY <1>1, PrefixKept, ZenonT(60)
<1>3. \A k \in Nat : (1 <= k /\ k <= Len(agreed[r])) => script'[k] = script[k]
  BY <1>1, PrefixKept, ZenonT(60)
<1>4. \A p \in Rank : Len(agreed[p]) <= Len(agreed'[p]) /\ Len(agreed[p]) \in Nat /\ Len(agreed'[p]) \in Nat
  <2>1. \A p \in Rank : Len(agreed[p]) <= Len(agreed'[p]) /\ Len(agreed[p]) \in Nat
    BY <1>1, PrefixKept, ZenonT(60)
  <2>2. \A p \in Rank : Len(agreed'[p]) \in Nat
    BY SMTT(60) DEF PlanTypeOK
  <2>3. QED
    BY <2>1, <2>2, ZenonT(60)
<1>5. ~Agreeing(r)'
  BY <1>1, <1>2, SMTT(60) DEF Agreeing
<1>6. Len(agreed'[r]) <= Len(script')
  BY <1>1, ZenonT(60) DEF Calling
<1>7. ASSUME NEW k \in 1 .. pos'[r], NEW p \in Rank, Build(script'[k])
      PROVE  Len(agreed'[p]) >= k
  <2>1. CASE k = pos[r] + 1
    BY <1>2, <1>4, <1>7, <2>1, SMTT(60) DEF Calling
  <2>2. CASE k # pos[r] + 1
    <3>1. k \in 1 .. pos[r] /\ script'[k] = script[k]
      BY <1>1, <1>2, <1>3, <2>2, SMTT(60)
    <3>2. Len(agreed[p]) >= k
      BY <1>7, <3>1, ZenonT(60) DEF Progress
    <3>3. QED
      BY <1>2, <1>4, <3>1, <3>2, SMTT(60)
  <2>3. QED
    BY <2>1, <2>2, ZenonT(60)
<1>8. Progress(r)'
  BY <1>1, <1>2, <1>5, <1>6, <1>7, SMTT(60) DEF Progress
<1>9. QED
  BY <1>5, <1>8, ZenonT(60) DEF Captured

\* A rank that enters the agreement, too.
LEMMA EnterProgress ==
  ASSUME PlanTypeOK, PlanTypeOK', \A q \in Rank : Progress(q),
         NEW r \in Rank, NEW c \in CallSet, NEW b, Calling(pos[r] + 1, c), Enters(r, b),
         Build(c)
  PROVE  Progress(r)' /\ Agreeing(r)' /\ script'[pos'[r] + 1] = c
<1>1. /\ Others(r) /\ pos'[r] = pos[r] /\ Len(agreed'[r]) = pos[r] + 1 /\ used'[r] = used[r]
  BY ZenonT(60) DEF Enters
<1>2. pos[r] \in Nat /\ pos[r] <= Len(agreed[r]) /\ Len(agreed[r]) \in Nat
  BY <1>1, PrefixKept, ZenonT(60)
<1>3. \A k \in Nat : (1 <= k /\ k <= Len(agreed[r])) => script'[k] = script[k]
  BY <1>1, PrefixKept, ZenonT(60)
<1>4. \A p \in Rank : Len(agreed[p]) <= Len(agreed'[p]) /\ Len(agreed[p]) \in Nat /\ Len(agreed'[p]) \in Nat
  <2>1. \A p \in Rank : Len(agreed[p]) <= Len(agreed'[p]) /\ Len(agreed[p]) \in Nat
    BY <1>1, PrefixKept, ZenonT(60)
  <2>2. \A p \in Rank : Len(agreed'[p]) \in Nat
    BY SMTT(60) DEF PlanTypeOK
  <2>3. QED
    BY <2>1, <2>2, ZenonT(60)
<1>5. Agreeing(r)' /\ script'[pos'[r] + 1] = c
  BY <1>1, <1>2, SMTT(60) DEF Agreeing, Calling
<1>6. Len(agreed'[r]) <= Len(script')
  BY <1>1, ZenonT(60) DEF Calling
<1>7. ASSUME NEW k \in 1 .. pos'[r], NEW p \in Rank, Build(script'[k])
      PROVE  Len(agreed'[p]) >= k
  <2>1. k \in 1 .. pos[r] /\ script'[k] = script[k]
    BY <1>1, <1>2, <1>3, SMTT(60)
  <2>2. Len(agreed[p]) >= k
    BY <1>7, <2>1, ZenonT(60) DEF Progress
  <2>3. QED
    BY <1>2, <1>4, <2>1, <2>2, SMTT(60)
<1>8. Progress(r)'
  <2>1. Len(used'[r]) = pos'[r] /\ Len(agreed'[r]) \in pos'[r] .. pos'[r] + 1
    BY <1>1, <1>2, SMTT(60) DEF Progress
  <2>2. QED
    BY <1>5, <1>6, <1>7, <2>1, ZenonT(60) DEF Progress
<1>9. QED
  BY <1>5, <1>8, ZenonT(60)

\* The other ranks' waits stay complete.
LEMMA WaitsStep ==
  ASSUME PlanTypeOK, PlanTypeOK', \A q \in Rank : Progress(q), WaitsComplete,
         NEW r \in Rank, NEW c \in CallSet, Calling(pos[r] + 1, c),
         Others(r), pos'[r] \in {pos[r], pos[r] + 1}, Len(agreed'[r]) = pos[r] + 1,
         pos'[r] = pos[r] => obj'[r].pend = obj[r].pend,
         pos'[r] = pos[r] + 1 => /\ c.kind = "waits" => "fwd" \notin obj'[r].pend
                                 /\ c.kind = "rwaits" => "rev" \notin obj'[r].pend
  PROVE  WaitsComplete'
<1>1. ASSUME NEW q \in Rank, pos'[q] > 0
      PROVE  /\ script'[pos'[q]].kind = "waits" => "fwd" \notin obj'[q].pend
             /\ script'[pos'[q]].kind = "rwaits" => "rev" \notin obj'[q].pend
  <2>1. CASE pos'[q] = pos[q]
    <3>1. pos[q] \in Nat /\ pos[q] <= Len(agreed[q]) /\ Len(agreed[q]) \in Nat
      BY PrefixKept, ZenonT(60)
    <3>2. script'[pos[q]] = script[pos[q]]
      BY <1>1, <2>1, <3>1, PrefixKept, SMTT(60)
    <3>3. obj'[q].pend = obj[q].pend
      BY <2>1, ZenonT(60) DEF Others
    <3>4. /\ script[pos[q]].kind = "waits" => "fwd" \notin obj[q].pend
          /\ script[pos[q]].kind = "rwaits" => "rev" \notin obj[q].pend
      BY <1>1, <2>1, ZenonT(60) DEF WaitsComplete
    <3>5. QED
      BY <2>1, <3>2, <3>3, <3>4, SMTT(60)
  <2>2. CASE pos'[q] # pos[q]
    <3>1. q = r /\ pos'[r] = pos[r] + 1
      BY <2>2, ZenonT(60) DEF Others
    <3>2. script'[pos'[q]] = c
      BY <3>1, ZenonT(60) DEF Calling
    <3>3. QED
      BY <3>1, <3>2, ZenonT(60)
  <2>3. QED
    BY <2>1, <2>2, ZenonT(60)
<1>2. QED
  BY <1>1, ZenonT(60) DEF WaitsComplete

-----------------------------------------------------------------------------
(* What a step does to the history *)

\* What a settled call made of a state does not change: a build that some rank
\* has completed was entered by all.
LEMMA AfterStable ==
  ASSUME PlanTypeOK, PlanTypeOK', \A q \in Rank : Progress(q),
         NEW r \in Rank, NEW c \in CallSet, Calling(pos[r] + 1, c),
         Others(r), pos'[r] \in {pos[r], pos[r] + 1}, Len(agreed'[r]) = pos[r] + 1,
         \A k \in 1 .. Len(agreed[r]) : agreed'[r][k] = agreed[r][k],
         NEW q \in Rank, NEW k \in Nat, k < pos[q], NEW st
  PROVE  /\ script'[k + 1] = script[k + 1]
         /\ After(st, script'[k + 1], AllAgree(k + 1)') = After(st, script[k + 1], AllAgree(k + 1))
<1>1. /\ pos[q] \in Nat /\ pos[q] <= Len(agreed[q]) /\ Len(agreed[q]) \in Nat
  BY PrefixKept, ZenonT(60)
<1>2. script'[k + 1] = script[k + 1]
  BY <1>1, PrefixKept, SMTT(60)
<1>3. CASE Build(script[k + 1])
  <2>1. ASSUME NEW p \in Rank PROVE agreed'[p][k + 1] = agreed[p][k + 1]
    <3>1. k + 1 \in 1 .. pos[q]
      BY <1>1, SMTT(60)
    <3>2. Len(agreed[p]) >= k + 1
      BY <1>3, <3>1, ZenonT(60) DEF Progress
    <3>a. Len(agreed[p]) \in Nat
      BY SMTT(60) DEF PlanTypeOK
    <3>3. k + 1 \in 1 .. Len(agreed[p])
      BY <3>2, <3>a, SMTT(60)
    <3>4. QED
      BY <3>3, ZenonT(60) DEF Others
  <2>2. AllAgree(k + 1)' <=> AllAgree(k + 1)
    BY <2>1, ZenonT(60) DEF AllAgree
  <2>3. AllAgree(k + 1)' = AllAgree(k + 1)
    BY <2>2, ZenonT(60) DEF AllAgree
  <2>4. QED
    BY <1>2, <2>3, ZenonT(60)
<1>4. CASE ~Build(script[k + 1])
  BY <1>2, <1>4, SMTT(60) DEF After
<1>5. QED
  BY <1>3, <1>4, ZenonT(60)

\* A step that leaves a rank's object alone leaves its state.
LEMMA TracksKept ==
  ASSUME NEW q \in Rank, pos'[q] = pos[q], agreed'[q] = agreed[q], obj'[q] = obj[q],
         NEW st, Tracks(q, st)
  PROVE  Tracks(q, st)'
<1>1. Agreeing(q)' <=> Agreeing(q)
  BY ZenonT(60) DEF Agreeing
<1>2. QED
  BY <1>1, ZenonT(60) DEF Tracks

\* The history of a rank that completes a call: it goes on, or another rank
\* has been there already.
LEMMA CompleteHistory ==
  ASSUME PlanTypeOK, PlanTypeOK', \A q \in Rank : Progress(q), NEW h, History(h),
         NEW r \in Rank, NEW c \in CallSet, Build(c) => c.plan \in Plans,
         NEW t, Calling(pos[r] + 1, c), Completes(r, t),
         Build(c) => \A q \in Rank : Len(agreed[q]) >= pos[r] + 1,
         NEW i \in Nat, i = pos[r],
         NEW st, st = After(h[i], c, AllAgree(i + 1)'), Tracks(r, st)', t = Transport(h[i], c)
  PROVE  \E h2 : History(h2)'
<1>1. /\ Others(r) /\ pos'[r] = pos[r] + 1 /\ Len(agreed'[r]) = pos[r] + 1
      /\ \A k \in 1 .. Len(agreed[r]) : agreed'[r][k] = agreed[r][k]
  BY ZenonT(60) DEF Completes
<1>2. \A q \in Rank : pos[q] \in Nat
  BY ZenonT(60) DEF PlanTypeOK
<1>4. /\ h \in [Nat -> Common] /\ h[0] = Fresh
      /\ \A k \in Nat : (\E q \in Rank : pos[q] > k) =>
           h[k + 1] = After(h[k], script[k + 1], AllAgree(k + 1))
      /\ \A q \in Rank : /\ Tracks(q, h[pos[q]])
                         /\ \A k \in 1 .. pos[q] : used[q][k] = Transport(h[k - 1], script[k])
  BY ZenonT(60) DEF History
<1>5. st \in Common
  <2>1. AllAgree(i + 1)' \in BOOLEAN
    BY ZenonT(60) DEF AllAgree
  <2>2. h[i] \in Common
    BY <1>4, ZenonT(60)
  <2>3. QED
    BY <2>1, <2>2, AfterType, SMTT(60)
<1>6. PICK h2 : h2 = [h EXCEPT ![i + 1] = st]
  BY ZenonT(60)
<1>7. h2 \in [Nat -> Common] /\ h2[0] = Fresh /\ h2[i + 1] = st /\ \A k \in Nat : k # i + 1 => h2[k] = h[k]
  BY <1>4, <1>5, <1>6, SMTT(60)
<1>8. ASSUME NEW q \in Rank, NEW k \in Nat, k < pos[q]
      PROVE  /\ script'[k + 1] = script[k + 1]
             /\ h[k + 1] = After(h[k], script'[k + 1], AllAgree(k + 1)')
  <2>1. script'[k + 1] = script[k + 1]
    BY <1>1, <1>8, AfterStable, ZenonT(60)
  <2>2. After(h[k], script'[k + 1], AllAgree(k + 1)') = After(h[k], script[k + 1], AllAgree(k + 1))
    BY <1>1, <1>8, AfterStable, ZenonT(60)
  <2>3. pos[q] > k
    BY <1>2, <1>8, ZenonT(60)
  <2>4. QED
    BY <1>4, <2>1, <2>2, <2>3, ZenonT(60)
<1>9. script'[i + 1] = c /\ st = After(h[i], script'[i + 1], AllAgree(i + 1)')
  BY ZenonT(60) DEF Calling
<1>10. ASSUME NEW q \in Rank, NEW k \in Nat, k <= pos[q] PROVE h2[k] = h[k]
  <2>1. CASE k # i + 1
    BY <1>7, <2>1, ZenonT(60)
  <2>2. CASE k = i + 1
    <3>1. i < pos[q]
      BY <1>2, <1>10, <2>2, SMTT(60)
    <3>2. h[i + 1] = After(h[i], script'[i + 1], AllAgree(i + 1)')
      BY <1>8, <3>1, ZenonT(60)
    <3>3. QED
      BY <1>7, <1>9, <2>2, <3>2, SMTT(60)
  <2>3. QED
    BY <2>1, <2>2, ZenonT(60)
<1>11. h2[i] = h[i]
  BY <1>7, SMTT(60)
<1>12. ASSUME NEW k \in Nat, NEW q \in Rank, pos'[q] > k
       PROVE  h2[k + 1] = After(h2[k], script'[k + 1], AllAgree(k + 1)')
  <2>1. CASE k = i
    BY <1>7, <1>9, <1>11, <2>1, ZenonT(60)
  <2>2. CASE k # i
    <3>1. k < pos[q]
      BY <1>1, <1>2, <1>12, <2>2, SMTT(60) DEF Others
    <3>2. h2[k + 1] = h[k + 1] /\ h2[k] = h[k]
      <4>1. k + 1 \in Nat /\ k + 1 <= pos[q] /\ k <= pos[q]
        BY <1>2, <3>1, SMTT(60)
      <4>2. QED
        BY <1>10, <4>1, ZenonT(60)
    <3>3. QED
      BY <1>8, <3>1, <3>2, SMTT(60)
  <2>3. QED
    BY <2>1, <2>2, ZenonT(60)
<1>13. ASSUME NEW q \in Rank PROVE Tracks(q, h2[pos[q]])'
  <2>1. CASE q = r
    <3>1. h2[pos'[q]] = st
      BY <1>1, <1>7, <2>1, SMTT(60)
    <3>2. QED
      BY <2>1, <3>1, ZenonT(60) DEF Tracks
  <2>2. CASE q # r
    <3>1. pos'[q] = pos[q] /\ agreed'[q] = agreed[q] /\ obj'[q] = obj[q]
      BY <1>1, <2>2, ZenonT(60) DEF Others
    <3>2. PICK s : s = h[pos[q]]
      BY ZenonT(60)
    <3>3. h2[pos'[q]] = s
      BY <1>2, <1>10, <3>1, <3>2, SMTT(60)
    <3>4. Tracks(q, s)
      BY <1>4, <3>2, ZenonT(60)
    <3>5. Tracks(q, s)'
      BY <3>1, <3>4, TracksKept, SMTT(60)
    <3>6. QED
      BY <3>3, <3>5, ZenonT(60) DEF Tracks
  <2>3. QED
    BY <2>1, <2>2, ZenonT(60)
<1>14. ASSUME NEW q \in Rank, NEW k \in 1 .. pos'[q]
       PROVE  used'[q][k] = Transport(h2[k - 1], script'[k])
  <2>1. CASE q = r /\ k = i + 1
    <3>1. used'[q][k] = t
      BY <2>1, ZenonT(60) DEF Completes
    <3>2. k - 1 = i
      BY <2>1, SMTT(60)
    <3>3. QED
      BY <1>9, <1>11, <2>1, <3>1, <3>2, SMTT(60)
  <2>2. CASE ~(q = r /\ k = i + 1)
    <3>1. k \in 1 .. pos[q] /\ used'[q][k] = used[q][k]
      BY <1>1, <1>2, <2>2, SMTT(60) DEF Others, Completes
    <3>2. k - 1 \in Nat /\ k - 1 < pos[q] /\ k - 1 <= pos[q] /\ (k - 1) + 1 = k
      BY <1>2, <3>1, SMTT(60)
    <3>3. script'[k] = script[k]
      <4>1. script'[(k - 1) + 1] = script[(k - 1) + 1]
        BY <1>8, <3>2, ZenonT(60)
      <4>2. QED
        BY <3>2, <4>1, ZenonT(60)
    <3>4. h2[k - 1] = h[k - 1]
      BY <1>10, <3>2, ZenonT(60)
    <3>5. used[q][k] = Transport(h[k - 1], script[k])
      BY <1>4, <3>1, ZenonT(60)
    <3>6. QED
      BY <3>1, <3>3, <3>4, <3>5, SMTT(60)
  <2>3. QED
    BY <2>1, <2>2, ZenonT(60)
<1>15. History(h2)'
  BY <1>7, <1>12, <1>13, <1>14, ZenonT(60) DEF History
<1>16. QED
  BY <1>15, ZenonT(60)

\* Entering the agreement adds nothing to the history.
LEMMA EnterHistory ==
  ASSUME PlanTypeOK, PlanTypeOK', \A q \in Rank : Progress(q), NEW h, History(h),
         NEW r \in Rank, NEW c \in CallSet, NEW b, Calling(pos[r] + 1, c), Enters(r, b),
         obj'[r].rings = obj[r].rings, obj'[r].fp = obj[r].fp
  PROVE  History(h)'
<1>1. /\ Others(r) /\ pos'[r] = pos[r] /\ Len(agreed'[r]) = pos[r] + 1 /\ used'[r] = used[r]
      /\ \A k \in 1 .. Len(agreed[r]) : agreed'[r][k] = agreed[r][k]
  BY ZenonT(60) DEF Enters
<1>2. \A q \in Rank : pos[q] \in Nat /\ pos'[q] = pos[q] /\ used'[q] = used[q]
  BY <1>1, ZenonT(60) DEF PlanTypeOK, Others
<1>3. /\ h \in [Nat -> Common] /\ h[0] = Fresh
      /\ \A k \in Nat : (\E q \in Rank : pos[q] > k) =>
           h[k + 1] = After(h[k], script[k + 1], AllAgree(k + 1))
      /\ \A q \in Rank : /\ Tracks(q, h[pos[q]])
                         /\ \A k \in 1 .. pos[q] : used[q][k] = Transport(h[k - 1], script[k])
  BY ZenonT(60) DEF History
<1>4. ASSUME NEW q \in Rank, NEW k \in Nat, k < pos[q]
      PROVE  /\ script'[k + 1] = script[k + 1]
             /\ h[k + 1] = After(h[k], script'[k + 1], AllAgree(k + 1)')
  <2>1. script'[k + 1] = script[k + 1]
    BY <1>1, <1>4, AfterStable, ZenonT(60)
  <2>2. After(h[k], script'[k + 1], AllAgree(k + 1)') = After(h[k], script[k + 1], AllAgree(k + 1))
    BY <1>1, <1>4, AfterStable, ZenonT(60)
  <2>3. pos[q] > k
    BY <1>2, <1>4, ZenonT(60)
  <2>4. QED
    BY <1>3, <2>1, <2>2, <2>3, ZenonT(60)
<1>5. ASSUME NEW k \in Nat, NEW q \in Rank, pos'[q] > k
      PROVE  h[k + 1] = After(h[k], script'[k + 1], AllAgree(k + 1)')
  <2>1. k < pos[q]
    BY <1>2, <1>5, ZenonT(60)
  <2>2. QED
    BY <1>4, <2>1, ZenonT(60)
<1>6. ASSUME NEW q \in Rank PROVE Tracks(q, h[pos[q]])'
  <2>1. PICK s : s = h[pos[q]]
    BY ZenonT(60)
  <2>2. h[pos'[q]] = s /\ Tracks(q, s)
    BY <1>2, <1>3, <2>1, SMTT(60)
  <2>3. Tracks(q, s)'
    <3>1. CASE q = r
      <4>1. Agreeing(r)'
        BY <1>1, <1>2, SMTT(60) DEF Agreeing
      <4>2. QED
        BY <2>2, <3>1, <4>1, SMTT(60) DEF Tracks
    <3>2. CASE q # r
      <4>1. pos'[q] = pos[q] /\ agreed'[q] = agreed[q] /\ obj'[q] = obj[q]
        BY <1>1, <3>2, ZenonT(60) DEF Others
      <4>2. QED
        BY <2>2, <4>1, TracksKept, SMTT(60)
    <3>3. QED
      BY <3>1, <3>2, ZenonT(60)
  <2>4. QED
    BY <2>2, <2>3, ZenonT(60) DEF Tracks
<1>7. ASSUME NEW q \in Rank, NEW k \in 1 .. pos'[q]
      PROVE  used'[q][k] = Transport(h[k - 1], script'[k])
  <2>1. k - 1 \in Nat /\ k - 1 < pos[q] /\ (k - 1) + 1 = k /\ k \in 1 .. pos[q]
    BY <1>2, SMTT(60)
  <2>2. script'[(k - 1) + 1] = script[(k - 1) + 1]
    BY <1>4, <2>1, ZenonT(60)
  <2>3. script'[k] = script[k]
    BY <2>1, <2>2, ZenonT(60)
  <2>4. QED
    BY <1>2, <1>3, <2>1, <2>3, SMTT(60)
<1>8. QED
  BY <1>3, <1>5, <1>6, <1>7, ZenonT(60) DEF History

-----------------------------------------------------------------------------
(* Calls that are over in one step *)

FlagsOf(o) == ("fwd" \in o.pend => o.delegated) /\ ("rev" \in o.pend => o.rdelegated)

\* Object o is in state st, as Tracks says of a rank that is not agreeing.
InState(o, r, st) ==
  /\ o.rings = st.rings
  /\ st.built = {} => o.fp = NoPrint
  /\ \A p \in st.built : st.built = {p} /\ o.fp = Fingerprint(p, r)
  /\ st.built # {} => st.plan \in Plans
  /\ (st.built # {} /\ "rebuild" \notin Calls) => st.built = {st.plan}
  /\ o.plan = st.plan
  /\ st.rings => \A p \in st.built : o.sblk = p[r]

\* Call kind with plan p takes rank r to object o, over transport t.
OneStep(r, kind, p, o, t) ==
  /\ Call(r, kind, p) /\ Done(r, o, t)
  /\ p \in PlanOrNone /\ o \in Object /\ t \in {"none", "shm", "mpi"}
  /\ kind \notin {"sends", "recvs"} /\ FlagsOf(o)
  /\ kind = "waits" => "fwd" \notin o.pend
  /\ kind = "rwaits" => "rev" \notin o.pend
  /\ \A st \in Common : (ToldApart /\ ~Agreeing(r) /\ Tracks(r, st)) =>
       /\ InState(o, r, After(st, [kind |-> kind, plan |-> p], FALSE))
       /\ t = Transport(st, [kind |-> kind, plan |-> p])

\* Such a call keeps the local invariant.
LEMMA OneStepLocal ==
  ASSUME LocalIInv, NEW r \in Rank, NEW kind, NEW p, NEW o, NEW t, OneStep(r, kind, p, o, t)
  PROVE  LocalIInv'
<1>. DEFINE c == [kind |-> kind, plan |-> p]
<1>1. PlanTypeOK /\ \A q \in Rank : Progress(q) /\ Flags(q) /\ Captured(q)
  BY ZenonT(60) DEF LocalIInv
<1>2. c \in CallSet /\ Calling(pos[r] + 1, c)
  BY <1>1, CallScript, ZenonT(60) DEF OneStep
<1>3. PlanTypeOK' /\ Completes(r, t) /\ obj'[r] = o
  BY <1>1, DoneFacts, ZenonT(60) DEF OneStep
<1>4. ~Build(c)
  BY ZenonT(60) DEF OneStep, Build
<1>5. c.kind = kind
  BY ZenonT(60)
<1>. HIDE DEF c
<1>6. /\ Others(r) /\ pos'[r] = pos[r] + 1 /\ Len(agreed'[r]) = pos[r] + 1
  BY <1>3, ZenonT(60) DEF Completes
<1>7. Progress(r)' /\ Captured(r)'
  BY <1>1, <1>2, <1>3, <1>4, CompleteProgress, SMTT(60)
<1>8. Flags(r)'
  BY <1>3, ZenonT(60) DEF OneStep, Flags, FlagsOf
<1>9. \A q \in Rank : q # r => Progress(q)' /\ Flags(q)' /\ Captured(q)'
  BY <1>1, <1>2, <1>3, <1>6, OthersKept, ZenonT(60)
<1>10. WaitsComplete'
  <2>1. pos[r] \in Nat
    BY <1>1, ZenonT(60) DEF PlanTypeOK
  <2>2. pos'[r] # pos[r]
    BY <1>6, <2>1, SMTT(60)
  <2>3. /\ c.kind = "waits" => "fwd" \notin obj'[r].pend
        /\ c.kind = "rwaits" => "rev" \notin obj'[r].pend
    BY <1>3, <1>5, ZenonT(60) DEF OneStep
  <2>4. WaitsComplete
    BY ZenonT(60) DEF LocalIInv
  <2>5. QED
    BY <1>1, <1>2, <1>3, <1>6, <2>2, <2>3, <2>4, WaitsStep, SMTT(60)
<1>11. QED
  BY <1>3, <1>7, <1>8, <1>9, <1>10, SMTT(60) DEF LocalIInv

\* And it adds to the history.
LEMMA OneStepHistory ==
  ASSUME ToldApart, LocalIInv, NEW h, History(h),
         NEW r \in Rank, NEW kind, NEW p, NEW o, NEW t, OneStep(r, kind, p, o, t)
  PROVE  \E h2 : History(h2)'
<1>1. PICK c : c = [kind |-> kind, plan |-> p]
  BY ZenonT(60)
<1>2. PlanTypeOK /\ \A q \in Rank : Progress(q)
  BY ZenonT(60) DEF LocalIInv
<1>3. c \in CallSet /\ Calling(pos[r] + 1, c) /\ ~Agreeing(r)
  BY <1>1, <1>2, CallScript, ZenonT(60) DEF OneStep
<1>4. PlanTypeOK' /\ Completes(r, t) /\ obj'[r] = o
  BY <1>2, DoneFacts, ZenonT(60) DEF OneStep
<1>5. ~Build(c)
  BY <1>1, ZenonT(60) DEF OneStep, Build
<1>6. PICK i \in Nat : i = pos[r]
  BY <1>2, ZenonT(60) DEF PlanTypeOK
<1>7. h[i] \in Common /\ Tracks(r, h[i])
  BY <1>6, ZenonT(60) DEF History
<1>8. PICK st : st = After(h[i], c, FALSE)
  BY ZenonT(60)
<1>9. InState(o, r, st) /\ t = Transport(h[i], c)
  BY <1>1, <1>3, <1>7, <1>8, ZenonT(60) DEF OneStep
<1>10. st = After(h[i], c, AllAgree(i + 1)')
  BY <1>5, <1>8, ZenonT(60) DEF After
<1>11. Tracks(r, st)'
  BY <1>4, <1>9, ZenonT(60) DEF InState, Tracks
<1>12. QED
  BY <1>2, <1>3, <1>4, <1>5, <1>6, <1>9, <1>10, <1>11, CompleteHistory, ZenonT(60)

-----------------------------------------------------------------------------
(* The calls, one by one *)

SameCore(o, old) ==
  o.plan = old.plan /\ o.sblk = old.sblk /\ o.rings = old.rings /\ o.fp = old.fp

\* A call that changes flags and pending posts only.
LEMMA Quiet ==
  ASSUME NEW r \in Rank, NEW kind, kind \notin {"sends", "recvs", "rebuild", "clone"},
         Call(r, kind, NoPlan), NEW o \in Object, NEW t \in {"none", "shm", "mpi"}, Done(r, o, t),
         SameCore(o, obj[r]), FlagsOf(o),
         kind = "waits" => "fwd" \notin o.pend, kind = "rwaits" => "rev" \notin o.pend,
         \A st \in Common : (ToldApart /\ ~Agreeing(r) /\ Tracks(r, st)) =>
           t = Transport(st, [kind |-> kind, plan |-> NoPlan])
  PROVE  OneStep(r, kind, NoPlan, o, t)
<1>1. ASSUME NEW st \in Common, ~Agreeing(r), Tracks(r, st)
      PROVE  InState(o, r, After(st, [kind |-> kind, plan |-> NoPlan], FALSE))
  <2>1. After(st, [kind |-> kind, plan |-> NoPlan], FALSE) = st
    BY ZenonT(60) DEF After, Build
  <2>2. InState(o, r, st)
    BY <1>1, ZenonT(60) DEF InState, Tracks, SameCore
  <2>3. QED
    BY <2>1, <2>2, ZenonT(60)
<1>2. NoPlan \in PlanOrNone
  BY ZenonT(60) DEF PlanOrNone
<1>3. QED
  BY <1>1, <1>2, ZenonT(60) DEF OneStep

\* Do.
LEMMA DoStep ==
  ASSUME LocalIInv, NEW r \in Rank, Do(r)
  PROVE  \E kind, p, o, t : OneStep(r, kind, p, o, t)
<1>1. obj[r] \in Object /\ FlagsOf(obj[r])
  BY ZenonT(60) DEF LocalIInv, PlanTypeOK, Flags, FlagsOf
<1>2. Call(r, "do", NoPlan)
  BY ZenonT(60) DEF Do
<1>3. CASE Rings(r, obj[r])
  <2>1. PICK o : o = obj[r]
    BY ZenonT(60)
  <2>2. Done(r, o, "shm")
    BY <1>3, <2>1, ZenonT(60) DEF Do
  <2>3. o \in Object /\ SameCore(o, obj[r])
    BY <1>1, <2>1, ZenonT(60) DEF Object, SameCore
  <2>4. FlagsOf(o)
    BY <1>1, <2>1, ZenonT(60) DEF FlagsOf, Object
  <2>5. ASSUME NEW st \in Common, ToldApart, ~Agreeing(r), Tracks(r, st)
        PROVE  "shm" = Transport(st, [kind |-> "do", plan |-> NoPlan])
    BY <1>3, <1>1, <2>5, RingsCurrent, SMTT(60) DEF Transport, Rings
  <2>6. OneStep(r, "do", NoPlan, o, "shm")
    BY <1>2, <2>2, <2>3, <2>4, <2>5, Quiet, SMTT(60)
  <2>7. QED
    BY <2>6, ZenonT(60)
<1>4. CASE ~Rings(r, obj[r])
  <2>1. PICK o : o = [obj[r] EXCEPT !.delegated = TRUE]
    BY ZenonT(60)
  <2>2. Done(r, o, "mpi")
    BY <1>4, <2>1, ZenonT(60) DEF Do
  <2>3. o \in Object /\ SameCore(o, obj[r])
    BY <1>1, <2>1, ZenonT(60) DEF Object, SameCore
  <2>4. FlagsOf(o)
    BY <1>1, <2>1, ZenonT(60) DEF FlagsOf, Object
  <2>5. ASSUME NEW st \in Common, ToldApart, ~Agreeing(r), Tracks(r, st)
        PROVE  "mpi" = Transport(st, [kind |-> "do", plan |-> NoPlan])
    BY <1>4, <1>1, <2>5, RingsCurrent, SMTT(60) DEF Transport, Rings
  <2>6. OneStep(r, "do", NoPlan, o, "mpi")
    BY <1>2, <2>2, <2>3, <2>4, <2>5, Quiet, SMTT(60)
  <2>7. QED
    BY <2>6, ZenonT(60)
<1>5. QED
  BY <1>3, <1>4, ZenonT(60)

\* DoReverse.
LEMMA DoReverseStep ==
  ASSUME LocalIInv, NEW r \in Rank, DoReverse(r)
  PROVE  \E kind, p, o, t : OneStep(r, kind, p, o, t)
<1>1. obj[r] \in Object /\ FlagsOf(obj[r])
  BY SMTT(60) DEF LocalIInv, PlanTypeOK, Flags, FlagsOf
<1>2. Call(r, "rev", NoPlan)
  BY ZenonT(60) DEF DoReverse
<1>3. CASE RevRings(r, obj[r])
  <2>1. PICK o : o = obj[r]
    BY SMTT(60)
  <2>2. Done(r, o, "shm")
    BY <1>3, <2>1, SMTT(60) DEF DoReverse
  <2>3. o \in Object /\ SameCore(o, obj[r])
    BY <1>1, <2>1, SMTT(60) DEF Object, SameCore
  <2>4. FlagsOf(o)
    BY <1>1, <2>1, SMTT(60) DEF FlagsOf, Object
  <2>5. ASSUME NEW st \in Common, ToldApart, ~Agreeing(r), Tracks(r, st)
        PROVE  "shm" = Transport(st, [kind |-> "rev", plan |-> NoPlan])
    BY <1>3, <1>1, <2>5, RingsCurrent, SMTT(60) DEF Transport, RevRings
  <2>6. OneStep(r, "rev", NoPlan, o, "shm")
    BY <1>2, <2>2, <2>3, <2>4, <2>5, Quiet, SMTT(60)
  <2>7. QED
    BY <2>6, ZenonT(60)
<1>4. CASE ~RevRings(r, obj[r])
  <2>1. PICK o : o = [obj[r] EXCEPT !.rdelegated = TRUE]
    BY ZenonT(60)
  <2>2. Done(r, o, "mpi")
    BY <1>4, <2>1, ZenonT(60) DEF DoReverse
  <2>3. o \in Object /\ SameCore(o, obj[r])
    BY <1>1, <2>1, ZenonT(60) DEF Object, SameCore
  <2>4. FlagsOf(o)
    BY <1>1, <2>1, ZenonT(60) DEF FlagsOf, Object
  <2>5. ASSUME NEW st \in Common, ToldApart, ~Agreeing(r), Tracks(r, st)
        PROVE  "mpi" = Transport(st, [kind |-> "rev", plan |-> NoPlan])
    BY <1>4, <1>1, <2>5, RingsCurrent, SMTT(60) DEF Transport, RevRings
  <2>6. OneStep(r, "rev", NoPlan, o, "mpi")
    BY <1>2, <2>2, <2>3, <2>4, <2>5, Quiet, ZenonT(60)
  <2>7. QED
    BY <2>6, ZenonT(60)
<1>5. QED
  BY <1>3, <1>4, SMTT(60)

\* DoPosts: on the rings nothing is pending, so the flag may be cleared.
LEMMA DoPostsStep ==
  ASSUME LocalIInv, NEW r \in Rank, DoPosts(r)
  PROVE  \E kind, p, o, t : OneStep(r, kind, p, o, t)
<1>1. obj[r] \in Object /\ FlagsOf(obj[r])
  BY DEF LocalIInv, PlanTypeOK, Flags, FlagsOf
<1>2. Call(r, "posts", NoPlan)
  BY ZenonT(60) DEF DoPosts
<1>3. CASE Rings(r, obj[r])
  <2>1. PICK o : o = [obj[r] EXCEPT !.delegated = FALSE]
    BY ZenonT(60)
  <2>2. Done(r, o, "shm")
    BY <1>3, <2>1, ZenonT(60) DEF DoPosts
  <2>3. o \in Object /\ SameCore(o, obj[r])
    BY <1>1, <2>1, ZenonT(60) DEF Object, SameCore
  <2>4. FlagsOf(o)
    BY <1>1, <2>1, ZenonT(60) DEF DoPosts, FlagsOf, Object
  <2>5. ASSUME NEW st \in Common, ToldApart, ~Agreeing(r), Tracks(r, st)
        PROVE  "shm" = Transport(st, [kind |-> "posts", plan |-> NoPlan])
    BY <1>3, <1>1, <2>5, RingsCurrent, SMTT(60) DEF Transport, Rings
  <2>6. OneStep(r, "posts", NoPlan, o, "shm")
    BY <1>2, <2>2, <2>3, <2>4, <2>5, Quiet, ZenonT(60)
  <2>7. QED
    BY <2>6, ZenonT(60)
<1>4. CASE ~Rings(r, obj[r])
  <2>1. PICK o : o = [obj[r] EXCEPT !.delegated = TRUE, !.pend = @ \cup {"fwd"}]
    BY ZenonT(60)
  <2>2. Done(r, o, "mpi")
    BY <1>4, <2>1, ZenonT(60) DEF DoPosts
  <2>3. o \in Object /\ SameCore(o, obj[r])
    BY <1>1, <2>1, ZenonT(60) DEF Object, SameCore
  <2>4. FlagsOf(o)
    BY <1>1, <2>1, ZenonT(60) DEF FlagsOf, Object
  <2>5. ASSUME NEW st \in Common, ToldApart, ~Agreeing(r), Tracks(r, st)
        PROVE  "mpi" = Transport(st, [kind |-> "posts", plan |-> NoPlan])
    BY <1>4, <1>1, <2>5, RingsCurrent, SMTT(60) DEF Transport, Rings
  <2>6. OneStep(r, "posts", NoPlan, o, "mpi")
    BY <1>2, <2>2, <2>3, <2>4, <2>5, Quiet, SMTT(60)
  <2>7. QED
    BY <2>6, ZenonT(60)
<1>5. QED
  BY <1>3, <1>4

\* DoReversePosts.
LEMMA DoReversePostsStep ==
  ASSUME LocalIInv, NEW r \in Rank, DoReversePosts(r)
  PROVE  \E kind, p, o, t : OneStep(r, kind, p, o, t)
<1>1. obj[r] \in Object /\ FlagsOf(obj[r])
  BY DEF LocalIInv, PlanTypeOK, Flags, FlagsOf
<1>2. Call(r, "rposts", NoPlan)
  BY ZenonT(60) DEF DoReversePosts
<1>3. CASE RevRings(r, obj[r])
  <2>1. PICK o : o = [obj[r] EXCEPT !.rdelegated = FALSE]
    BY ZenonT(60)
  <2>2. Done(r, o, "shm")
    BY <1>3, <2>1, ZenonT(60) DEF DoReversePosts
  <2>3. o \in Object /\ SameCore(o, obj[r])
    BY <1>1, <2>1, ZenonT(60) DEF Object, SameCore
  <2>4. FlagsOf(o)
    BY <1>1, <2>1, ZenonT(60) DEF DoReversePosts, FlagsOf, Object
  <2>5. ASSUME NEW st \in Common, ToldApart, ~Agreeing(r), Tracks(r, st)
        PROVE  "shm" = Transport(st, [kind |-> "rposts", plan |-> NoPlan])
    BY <1>3, <1>1, <2>5, RingsCurrent, SMTT(60) DEF Transport, RevRings
  <2>6. OneStep(r, "rposts", NoPlan, o, "shm")
    BY <1>2, <2>2, <2>3, <2>4, <2>5, Quiet, SMTT(60)
  <2>7. QED
    BY <2>6, ZenonT(60)
<1>4. CASE ~RevRings(r, obj[r])
  <2>1. PICK o : o = [obj[r] EXCEPT !.rdelegated = TRUE, !.pend = @ \cup {"rev"}]
    BY ZenonT(60)
  <2>2. Done(r, o, "mpi")
    BY <1>4, <2>1, ZenonT(60) DEF DoReversePosts
  <2>3. o \in Object /\ SameCore(o, obj[r])
    BY <1>1, <2>1, ZenonT(60) DEF Object, SameCore
  <2>4. FlagsOf(o)
    BY <1>1, <2>1, ZenonT(60) DEF FlagsOf, Object
  <2>5. ASSUME NEW st \in Common, ToldApart, ~Agreeing(r), Tracks(r, st)
        PROVE  "mpi" = Transport(st, [kind |-> "rposts", plan |-> NoPlan])
    BY <1>4, <1>1, <2>5, RingsCurrent, SMTT(60) DEF Transport, RevRings
  <2>6. OneStep(r, "rposts", NoPlan, o, "mpi")
    BY <1>2, <2>2, <2>3, <2>4, <2>5, Quiet, SMTT(60)
  <2>7. QED
    BY <2>6, ZenonT(60)
<1>5. QED
  BY <1>3, <1>4

\* The variable-size DoPosts.
LEMMA DoPostsVarStep ==
  ASSUME LocalIInv, NEW r \in Rank, DoPostsVar(r)
  PROVE  \E kind, p, o, t : OneStep(r, kind, p, o, t)
<1>1. obj[r] \in Object /\ FlagsOf(obj[r])
  BY DEF LocalIInv, PlanTypeOK, Flags, FlagsOf
<1>2. Call(r, "vposts", NoPlan)
  BY ZenonT(60) DEF DoPostsVar
<1>3. PICK o : o = [obj[r] EXCEPT !.delegated = TRUE, !.pend = @ \cup {"fwd"}]
  BY SMTT(60)
<1>4. Done(r, o, "mpi")
  BY <1>3, SMTT(60) DEF DoPostsVar
<1>5. o \in Object /\ SameCore(o, obj[r])
  BY <1>1, <1>3 DEF Object, SameCore
<1>6. FlagsOf(o)
  BY <1>1, <1>3 DEF FlagsOf, Object
<1>7. ASSUME NEW st \in Common, ToldApart, ~Agreeing(r), Tracks(r, st)
      PROVE  "mpi" = Transport(st, [kind |-> "vposts", plan |-> NoPlan])
  BY ZenonT(60) DEF Transport
<1>8. OneStep(r, "vposts", NoPlan, o, "mpi")
  BY <1>2, <1>4, <1>5, <1>6, <1>7, Quiet
<1>9. QED
  BY <1>8, ZenonT(60)

\* The variable-size DoReversePosts.
LEMMA DoReversePostsVarStep ==
  ASSUME LocalIInv, NEW r \in Rank, DoReversePostsVar(r)
  PROVE  \E kind, p, o, t : OneStep(r, kind, p, o, t)
<1>1. obj[r] \in Object /\ FlagsOf(obj[r])
  BY DEF LocalIInv, PlanTypeOK, Flags, FlagsOf
<1>2. Call(r, "vrposts", NoPlan)
  BY ZenonT(60) DEF DoReversePostsVar
<1>3. PICK o : o = [obj[r] EXCEPT !.rdelegated = TRUE, !.pend = @ \cup {"rev"}]
  OBVIOUS
<1>4. Done(r, o, "mpi")
  BY <1>3, SMTT(60) DEF DoReversePostsVar
<1>5. o \in Object /\ SameCore(o, obj[r])
  BY <1>1, <1>3 DEF Object, SameCore
<1>6. FlagsOf(o)
  BY <1>1, <1>3 DEF FlagsOf, Object
<1>7. ASSUME NEW st \in Common, ToldApart, ~Agreeing(r), Tracks(r, st)
      PROVE  "mpi" = Transport(st, [kind |-> "vrposts", plan |-> NoPlan])
  BY ZenonT(60) DEF Transport
<1>8. OneStep(r, "vrposts", NoPlan, o, "mpi")
  BY <1>2, <1>4, <1>5, <1>6, <1>7, Quiet
<1>9. QED
  BY <1>8, ZenonT(60)

\* DoWaits: without the flag there is nothing to wait for.
LEMMA DoWaitsStep ==
  ASSUME LocalIInv, NEW r \in Rank, DoWaits(r)
  PROVE  \E kind, p, o, t : OneStep(r, kind, p, o, t)
<1>1. obj[r] \in Object /\ FlagsOf(obj[r])
  BY DEF LocalIInv, PlanTypeOK, Flags, FlagsOf
<1>2. Call(r, "waits", NoPlan)
  BY ZenonT(60) DEF DoWaits
<1>3. CASE obj[r].delegated
  <2>1. PICK o : o = [obj[r] EXCEPT !.pend = @ \ {"fwd"}]
    BY ZenonT(60)
  <2>2. Done(r, o, "none")
    BY <1>3, <2>1, ZenonT(60) DEF DoWaits
  <2>3. o \in Object /\ SameCore(o, obj[r])
    BY <1>1, <2>1, ZenonT(60) DEF Object, SameCore
  <2>4. FlagsOf(o) /\ "fwd" \notin o.pend
    BY <1>1, <2>1, ZenonT(60) DEF FlagsOf, Object
  <2>5. ASSUME NEW st \in Common, ToldApart, ~Agreeing(r), Tracks(r, st)
        PROVE  "none" = Transport(st, [kind |-> "waits", plan |-> NoPlan])
    BY ZenonT(60) DEF Transport
  <2>6. OneStep(r, "waits", NoPlan, o, "none")
    BY <1>2, <2>2, <2>3, <2>4, <2>5, Quiet, SMTT(60)
  <2>7. QED
    BY <2>6, ZenonT(60)
<1>4. CASE ~obj[r].delegated
  <2>1. PICK o : o = obj[r]
    OBVIOUS
  <2>2. Done(r, o, "none")
    BY <1>4, <2>1, SMTT(60) DEF DoWaits
  <2>3. o \in Object /\ SameCore(o, obj[r])
    BY <1>1, <2>1 DEF Object, SameCore
  <2>4. FlagsOf(o) /\ "fwd" \notin o.pend
    BY <1>1, <1>4, <2>1, SMTT(60) DEF FlagsOf, Object
  <2>5. ASSUME NEW st \in Common, ToldApart, ~Agreeing(r), Tracks(r, st)
        PROVE  "none" = Transport(st, [kind |-> "waits", plan |-> NoPlan])
    BY SMTT(60) DEF Transport
  <2>6. OneStep(r, "waits", NoPlan, o, "none")
    BY <1>2, <2>2, <2>3, <2>4, <2>5, Quiet
  <2>7. QED
    BY <2>6, SMTT(60)
<1>5. QED
  BY <1>3, <1>4, ZenonT(60)

\* DoReverseWaits.
LEMMA DoReverseWaitsStep ==
  ASSUME LocalIInv, NEW r \in Rank, DoReverseWaits(r)
  PROVE  \E kind, p, o, t : OneStep(r, kind, p, o, t)
<1>1. obj[r] \in Object /\ FlagsOf(obj[r])
  BY DEF LocalIInv, PlanTypeOK, Flags, FlagsOf
<1>2. Call(r, "rwaits", NoPlan)
  BY ZenonT(60) DEF DoReverseWaits
<1>3. CASE obj[r].rdelegated
  <2>1. PICK o : o = [obj[r] EXCEPT !.pend = @ \ {"rev"}]
    BY ZenonT(60)
  <2>2. Done(r, o, "none")
    BY <1>3, <2>1, ZenonT(60) DEF DoReverseWaits
  <2>3. o \in Object /\ SameCore(o, obj[r])
    BY <1>1, <2>1, ZenonT(60) DEF Object, SameCore
  <2>4. FlagsOf(o) /\ "rev" \notin o.pend
    BY <1>1, <2>1, ZenonT(60) DEF FlagsOf, Object
  <2>5. ASSUME NEW st \in Common, ToldApart, ~Agreeing(r), Tracks(r, st)
        PROVE  "none" = Transport(st, [kind |-> "rwaits", plan |-> NoPlan])
    BY ZenonT(60) DEF Transport
  <2>6. OneStep(r, "rwaits", NoPlan, o, "none")
    BY <1>2, <2>2, <2>3, <2>4, <2>5, Quiet, ZenonT(60)
  <2>7. QED
    BY <2>6, ZenonT(60)
<1>4. CASE ~obj[r].rdelegated
  <2>1. PICK o : o = obj[r]
    OBVIOUS
  <2>2. Done(r, o, "none")
    BY <1>4, <2>1, SMTT(60) DEF DoReverseWaits
  <2>3. o \in Object /\ SameCore(o, obj[r])
    BY <1>1, <2>1 DEF Object, SameCore
  <2>4. FlagsOf(o) /\ "rev" \notin o.pend
    BY <1>1, <1>4, <2>1, SMTT(60) DEF FlagsOf, Object
  <2>5. ASSUME NEW st \in Common, ToldApart, ~Agreeing(r), Tracks(r, st)
        PROVE  "none" = Transport(st, [kind |-> "rwaits", plan |-> NoPlan])
    BY SMTT(60) DEF Transport
  <2>6. OneStep(r, "rwaits", NoPlan, o, "none")
    BY <1>2, <2>2, <2>3, <2>4, <2>5, Quiet, SMTT(60)
  <2>7. QED
    BY <2>6, SMTT(60)
<1>5. QED
  BY <1>3, <1>4, ZenonT(60)


\* A plan builder that is not overridden changes the parent's plan only.
LEMMA RebuildStep ==
  ASSUME LocalIInv, NEW r \in Rank, NEW p \in Plans, CreateFromSendsAndRecvs(r, p)
  PROVE  \E kind, q, o, t : OneStep(r, kind, q, o, t)
<1>1. obj[r] \in Object /\ FlagsOf(obj[r]) /\ p \in PlanOrNone
  BY ZenonT(60) DEF LocalIInv, PlanTypeOK, Flags, FlagsOf, PlanOrNone
<1>2. Call(r, "rebuild", p) /\ "rebuild" \in Calls
  BY ZenonT(60) DEF CreateFromSendsAndRecvs, Call
<1>3. PICK o : o = [obj[r] EXCEPT !.plan = p]
  BY ZenonT(60)
<1>4. Done(r, o, "none")
  BY <1>3, ZenonT(60) DEF CreateFromSendsAndRecvs
<1>5. o \in Object /\ FlagsOf(o)
  BY <1>1, <1>3, ZenonT(60) DEF Object, FlagsOf
<1>6. o.plan = p /\ o.sblk = obj[r].sblk /\ o.rings = obj[r].rings /\ o.fp = obj[r].fp
  BY <1>1, <1>3, ZenonT(60) DEF Object
<1>7. ASSUME NEW st \in Common, ~Agreeing(r), Tracks(r, st)
      PROVE  /\ InState(o, r, After(st, [kind |-> "rebuild", plan |-> p], FALSE))
             /\ "none" = Transport(st, [kind |-> "rebuild", plan |-> p])
  <2>1. After(st, [kind |-> "rebuild", plan |-> p], FALSE) = [st EXCEPT !.plan = p]
    BY ZenonT(60) DEF After, Build
  <2>2. PICK s : s = [st EXCEPT !.plan = p]
    BY ZenonT(60)
  <2>3. s.rings = st.rings /\ s.built = st.built /\ s.plan = p
    BY <2>2, ZenonT(60) DEF Common
  <2>4. InState(o, r, s)
    BY <1>2, <1>6, <1>7, <2>3, SMTT(60) DEF InState, Tracks
  <2>5. "none" = Transport(st, [kind |-> "rebuild", plan |-> p])
    BY ZenonT(60) DEF Transport
  <2>6. QED
    BY <2>1, <2>2, <2>4, <2>5, ZenonT(60)
<1>8. OneStep(r, "rebuild", p, o, "none")
  BY <1>1, <1>2, <1>4, <1>5, <1>7, ZenonT(60) DEF OneStep
<1>9. QED
  BY <1>8, ZenonT(60)

\* A clone has no fingerprint, and follows MPI until the next build.
LEMMA CloneStep ==
  ASSUME LocalIInv, NEW r \in Rank, Clone(r)
  PROVE  \E kind, q, o, t : OneStep(r, kind, q, o, t)
<1>1. obj[r] \in Object /\ NoPlan \in PlanOrNone /\ NoPrint \in Prints /\ <<>> \in Lists
  BY SMTT(60) DEF LocalIInv, PlanTypeOK, PlanOrNone, Prints, Lists
<1>2. Call(r, "clone", NoPlan)
  BY ZenonT(60) DEF Clone
<1>3. PICK o : o = [NewObj EXCEPT !.plan = obj[r].plan, !.sblk = obj[r].sblk, !.rings = obj[r].rings]
  BY ZenonT(60)
<1>4. Done(r, o, "none")
  BY <1>3, ZenonT(60) DEF Clone
<1>5. /\ o.plan = obj[r].plan /\ o.sblk = obj[r].sblk /\ o.rings = obj[r].rings
      /\ o.fp = NoPrint /\ o.pend = {}
  BY <1>3, ZenonT(60) DEF NewObj, NoPrint
<1>6. o \in Object
  <2>1. NewObj \in Object
    BY <1>1, ZenonT(60) DEF NewObj, Object, NoPrint
  <2>2. QED
    BY <1>1, <1>3, <2>1, ZenonT(60) DEF Object
<1>7. FlagsOf(o)
  BY <1>5, ZenonT(60) DEF FlagsOf
<1>8. ASSUME NEW st \in Common, ~Agreeing(r), Tracks(r, st)
      PROVE  /\ InState(o, r, After(st, [kind |-> "clone", plan |-> NoPlan], FALSE))
             /\ "none" = Transport(st, [kind |-> "clone", plan |-> NoPlan])
  <2>1. After(st, [kind |-> "clone", plan |-> NoPlan], FALSE) = [st EXCEPT !.built = {}]
    BY ZenonT(60) DEF After, Build
  <2>2. PICK s : s = [st EXCEPT !.built = {}]
    BY ZenonT(60)
  <2>3. s.rings = st.rings /\ s.built = {} /\ s.plan = st.plan
    BY <2>2, ZenonT(60) DEF Common
  <2>4. InState(o, r, s)
    BY <1>5, <1>8, <2>3, ZenonT(60) DEF InState, Tracks
  <2>5. "none" = Transport(st, [kind |-> "clone", plan |-> NoPlan])
    BY ZenonT(60) DEF Transport
  <2>6. QED
    BY <2>1, <2>2, <2>4, <2>5, ZenonT(60)
<1>9. OneStep(r, "clone", NoPlan, o, "none")
  BY <1>1, <1>2, <1>4, <1>6, <1>7, <1>8, <1>5, ZenonT(60) DEF OneStep
<1>10. QED
  BY <1>9, ZenonT(60)

-----------------------------------------------------------------------------
(* Building a plan *)

\* Rank r enters the agreement about plan p with b and object o.
BuildStep(r, kind, p, o, b) ==
  /\ kind \in {"sends", "recvs"} /\ p \in Plans /\ Call(r, kind, p)
  /\ o \in Object /\ b \in BOOLEAN
  /\ obj' = [obj EXCEPT ![r] = o]
  /\ agreed' = [agreed EXCEPT ![r] = Append(@, b)] /\ UNCHANGED <<pos, used>>
  /\ o.plan = p /\ (b => o.sblk = p[r])
  /\ o.rings = obj[r].rings /\ o.fp = obj[r].fp
  /\ o.delegated = obj[r].delegated /\ o.rdelegated = obj[r].rdelegated /\ o.pend = obj[r].pend

\* From sends.
LEMMA SendsStep ==
  ASSUME LocalIInv, NEW r \in Rank, NEW p \in Plans, CreateFromSends(r, p)
  PROVE  \E kind, o, b : BuildStep(r, kind, p, o, b)
<1>1. obj[r] \in Object
  BY ZenonT(60) DEF LocalIInv, PlanTypeOK
<1>2. PICK o, b : o = [obj[r] EXCEPT !.plan = p, !.sblk = p[r]] /\ b = Captures(p[r])
  BY ZenonT(60)
<1>3. b \in BOOLEAN
  BY <1>2, ZenonT(60) DEF Captures
<1>4. o \in Object
  <2>1. p \in PlanOrNone /\ p[r] \in Lists
    BY SMTT(60) DEF PlanOrNone, Lists
  <2>2. QED
    BY <1>1, <1>2, <2>1, ZenonT(60) DEF Object
<1>5. /\ o.plan = p /\ o.sblk = p[r] /\ o.rings = obj[r].rings /\ o.fp = obj[r].fp
      /\ o.delegated = obj[r].delegated /\ o.rdelegated = obj[r].rdelegated /\ o.pend = obj[r].pend
  BY <1>1, <1>2, ZenonT(60) DEF Object
<1>6. BuildStep(r, "sends", p, o, b)
  BY <1>2, <1>3, <1>4, <1>5, SMTT(60) DEF BuildStep, CreateFromSends
<1>7. QED
  BY <1>6, ZenonT(60)

\* From receives: a rank whose parent failed has captured nothing, and says so.
LEMMA RecvsStep ==
  ASSUME LocalIInv, NEW r \in Rank, NEW p \in Plans, NEW rc \in {0, -1}, CreateFromRecvs(r, p, rc)
  PROVE  \E kind, o, b : BuildStep(r, kind, p, o, b)
<1>1. obj[r] \in Object
  BY ZenonT(60) DEF LocalIInv, PlanTypeOK
<1>2. PICK o, b : /\ o = [obj[r] EXCEPT !.plan = p, !.sblk = IF rc = 0 THEN p[r] ELSE obj[r].sblk]
                  /\ b = (rc = 0 /\ Captures(p[r]))
  BY ZenonT(60)
<1>3. b \in BOOLEAN /\ (b => rc = 0)
  BY <1>2, ZenonT(60)
<1>4. o \in Object
  <2>1. p \in PlanOrNone /\ p[r] \in Lists
    BY SMTT(60) DEF PlanOrNone, Lists
  <2>2. QED
    BY <1>1, <1>2, <2>1, ZenonT(60) DEF Object
<1>5. /\ o.plan = p /\ (rc = 0 => o.sblk = p[r]) /\ o.rings = obj[r].rings /\ o.fp = obj[r].fp
      /\ o.delegated = obj[r].delegated /\ o.rdelegated = obj[r].rdelegated /\ o.pend = obj[r].pend
  BY <1>1, <1>2, ZenonT(60) DEF Object
<1>6. /\ Call(r, "recvs", p) /\ obj' = [obj EXCEPT ![r] = o]
      /\ agreed' = [agreed EXCEPT ![r] = Append(@, b)] /\ UNCHANGED <<pos, used>>
  <2>1. obj' = [obj EXCEPT ![r] = [obj[r] EXCEPT !.plan = p, !.sblk = IF rc = 0 THEN p[r] ELSE obj[r].sblk]]
    BY ZenonT(60) DEF CreateFromRecvs
  <2>2. agreed' = [agreed EXCEPT ![r] = Append(@, rc = 0 /\ Captures(p[r]))]
    BY ZenonT(60) DEF CreateFromRecvs
  <2>3. Call(r, "recvs", p) /\ UNCHANGED <<pos, used>>
    BY ZenonT(60) DEF CreateFromRecvs
  <2>4. QED
    BY <1>2, <2>1, <2>2, <2>3, ZenonT(60)
<1>7. BuildStep(r, "recvs", p, o, b)
  BY <1>3, <1>4, <1>5, <1>6, SMTT(60) DEF BuildStep
<1>8. QED
  BY <1>7, ZenonT(60)

\* Entering the agreement keeps the local invariant.
LEMMA BuildLocal ==
  ASSUME LocalIInv, NEW r \in Rank, NEW kind, NEW p, NEW o, NEW b, BuildStep(r, kind, p, o, b)
  PROVE  LocalIInv'
<1>1. PICK c : c = [kind |-> kind, plan |-> p]
  BY ZenonT(60)
<1>2. PlanTypeOK /\ WaitsComplete /\ \A q \in Rank : Progress(q) /\ Flags(q) /\ Captured(q)
  BY ZenonT(60) DEF LocalIInv
<1>3. p \in PlanOrNone /\ p \in Plans
  BY ZenonT(60) DEF BuildStep, PlanOrNone
<1>4. c \in CallSet /\ Calling(pos[r] + 1, c)
  BY <1>1, <1>2, <1>3, CallScript, SMTT(60) DEF BuildStep
<1>5. PlanTypeOK' /\ Enters(r, b) /\ obj'[r] = o
  BY <1>2, <1>3, EnterFacts, ZenonT(60) DEF BuildStep
<1>6. Build(c) /\ c.plan = p
  BY <1>1, ZenonT(60) DEF BuildStep, Build
<1>7. Progress(r)' /\ Agreeing(r)' /\ script'[pos'[r] + 1] = c
  BY <1>2, <1>4, <1>5, <1>6, EnterProgress, ZenonT(60)
<1>8. Others(r) /\ pos'[r] = pos[r] /\ Len(agreed'[r]) = pos[r] + 1 /\ agreed'[r][pos[r] + 1] = b
  BY <1>5, ZenonT(60) DEF Enters
<1>9. Flags(r)'
  BY <1>2, <1>5, ZenonT(60) DEF BuildStep, Flags
<1>10. Captured(r)'
  <2>1. obj'[r].plan = p /\ (b => obj'[r].sblk = p[r])
    BY <1>5, ZenonT(60) DEF BuildStep
  <2>2. obj'[r].plan = script'[pos'[r] + 1].plan /\ obj'[r].plan \in Plans
    BY <1>3, <1>6, <1>7, <2>1, SMTT(60)
  <2>3. agreed'[r][pos'[r] + 1] => obj'[r].sblk = obj'[r].plan[r]
    BY <1>8, <2>1, ZenonT(60)
  <2>4. QED
    BY <2>2, <2>3, ZenonT(60) DEF Captured
<1>11. \A q \in Rank : q # r => Progress(q)' /\ Flags(q)' /\ Captured(q)'
  BY <1>2, <1>4, <1>5, <1>8, OthersKept, ZenonT(60)
<1>12. WaitsComplete'
  <2>1. pos[r] \in Nat
    BY <1>2, ZenonT(60) DEF PlanTypeOK
  <2>2. pos'[r] # pos[r] + 1
    BY <1>8, <2>1, SMTT(60)
  <2>3. obj'[r].pend = obj[r].pend
    BY <1>5, ZenonT(60) DEF BuildStep
  <2>4. QED
    BY <1>2, <1>4, <1>5, <1>8, <2>2, <2>3, WaitsStep, ZenonT(60)
<1>13. QED
  BY <1>5, <1>7, <1>9, <1>10, <1>11, <1>12, SMTT(60) DEF LocalIInv

\* And the history.
LEMMA BuildHistory ==
  ASSUME LocalIInv, NEW h, History(h),
         NEW r \in Rank, NEW kind, NEW p, NEW o, NEW b, BuildStep(r, kind, p, o, b)
  PROVE  History(h)'
<1>1. PICK c : c = [kind |-> kind, plan |-> p]
  BY ZenonT(60)
<1>2. PlanTypeOK /\ \A q \in Rank : Progress(q)
  BY ZenonT(60) DEF LocalIInv
<1>3. p \in PlanOrNone
  BY ZenonT(60) DEF BuildStep, PlanOrNone
<1>4. c \in CallSet /\ Calling(pos[r] + 1, c)
  BY <1>1, <1>2, <1>3, CallScript, SMTT(60) DEF BuildStep
<1>5. PlanTypeOK' /\ Enters(r, b) /\ obj'[r] = o
  BY <1>2, <1>3, EnterFacts, ZenonT(60) DEF BuildStep
<1>6. obj'[r].rings = obj[r].rings /\ obj'[r].fp = obj[r].fp
  BY <1>5, ZenonT(60) DEF BuildStep
<1>7. QED
  BY <1>2, <1>4, <1>5, <1>6, EnterHistory, SMTT(60)

\* What holds when a rank leaves the agreement.
LEMMA AgreeCall ==
  ASSUME LocalIInv, NEW r \in Rank, agree(r)
  PROVE  /\ PlanTypeOK' /\ Completes(r, "none") /\ agreed' = agreed
         /\ script[pos[r] + 1] \in CallSet /\ Calling(pos[r] + 1, script[pos[r] + 1])
         /\ Build(script[pos[r] + 1])
         /\ \A q \in Rank : Len(agreed[q]) >= pos[r] + 1
         /\ obj[r].plan = script[pos[r] + 1].plan /\ obj[r].plan \in Plans
         /\ agreed[r][pos[r] + 1] => obj[r].sblk = obj[r].plan[r]
         /\ obj'[r] = [obj[r] EXCEPT !.rings = AllAgree(pos[r] + 1), !.fp = Fingerprint(obj[r].plan, r)]
<1>1. PlanTypeOK /\ Progress(r) /\ Captured(r) /\ Agreeing(r)
  BY ZenonT(60) DEF LocalIInv, agree
<1>2. /\ obj[r].plan = script[pos[r] + 1].plan /\ obj[r].plan \in Plans
      /\ agreed[r][pos[r] + 1] => obj[r].sblk = obj[r].plan[r]
  BY <1>1, ZenonT(60) DEF Captured
<1>3. Build(script[pos[r] + 1])
  BY <1>1, ZenonT(60) DEF Progress
<1>4. script[pos[r] + 1] \in CallSet
  <2>1. script \in Seq(CallSet) /\ pos[r] \in Nat /\ agreed[r] \in Seq(BOOLEAN)
    BY <1>1, ZenonT(60) DEF PlanTypeOK
  <2>2. pos[r] + 1 \in 1 .. Len(script)
    BY <1>1, <2>1, SMTT(60) DEF Progress, Agreeing
  <2>3. QED
    BY <2>1, <2>2, SMTT(60)
<1>5. /\ PlanTypeOK' /\ Completes(r, "none")
      /\ Calling(pos[r] + 1, script[pos[r] + 1]) /\ agreed' = agreed
      /\ \A q \in Rank : Len(agreed[q]) >= pos[r] + 1
      /\ obj'[r] = [obj[r] EXCEPT !.rings = AllAgree(pos[r] + 1), !.fp = Fingerprint(obj[r].plan, r)]
  BY <1>1, <1>2, AgreeFacts, ZenonT(60)
<1>6. QED
  BY <1>2, <1>3, <1>4, <1>5, ZenonT(60)

\* Leaving the agreement keeps the local invariant.
LEMMA AgreeLocal ==
  ASSUME LocalIInv, NEW r \in Rank, agree(r)
  PROVE  LocalIInv'
<1>1. PICK c : c = script[pos[r] + 1]
  BY ZenonT(60)
<1>2. PlanTypeOK /\ WaitsComplete /\ \A q \in Rank : Progress(q) /\ Flags(q) /\ Captured(q)
  BY ZenonT(60) DEF LocalIInv
<1>3. /\ PlanTypeOK' /\ Completes(r, "none") /\ c \in CallSet /\ Calling(pos[r] + 1, c) /\ Build(c)
      /\ \A q \in Rank : Len(agreed[q]) >= pos[r] + 1
  BY <1>1, AgreeCall, ZenonT(60)
<1>4. Others(r) /\ pos'[r] = pos[r] + 1 /\ Len(agreed'[r]) = pos[r] + 1
  BY <1>3, ZenonT(60) DEF Completes
<1>5. Progress(r)' /\ Captured(r)'
  BY <1>2, <1>3, CompleteProgress, SMTT(60)
<1>6. /\ obj'[r].delegated = obj[r].delegated /\ obj'[r].rdelegated = obj[r].rdelegated
      /\ obj'[r].pend = obj[r].pend
  <2>1. obj[r] \in Object
    BY <1>2, ZenonT(60) DEF PlanTypeOK
  <2>2. obj'[r] = [obj[r] EXCEPT !.rings = AllAgree(pos[r] + 1), !.fp = Fingerprint(obj[r].plan, r)]
    BY AgreeCall, ZenonT(60)
  <2>3. QED
    BY <2>1, <2>2, ZenonT(60) DEF Object
<1>7. Flags(r)'
  BY <1>2, <1>6, ZenonT(60) DEF Flags
<1>8. \A q \in Rank : q # r => Progress(q)' /\ Flags(q)' /\ Captured(q)'
  BY <1>2, <1>3, <1>4, OthersKept, ZenonT(60)
<1>9. WaitsComplete'
  <2>1. pos[r] \in Nat
    BY <1>2, ZenonT(60) DEF PlanTypeOK
  <2>2. pos'[r] # pos[r]
    BY <1>4, <2>1, SMTT(60)
  <2>3. c.kind # "waits" /\ c.kind # "rwaits"
    BY <1>3, ZenonT(60) DEF Build
  <2>4. QED
    BY <1>2, <1>3, <1>4, <2>2, <2>3, WaitsStep, SMTT(60)
<1>10. QED
  BY <1>3, <1>5, <1>7, <1>8, <1>9, SMTT(60) DEF LocalIInv

\* And adds the agreement to the history.
LEMMA AgreeHistory ==
  ASSUME LocalIInv, NEW h, History(h), NEW r \in Rank, agree(r)
  PROVE  \E h2 : History(h2)'
<1>1. PICK c : c = script[pos[r] + 1]
  BY ZenonT(60)
<1>2. PlanTypeOK /\ \A q \in Rank : Progress(q)
  BY ZenonT(60) DEF LocalIInv
<1>3. PICK i \in Nat : i = pos[r]
  BY <1>2, ZenonT(60) DEF PlanTypeOK
<1>4. /\ PlanTypeOK' /\ Completes(r, "none") /\ c \in CallSet /\ Calling(pos[r] + 1, c) /\ Build(c)
      /\ \A q \in Rank : Len(agreed[q]) >= pos[r] + 1
      /\ obj[r].plan = c.plan /\ c.plan \in Plans /\ agreed' = agreed
  BY <1>1, AgreeCall, ZenonT(60)
<1>5. agreed[r][i + 1] => obj[r].sblk = c.plan[r]
  BY <1>1, <1>3, <1>4, AgreeCall, ZenonT(60)
<1>6. PICK st : st = After(h[i], c, AllAgree(i + 1)')
  BY ZenonT(60)
<1>7. st = [rings |-> AllAgree(i + 1)', built |-> {c.plan}, plan |-> c.plan]
  <2>1. \A s, all : After(s, c, all) = [rings |-> all, built |-> {c.plan}, plan |-> c.plan]
    BY <1>4, ZenonT(60) DEF After, Build
  <2>2. QED
    BY <1>6, <2>1, ZenonT(60)
<1>8. AllAgree(i + 1)' = AllAgree(i + 1)
  BY <1>4, ZenonT(60) DEF AllAgree
<1>9. /\ obj'[r].rings = AllAgree(i + 1) /\ obj'[r].fp = Fingerprint(c.plan, r)
      /\ obj'[r].plan = c.plan /\ obj'[r].sblk = obj[r].sblk
  <2>1. obj[r] \in Object
    BY <1>2, ZenonT(60) DEF PlanTypeOK
  <2>2. obj'[r] = [obj[r] EXCEPT !.rings = AllAgree(pos[r] + 1), !.fp = Fingerprint(obj[r].plan, r)]
    BY AgreeCall, ZenonT(60)
  <2>3. QED
    BY <1>3, <1>4, <2>1, <2>2, SMTT(60) DEF Object
<1>10. AllAgree(i + 1) => agreed[r][i + 1]
  BY ZenonT(60) DEF AllAgree
<1>11. st.rings = AllAgree(i + 1) /\ st.built = {c.plan} /\ st.plan = c.plan
  BY <1>7, <1>8, ZenonT(60)
<1>12. Tracks(r, st)'
  <2>1. obj'[r].rings = st.rings
    BY <1>9, <1>11, ZenonT(60)
  <2>2. st.rings => obj'[r].sblk = c.plan[r]
    BY <1>5, <1>9, <1>10, <1>11, ZenonT(60)
  <2>3. QED
    BY <1>4, <1>9, <1>11, <2>1, <2>2, SMTT(60) DEF Tracks
<1>13. "none" = Transport(h[i], c)
  BY <1>4, ZenonT(60) DEF Transport, Build
<1>14. QED
  BY <1>2, <1>3, <1>4, <1>6, <1>12, <1>13, CompleteHistory, SMTT(60)

-----------------------------------------------------------------------------
(* The theorems *)

\* The calls leave the set-up of the segment alone: what is proved of it alone
\* holds of the two together.
THEOREM SetupUndisturbed == PlanSpec => Spec /\ []ActiveMeansAllMapped
<1>1. PlanInit => Init
  BY ZenonT(60) DEF PlanInit
<1>2. [PlanNext]_<<vars, planVars>> => [Next]_vars
  BY ZenonT(60) DEF PlanNext
<1>3. PlanSpec => Spec
  BY <1>1, <1>2, PTL DEF PlanSpec, Spec
<1>4. QED
  BY <1>3, ActiveMeansAllMappedHolds, PTL

\* Every call of a rank is one of three kinds of steps.
LEMMA CallCases ==
  ASSUME LocalIInv, PlanCall
  PROVE  \E r \in Rank : \/ agree(r)
                         \/ \E kind, p, o, t : OneStep(r, kind, p, o, t)
                         \/ \E kind, p, o, b : BuildStep(r, kind, p, o, b)
<1>1. PICK r \in Rank :
        \/ \E p \in Plans : \/ CreateFromSends(r, p)
                            \/ \E rc \in {0, -1} : CreateFromRecvs(r, p, rc)
                            \/ CreateFromSendsAndRecvs(r, p)
        \/ agree(r) \/ Clone(r)
        \/ Do(r) \/ DoReverse(r)
        \/ DoPosts(r) \/ DoPostsVar(r) \/ DoWaits(r)
        \/ DoReversePosts(r) \/ DoReversePostsVar(r) \/ DoReverseWaits(r)
  BY ZenonT(60) DEF PlanCall
<1>2. CASE \E p \in Plans : \/ CreateFromSends(r, p)
                            \/ \E rc \in {0, -1} : CreateFromRecvs(r, p, rc)
                            \/ CreateFromSendsAndRecvs(r, p)
  <2>1. PICK p \in Plans : \/ CreateFromSends(r, p)
                           \/ \E rc \in {0, -1} : CreateFromRecvs(r, p, rc)
                           \/ CreateFromSendsAndRecvs(r, p)
    BY <1>2, ZenonT(60)
  <2>2. CASE CreateFromSends(r, p)
    <3>1. \E kind, o, b : BuildStep(r, kind, p, o, b)
      BY <2>2, SendsStep, SMTT(60)
    <3>2. QED
      BY <3>1, ZenonT(60)
  <2>3. CASE \E rc \in {0, -1} : CreateFromRecvs(r, p, rc)
    <3>1. \E kind, o, b : BuildStep(r, kind, p, o, b)
      BY <2>3, RecvsStep, ZenonT(60)
    <3>2. QED
      BY <3>1, SMTT(60)
  <2>4. CASE CreateFromSendsAndRecvs(r, p)
    BY <2>4, RebuildStep, ZenonT(60)
  <2>5. QED
    BY <2>1, <2>2, <2>3, <2>4, SMTT(60)
<1>3. CASE Clone(r)
  BY <1>3, CloneStep, ZenonT(60)
<1>4. CASE Do(r)
  BY <1>4, DoStep, SMTT(60)
<1>5. CASE DoReverse(r)
  BY <1>5, DoReverseStep, SMTT(60)
<1>6. CASE DoPosts(r)
  BY <1>6, DoPostsStep
<1>7. CASE DoPostsVar(r)
  BY <1>7, DoPostsVarStep
<1>8. CASE DoWaits(r)
  BY <1>8, DoWaitsStep
<1>9. CASE DoReversePosts(r)
  BY <1>9, DoReversePostsStep
<1>10. CASE DoReversePostsVar(r)
  BY <1>10, DoReversePostsVarStep
<1>11. CASE DoReverseWaits(r)
  BY <1>11, DoReverseWaitsStep
<1>12. QED
  BY <1>1, <1>2, <1>3, <1>4, <1>5, <1>6, <1>7, <1>8, <1>9, <1>10, <1>11, SMTT(60)

\* New objects are in order.
LEMMA InitPlan ==
  ASSUME PlanInit
  PROVE  LocalIInv /\ \E h : History(h)
<1>1. NewObj \in Object
  BY DEF NewObj, Object, PlanOrNone, Lists, Prints, NoPrint
<1>2. \A r \in Rank : pos[r] = 0 /\ agreed[r] = <<>> /\ obj[r] = NewObj /\ used[r] = <<>>
  BY ZenonT(60) DEF PlanInit
<1>3. PlanTypeOK
  <2>1. /\ <<>> \in Seq(CallSet) /\ <<>> \in Seq(BOOLEAN) /\ <<>> \in Seq({"none", "shm", "mpi"})
    BY SMTT(60)
  <2>2. QED
    BY <1>1, <2>1, ZenonT(60) DEF PlanTypeOK, PlanInit
<1>4. \A r \in Rank : ~Agreeing(r)
  BY <1>2, SMTT(60) DEF Agreeing
<1>5. \A r \in Rank : Progress(r)
  BY <1>2, <1>4, SMTT(60) DEF Progress, PlanInit
<1>6. \A r \in Rank : Flags(r) /\ Captured(r)
  BY <1>2, <1>4, SMTT(60) DEF Flags, Captured, NewObj
<1>7. WaitsComplete
  BY <1>2, SMTT(60) DEF WaitsComplete
<1>8. PICK h : h = [k \in Nat |-> Fresh]
  BY ZenonT(60)
<1>9. h \in [Nat -> Common] /\ h[0] = Fresh
  BY <1>8, ZenonT(60) DEF Common, Fresh, PlanOrNone
<1>10. \A r \in Rank : Tracks(r, Fresh)
  <2>1. Fresh.rings = FALSE /\ Fresh.built = {} /\ Fresh.plan = NoPlan
    BY ZenonT(60) DEF Fresh
  <2>2. \A r \in Rank : obj[r].rings = FALSE /\ obj[r].fp = NoPrint /\ obj[r].plan = NoPlan
    BY <1>2, SMTT(60) DEF NewObj, NoPrint
  <2>3. QED
    BY <2>1, <2>2, ZenonT(60) DEF Tracks
<1>11. History(h)
  BY <1>2, <1>9, <1>10, SMTT(60) DEF History
<1>12. QED
  BY <1>3, <1>5, <1>6, <1>7, <1>11, SMTT(60) DEF LocalIInv

\* A step that leaves the objects alone keeps the invariant.
LEMMA PlanStutter ==
  ASSUME LocalIInv, UNCHANGED planVars
  PROVE  LocalIInv' /\ \A h : History(h) => History(h)'
<1>1. LocalIInv'
  BY ZenonT(60) DEF LocalIInv, PlanTypeOK, Progress, Flags, Captured, WaitsComplete, Agreeing, planVars
<1>2. ASSUME NEW h, History(h) PROVE History(h)'
  BY <1>2, ZenonT(60) DEF History, Tracks, AllAgree, Agreeing, planVars
<1>3. QED
  BY <1>1, <1>2, ZenonT(60)

\* The local invariant: types, progress, flags, captures and complete waits.
THEOREM LocalInvariant == PlanSpec => []LocalIInv
<1>1. PlanInit => LocalIInv
  BY InitPlan, ZenonT(60)
<1>2. LocalIInv /\ [PlanNext]_<<vars, planVars>> => LocalIInv'
  <2>. SUFFICES ASSUME LocalIInv, [PlanNext]_<<vars, planVars>> PROVE LocalIInv'
    BY ZenonT(60)
  <2>1. CASE PlanCall
    <3>1. PICK r \in Rank : \/ agree(r)
                            \/ \E kind, p, o, t : OneStep(r, kind, p, o, t)
                            \/ \E kind, p, o, b : BuildStep(r, kind, p, o, b)
      BY <2>1, CallCases, ZenonT(60)
    <3>2. QED
      BY <3>1, AgreeLocal, OneStepLocal, BuildLocal, SMTT(60)
  <2>2. CASE UNCHANGED planVars
    BY <2>2, PlanStutter, ZenonT(60)
  <2>3. QED
    BY <2>1, <2>2, ZenonT(60) DEF PlanNext
<1>3. QED
  BY <1>1, <1>2, PTL DEF PlanSpec

\* After DoWaits or DoReverseWaits nothing the parent class has posted is
\* pending, whatever plans and calls the application uses.
THEOREM WaitsAreComplete == PlanSpec => []WaitsComplete
<1>1. LocalIInv => WaitsComplete
  BY ZenonT(60) DEF LocalIInv
<1>2. QED
  BY <1>1, LocalInvariant, PTL

\* If fingerprints tell the plans apart, one history of states explains the
\* objects and the transports of all ranks.
THEOREM PlanInvariant == ASSUME ToldApart PROVE PlanSpec => []PlanIInv
<1>1. PlanInit => PlanIInv
  BY InitPlan, ZenonT(60) DEF PlanIInv
<1>2. PlanIInv /\ LocalIInv' /\ [PlanNext]_<<vars, planVars>> => PlanIInv'
  <2>. SUFFICES ASSUME PlanIInv, LocalIInv', [PlanNext]_<<vars, planVars>>
                PROVE  \E h : History(h)'
    BY ZenonT(60) DEF PlanIInv
  <2>1. LocalIInv
    BY ZenonT(60) DEF PlanIInv
  <2>2. PICK h : History(h)
    BY ZenonT(60) DEF PlanIInv
  <2>3. CASE PlanCall
    <3>1. PICK r \in Rank : \/ agree(r)
                            \/ \E kind, p, o, t : OneStep(r, kind, p, o, t)
                            \/ \E kind, p, o, b : BuildStep(r, kind, p, o, b)
      BY <2>1, <2>3, CallCases, ZenonT(60)
    <3>2. QED
      BY <2>1, <2>2, <3>1, AgreeHistory, OneStepHistory, BuildHistory, SMTT(60)
  <2>4. CASE UNCHANGED planVars
    BY <2>1, <2>2, <2>4, PlanStutter, SMTT(60)
  <2>5. QED
    BY <2>3, <2>4, ZenonT(60) DEF PlanNext
<1>3. QED
  BY <1>1, <1>2, LocalInvariant, PTL DEF PlanSpec

\* The transport of every exchange is the same on all ranks, for any number of
\* ranks and calls, any plans and any order of calls, if a plan that is rebuilt
\* behind the object's back has a fingerprint of its own.
THEOREM TransportIsUniform == ASSUME ToldApart PROVE PlanSpec => []TransportUniform
<1>1. PlanIInv => TransportUniform
  <2>1. SUFFICES ASSUME PlanIInv, NEW q \in Rank, NEW r \in Rank, NEW k \in 1 .. MaxCalls,
                        k <= pos[q], k <= pos[r]
                 PROVE  used[q][k] = used[r][k]
    BY SMTT(60) DEF TransportUniform
  <2>2. PICK h : History(h)
    BY <2>1, ZenonT(60) DEF PlanIInv
  <2>3. pos[q] \in Nat /\ pos[r] \in Nat
    BY <2>1, ZenonT(60) DEF PlanIInv, LocalIInv, PlanTypeOK
  <2>4. k \in 1 .. pos[q] /\ k \in 1 .. pos[r]
    BY <2>1, <2>3, CallAssumption, SMTT(60)
  <2>5. QED
    BY <2>2, <2>4, ZenonT(60) DEF History
<1>2. QED
  BY <1>1, PlanInvariant, PTL

\* Under the same condition a rank uses the rings only with the plan it has
\* captured.
THEOREM CaptureIsCurrent == ASSUME ToldApart PROVE PlanSpec => []CaptureCurrent
<1>1. PlanIInv => CaptureCurrent
  <2>1. SUFFICES ASSUME PlanIInv, NEW r \in Rank, ~Agreeing(r), Rings(r, obj[r])
                 PROVE  obj[r].sblk = obj[r].plan[r]
    BY ZenonT(60) DEF CaptureCurrent
  <2>2. PICK h : History(h)
    BY <2>1, ZenonT(60) DEF PlanIInv
  <2>3. pos[r] \in Nat /\ obj[r] \in Object
    BY <2>1, ZenonT(60) DEF PlanIInv, LocalIInv, PlanTypeOK
  <2>4. PICK st \in Common : Tracks(r, st)
    BY <2>2, <2>3, ZenonT(60) DEF History
  <2>5. Current(st)
    BY <2>1, <2>3, <2>4, RingsCurrent, ZenonT(60) DEF Rings
  <2>6. QED
    BY <2>1, <2>4, <2>5, ZenonT(60) DEF Current, Tracks
<1>2. QED
  BY <1>1, PlanInvariant, PTL
=============================================================================
