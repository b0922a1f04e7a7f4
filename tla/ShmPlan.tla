------------------------------ MODULE ShmPlan -------------------------------
(***************************************************************************)
(* How a ShmDistributor (mpi/shmcomm.cpp) picks its transport: the plan it *)
(* captures when Epetra builds one, the agreement of all ranks, the        *)
(* fingerprint that is to notice a plan rebuilt behind its back, and the   *)
(* flags that tell DoWaits whether the parent class has posts to complete. *)
(*                                                                         *)
(* It is composed with ShmInit: a rank has such an object only once its    *)
(* init_once has returned with the segment, while others are still in it.  *)
(*                                                                         *)
(* Every rank runs the same sequence of calls on its object, at its own    *)
(* pace.  The data moved is left out: ShmHalo and ShmDirect are about it.  *)
(* A plan is the list of destination PIDs of every rank.                   *)
(***************************************************************************)
EXTENDS ShmInit, Integers, Sequences, Functions

CONSTANTS
  HaloMode,  \* halo_mode
  Plans,     \* the plans the application may ask for
  Calls,     \* the kinds of calls it makes
  MaxCalls,  \* bound: calls per rank
  Lead       \* bound: calls a rank may be ahead of another

ASSUME PlanAssumption == \A p \in Plans : p \in [Rank -> Seq(-1 .. N - 1)]
ASSUME CallAssumption == MaxCalls \in Nat

VARIABLES
  script,  \* the calls, the same for all ranks
  pos,     \* calls each rank has completed
  agreed,  \* what each rank gave the Allreduce of agree(), per call
  obj,     \* the ShmDistributor of each rank
  used     \* the transport each rank used, per call

planVars == <<script, pos, agreed, obj, used>>

-----------------------------------------------------------------------------
(* The parent class: its plan, and posts it has not waited for *)

NoPlan == [r \in Rank |-> <<>>]
Targets(pids) == Range(pids) \ {-1}
NumSends(p, r) == Cardinality(Targets(p[r]) \ {r})
NumReceives(p, r) == Cardinality({q \in Rank \ {r} : r \in Targets(p[q])})
TotalReceiveLength(p, r) ==
  LET items(q) == Len(SelectSeq(p[q], LAMBDA d : d = r))
  IN FoldFunction(+, 0, [q \in Rank |-> items(q)])

-----------------------------------------------------------------------------
(* capture, the fingerprint, and the object *)

\* Each destination is one contiguous run of the PIDs, and all are ranks.
Captures(pids) ==
  /\ \A i \in 1 .. Len(pids) : pids[i] \in Rank
  /\ \A i, j, k \in 1 .. Len(pids) :
       (i < j /\ j < k /\ pids[i] = pids[k]) => pids[j] = pids[i]

Fingerprint(p, r) == <<NumSends(p, r), NumReceives(p, r), TotalReceiveLength(p, r)>>

\* A new object.  sblk is the list the blocks were captured from; the posts
\* flags default to delegated.
NewObj ==
  [plan |-> NoPlan, sblk |-> <<>>, rings |-> FALSE, fp |-> <<-1, -1, -1>>,
   delegated |-> TRUE, rdelegated |-> TRUE, pend |-> {}]

\* Mutant: the fingerprint is not compared.
PlanCurrentAlways(o, r) == TRUE
PlanCurrent(o, r) == o.fp = Fingerprint(o.plan, r)

\* Will a call of the given direction use the rings?
Rings(r, o) == o.rings /\ HaloMode >= 1 /\ PlanCurrent(o, r)
RevRings(r, o) == o.rings /\ HaloMode >= 2 /\ PlanCurrent(o, r)

PlanInit ==
  /\ Init
  /\ script = <<>>
  /\ pos = [r \in Rank |-> 0]
  /\ agreed = [r \in Rank |-> <<>>]
  /\ obj = [r \in Rank |-> NewObj]
  /\ used = [r \in Rank |-> <<>>]

-----------------------------------------------------------------------------
(* The calls.  Agreeing(r) holds while r is inside the Allreduce. *)

\* Epetra_MpiComm::CreateDistributor makes a ShmDistributor.
HasDistributor(r) == pc[r] = "done" /\ state[r] = "ACTIVE"

Agreeing(r) == Len(agreed[r]) > pos[r]

Call(r, kind, p) ==
  LET c == [kind |-> kind, plan |-> p]
  IN /\ HasDistributor(r)
     /\ kind \in Calls
     /\ ~Agreeing(r)
     /\ pos[r] < MaxCalls
     /\ \A q \in Rank : pos[r] < pos[q] + Lead
     /\ IF pos[r] < Len(script) THEN script[pos[r] + 1] = c /\ UNCHANGED script
                                ELSE script' = Append(script, c)

\* A call that is over in one step: object o after it, transport t.
Done(r, o, t) ==
  /\ pos' = [pos EXCEPT ![r] = @ + 1]
  /\ agreed' = [agreed EXCEPT ![r] = Append(@, FALSE)]
  /\ obj' = [obj EXCEPT ![r] = o]
  /\ used' = [used EXCEPT ![r] = Append(@, t)]

\* The parent builds plan p, capture looks at the PIDs, agree() begins.
CreateFromSends(r, p) ==
  /\ Call(r, "sends", p)
  /\ obj[r].pend = {}
  /\ agreed' = [agreed EXCEPT ![r] = Append(@, Captures(p[r]))]
  /\ obj' = [obj EXCEPT ![r] = [@ EXCEPT !.plan = p, !.sblk = p[r]]]
  /\ UNCHANGED <<pos, used>>

\* From receives: the parent may fail on a rank, which then captures nothing.
CreateFromRecvs(r, p, rc) ==
  /\ Call(r, "recvs", p)
  /\ obj[r].pend = {}
  /\ agreed' = [agreed EXCEPT ![r] = Append(@, rc = 0 /\ Captures(p[r]))]
  /\ obj' = [obj EXCEPT ![r] = [@ EXCEPT !.plan = p, !.sblk = IF rc = 0 THEN p[r] ELSE obj[r].sblk]]
  /\ UNCHANGED <<pos, used>>

\* Mutant: a rank uses the rings when its own plan allows it.
agreeAlone(r) ==
  /\ Agreeing(r)
  /\ LET k == pos[r] + 1
         o == obj[r]
     IN /\ \A q \in Rank : Len(agreed[q]) >= k
        /\ obj' = [obj EXCEPT ![r] =
             [o EXCEPT !.rings = agreed[r][k], !.fp = Fingerprint(o.plan, r)]]
  /\ pos' = [pos EXCEPT ![r] = @ + 1]
  /\ used' = [used EXCEPT ![r] = Append(@, "none")]
  /\ UNCHANGED <<script, agreed>>

\* The end of agree(): MIN over all ranks; then fingerprint_().
agree(r) ==
  /\ Agreeing(r)
  /\ LET k == pos[r] + 1
         o == obj[r]
     IN /\ \A q \in Rank : Len(agreed[q]) >= k
        /\ obj' = [obj EXCEPT ![r] =
             [o EXCEPT !.rings = \A q \in Rank : agreed[q][k], !.fp = Fingerprint(o.plan, r)]]
  /\ pos' = [pos EXCEPT ![r] = @ + 1]
  /\ used' = [used EXCEPT ![r] = Append(@, "none")]
  /\ UNCHANGED <<script, agreed>>

\* A plan builder of the parent that is not virtual: the overrides never run.
CreateFromSendsAndRecvs(r, p) ==
  /\ Call(r, "rebuild", p)
  /\ obj[r].pend = {}
  /\ Done(r, [obj[r] EXCEPT !.plan = p], "none")

\* The application goes on with a clone: the plan and the capture are copied,
\* the fingerprint and the flags are not.
Clone(r) ==
  LET o == obj[r]
  IN /\ Call(r, "clone", NoPlan)
     /\ o.pend = {}
     /\ Done(r, [NewObj EXCEPT !.plan = o.plan, !.sblk = o.sblk, !.rings = o.rings], "none")

\* The parent's Do and DoReverse call Posts and Waits virtually; the fallback
\* leaves the flag set and nothing pending.
Do(r) ==
  /\ Call(r, "do", NoPlan)
  /\ "fwd" \notin obj[r].pend
  /\ IF Rings(r, obj[r]) THEN Done(r, obj[r], "shm")
                         ELSE Done(r, [obj[r] EXCEPT !.delegated = TRUE], "mpi")

DoReverse(r) ==
  /\ Call(r, "rev", NoPlan)
  /\ "rev" \notin obj[r].pend
  /\ IF RevRings(r, obj[r]) THEN Done(r, obj[r], "shm")
                            ELSE Done(r, [obj[r] EXCEPT !.rdelegated = TRUE], "mpi")

\* On the rings DoPosts runs the whole exchange.
DoPosts(r) ==
  LET o == obj[r]
  IN /\ Call(r, "posts", NoPlan)
     /\ "fwd" \notin o.pend
     /\ IF Rings(r, o) THEN Done(r, [o EXCEPT !.delegated = FALSE], "shm")
        ELSE Done(r, [o EXCEPT !.delegated = TRUE, !.pend = @ \cup {"fwd"}], "mpi")

DoReversePosts(r) ==
  LET o == obj[r]
  IN /\ Call(r, "rposts", NoPlan)
     /\ "rev" \notin o.pend
     /\ IF RevRings(r, o) THEN Done(r, [o EXCEPT !.rdelegated = FALSE], "shm")
        ELSE Done(r, [o EXCEPT !.rdelegated = TRUE, !.pend = @ \cup {"rev"}], "mpi")

\* Mutant: the variable-size posts do not record that they went to the parent.
DoPostsVarUnmarked(r) ==
  /\ Call(r, "vposts", NoPlan)
  /\ "fwd" \notin obj[r].pend
  /\ Done(r, [obj[r] EXCEPT !.pend = @ \cup {"fwd"}], "mpi")

\* The variable-size forms always stay with the parent.
DoPostsVar(r) ==
  /\ Call(r, "vposts", NoPlan)
  /\ "fwd" \notin obj[r].pend
  /\ Done(r, [obj[r] EXCEPT !.delegated = TRUE, !.pend = @ \cup {"fwd"}], "mpi")

DoReversePostsVar(r) ==
  /\ Call(r, "vrposts", NoPlan)
  /\ "rev" \notin obj[r].pend
  /\ Done(r, [obj[r] EXCEPT !.rdelegated = TRUE, !.pend = @ \cup {"rev"}], "mpi")

DoWaits(r) ==
  LET o == obj[r]
  IN /\ Call(r, "waits", NoPlan)
     /\ Done(r, IF o.delegated THEN [o EXCEPT !.pend = @ \ {"fwd"}] ELSE o, "none")

DoReverseWaits(r) ==
  LET o == obj[r]
  IN /\ Call(r, "rwaits", NoPlan)
     /\ Done(r, IF o.rdelegated THEN [o EXCEPT !.pend = @ \ {"rev"}] ELSE o, "none")

PlanCall ==
  \E r \in Rank :
    \/ \E p \in Plans : \/ CreateFromSends(r, p)
                        \/ \E rc \in {0, -1} : CreateFromRecvs(r, p, rc)
                        \/ CreateFromSendsAndRecvs(r, p)
    \/ agree(r) \/ Clone(r)
    \/ Do(r) \/ DoReverse(r)
    \/ DoPosts(r) \/ DoPostsVar(r) \/ DoWaits(r)
    \/ DoReversePosts(r) \/ DoReversePostsVar(r) \/ DoReverseWaits(r)

PlanNext ==
  \/ Next /\ UNCHANGED planVars
  \/ PlanCall /\ UNCHANGED vars

PlanSpec == PlanInit /\ [][PlanNext]_<<vars, planVars>>

\* Every rank's init_once runs until it has returned.
PlanFairSpec == PlanSpec /\ \A r \in Rank : WF_vars(Step(r))

-----------------------------------------------------------------------------
\* What plan_current_ relies on when the application rebuilds plans behind the
\* object's back: two plans have different fingerprints on every rank.
ToldApart ==
  "rebuild" \in Calls =>
    \A p, q \in Plans, r \in Rank : Fingerprint(p, r) = Fingerprint(q, r) => p = q

\* The transport of every exchange is the same on all ranks ("rank-uniform by
\* agreement"): no rank rings while another is in MPI.
TransportUniform ==
  \A q, r \in Rank, k \in 1 .. MaxCalls :
    (k <= pos[q] /\ k <= pos[r]) => used[q][k] = used[r][k]

\* What a rank would send over the rings was captured from the plan the
\* receivers follow: a plan rebuilt by the parent alone is noticed.
CaptureCurrent ==
  \A r \in Rank : (~Agreeing(r) /\ Rings(r, obj[r])) => obj[r].sblk = obj[r].plan[r]

\* After DoWaits or DoReverseWaits nothing the parent has posted is pending:
\* a caller never gets a buffer with receives still in flight.
WaitsComplete ==
  \A r \in Rank : LET k == pos[r] IN k > 0 =>
    /\ script[k].kind = "waits" => "fwd" \notin obj[r].pend
    /\ script[k].kind = "rwaits" => "rev" \notin obj[r].pend
=============================================================================
