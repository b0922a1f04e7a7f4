--------------------------- MODULE ShmCollective ---------------------------
(***************************************************************************)
(* The shared-memory collective engine of mpi/shmcomm.cpp: shm_op with the *)
(* spin_until it blocks in, the reduction it calls and the PMPI fallback   *)
(* its callers take when it declines a call.                               *)
(*                                                                         *)
(* N processes ("ranks") share one segment: a slot per rank and one result *)
(* line.  Every shared-memory collective is one generation.  A rank fills  *)
(* and publishes its own slot; the writer of the call (rank 0, or the root *)
(* of a broadcast) waits for every slot, combines them and publishes the   *)
(* result line; the others snoop the result line.  There is no second      *)
(* barrier: the slots and the result line are reused by the next           *)
(* generation at once.                                                     *)
(*                                                                         *)
(* Payloads are abstracted.  shm_op copies and combines contributions and  *)
(* never looks at them, so a contribution is represented by the generation *)
(* it was written for, and a payload by the function that gives, for every *)
(* rank, the generation of the contribution of that rank that went into it *)
(* (0: none).                                                              *)
(***************************************************************************)
EXTENDS Naturals, Sequences

CONSTANTS
  N,           \* nranks
  Calls,       \* the collective calls the application may issue
  PayloadMax,  \* PAYLOAD_MAX
  Discipline,  \* how far the call streams of the ranks may differ (below)
  Timeouts,    \* spin_timeout_s > 0
  MaxGen,      \* bound: shared-memory collectives per rank
  MaxFallback  \* bound: PMPI fallbacks per rank

Rank == 0 .. N - 1

Op == {"SUM", "MAX", "MIN", "BCAST", "BARRIER"}

\* A call: opcode, element count, payload bytes and, for a broadcast, root.
CallType == [op : Op, count : Nat, bytes : Nat, root : Rank]

\* "conformant": MPI's rule, every rank issues the same calls in the same
\*    order.
\* "rooted": a library error path has forked the streams, but two ranks that
\*    issue calls of one opcode and count agree on the root and the bytes.
\* "free": any rank may issue any call at any time.
Disciplines == {"conformant", "rooted", "free"}

ASSUME NAssumption == N \in Nat /\ N >= 2
ASSUME CallsAssumption ==
  /\ Calls \subseteq CallType
  /\ \A c \in Calls : c.op = "BARRIER" => c.bytes = 0
ASSUME BoundsAssumption ==
  /\ PayloadMax \in Nat /\ MaxGen \in Nat /\ MaxFallback \in Nat
  /\ Discipline \in Disciplines
  /\ Timeouts \in BOOLEAN

VARIABLES
  pc,      \* where each rank is inside shm_op
  gen,     \* gen: the last generation each rank has entered
  issued,  \* the calls each rank has issued, one per generation
  fbAt,    \* the generation at which each PMPI fallback of a rank was issued
  slot,    \* seg->slot[r]
  result,  \* seg->result
  scan,    \* the loop index r of the writer's two loops over the slots
  acc,     \* the accumulator of combine()
  out,     \* the caller's output buffer
  fatal    \* why a rank called abort()

vars == <<pc, gen, issued, fbAt, slot, result, scan, acc, out, fatal>>

PC == {"idle", "fill", "publish", "wait", "combine", "store", "label",
       "announce", "copyout", "snoop", "verify", "copy", "pmpi", "aborted"}

Fatal == {"none", "ahead", "divergence", "mismatch", "timeout", "killed"}

Payload == [Rank -> Nat]
NoPayload == [q \in Rank |-> 0]

\* The call rank r is executing, and the rank that produces its result.
Cur(r) == issued[r][gen[r]]
Writer(c) == IF c.op = "BCAST" THEN c.root ELSE 0

\* The cross-check: does a slot or the result line carry call c?
SameLabel(x, c) == x.op = c.op /\ x.count = c.count

\* What a call of generation g must deliver.
Delivered(c, g) ==
  [q \in Rank |-> IF c.op = "BCAST" /\ q # c.root THEN 0 ELSE g]

Init ==
  /\ pc = [r \in Rank |-> "idle"]
  /\ gen = [r \in Rank |-> 0]
  /\ issued = [r \in Rank |-> <<>>]
  /\ fbAt = [r \in Rank |-> <<>>]
  /\ slot = [r \in Rank |-> [seq |-> 0, op |-> "SUM", count |-> 0, data |-> 0]]
  /\ result = [seq |-> 0, op |-> "SUM", count |-> 0, data |-> NoPayload]
  /\ scan = [r \in Rank |-> 0]
  /\ acc = [r \in Rank |-> NoPayload]
  /\ out = [r \in Rank |-> NoPayload]
  /\ fatal = [r \in Rank |-> "none"]

-----------------------------------------------------------------------------
(***************************************************************************)
(* The application: which call may rank r issue next, given what the       *)
(* others have issued?                                                     *)
(***************************************************************************)
Compatible(c, d) ==
  CASE Discipline = "conformant" -> c = d
    [] Discipline = "rooted" -> (c.op = d.op /\ c.count = d.count) => c = d
    [] Discipline = "free" -> TRUE

MayIssue(r, c) ==
  /\ \A q \in Rank : gen[q] > gen[r] => Compatible(issued[q][gen[r] + 1], c)
  /\ Discipline = "conformant" =>
       \A q \in Rank : Len(fbAt[q]) > Len(fbAt[r])
                         => fbAt[q][Len(fbAt[r]) + 1] # gen[r]

MayFallBack(r) ==
  Discipline = "conformant" =>
    \A q \in Rank : IF Len(fbAt[q]) > Len(fbAt[r])
                      THEN fbAt[q][Len(fbAt[r]) + 1] = gen[r]
                      ELSE gen[q] <= gen[r]

(***************************************************************************)
(* The steps of shm_op.                                                    *)
(***************************************************************************)
\* Lines 382-391: the call fits, it gets the next generation.
Enter(r, c) ==
  /\ pc[r] = "idle"
  /\ c.bytes <= PayloadMax
  /\ gen[r] < MaxGen
  /\ MayIssue(r, c)
  /\ gen' = [gen EXCEPT ![r] = @ + 1]
  /\ issued' = [issued EXCEPT ![r] = Append(@, c)]
  /\ pc' = [pc EXCEPT ![r] = "fill"]
  /\ UNCHANGED <<fbAt, slot, result, scan, acc, out, fatal>>

\* Lines 384-387 and the callers' fallback: a payload that is too large goes
\* through PMPI and leaves the segment and the generation alone.
FallBack(r, c) ==
  /\ pc[r] = "idle"
  /\ c.bytes > PayloadMax
  /\ Len(fbAt[r]) < MaxFallback
  /\ MayFallBack(r)
  /\ fbAt' = [fbAt EXCEPT ![r] = Append(@, gen[r])]
  /\ pc' = [pc EXCEPT ![r] = "pmpi"]
  /\ UNCHANGED <<gen, issued, slot, result, scan, acc, out, fatal>>

\* A collective of the MPI library: no rank leaves before all have entered.
PmpiReturn(r) ==
  /\ pc[r] = "pmpi"
  /\ \A q \in Rank : Len(fbAt[q]) >= Len(fbAt[r])
  /\ pc' = [pc EXCEPT ![r] = "idle"]
  /\ UNCHANGED <<gen, issued, fbAt, slot, result, scan, acc, out, fatal>>

\* Lines 392-396: the rank writes its contribution, opcode and count.
FillSlot(r) ==
  LET c == Cur(r)
      writes == c.bytes > 0 /\ (c.op # "BCAST" \/ r = c.root)
  IN /\ pc[r] = "fill"
     /\ slot' = [slot EXCEPT ![r] =
          [seq |-> @.seq, op |-> c.op, count |-> c.count,
           data |-> IF writes THEN gen[r] ELSE @.data]]
     /\ pc' = [pc EXCEPT ![r] = "publish"]
     /\ UNCHANGED <<gen, issued, fbAt, result, scan, acc, out, fatal>>

\* Lines 397-400: the release store of the sequence number.
PublishSlot(r) ==
  /\ pc[r] = "publish"
  /\ slot' = [slot EXCEPT ![r].seq = gen[r]]
  /\ scan' = [scan EXCEPT ![r] = 0]
  /\ pc' = [pc EXCEPT ![r] = IF r = Writer(Cur(r)) THEN "wait" ELSE "snoop"]
  /\ UNCHANGED <<gen, issued, fbAt, result, acc, out, fatal>>

Abort(r, why) ==
  /\ pc' = [pc EXCEPT ![r] = "aborted"]
  /\ fatal' = [fatal EXCEPT ![r] = why]
  /\ UNCHANGED <<gen, issued, fbAt, slot, result, scan, acc, out>>

\* Lines 411-422: where the writer's switch on the opcode leads.
AfterWait(c) ==
  CASE c.op = "BARRIER" -> "label"
    [] c.op = "BCAST" -> IF c.bytes > 0 THEN "store" ELSE "label"
    [] OTHER -> "combine"

\* The writer is done with slot scan[r]: the loop goes on or ends.
NextSlot(r, last) ==
  /\ scan' = [scan EXCEPT ![r] = IF last THEN 0 ELSE @ + 1]
  /\ pc' = [pc EXCEPT ![r] = IF last THEN AfterWait(Cur(r)) ELSE "wait"]
  /\ UNCHANGED <<gen, issued, fbAt, slot, result, acc, out, fatal>>

\* Mutants: the loop stops one slot early; the cross-check is missing.
WaitPeerShort(r) ==
  /\ pc[r] = "wait"
  /\ slot[scan[r]].seq = gen[r] /\ SameLabel(slot[scan[r]], Cur(r))
  /\ NextSlot(r, scan[r] = N - 2)

WaitPeerUnchecked(r) ==
  /\ pc[r] = "wait"
  /\ slot[scan[r]].seq = gen[r]
  /\ NextSlot(r, scan[r] = N - 1)

\* Lines 401-410: the writer waits for slot scan[r] and cross-checks it.
WaitPeer(r) ==
  /\ pc[r] = "wait"
  /\ slot[scan[r]].seq = gen[r] /\ SameLabel(slot[scan[r]], Cur(r))
  /\ NextSlot(r, scan[r] = N - 1)

PeerDiverged(r) ==
  /\ pc[r] = "wait"
  /\ slot[scan[r]].seq = gen[r] /\ ~SameLabel(slot[scan[r]], Cur(r))
  /\ Abort(r, "divergence")

\* combine, lines 354-371: the slots are read one after the other.
Combine(r) ==
  LET k == scan[r]
      last == k = N - 1
  IN /\ pc[r] = "combine"
     /\ acc' = [acc EXCEPT ![r][k] = IF Cur(r).bytes > 0 THEN slot[k].data ELSE 0]
     /\ scan' = [scan EXCEPT ![r] = IF last THEN 0 ELSE @ + 1]
     /\ pc' = [pc EXCEPT ![r] = IF last THEN "store" ELSE "combine"]
     /\ UNCHANGED <<gen, issued, fbAt, slot, result, out, fatal>>

\* Lines 370 and 413: the payload is copied into the result line.
StoreResult(r) ==
  LET c == Cur(r)
      payload == IF c.op = "BCAST" THEN Delivered(c, gen[r]) ELSE acc[r]
  IN /\ pc[r] = "store"
     /\ result' = [result EXCEPT !.data = IF c.bytes > 0 THEN payload ELSE @]
     /\ acc' = [acc EXCEPT ![r] = NoPayload]
     /\ pc' = [pc EXCEPT ![r] = "label"]
     /\ UNCHANGED <<gen, issued, fbAt, slot, scan, out, fatal>>

\* Lines 423-424.
LabelResult(r) ==
  /\ pc[r] = "label"
  /\ result' = [result EXCEPT !.op = Cur(r).op, !.count = Cur(r).count]
  /\ pc' = [pc EXCEPT ![r] = "announce"]
  /\ UNCHANGED <<gen, issued, fbAt, slot, scan, acc, out, fatal>>

\* Mutant: the result is published under the previous generation.
AnnounceOld(r) ==
  /\ pc[r] = "announce"
  /\ result' = [result EXCEPT !.seq = gen[r] - 1]
  /\ pc' = [pc EXCEPT ![r] = "copyout"]
  /\ UNCHANGED <<gen, issued, fbAt, slot, scan, acc, out, fatal>>

\* Line 425: the release store of the result's sequence number.
Announce(r) ==
  /\ pc[r] = "announce"
  /\ result' = [result EXCEPT !.seq = gen[r]]
  /\ pc' = [pc EXCEPT ![r] = "copyout"]
  /\ UNCHANGED <<gen, issued, fbAt, slot, scan, acc, out, fatal>>

\* Mutant: the writer forgets its own copy.
CopyOutNothing(r) ==
  /\ pc[r] = "copyout"
  /\ pc' = [pc EXCEPT ![r] = "idle"]
  /\ UNCHANGED <<gen, issued, fbAt, slot, result, scan, acc, out, fatal>>

\* Lines 426-427: the writer's own copy, taken after the result is public.
\* The root of a broadcast already has the payload in its buffer.
CopyOut(r) ==
  LET c == Cur(r)
      payload == IF c.op = "BCAST" THEN Delivered(c, gen[r]) ELSE result.data
  IN /\ pc[r] = "copyout"
     /\ out' = [out EXCEPT ![r] = IF c.bytes > 0 THEN payload ELSE @]
     /\ pc' = [pc EXCEPT ![r] = "idle"]
     /\ UNCHANGED <<gen, issued, fbAt, slot, result, scan, acc, fatal>>

\* Line 429: a non-writer sees its generation on the result line.
Snoop(r) ==
  /\ pc[r] = "snoop"
  /\ result.seq = gen[r]
  /\ pc' = [pc EXCEPT ![r] = "verify"]
  /\ UNCHANGED <<gen, issued, fbAt, slot, result, scan, acc, out, fatal>>

\* Lines 430-438: is this the result of the call the rank made?
Verify(r) ==
  /\ pc[r] = "verify"
  /\ IF SameLabel(result, Cur(r))
       THEN /\ pc' = [pc EXCEPT ![r] = "copy"]
            /\ UNCHANGED <<gen, issued, fbAt, slot, result, scan, acc, out, fatal>>
       ELSE Abort(r, "mismatch")

\* Lines 439-442.
CopyResult(r) ==
  /\ pc[r] = "copy"
  /\ out' = [out EXCEPT ![r] = IF Cur(r).bytes > 0 THEN result.data ELSE @]
  /\ pc' = [pc EXCEPT ![r] = "idle"]
  /\ UNCHANGED <<gen, issued, fbAt, slot, result, scan, acc, fatal>>

\* spin_until: the sequence number a rank is waiting for, lines 402 and 429.
Watched(r) == IF pc[r] = "wait" THEN slot[scan[r]].seq ELSE result.seq

\* Lines 345-350: the number has run ahead of the rank's generation.
RanAhead(r) ==
  /\ pc[r] \in {"wait", "snoop"}
  /\ Watched(r) > gen[r]
  /\ Abort(r, "ahead")

\* Mutant: only the writer's spin has a timeout.
SpinTimeoutWriter(r) ==
  /\ Timeouts
  /\ pc[r] = "wait"
  /\ Watched(r) < gen[r]
  /\ Abort(r, "timeout")

\* Lines 328-344: a spin that has not seen its generation may time out.
SpinTimeout(r) ==
  /\ Timeouts
  /\ pc[r] \in {"wait", "snoop"}
  /\ Watched(r) < gen[r]
  /\ Abort(r, "timeout")

\* External: when a rank aborts, mpirun terminates its siblings (line 228).
Killed(r) ==
  /\ pc[r] # "aborted"
  /\ \E q \in Rank : pc[q] = "aborted"
  /\ Abort(r, "killed")

\* The program is over: every rank has left the same stream, or is dead.
Terminated ==
  /\ \/ /\ \A r \in Rank : pc[r] = "idle"
        /\ \A q, r \in Rank : gen[q] = gen[r] /\ Len(fbAt[q]) = Len(fbAt[r])
     \/ \A r \in Rank : pc[r] = "aborted"
  /\ UNCHANGED vars

\* One step of rank r inside a collective.
Step(r) ==
  \/ PmpiReturn(r)
  \/ FillSlot(r) \/ PublishSlot(r)
  \/ WaitPeer(r) \/ PeerDiverged(r) \/ RanAhead(r)
  \/ Combine(r) \/ StoreResult(r) \/ LabelResult(r) \/ Announce(r)
  \/ CopyOut(r)
  \/ Snoop(r) \/ Verify(r) \/ CopyResult(r)

Next ==
  \/ \E r \in Rank : \E c \in Calls : Enter(r, c) \/ FallBack(r, c)
  \/ \E r \in Rank : Step(r) \/ SpinTimeout(r) \/ Killed(r)
  \/ Terminated

Spec == Init /\ [][Next]_vars

\* Scheduling: every rank is an operating-system process that keeps running,
\* so a step it can take is eventually taken.  Whether the application issues
\* another call is its own business, and aborts need no fairness.
FairSpec == Spec /\ \A r \in Rank : WF_vars(Step(r))

-----------------------------------------------------------------------------
(***************************************************************************)
(* Properties.                                                             *)
(***************************************************************************)
Outside == {"idle", "pmpi"}                    \* not inside shm_op
Producing == {"store", "label", "announce"}    \* writing the result line
Consuming == {"verify", "copy", "copyout"}     \* reading the result line

\* Every variable holds values of its type; the writer's loop index stays
\* inside the slot array.
TypeOK ==
  /\ pc \in [Rank -> PC]
  /\ gen \in [Rank -> Nat]
  /\ issued \in [Rank -> Seq(Calls)]
  /\ fbAt \in [Rank -> Seq(Nat)]
  /\ slot \in [Rank -> [seq : Nat, op : Op, count : Nat, data : Nat]]
  /\ result \in [seq : Nat, op : Op, count : Nat, data : Payload]
  /\ scan \in [Rank -> Rank]
  /\ acc \in [Rank -> Payload]
  /\ out \in [Rank -> Payload]
  /\ fatal \in [Rank -> Fatal]

\* Reuse of the result line is safe without a second barrier (lines 16-18):
\* while any rank still reads the result of its generation, the line belongs
\* to that generation and no writer of a later one has begun to overwrite it.
ResultLineReuse ==
  \A r \in Rank : pc[r] \in Consuming =>
    /\ result.seq = gen[r]
    /\ \A w \in Rank : pc[w] \notin Producing

\* A rank comes back from a collective with exactly the contributions that
\* this generation of this call must deliver: none missing, none of an
\* earlier or a later generation, and never those of another call.
ResultCorrect ==
  \A r \in Rank :
    pc[r] \in Outside /\ gen[r] > 0 /\ Cur(r).bytes > 0
      => out[r] = Delivered(Cur(r), gen[r])

\* No silent cross-op consumption (lines 25-29): a rank returns from its g-th
\* collective only if every rank has issued that very call as its g-th.
ReturnsAgreed ==
  \A r \in Rank : pc[r] \in Outside /\ gen[r] > 0 =>
    \A q \in Rank : gen[q] >= gen[r] /\ issued[q][gen[r]] = Cur(r)

\* The cross-checks at their full strength (lines 25-29): even when any rank may
\* issue any call at any time, a rank returns from its g-th collective only if
\* every rank has issued a g-th one with the same opcode and count.
ReturnsLabelled ==
  \A r \in Rank : pc[r] \in Outside /\ gen[r] > 0 =>
    \A q \in Rank : /\ gen[q] >= gen[r]
                    /\ issued[q][gen[r]].op = Cur(r).op
                    /\ issued[q][gen[r]].count = Cur(r).count

\* One global generation counter is correct for a conformant application
\* (lines 22-23): none of the protocol checks ever fires.
NoFatal == \A r \in Rank : fatal[r] \in {"none", "timeout", "killed"}

\* A collective that every rank issues completes on every rank: the ranks of
\* a conformant application never wait for each other in a circle.
EveryCallReturns ==
  \A r \in Rank :
    (\A q \in Rank : gen[q] >= gen[r]) /\ pc[r] \notin Outside
      ~> pc[r] \in Outside

\* Spins abort instead of hanging (lines 29-31): even when the streams have
\* diverged, a rank inside shm_op gets out of it or is aborted.
NoSilentHang ==
  \A r \in Rank :
    pc[r] \notin Outside ~> pc[r] \in Outside \union {"aborted"}

\* For a conformant application, with no timeout cutting it short, the engine
\* implements the collectives of Collective: every internal step is invisible
\* and every return is a return the abstract specification allows.
Completed == [r \in Rank |-> IF pc[r] \in Outside THEN gen[r] ELSE gen[r] - 1]
Abstract == INSTANCE Collective WITH returned <- Completed
Implements == Abstract!Spec

-----------------------------------------------------------------------------
(***************************************************************************)
(* The inductive invariant behind the properties.  It holds whenever the   *)
(* streams are "conformant" or "rooted".                                   *)
(***************************************************************************)
Filling == {"fill", "publish"}
Writing == {"wait", "combine"} \union Producing

\* A slot carries the number of its rank's generation, or of the one before
\* while the rank is refilling it, and once published it matches the call.
SlotInv ==
  \A r \in Rank :
    /\ gen[r] = Len(issued[r])
    /\ slot[r].seq = gen[r] \/ slot[r].seq + 1 = gen[r]
    /\ pc[r] \in Filling => slot[r].seq + 1 = gen[r]
    /\ pc[r] \notin Filling \union {"aborted"} => slot[r].seq = gen[r]
    /\ (slot[r].seq = gen[r] \/ pc[r] = "publish") /\ gen[r] > 0 =>
         /\ SameLabel(slot[r], Cur(r))
         /\ Cur(r).bytes > 0 /\ Cur(r).op # "BCAST" => slot[r].data = gen[r]

\* The ranks are never more than one generation apart, and the phase of a
\* rank says on which side of the last announced result it is.
LockStep ==
  \A r \in Rank :
    /\ result.seq <= slot[r].seq
    /\ gen[r] <= result.seq + 1
    /\ pc[r] \in Outside \union Consuming => gen[r] = result.seq
    /\ pc[r] \in Filling \union Writing => gen[r] = result.seq + 1
    /\ pc[r] \in Consuming \union {"snoop"} => gen[r] > 0

\* The slots a writer has checked are at its generation and carry its call.
WriterInv ==
  \A r \in Rank :
    /\ pc[r] \in Writing \union {"copyout"} => r = Writer(Cur(r))
    /\ \A k \in Rank :
         \/ pc[r] = "wait" /\ k < scan[r]
         \/ pc[r] \in {"combine"} \union Producing
         => slot[k].seq = gen[r] /\ SameLabel(slot[k], Cur(r))

\* What the writer has gathered and stored so far.
GatherInv ==
  \A r \in Rank :
    /\ pc[r] = "combine" =>
         /\ Cur(r).op \notin {"BCAST", "BARRIER"}
         /\ \A k \in Rank : k < scan[r] /\ Cur(r).bytes > 0 => acc[r][k] = gen[r]
    /\ pc[r] = "store" /\ Cur(r).bytes > 0 /\ Cur(r).op # "BCAST" =>
         acc[r] = Delivered(Cur(r), gen[r])
    /\ pc[r] \in {"label", "announce"} /\ Cur(r).bytes > 0 =>
         result.data = Delivered(Cur(r), gen[r])
    /\ pc[r] = "announce" => SameLabel(result, Cur(r))

\* The result line is the result of the call of every rank that has not gone
\* beyond it.
ResultInv ==
  \A r \in Rank : gen[r] = result.seq /\ gen[r] > 0 =>
    /\ SameLabel(result, Cur(r))
    /\ Cur(r).bytes > 0 => result.data = Delivered(Cur(r), gen[r])

\* The streams of two ranks agree as far as the discipline says, and fully at
\* the generation announced last.
Agreement ==
  /\ \A q, r \in Rank : \A g \in 1 .. gen[r] :
       g <= gen[q] => Compatible(issued[q][g], issued[r][g])
  /\ result.seq > 0 =>
       \A q, r \in Rank : issued[q][result.seq] = issued[r][result.seq]

\* Which aborts can happen.
AbortInv ==
  \A r \in Rank :
    /\ fatal[r] \notin {"ahead", "mismatch"}
    /\ fatal[r] = "divergence" => Discipline # "conformant"
    /\ fatal[r] = "none" => pc[r] # "aborted"

IInv ==
  /\ TypeOK /\ SlotInv /\ LockStep /\ WriterInv /\ GatherInv /\ ResultInv
  /\ Agreement /\ ResultCorrect /\ AbortInv
=============================================================================
