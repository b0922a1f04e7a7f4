------------------------ MODULE ShmCollectiveProofs ------------------------
(***************************************************************************)
(* Proofs about ShmCollective, for every number of ranks, every set of     *)
(* calls and every bound, with or without timeouts.  What a call delivers  *)
(* is proved for streams that are conformant or rooted; that types and     *)
(* labels are kept is proved for streams of any kind.                      *)
(***************************************************************************)
EXTENDS ShmCollective, TLAPS

\* The pcs of a rank that is executing a call.
InOp == Filling \union Writing \union Consuming \union {"snoop"}

\* The ranks are the numbers below N.
LEMMA RankFacts ==
  /\ 0 \in Rank
  /\ \A r \in Rank : r \in Nat /\ r < N
  /\ \A r \in Rank : r # N - 1 => r + 1 \in Rank
BY NAssumption DEF Rank

\* Streams that are not free agree on every call with the same label.
LEMMA CompatibleFacts ==
  ASSUME Discipline # "free"
  PROVE  /\ \A c, d \in Calls : Compatible(c, d) => Compatible(d, c)
         /\ \A c \in Calls : Compatible(c, c)
         /\ \A c, d \in Calls :
              Compatible(c, d) /\ c.op = d.op /\ c.count = d.count => c = d
         /\ Discipline = "conformant" =>
              \A c, d \in Calls : Compatible(c, d) => c = d
<1>1. CASE Discipline = "conformant"
  BY <1>1, ZenonT(60) DEF Compatible
<1>2. CASE Discipline = "rooted"
  BY <1>2, ZenonT(60) DEF Compatible
<1> QED
  BY <1>1, <1>2, BoundsAssumption, ZenonT(60) DEF Disciplines

\* A rank inside shm_op has a current call.
LEMMA CurrentCall ==
  ASSUME IInv, NEW r \in Rank, pc[r] \in InOp
  PROVE  /\ gen[r] \in Nat /\ gen[r] > 0
         /\ Cur(r) \in Calls
         /\ Cur(r) \in CallType
<1>1. gen[r] \in Nat /\ gen[r] > 0 /\ gen[r] = Len(issued[r])
  BY SMTT(60) DEF IInv, TypeOK, SlotInv, LockStep, InOp
<1>2. issued[r] \in Seq(Calls)
  BY ZenonT(60) DEF IInv, TypeOK
<1>3. Cur(r) \in Calls
  BY <1>1, <1>2 DEF Cur
<1> QED
  BY <1>1, <1>3, CallsAssumption, ZenonT(60)

\* A slot that has reached generation result.seq + 1 shows the call its rank
\* is executing.
LEMMA ReadySlot ==
  ASSUME IInv, NEW k \in Rank, slot[k].seq = result.seq + 1
  PROVE  /\ gen[k] = slot[k].seq
         /\ gen[k] > 0
         /\ SameLabel(slot[k], Cur(k))
         /\ Cur(k) \in Calls
         /\ Cur(k).bytes > 0 /\ Cur(k).op # "BCAST" => slot[k].data = gen[k]
<1>1. /\ gen[k] \in Nat /\ result.seq \in Nat /\ slot[k].seq \in Nat
      /\ issued[k] \in Seq(Calls)
  BY ZenonT(60) DEF IInv, TypeOK
<1>2. gen[k] = slot[k].seq /\ gen[k] > 0
  BY <1>1 DEF IInv, SlotInv, LockStep
<1>3. gen[k] = Len(issued[k])
  BY ZenonT(60) DEF IInv, SlotInv
<1> QED
  BY <1>1, <1>2, <1>3 DEF IInv, SlotInv, Cur

\* Once a writer has checked a slot, its owner is at the same generation and
\* executes the same call.
LEMMA CheckedPeer ==
  ASSUME Discipline # "free", IInv, NEW r \in Rank, NEW k \in Rank,
         pc[r] \in Writing,
         slot[k].seq = gen[r], SameLabel(slot[k], Cur(r))
  PROVE  gen[k] = gen[r] /\ Cur(k) = Cur(r)
<1>1. gen[r] = result.seq + 1
  BY ZenonT(60) DEF IInv, LockStep
<1>2. /\ gen[k] = gen[r]
      /\ SameLabel(slot[k], Cur(k))
      /\ Cur(k) \in Calls
  BY <1>1, ReadySlot, ZenonT(60)
<1>3. Cur(r) \in Calls /\ gen[r] \in Nat /\ gen[r] > 0
  BY CurrentCall, ZenonT(60) DEF InOp
<1>4. Compatible(Cur(k), Cur(r))
  BY <1>2, <1>3 DEF IInv, Agreement, Cur
<1>5. Cur(k).op = Cur(r).op /\ Cur(k).count = Cur(r).count
  BY <1>2, ZenonT(60) DEF SameLabel
<1> QED
  BY <1>2, <1>3, <1>4, <1>5, CompatibleFacts, ZenonT(60)

\* While a writer combines, stores or labels, every rank is at its generation
\* and executes its call, and nobody else is a writer.
LEMMA SoleWriter ==
  ASSUME Discipline # "free", IInv, NEW r \in Rank,
         pc[r] \in {"combine"} \union Producing
  PROVE  /\ \A k \in Rank :
              /\ gen[k] = gen[r] /\ Cur(k) = Cur(r)
              /\ slot[k].seq = gen[r]
              /\ pc[k] \notin Outside \union Consuming \union Filling
         /\ \A w \in Rank : pc[w] \in Writing => w = r
         /\ gen[r] = result.seq + 1
<1>0. pc[r] \in Writing
  BY ZenonT(60) DEF Writing
<1>1. gen[r] = result.seq + 1 /\ gen[r] \in Nat /\ result.seq \in Nat
  BY <1>0, ZenonT(60) DEF IInv, LockStep, TypeOK
<1>2. ASSUME NEW k \in Rank
      PROVE  /\ gen[k] = gen[r] /\ Cur(k) = Cur(r)
             /\ slot[k].seq = gen[r]
  <2>1. slot[k].seq = gen[r] /\ SameLabel(slot[k], Cur(r))
    BY ZenonT(60) DEF IInv, WriterInv
  <2> QED
    BY <2>1, <1>0, CheckedPeer, ZenonT(60)
<1>3. ASSUME NEW k \in Rank
      PROVE  pc[k] \notin Outside \union Consuming \union Filling
  BY <1>1, <1>2 DEF IInv, LockStep, SlotInv
<1>4. ASSUME NEW w \in Rank, pc[w] \in Writing PROVE w = r
  BY <1>0, <1>2, <1>4, ZenonT(60) DEF IInv, WriterInv
<1> QED
  BY <1>1, <1>2, <1>3, <1>4, ZenonT(60)

\* A sequence with one more element.
LEMMA AppendFacts ==
  ASSUME NEW S, NEW s \in Seq(S), NEW e \in S
  PROVE  /\ Append(s, e) \in Seq(S)
         /\ Len(Append(s, e)) = Len(s) + 1
         /\ Append(s, e)[Len(s) + 1] = e
         /\ \A i \in 1 .. Len(s) : Append(s, e)[i] = s[i]
OBVIOUS

\* A rank enters a collective.
LEMMA EnterInv ==
  ASSUME Discipline # "free", IInv, NEW r \in Rank,
         NEW c \in Calls, Enter(r, c)
  PROVE  IInv'
<1>1. /\ pc[r] = "idle" /\ MayIssue(r, c)
      /\ gen' = [gen EXCEPT ![r] = @ + 1]
      /\ issued' = [issued EXCEPT ![r] = Append(@, c)]
      /\ pc' = [pc EXCEPT ![r] = "fill"]
      /\ UNCHANGED <<fbAt, slot, result, scan, acc, out, fatal>>
  BY ZenonT(60) DEF Enter
<1>2. TypeOK /\ SlotInv /\ LockStep /\ Agreement
  BY ZenonT(60) DEF IInv
<1>3. /\ \A q \in Rank : /\ gen[q] \in Nat /\ gen[q] = Len(issued[q])
                         /\ issued[q] \in Seq(Calls) /\ pc[q] \in PC
      /\ result.seq \in Nat /\ \A q \in Rank : slot[q].seq \in Nat
  BY <1>2, ZenonT(60) DEF TypeOK, SlotInv
<1>4. gen[r] = result.seq /\ slot[r].seq = gen[r]
  BY <1>1, <1>2, ZenonT(60) DEF SlotInv, LockStep, Outside, Filling
<1>5. /\ Append(issued[r], c) \in Seq(Calls)
      /\ Len(Append(issued[r], c)) = gen[r] + 1
      /\ Append(issued[r], c)[gen[r] + 1] = c
      /\ \A i \in 1 .. gen[r] : Append(issued[r], c)[i] = issued[r][i]
  BY <1>3, AppendFacts
<1>6. /\ gen'[r] = gen[r] + 1 /\ issued'[r] = Append(issued[r], c)
      /\ pc'[r] = "fill"
      /\ \A q \in Rank \ {r} :
           gen'[q] = gen[q] /\ issued'[q] = issued[q] /\ pc'[q] = pc[q]
  BY <1>1, <1>2, ZenonT(60) DEF TypeOK
<1>7. TypeOK'
  BY <1>1, <1>2, <1>5, SMTT(60) DEF TypeOK, PC
<1>8. SlotInv'
  <2>1. ASSUME NEW q \in Rank, q # r PROVE Cur(q)' = Cur(q)
    BY <1>6, <2>1, ZenonT(60) DEF Cur
  <2> QED
    BY <1>1, <1>2, <1>3, <1>4, <1>5, <1>6, <2>1, SMTT(60) DEF SlotInv, SameLabel, Filling
<1>9. LockStep'
  BY <1>1, <1>2, <1>3, <1>4, <1>6
  DEF LockStep, Outside, Consuming, Filling, Writing, Producing
<1>10. WriterInv' /\ GatherInv' /\ ResultCorrect'
  <2>1. WriterInv /\ GatherInv /\ ResultCorrect
    BY ZenonT(60) DEF IInv
  <2>2. ASSUME NEW q \in Rank, q # r PROVE Cur(q)' = Cur(q)
    BY <1>6, <2>2 DEF Cur
  <2>3. WriterInv'
    BY <1>1, <1>6, <2>1, <2>2, SMTT(60) DEF WriterInv, SameLabel, Writing, Producing
  <2>4. GatherInv'
    BY <1>1, <1>6, <2>1, <2>2 DEF GatherInv, SameLabel, Producing
  <2>5. ResultCorrect'
    BY <1>1, <1>6, <2>1, <2>2, ZenonT(60) DEF ResultCorrect, Outside
  <2> QED
    BY <2>3, <2>4, <2>5, ZenonT(60)
<1>11. ResultInv'
  <2>1. gen'[r] # result'.seq
    BY <1>1, <1>3, <1>4, <1>6, SMTT(60)
  <2>2. ASSUME NEW q \in Rank, q # r PROVE Cur(q)' = Cur(q)
    BY <1>6, <2>2 DEF Cur
  <2> QED
    BY <1>1, <1>6, <2>1, <2>2, SMTT(60) DEF IInv, ResultInv, SameLabel
<1>12. Agreement'
  <2>1. ASSUME NEW q \in Rank, NEW t \in Rank, NEW g \in 1 .. gen'[t],
               g <= gen'[q]
        PROVE  Compatible(issued'[q][g], issued'[t][g])
    <3>1. CASE q = r /\ t = r
      <4>1. issued'[r][g] \in Calls
        BY <1>3, <1>5, <1>6, <3>1, SMTT(60)
      <4> QED
        BY <4>1, <3>1, CompatibleFacts, ZenonT(60)
    <3>2. CASE q = r /\ t # r /\ g = gen[r] + 1
      <4>1. gen[t] > gen[r] /\ issued[t][g] \in Calls
        BY <1>3, <1>6, <3>2
      <4>2. Compatible(issued[t][g], c)
        BY <1>1, <3>2, <4>1, ZenonT(60) DEF MayIssue
      <4> QED
        BY <1>5, <1>6, <3>2, <4>1, <4>2, CompatibleFacts, SMTT(60)
    <3>3. CASE q # r /\ t = r /\ g = gen[r] + 1
      <4>1. gen[q] > gen[r]
        BY <1>3, <1>6, <2>1, <3>3
      <4>2. Compatible(issued[q][g], c)
        BY <1>1, <3>3, <4>1, ZenonT(60) DEF MayIssue
      <4> QED
        BY <1>5, <1>6, <3>3, <4>2, ZenonT(60)
    <3>4. CASE g # gen[r] + 1 \/ (q # r /\ t # r)
      <4>1. g \in 1 .. gen[t] /\ g <= gen[q]
        BY <1>3, <1>6, <2>1, <3>4, SMTT(60)
      <4>a. g \in 1 .. gen[q]
        BY <1>3, <4>1
      <4>2. issued'[q][g] = issued[q][g] /\ issued'[t][g] = issued[t][g]
        BY <1>5, <1>6, <4>1, <4>a, ZenonT(60)
      <4> QED
        BY <1>2, <4>1, <4>2, ZenonT(60) DEF Agreement
    <3> QED
      BY <3>1, <3>2, <3>3, <3>4, ZenonT(60)
  <2>2. ASSUME result.seq > 0, NEW q \in Rank
        PROVE  issued'[q][result.seq] = issued[q][result.seq]
    BY <1>3, <1>4, <1>5, <1>6, <2>2, SMTT(60)
  <2>3. result'.seq = result.seq
    BY <1>1, ZenonT(60)
  <2> QED
    BY <1>2, <2>1, <2>2, <2>3 DEF Agreement
<1>13. AbortInv'
  BY <1>1, <1>2, ZenonT(60) DEF IInv, AbortInv, TypeOK
<1> QED
  BY <1>7, <1>8, <1>9, <1>10, <1>11, <1>12, <1>13, ZenonT(60) DEF IInv

-----------------------------------------------------------------------------
(***************************************************************************)
(* Steps that leave the streams alone.                                     *)
(***************************************************************************)
LEMMA SameCalls ==
  ASSUME UNCHANGED <<gen, issued>>, NEW q \in Rank
  PROVE  /\ Cur(q)' = Cur(q)
         /\ Writer(Cur(q))' = Writer(Cur(q))
         /\ Delivered(Cur(q), gen[q])' = Delivered(Cur(q), gen[q])
BY ZenonT(60) DEF Cur, Writer, Delivered

\* A step that leaves the calls alone leaves their agreement alone.
LEMMA SameStreams ==
  ASSUME Agreement, UNCHANGED <<gen, issued>>, result'.seq = result.seq
  PROVE  Agreement'
BY ZenonT(60) DEF Agreement

\* Steps that move one rank to a place outside the writer's code and leave
\* the segment alone.
LEMMA PcMove ==
  ASSUME IInv, NEW r \in Rank,
         NEW x \in {"idle", "pmpi", "verify", "copy", "aborted"},
         pc' = [pc EXCEPT ![r] = x],
         UNCHANGED <<gen, issued, slot, result, scan, acc>>,
         x \in Outside \union Consuming => gen[r] = result.seq,
         x \in Consuming => gen[r] > 0,
         x # "aborted" => slot[r].seq = gen[r],
         pc[r] # "publish" \/ x = "aborted"
  PROVE  /\ pc' \in [Rank -> PC]
         /\ SlotInv' /\ LockStep' /\ WriterInv' /\ GatherInv' /\ ResultInv'
         /\ Agreement'
<1>1. TypeOK /\ SlotInv /\ LockStep /\ WriterInv /\ GatherInv /\ ResultInv
  BY ZenonT(60) DEF IInv
<1>2. /\ pc' \in [Rank -> PC]
      /\ pc'[r] = x /\ \A q \in Rank \ {r} : pc'[q] = pc[q]
  BY <1>1, ZenonT(60) DEF TypeOK, PC
<1>3. \A q \in Rank : /\ Cur(q)' = Cur(q)
                      /\ Writer(Cur(q))' = Writer(Cur(q))
                      /\ Delivered(Cur(q), gen[q])' = Delivered(Cur(q), gen[q])
  BY SameCalls, ZenonT(60)
<1>4. SlotInv'
  BY <1>1, <1>2, <1>3 DEF SlotInv, SameLabel, Filling
<1>5. LockStep'
  BY <1>1, <1>2, ZenonT(60) DEF LockStep, Outside, Consuming, Filling, Writing, Producing
<1>6. WriterInv'
  BY <1>1, <1>2, <1>3 DEF WriterInv, SameLabel, Writing, Producing
<1>7. GatherInv'
  BY <1>1, <1>2, <1>3 DEF GatherInv, SameLabel
<1>8. ResultInv'
  BY <1>1, <1>3, ZenonT(60) DEF ResultInv, SameLabel
<1>9. Agreement'
  BY SameStreams, ZenonT(60) DEF IInv
<1> QED
  BY <1>2, <1>4, <1>5, <1>6, <1>7, <1>8, <1>9, ZenonT(60)

\* Steps of a rank inside shm_op that neither leave it nor give up.
LEMMA SameReturns ==
  ASSUME IInv, NEW r \in Rank, NEW x, pc' = [pc EXCEPT ![r] = x],
         x \in Outside => pc[r] \in Outside,
         UNCHANGED <<gen, issued, out>>
  PROVE  ResultCorrect'
<1>1. pc \in [Rank -> PC] /\ ResultCorrect
  BY ZenonT(60) DEF IInv, TypeOK
<1>2. \A q \in Rank : pc'[q] \in Outside => pc[q] \in Outside
  BY <1>1, ZenonT(60)
<1>3. \A q \in Rank : /\ Cur(q)' = Cur(q)
                      /\ Delivered(Cur(q), gen[q])' = Delivered(Cur(q), gen[q])
  BY SameCalls, ZenonT(60)
<1> QED
  BY <1>1, <1>2, <1>3, ZenonT(60) DEF ResultCorrect

\* A step that does not stop a rank keeps what is known of stopped ranks.
LEMMA SameFatal ==
  ASSUME IInv, NEW r \in Rank, NEW x, x # "aborted",
         pc' = [pc EXCEPT ![r] = x], UNCHANGED fatal
  PROVE  AbortInv'
BY ZenonT(60) DEF IInv, TypeOK, AbortInv

\* A call the engine does not take goes to the MPI library.
LEMMA FallBackInv ==
  ASSUME Discipline # "free", IInv, NEW r \in Rank, NEW c \in Calls,
         FallBack(r, c)
  PROVE  IInv'
<1>1. /\ pc[r] = "idle" /\ pc' = [pc EXCEPT ![r] = "pmpi"]
      /\ fbAt' = [fbAt EXCEPT ![r] = Append(@, gen[r])]
      /\ UNCHANGED <<gen, issued, slot, result, scan, acc, out, fatal>>
  BY ZenonT(60) DEF FallBack
<1>2. gen[r] = result.seq /\ slot[r].seq = gen[r]
  BY <1>1, ZenonT(60) DEF IInv, LockStep, SlotInv, Outside, Filling
<1>3. /\ pc' \in [Rank -> PC]
      /\ SlotInv' /\ LockStep' /\ WriterInv' /\ GatherInv' /\ ResultInv'
      /\ Agreement'
  BY <1>1, <1>2, PcMove, ZenonT(60) DEF Consuming
<1>4. ResultCorrect'
  BY <1>1, SameReturns, ZenonT(60) DEF Outside
<1>5. AbortInv'
  BY <1>1, SameFatal, ZenonT(60)
<1>6. TypeOK'
  BY <1>1, <1>3, SMTT(60) DEF IInv, TypeOK
<1> QED
  BY <1>3, <1>4, <1>5, <1>6, ZenonT(60) DEF IInv

\* The MPI library returns.
LEMMA PmpiReturnInv ==
  ASSUME Discipline # "free", IInv, NEW r \in Rank, PmpiReturn(r)
  PROVE  IInv'
<1>1. /\ pc[r] = "pmpi" /\ pc' = [pc EXCEPT ![r] = "idle"]
      /\ UNCHANGED <<gen, issued, fbAt, slot, result, scan, acc, out, fatal>>
  BY ZenonT(60) DEF PmpiReturn
<1>2. gen[r] = result.seq /\ slot[r].seq = gen[r]
  BY <1>1, ZenonT(60) DEF IInv, LockStep, SlotInv, Outside, Consuming, Filling
<1>3. /\ pc' \in [Rank -> PC]
      /\ SlotInv' /\ LockStep' /\ WriterInv' /\ GatherInv' /\ ResultInv'
      /\ Agreement'
  BY <1>1, <1>2, PcMove, ZenonT(60) DEF Consuming
<1>4. ResultCorrect'
  BY <1>1, SameReturns, ZenonT(60) DEF Outside
<1>5. AbortInv'
  BY <1>1, SameFatal, ZenonT(60)
<1>6. TypeOK'
  BY <1>1, <1>3, ZenonT(60) DEF IInv, TypeOK
<1> QED
  BY <1>3, <1>4, <1>5, <1>6, ZenonT(60) DEF IInv

\* A rank fills its slot.
LEMMA FillSlotInv ==
  ASSUME Discipline # "free", IInv, NEW r \in Rank, FillSlot(r)
  PROVE  IInv'
<1> DEFINE v == IF Cur(r).bytes > 0 /\ (Cur(r).op # "BCAST" \/ r = Cur(r).root)
                THEN gen[r] ELSE slot[r].data
<1>1. /\ pc[r] = "fill" /\ pc' = [pc EXCEPT ![r] = "publish"]
      /\ slot' = [slot EXCEPT ![r] = [seq |-> slot[r].seq, op |-> Cur(r).op,
                                      count |-> Cur(r).count, data |-> v]]
      /\ UNCHANGED <<gen, issued, fbAt, result, scan, acc, out, fatal>>
  BY ZenonT(60) DEF FillSlot, IInv, TypeOK
<1>2. TypeOK /\ SlotInv /\ LockStep /\ WriterInv /\ GatherInv /\ ResultInv
  BY ZenonT(60) DEF IInv
<1>3. gen[r] \in Nat /\ gen[r] > 0 /\ Cur(r) \in Calls /\ Cur(r) \in CallType
  BY <1>1, CurrentCall, ZenonT(60) DEF InOp, Filling
<1>4. \A q \in Rank : /\ Cur(q)' = Cur(q)
                      /\ Writer(Cur(q))' = Writer(Cur(q))
                      /\ Delivered(Cur(q), gen[q])' = Delivered(Cur(q), gen[q])
  BY <1>1, SameCalls, ZenonT(60)
<1>5. slot[r].seq = result.seq /\ gen[r] = result.seq + 1
  BY <1>1, <1>2, SMTT(60) DEF SlotInv, LockStep, TypeOK, Filling
<1>6. \A w, k \in Rank :
        \/ pc[w] = "wait" /\ k < scan[w]
        \/ pc[w] \in {"combine"} \union Producing
        => k # r
  <2>1. \A w \in Rank : pc[w] \in Writing => gen[w] = result.seq + 1
    BY <1>2, ZenonT(60) DEF LockStep
  <2>2. result.seq \in Nat
    BY <1>2, ZenonT(60) DEF TypeOK
  <2> QED
    BY <1>2, <1>5, <2>1, <2>2 DEF WriterInv, Writing
<1>7. /\ v \in Nat
      /\ Cur(r).bytes > 0 /\ Cur(r).op # "BCAST" => v = gen[r]
  BY <1>2, <1>3, ZenonT(60) DEF TypeOK
<1> HIDE DEF v
<1>8. /\ slot'[r].seq = slot[r].seq /\ SameLabel(slot'[r], Cur(r))
      /\ slot'[r].data = v /\ pc'[r] = "publish"
      /\ \A q \in Rank \ {r} : slot'[q] = slot[q] /\ pc'[q] = pc[q]
  BY <1>1, <1>2, ZenonT(60) DEF TypeOK, SameLabel
<1>9. TypeOK'
  BY <1>1, <1>2, <1>3, <1>7, ZenonT(60) DEF TypeOK, PC, CallType
<1>10. SlotInv'
  BY <1>1, <1>2, <1>4, <1>7, <1>8 DEF SlotInv, SameLabel, Filling
<1>11. LockStep'
  BY <1>1, <1>2, <1>8, ZenonT(60) DEF LockStep, Outside, Consuming, Filling, Writing, Producing
<1>12. WriterInv'
  BY <1>1, <1>2, <1>4, <1>6, <1>8 DEF WriterInv, SameLabel, Writing, Producing
<1>13. GatherInv'
  BY <1>1, <1>2, <1>4, <1>8 DEF GatherInv, SameLabel
<1>14. ResultInv'
  BY <1>1, <1>2, <1>4, ZenonT(60) DEF ResultInv, SameLabel
<1>15. Agreement' /\ ResultCorrect' /\ AbortInv'
  BY <1>1, SameStreams, SameReturns, SameFatal, ZenonT(60) DEF IInv, Outside
<1> QED
  BY <1>9, <1>10, <1>11, <1>12, <1>13, <1>14, <1>15, ZenonT(60) DEF IInv

\* A rank publishes its slot.
LEMMA PublishSlotInv ==
  ASSUME Discipline # "free", IInv, NEW r \in Rank, PublishSlot(r)
  PROVE  IInv'
<1> DEFINE x == IF r = Writer(Cur(r)) THEN "wait" ELSE "snoop"
<1>1. /\ pc[r] = "publish" /\ pc' = [pc EXCEPT ![r] = x]
      /\ slot' = [slot EXCEPT ![r].seq = gen[r]]
      /\ scan' = [scan EXCEPT ![r] = 0]
      /\ UNCHANGED <<gen, issued, fbAt, result, acc, out, fatal>>
  BY ZenonT(60) DEF PublishSlot
<1>2. TypeOK /\ SlotInv /\ LockStep /\ WriterInv /\ GatherInv /\ ResultInv
  BY DEF IInv
<1>3. gen[r] \in Nat /\ gen[r] > 0 /\ Cur(r) \in Calls /\ Cur(r) \in CallType
  BY <1>1, CurrentCall, ZenonT(60) DEF InOp, Filling
<1>4. \A q \in Rank : /\ Cur(q)' = Cur(q)
                      /\ Writer(Cur(q))' = Writer(Cur(q))
                      /\ Delivered(Cur(q), gen[q])' = Delivered(Cur(q), gen[q])
  BY <1>1, SameCalls, ZenonT(60)
<1>5. slot[r].seq = result.seq /\ gen[r] = result.seq + 1
  BY <1>1, <1>2, SMTT(60) DEF SlotInv, LockStep, TypeOK, Filling
<1>6. \A w, k \in Rank :
        \/ pc[w] = "wait" /\ k < scan[w]
        \/ pc[w] \in {"combine"} \union Producing
        => k # r
  <2>1. \A w \in Rank : pc[w] \in Writing => gen[w] = result.seq + 1
    BY <1>2 DEF LockStep
  <2>2. result.seq \in Nat
    BY <1>2 DEF TypeOK
  <2> QED
    BY <1>2, <1>5, <2>1, <2>2 DEF WriterInv, Writing
<1>7. x \in {"wait", "snoop"} /\ (x = "wait" => r = Writer(Cur(r)))
  BY ZenonT(60)
<1> HIDE DEF x
<1>8. /\ slot'[r].seq = gen[r] /\ slot'[r].op = slot[r].op
      /\ slot'[r].count = slot[r].count /\ slot'[r].data = slot[r].data
      /\ pc'[r] = x /\ scan'[r] = 0
      /\ \A q \in Rank \ {r} :
           slot'[q] = slot[q] /\ pc'[q] = pc[q] /\ scan'[q] = scan[q]
  BY <1>1, <1>2, ZenonT(60) DEF TypeOK
<1>9. TypeOK'
  BY <1>1, <1>2, <1>3, <1>7, RankFacts, ZenonT(60) DEF TypeOK, PC
<1>10. SlotInv'
  <2>1. \A q \in Rank : pc[q] # "aborted" \/ q # r
    BY <1>1, ZenonT(60)
  <2> QED
    BY <1>1, <1>2, <1>3, <1>4, <1>7, <1>8 DEF SlotInv, SameLabel, Filling
<1>11. LockStep'
  <2>1. result.seq \in Nat
    BY <1>2 DEF TypeOK
  <2> QED
    BY <1>1, <1>2, <1>3, <1>5, <1>7, <1>8, <2>1, SMTT(60)
    DEF LockStep, Outside, Consuming, Filling, Writing, Producing
<1>12. WriterInv'
  <2>1. \A k \in Rank : ~(k < 0)
    BY RankFacts
  <2> QED
    BY <1>1, <1>2, <1>4, <1>6, <1>7, <1>8, <2>1
    DEF WriterInv, SameLabel, Writing, Producing
<1>13. GatherInv'
  BY <1>1, <1>2, <1>4, <1>7, <1>8 DEF GatherInv, SameLabel
<1>14. ResultInv'
  BY <1>1, <1>2, <1>4, ZenonT(60) DEF ResultInv, SameLabel
<1>15. Agreement' /\ ResultCorrect' /\ AbortInv'
  BY <1>1, <1>7, SameStreams, SameReturns, SameFatal, ZenonT(60) DEF IInv, Outside
<1> QED
  BY <1>9, <1>10, <1>11, <1>12, <1>13, <1>14, <1>15 DEF IInv

\* The writer waits for the slot of another rank.
LEMMA WaitPeerInv ==
  ASSUME Discipline # "free", IInv, NEW r \in Rank, WaitPeer(r)
  PROVE  IInv'
<1>1. /\ pc[r] = "wait"
      /\ slot[scan[r]].seq = gen[r] /\ SameLabel(slot[scan[r]], Cur(r))
      /\ scan' = [scan EXCEPT ![r] = IF scan[r] = N - 1 THEN 0 ELSE @ + 1]
      /\ pc' = [pc EXCEPT ![r] = IF scan[r] = N - 1 THEN AfterWait(Cur(r))
                                                     ELSE "wait"]
      /\ UNCHANGED <<gen, issued, fbAt, slot, result, acc, out, fatal>>
  BY ZenonT(60) DEF WaitPeer, NextSlot
<1>2. /\ gen[r] \in Nat /\ gen[r] > 0 /\ Cur(r) \in Calls /\ Cur(r) \in CallType
  BY <1>1, CurrentCall, ZenonT(60) DEF InOp, Writing
<1>3. TypeOK /\ SlotInv /\ LockStep /\ WriterInv /\ GatherInv /\ AbortInv
  BY ZenonT(60) DEF IInv
<1>4. /\ pc \in [Rank -> PC] /\ scan \in [Rank -> Rank]
      /\ \A w \in Rank : Cur(w)' = Cur(w)
  BY <1>1, <1>3, ZenonT(60) DEF TypeOK, Cur
<1>5. /\ pc'[r] \in {"wait", "label", "store", "combine"}
      /\ scan'[r] \in Rank
      /\ pc'[r] = "wait" => scan[r] # N - 1 /\ scan'[r] = scan[r] + 1
      /\ pc'[r] # "wait" => scan[r] = N - 1 /\ scan'[r] = 0
      /\ pc'[r] = "combine" => Cur(r).op \notin {"BCAST", "BARRIER"}
      /\ pc'[r] = "store" => Cur(r).op = "BCAST"
      /\ pc'[r] = "label" => ~(Cur(r).bytes > 0)
  <2>1. scan[r] \in Rank
    BY <1>4, ZenonT(60)
  <2>2. CASE scan[r] # N - 1
    BY <1>1, <1>4, <2>1, <2>2, RankFacts, ZenonT(60)
  <2>3. CASE scan[r] = N - 1
    <3>1. pc'[r] = AfterWait(Cur(r)) /\ scan'[r] = 0
      BY <1>1, <1>4, <2>3, ZenonT(60)
    <3>2. CASE Cur(r).op = "BARRIER"
      BY <1>2, <2>3, <3>1, <3>2, RankFacts, CallsAssumption DEF AfterWait
    <3>3. CASE Cur(r).op = "BCAST"
      BY <1>2, <2>3, <3>1, <3>3, RankFacts, ZenonT(60) DEF AfterWait
    <3>4. CASE Cur(r).op \notin {"BARRIER", "BCAST"}
      BY <1>2, <2>3, <3>1, <3>4, RankFacts, ZenonT(60) DEF AfterWait
    <3> QED
      BY <3>2, <3>3, <3>4, ZenonT(60)
  <2> QED
    BY <2>2, <2>3, ZenonT(60)
<1>6. \A w \in Rank \ {r} : pc'[w] = pc[w] /\ scan'[w] = scan[w]
  BY <1>1, <1>4, ZenonT(60)
<1>7. TypeOK'
  <2>1. pc' \in [Rank -> PC] /\ scan' \in [Rank -> Rank]
    BY <1>1, <1>4, <1>5, ZenonT(60) DEF PC
  <2> QED
    BY <1>1, <1>3, <2>1, ZenonT(60) DEF TypeOK
<1>8. SlotInv'
  BY <1>1, <1>3, <1>4, <1>5, <1>6, SMTT(60) DEF SlotInv, SameLabel, Filling
<1>9. LockStep'
  BY <1>1, <1>3, <1>5, <1>6, SMTT(60)
  DEF LockStep, Outside, Consuming, Filling, Writing, Producing
<1>10. WriterInv'
  <2>1. ASSUME NEW w \in Rank, pc'[w] \in Writing \union {"copyout"}
        PROVE  w = Writer(Cur(w))'
    <3>1. w = Writer(Cur(w))
      BY <1>1, <1>3, <1>6, <2>1, ZenonT(60) DEF WriterInv, Writing
    <3> QED
      BY <1>4, <3>1, ZenonT(60) DEF Writer
  <2>2. ASSUME NEW w \in Rank, NEW k \in Rank,
               \/ pc'[w] = "wait" /\ k < scan'[w]
               \/ pc'[w] \in {"combine"} \union Producing
        PROVE  slot[k].seq = gen[w] /\ SameLabel(slot[k], Cur(w))
    <3>1. CASE w # r
      BY <1>3, <1>6, <2>2, <3>1, ZenonT(60) DEF WriterInv
    <3>2. CASE w = r
      <4>1. scan[r] \in Nat /\ k \in Nat /\ N \in Nat /\ k <= N - 1
        BY <1>4, NAssumption DEF Rank
      <4>2. k < scan[r] \/ k = scan[r]
        BY <1>5, <2>2, <3>2, <4>1, SMTT(60) DEF Producing
      <4> QED
        BY <1>1, <1>3, <3>2, <4>2, ZenonT(60) DEF WriterInv
    <3> QED
      BY <3>1, <3>2, ZenonT(60)
  <2> QED
    BY <1>1, <1>4, <2>1, <2>2 DEF WriterInv, SameLabel
<1>11. GatherInv'
  <2>1. scan'[r] = 0 => \A k \in Rank : ~(k < scan'[r])
    BY RankFacts
  <2>2. \A w \in Rank : Delivered(Cur(w), gen[w])' = Delivered(Cur(w), gen[w])
    BY <1>1, <1>4, ZenonT(60) DEF Delivered
  <2> QED
    BY <1>1, <1>3, <1>4, <1>5, <1>6, <2>1, <2>2 DEF GatherInv, SameLabel
<1>12. ResultInv' /\ Agreement'
  BY <1>1, ZenonT(60) DEF IInv, ResultInv, Agreement, SameLabel, Cur
<1>13. ResultCorrect' /\ AbortInv'
  BY <1>1, <1>3, <1>5, <1>6, ZenonT(60) DEF IInv, ResultCorrect, AbortInv, Outside, Cur
<1> QED
  BY <1>7, <1>8, <1>9, <1>10, <1>11, <1>12, <1>13, ZenonT(60) DEF IInv

\* The writer combines a slot,
LEMMA CombineInv ==
  ASSUME Discipline # "free", IInv, NEW r \in Rank, Combine(r)
  PROVE  IInv'
<1> DEFINE v == IF Cur(r).bytes > 0 THEN slot[scan[r]].data ELSE 0
           last == scan[r] = N - 1
           x == IF last THEN "store" ELSE "combine"
<1>1. /\ pc[r] = "combine" /\ pc' = [pc EXCEPT ![r] = x]
      /\ acc' = [acc EXCEPT ![r][scan[r]] = v]
      /\ scan' = [scan EXCEPT ![r] = IF last THEN 0 ELSE @ + 1]
      /\ UNCHANGED <<gen, issued, fbAt, slot, result, out, fatal>>
  BY ZenonT(60) DEF Combine
<1>2. TypeOK /\ SlotInv /\ LockStep /\ WriterInv /\ GatherInv /\ ResultInv
  BY DEF IInv
<1>3. gen[r] \in Nat /\ gen[r] > 0 /\ Cur(r) \in Calls /\ Cur(r) \in CallType
  BY <1>1, CurrentCall, ZenonT(60) DEF InOp, Writing, Producing
<1>4. \A q \in Rank : /\ Cur(q)' = Cur(q)
                      /\ Writer(Cur(q))' = Writer(Cur(q))
                      /\ Delivered(Cur(q), gen[q])' = Delivered(Cur(q), gen[q])
  BY <1>1, SameCalls, ZenonT(60)
<1>5. /\ \A q \in Rank :
           /\ gen[q] = gen[r] /\ Cur(q) = Cur(r) /\ slot[q].seq = gen[r]
           /\ pc[q] \notin Outside \union Consuming \union Filling
      /\ \A w \in Rank : pc[w] \in Writing => w = r
      /\ gen[r] = result.seq + 1
  BY <1>1, SoleWriter, ZenonT(60) DEF Producing
<1>6. /\ scan[r] \in Rank /\ scan[r] \in Nat /\ v \in Nat
      /\ acc \in [Rank -> [Rank -> Nat]] /\ x \in {"store", "combine"}
  BY <1>2, RankFacts, ZenonT(60) DEF TypeOK, Payload
<1>7. /\ Cur(r).op \notin {"BCAST", "BARRIER"}
      /\ \A k \in Rank : k < scan[r] /\ Cur(r).bytes > 0 => acc[r][k] = gen[r]
  BY <1>1, <1>2, ZenonT(60) DEF GatherInv
<1>8. Cur(r).bytes > 0 => v = gen[r]
  BY <1>2, <1>3, <1>5, <1>6, <1>7, ZenonT(60) DEF SlotInv
<1> HIDE DEF v
<1>9. /\ acc' = [acc EXCEPT ![r] = [acc[r] EXCEPT ![scan[r]] = v]]
      /\ [acc[r] EXCEPT ![scan[r]] = v] \in [Rank -> Nat]
  BY <1>1, <1>6, ZenonT(60)
<1>10. /\ pc'[r] = x /\ scan'[r] = IF last THEN 0 ELSE scan[r] + 1
       /\ acc'[r] = [acc[r] EXCEPT ![scan[r]] = v] /\ scan'[r] \in Rank
       /\ \A q \in Rank \ {r} : pc'[q] = pc[q] /\ scan'[q] = scan[q]
  BY <1>1, <1>2, <1>6, <1>9, RankFacts DEF TypeOK
<1>11. TypeOK'
  <2>1. acc' \in [Rank -> Payload]
    BY <1>6, <1>9, ZenonT(60) DEF Payload
  <2>2. scan' \in [Rank -> Rank]
    BY <1>1, <1>2, <1>6, RankFacts, ZenonT(60) DEF TypeOK
  <2>3. pc' \in [Rank -> PC]
    BY <1>1, <1>2, <1>6, ZenonT(60) DEF TypeOK, PC
  <2> QED
    BY <1>1, <1>2, <2>1, <2>2, <2>3, ZenonT(60) DEF TypeOK
<1>12. GatherInv'
  <2>1. \A k \in Rank :
          (k < scan[r] \/ k = scan[r]) /\ Cur(r).bytes > 0 => acc'[r][k] = gen[r]
    BY <1>6, <1>7, <1>8, <1>10, SMTT(60)
  <2>2. CASE ~last
    <3>a. scan'[r] = scan[r] + 1
      BY <1>10, <2>2, ZenonT(60)
    <3>1. \A k \in Rank : k < scan'[r] => k < scan[r] \/ k = scan[r]
      BY <1>6, <3>a, SMTT(60) DEF Rank
    <3>2. pc'[r] = "combine"
      BY <1>10, <2>2, ZenonT(60)
    <3> HIDE DEF last, x
    <3> QED
      BY <1>1, <1>4, <1>5, <1>7, <1>10, <2>1, <3>1, <3>2, SMTT(60)
      DEF GatherInv, Writing, Producing
  <2>3. CASE last
    <3>1. \A k \in Rank : k < scan[r] \/ k = scan[r]
      BY <2>3, NAssumption, SMTT(60) DEF Rank
    <3>2. Cur(r).bytes > 0 => acc'[r] = Delivered(Cur(r), gen[r])
      BY <1>7, <1>9, <1>10, <2>1, <3>1 DEF Delivered
    <3>3. pc'[r] = "store"
      BY <1>10, <2>3, ZenonT(60)
    <3> HIDE DEF last, x
    <3> QED
      BY <1>1, <1>4, <1>5, <1>10, <3>2, <3>3, SMTT(60) DEF GatherInv, Writing, Producing
  <2> QED
    BY <2>2, <2>3, ZenonT(60)
<1> HIDE DEF last, x
<1>f. /\ gen' = gen /\ slot' = slot /\ issued' = issued /\ result' = result
      /\ pc[r] = "combine" /\ pc'[r] \in {"store", "combine"}
      /\ \A q \in Rank \ {r} : pc'[q] = pc[q] /\ scan'[q] = scan[q]
  BY <1>1, <1>6, <1>10, ZenonT(60)
<1>13. SlotInv'
  BY <1>f, <1>2, <1>4, ZenonT(60) DEF SlotInv, SameLabel, Filling
<1>14. LockStep'
  BY <1>f, <1>2, ZenonT(60) DEF LockStep, Outside, Consuming, Filling, Writing, Producing
<1>15. WriterInv'
  BY <1>f, <1>2, <1>4 DEF WriterInv, SameLabel, Writing, Producing
<1>16. ResultInv'
  BY <1>1, <1>2, <1>4, ZenonT(60) DEF ResultInv, SameLabel
<1>17. Agreement' /\ ResultCorrect' /\ AbortInv'
  BY <1>1, <1>6, SameStreams, SameReturns, SameFatal, ZenonT(60) DEF IInv, Outside
<1> QED
  BY <1>11, <1>12, <1>13, <1>14, <1>15, <1>16, <1>17, ZenonT(60) DEF IInv

\* stores the result,
LEMMA StoreResultInv ==
  ASSUME Discipline # "free", IInv, NEW r \in Rank, StoreResult(r)
  PROVE  IInv'
<1> DEFINE v == IF Cur(r).bytes > 0
                THEN IF Cur(r).op = "BCAST" THEN Delivered(Cur(r), gen[r])
                                            ELSE acc[r]
                ELSE result.data
<1>1. /\ pc[r] = "store" /\ pc' = [pc EXCEPT ![r] = "label"]
      /\ result' = [result EXCEPT !.data = v]
      /\ acc' = [acc EXCEPT ![r] = NoPayload]
      /\ UNCHANGED <<gen, issued, fbAt, slot, scan, out, fatal>>
  BY ZenonT(60) DEF StoreResult
<1>2. TypeOK /\ SlotInv /\ LockStep /\ WriterInv /\ GatherInv /\ ResultInv
  BY DEF IInv
<1>3. gen[r] \in Nat /\ gen[r] > 0 /\ Cur(r) \in Calls /\ Cur(r) \in CallType
  BY <1>1, CurrentCall, ZenonT(60) DEF InOp, Writing, Producing
<1>4. \A q \in Rank : /\ Cur(q)' = Cur(q)
                      /\ Writer(Cur(q))' = Writer(Cur(q))
                      /\ Delivered(Cur(q), gen[q])' = Delivered(Cur(q), gen[q])
  BY <1>1, SameCalls, ZenonT(60)
<1>5. /\ \A q \in Rank :
           /\ gen[q] = gen[r] /\ Cur(q) = Cur(r) /\ slot[q].seq = gen[r]
           /\ pc[q] \notin Outside \union Consuming \union Filling
      /\ \A w \in Rank : pc[w] \in Writing => w = r
      /\ gen[r] = result.seq + 1
  BY <1>1, SoleWriter, ZenonT(60) DEF Producing
<1>6. /\ result'.seq = result.seq /\ result'.data = v
      /\ pc'[r] = "label" /\ \A q \in Rank \ {r} : pc'[q] = pc[q]
  BY <1>1, <1>2, ZenonT(60) DEF TypeOK
<1>7. /\ v \in Payload
      /\ Cur(r).bytes > 0 => v = Delivered(Cur(r), gen[r])
  <2>1. Delivered(Cur(r), gen[r]) \in Payload
    BY <1>3, ZenonT(60) DEF Delivered, Payload
  <2>2. acc[r] \in Payload /\ result.data \in Payload
    BY <1>2, ZenonT(60) DEF TypeOK
  <2> QED
    BY <1>1, <1>2, <2>1, <2>2, ZenonT(60) DEF GatherInv
<1> HIDE DEF v
<1>8. TypeOK'
  BY <1>1, <1>2, <1>7, ZenonT(60) DEF TypeOK, PC, Payload, NoPayload
<1>9. GatherInv'
  BY <1>1, <1>4, <1>5, <1>6, <1>7, SMTT(60) DEF GatherInv, Writing, Producing
<1>10. SlotInv'
  BY <1>1, <1>2, <1>4, <1>6 DEF SlotInv, SameLabel, Filling
<1>11. LockStep'
  BY <1>1, <1>2, <1>6
  DEF LockStep, Outside, Consuming, Filling, Writing, Producing
<1>12. WriterInv'
  BY <1>1, <1>2, <1>4, <1>6 DEF WriterInv, SameLabel, Writing, Producing
<1>13. ResultInv'
  <2>1. \A q \in Rank : gen'[q] # result'.seq
    BY <1>1, <1>3, <1>5, <1>6
  <2> QED
    BY <2>1, ZenonT(60) DEF ResultInv
<1>14. Agreement' /\ ResultCorrect' /\ AbortInv'
  BY <1>1, <1>6, SameStreams, SameReturns, SameFatal, ZenonT(60) DEF IInv, Outside
<1> QED
  BY <1>8, <1>9, <1>10, <1>11, <1>12, <1>13, <1>14 DEF IInv

\* labels it,
LEMMA LabelResultInv ==
  ASSUME Discipline # "free", IInv, NEW r \in Rank, LabelResult(r)
  PROVE  IInv'
<1>1. /\ pc[r] = "label" /\ pc' = [pc EXCEPT ![r] = "announce"]
      /\ result' = [result EXCEPT !.op = Cur(r).op, !.count = Cur(r).count]
      /\ UNCHANGED <<gen, issued, fbAt, slot, scan, acc, out, fatal>>
  BY ZenonT(60) DEF LabelResult
<1>2. TypeOK /\ SlotInv /\ LockStep /\ WriterInv /\ GatherInv /\ ResultInv
  BY DEF IInv
<1>3. gen[r] \in Nat /\ gen[r] > 0 /\ Cur(r) \in Calls /\ Cur(r) \in CallType
  BY <1>1, CurrentCall, ZenonT(60) DEF InOp, Writing, Producing
<1>4. \A q \in Rank : /\ Cur(q)' = Cur(q)
                      /\ Writer(Cur(q))' = Writer(Cur(q))
                      /\ Delivered(Cur(q), gen[q])' = Delivered(Cur(q), gen[q])
  BY <1>1, SameCalls, ZenonT(60)
<1>5. /\ \A q \in Rank :
           /\ gen[q] = gen[r] /\ Cur(q) = Cur(r) /\ slot[q].seq = gen[r]
           /\ pc[q] \notin Outside \union Consuming \union Filling
      /\ \A w \in Rank : pc[w] \in Writing => w = r
      /\ gen[r] = result.seq + 1
  BY <1>1, SoleWriter, ZenonT(60) DEF Producing
<1>6. /\ result'.seq = result.seq /\ result'.data = result.data
      /\ result'.op = Cur(r).op /\ result'.count = Cur(r).count
      /\ pc'[r] = "announce" /\ \A q \in Rank \ {r} : pc'[q] = pc[q]
  BY <1>1, <1>2, ZenonT(60) DEF TypeOK
<1>7. TypeOK'
  BY <1>1, <1>2, <1>3, ZenonT(60) DEF TypeOK, PC, CallType
<1>8. GatherInv'
  BY <1>1, <1>2, <1>4, <1>5, <1>6, SMTT(60) DEF GatherInv, SameLabel, Writing, Producing
<1>9. SlotInv'
  BY <1>1, <1>2, <1>4, <1>6 DEF SlotInv, SameLabel, Filling
<1>10. LockStep'
  BY <1>1, <1>2, <1>6, ZenonT(60)
  DEF LockStep, Outside, Consuming, Filling, Writing, Producing
<1>11. WriterInv'
  BY <1>1, <1>2, <1>4, <1>6 DEF WriterInv, SameLabel, Writing, Producing
<1>12. ResultInv'
  <2>1. \A q \in Rank : gen'[q] # result'.seq
    BY <1>1, <1>3, <1>5, <1>6
  <2> QED
    BY <2>1 DEF ResultInv
<1>13. Agreement' /\ ResultCorrect' /\ AbortInv'
  BY <1>1, <1>6, SameStreams, SameReturns, SameFatal, ZenonT(60) DEF IInv, Outside
<1> QED
  BY <1>7, <1>8, <1>9, <1>10, <1>11, <1>12, <1>13 DEF IInv

\* and announces it.
LEMMA AnnounceInv ==
  ASSUME Discipline # "free", IInv, NEW r \in Rank, Announce(r)
  PROVE  IInv'
<1>1. /\ pc[r] = "announce" /\ pc' = [pc EXCEPT ![r] = "copyout"]
      /\ result' = [result EXCEPT !.seq = gen[r]]
      /\ UNCHANGED <<gen, issued, fbAt, slot, scan, acc, out, fatal>>
  BY ZenonT(60) DEF Announce
<1>2. TypeOK /\ SlotInv /\ LockStep /\ WriterInv /\ GatherInv /\ ResultInv
  BY DEF IInv
<1>3. gen[r] \in Nat /\ gen[r] > 0 /\ Cur(r) \in Calls /\ Cur(r) \in CallType
  BY <1>1, CurrentCall, ZenonT(60) DEF InOp, Writing, Producing
<1>4. \A q \in Rank : /\ Cur(q)' = Cur(q)
                      /\ Writer(Cur(q))' = Writer(Cur(q))
                      /\ Delivered(Cur(q), gen[q])' = Delivered(Cur(q), gen[q])
  BY <1>1, SameCalls, ZenonT(60)
<1>5. /\ \A q \in Rank :
           /\ gen[q] = gen[r] /\ Cur(q) = Cur(r) /\ slot[q].seq = gen[r]
           /\ pc[q] \notin Outside \union Consuming \union Filling
      /\ \A w \in Rank : pc[w] \in Writing => w = r
      /\ gen[r] = result.seq + 1
  BY <1>1, SoleWriter, ZenonT(60) DEF Producing
<1>6. /\ result'.seq = gen[r] /\ result'.data = result.data
      /\ result'.op = result.op /\ result'.count = result.count
      /\ pc'[r] = "copyout" /\ \A q \in Rank \ {r} : pc'[q] = pc[q]
  BY <1>1, <1>2, ZenonT(60) DEF TypeOK
<1>7. TypeOK'
  BY <1>1, <1>2, <1>3, ZenonT(60) DEF TypeOK, PC
<1>8. SlotInv'
  BY <1>1, <1>2, <1>4, <1>6 DEF SlotInv, SameLabel, Filling
<1>9. LockStep'
  BY <1>1, <1>3, <1>5, <1>6
  DEF LockStep, Outside, Consuming, Filling, Writing, Producing
<1>10. WriterInv'
  BY <1>1, <1>2, <1>4, <1>5, <1>6 DEF WriterInv, SameLabel, Writing, Producing
<1>11. GatherInv'
  BY <1>1, <1>4, <1>5, <1>6 DEF GatherInv, Writing, Producing
<1>12. ResultInv'
  <2>1. /\ SameLabel(result, Cur(r))
        /\ Cur(r).bytes > 0 => result.data = Delivered(Cur(r), gen[r])
    BY <1>1, <1>2, ZenonT(60) DEF GatherInv
  <2> QED
    BY <1>1, <1>4, <1>5, <1>6, <2>1 DEF ResultInv, SameLabel
<1>13. Agreement'
  <2>1. \A q \in Rank : issued[q][gen[r]] = Cur(r)
    BY <1>5 DEF Cur
  <2> QED
    BY <1>1, <1>6, <2>1, SMTT(60) DEF IInv, Agreement
<1>14. ResultCorrect' /\ AbortInv'
  BY <1>1, SameReturns, SameFatal, ZenonT(60) DEF Outside
<1> QED
  BY <1>7, <1>8, <1>9, <1>10, <1>11, <1>12, <1>13, <1>14, ZenonT(60) DEF IInv

\* The writer copies its own output.
LEMMA CopyOutInv ==
  ASSUME Discipline # "free", IInv, NEW r \in Rank, CopyOut(r)
  PROVE  IInv'
<1> DEFINE payload == 
      IF Cur(r).op = "BCAST" THEN Delivered(Cur(r), gen[r]) ELSE result.data
<1>1. /\ pc[r] = "copyout" /\ pc' = [pc EXCEPT ![r] = "idle"]
      /\ UNCHANGED <<gen, issued, fbAt, slot, result, scan, acc, fatal>>
  BY ZenonT(60) DEF CopyOut
<1>2. TypeOK /\ ResultInv /\ ResultCorrect
  BY ZenonT(60) DEF IInv
<1>3. gen[r] = result.seq /\ gen[r] > 0 /\ slot[r].seq = gen[r] /\ gen[r] \in Nat
  BY <1>1, ZenonT(60) DEF IInv, TypeOK, LockStep, SlotInv, Outside, Consuming, Filling
<1>4. Cur(r) \in CallType
  BY <1>1, CurrentCall, ZenonT(60) DEF InOp, Consuming
<1>5. out' = [out EXCEPT ![r] = IF Cur(r).bytes > 0 THEN payload ELSE @]
  BY <1>4, ZenonT(60) DEF CopyOut, CallType
<1>6. /\ payload \in Payload
      /\ Cur(r).bytes > 0 => payload = Delivered(Cur(r), gen[r])
  BY <1>2, <1>3, ZenonT(60) DEF TypeOK, ResultInv, Delivered, Payload
<1> HIDE DEF payload
<1>7. /\ pc' \in [Rank -> PC]
      /\ SlotInv' /\ LockStep' /\ WriterInv' /\ GatherInv' /\ ResultInv'
      /\ Agreement'
  BY <1>1, <1>3, PcMove, ZenonT(60) DEF Consuming
<1>8. ResultCorrect'
  <2>1. \A q \in Rank : /\ Cur(q)' = Cur(q)
                        /\ Delivered(Cur(q), gen[q])' = Delivered(Cur(q), gen[q])
    BY <1>1, SameCalls, ZenonT(60)
  <2>2. /\ Cur(r).bytes > 0 => out'[r] = Delivered(Cur(r), gen[r])
        /\ \A q \in Rank \ {r} : out'[q] = out[q] /\ pc'[q] = pc[q]
    BY <1>1, <1>2, <1>5, <1>6, ZenonT(60) DEF TypeOK
  <2> QED
    BY <1>1, <1>2, <2>1, <2>2, ZenonT(60) DEF ResultCorrect
<1>9. AbortInv'
  BY <1>1, SameFatal, ZenonT(60)
<1>10. TypeOK'
  BY <1>1, <1>2, <1>5, <1>6, <1>7, ZenonT(60) DEF TypeOK
<1> QED
  BY <1>7, <1>8, <1>9, <1>10 DEF IInv

\* A reader sees the announcement.
LEMMA SnoopInv ==
  ASSUME Discipline # "free", IInv, NEW r \in Rank, Snoop(r)
  PROVE  IInv'
<1>1. /\ pc[r] = "snoop" /\ pc' = [pc EXCEPT ![r] = "verify"]
      /\ UNCHANGED <<gen, issued, fbAt, slot, result, scan, acc, out, fatal>>
      /\ result.seq = gen[r]
  BY ZenonT(60) DEF Snoop
<1>2. gen[r] > 0 /\ slot[r].seq = gen[r]
  BY <1>1, ZenonT(60) DEF IInv, LockStep, SlotInv, Outside, Consuming, Filling
<1>3. /\ pc' \in [Rank -> PC]
      /\ SlotInv' /\ LockStep' /\ WriterInv' /\ GatherInv' /\ ResultInv'
      /\ Agreement'
  BY <1>1, <1>2, PcMove, ZenonT(60) DEF Consuming
<1>4. ResultCorrect'
  BY <1>1, SameReturns, ZenonT(60) DEF Outside
<1>5. AbortInv'
  BY <1>1, SameFatal, ZenonT(60)
<1>6. TypeOK'
  BY <1>1, <1>3, ZenonT(60) DEF IInv, TypeOK
<1> QED
  BY <1>3, <1>4, <1>5, <1>6 DEF IInv

\* No rank ever sees a sequence number beyond its own generation, and no
\* reader ever finds the result of another call.
LEMMA ImpossibleAborts ==
  ASSUME Discipline # "free", IInv, NEW r \in Rank
  PROVE  ~RanAhead(r) /\ (pc[r] = "verify" => SameLabel(result, Cur(r)))
<1>1. /\ TypeOK /\ SlotInv /\ LockStep /\ ResultInv
  BY ZenonT(60) DEF IInv
<1>2. \A q \in Rank : /\ gen[q] \in Nat /\ slot[q].seq \in Nat
                      /\ slot[q].seq <= gen[q] /\ gen[q] <= result.seq + 1
                      /\ result.seq <= slot[q].seq /\ scan[q] \in Rank
  <2>1. \A q \in Rank : gen[q] \in Nat /\ slot[q].seq \in Nat /\ scan[q] \in Rank
    BY <1>1, ZenonT(60) DEF TypeOK
  <2> QED
    BY <1>1, <2>1 DEF SlotInv, LockStep
<1>3. result.seq \in Nat
  BY <1>1, ZenonT(60) DEF TypeOK
<1>4. ~RanAhead(r)
  <2>1. pc[r] = "wait" => gen[r] = result.seq + 1
    BY <1>1, ZenonT(60) DEF LockStep, Writing
  <2> QED
    BY <1>2, <1>3, <2>1 DEF RanAhead, Watched
<1>5. pc[r] = "verify" => gen[r] = result.seq /\ gen[r] > 0
  BY <1>1, ZenonT(60) DEF LockStep, Consuming
<1> QED
  BY <1>1, <1>4, <1>5, ZenonT(60) DEF ResultInv

\* A reader compares the label with its own call.
LEMMA VerifyInv ==
  ASSUME Discipline # "free", IInv, NEW r \in Rank, Verify(r)
  PROVE  IInv'
<1>1. /\ pc[r] = "verify" /\ pc' = [pc EXCEPT ![r] = "copy"]
      /\ UNCHANGED <<gen, issued, fbAt, slot, result, scan, acc, out, fatal>>
  BY ImpossibleAborts, ZenonT(60) DEF Verify
<1>2. gen[r] = result.seq /\ gen[r] > 0 /\ slot[r].seq = gen[r]
  BY <1>1, ZenonT(60) DEF IInv, LockStep, SlotInv, Outside, Consuming, Filling
<1>3. /\ pc' \in [Rank -> PC]
      /\ SlotInv' /\ LockStep' /\ WriterInv' /\ GatherInv' /\ ResultInv'
      /\ Agreement'
  BY <1>1, <1>2, PcMove, ZenonT(60) DEF Consuming
<1>4. ResultCorrect'
  BY <1>1, SameReturns, ZenonT(60) DEF Outside
<1>5. AbortInv'
  BY <1>1, SameFatal, ZenonT(60)
<1>6. TypeOK'
  BY <1>1, <1>3, ZenonT(60) DEF IInv, TypeOK
<1> QED
  BY <1>3, <1>4, <1>5, <1>6 DEF IInv

\* A reader copies the result.
LEMMA CopyResultInv ==
  ASSUME Discipline # "free", IInv, NEW r \in Rank, CopyResult(r)
  PROVE  IInv'
<1> DEFINE payload == result.data
<1>1. /\ pc[r] = "copy" /\ pc' = [pc EXCEPT ![r] = "idle"]
      /\ UNCHANGED <<gen, issued, fbAt, slot, result, scan, acc, fatal>>
  BY ZenonT(60) DEF CopyResult
<1>2. TypeOK /\ ResultInv /\ ResultCorrect
  BY SMTT(60) DEF IInv
<1>3. gen[r] = result.seq /\ gen[r] > 0 /\ slot[r].seq = gen[r] /\ gen[r] \in Nat
  BY <1>1, ZenonT(60) DEF IInv, TypeOK, LockStep, SlotInv, Outside, Consuming, Filling
<1>4. Cur(r) \in CallType
  BY <1>1, CurrentCall, ZenonT(60) DEF InOp, Consuming
<1>5. out' = [out EXCEPT ![r] = IF Cur(r).bytes > 0 THEN payload ELSE @]
  BY <1>4, ZenonT(60) DEF CopyResult, CallType
<1>6. /\ payload \in Payload
      /\ Cur(r).bytes > 0 => payload = Delivered(Cur(r), gen[r])
  BY <1>2, <1>3, ZenonT(60) DEF TypeOK, ResultInv, Delivered, Payload
<1> HIDE DEF payload
<1>7. /\ pc' \in [Rank -> PC]
      /\ SlotInv' /\ LockStep' /\ WriterInv' /\ GatherInv' /\ ResultInv'
      /\ Agreement'
  BY <1>1, <1>3, PcMove, ZenonT(60) DEF Consuming
<1>8. ResultCorrect'
  <2>1. \A q \in Rank : /\ Cur(q)' = Cur(q)
                        /\ Delivered(Cur(q), gen[q])' = Delivered(Cur(q), gen[q])
    BY <1>1, SameCalls, ZenonT(60)
  <2>2. /\ Cur(r).bytes > 0 => out'[r] = Delivered(Cur(r), gen[r])
        /\ \A q \in Rank \ {r} : out'[q] = out[q] /\ pc'[q] = pc[q]
    BY <1>1, <1>2, <1>5, <1>6, ZenonT(60) DEF TypeOK
  <2> QED
    BY <1>1, <1>2, <2>1, <2>2, ZenonT(60) DEF ResultCorrect
<1>9. AbortInv'
  BY <1>1, SameFatal, ZenonT(60)
<1>10. TypeOK'
  BY <1>1, <1>2, <1>5, <1>6, <1>7, ZenonT(60) DEF TypeOK
<1> QED
  BY <1>7, <1>8, <1>9, <1>10 DEF IInv

\* Giving up preserves the invariant, for any reason but the two that cannot
\* occur; mpirun killing a rank is one such reason.
LEMMA AbortInvariant ==
  ASSUME Discipline # "free", IInv, NEW r \in Rank, NEW why \in Fatal,
         why \notin {"none", "ahead", "mismatch"},
         why = "divergence" => Discipline # "conformant",
         Abort(r, why)
  PROVE  IInv'
<1>1. /\ pc' = [pc EXCEPT ![r] = "aborted"]
      /\ fatal' = [fatal EXCEPT ![r] = why]
      /\ UNCHANGED <<gen, issued, fbAt, slot, result, scan, acc, out>>
  BY ZenonT(60) DEF Abort
<1>2. /\ pc' \in [Rank -> PC]
      /\ SlotInv' /\ LockStep' /\ WriterInv' /\ GatherInv' /\ ResultInv'
      /\ Agreement'
  BY <1>1, PcMove, ZenonT(60) DEF Outside, Consuming
<1>3. ResultCorrect'
  BY <1>1, SameReturns, ZenonT(60) DEF Outside
<1>4. TypeOK'
  BY <1>1, <1>2, ZenonT(60) DEF IInv, TypeOK
<1>5. AbortInv'
  <2>1. fatal \in [Rank -> Fatal] /\ pc \in [Rank -> PC] /\ AbortInv
    BY ZenonT(60) DEF IInv, TypeOK
  <2> QED
    BY <1>1, <2>1, ZenonT(60) DEF AbortInv
<1> QED
  BY <1>2, <1>3, <1>4, <1>5, ZenonT(60) DEF IInv

\* A conformant application never makes the writer's cross-check fail.
LEMMA NoDivergence ==
  ASSUME Discipline = "conformant", IInv, NEW r \in Rank
  PROVE  ~PeerDiverged(r)
<1> SUFFICES ASSUME PeerDiverged(r) PROVE FALSE
  BY ZenonT(60)
<1>1. /\ pc[r] = "wait" /\ scan[r] \in Rank
      /\ slot[scan[r]].seq = gen[r] /\ ~SameLabel(slot[scan[r]], Cur(r))
  BY ZenonT(60) DEF PeerDiverged, IInv, TypeOK
<1>2. gen[r] = result.seq + 1
  BY <1>1, ZenonT(60) DEF IInv, LockStep, Writing
<1>3. /\ gen[scan[r]] = gen[r]
      /\ SameLabel(slot[scan[r]], Cur(scan[r]))
      /\ Cur(scan[r]) \in Calls
  BY <1>1, <1>2, ReadySlot, ZenonT(60)
<1>4. Cur(r) \in Calls /\ gen[r] \in Nat /\ gen[r] > 0
  BY <1>1, CurrentCall, ZenonT(60) DEF InOp, Writing
<1>5. Compatible(Cur(scan[r]), Cur(r))
  BY <1>1, <1>3, <1>4, SMTT(60) DEF IInv, Agreement, Cur
<1> QED
  BY <1>1, <1>3, <1>4, <1>5, CompatibleFacts, ZenonT(60)

\* The segment as it is created.
LEMMA InitIInv == Init => IInv
<1> SUFFICES ASSUME Init PROVE IInv
  BY ZenonT(60)
<1> USE RankFacts DEF Init
<1>1. TypeOK
  BY SMTT(60) DEF TypeOK, PC, Op, Payload, NoPayload, Fatal
<1>2. SlotInv /\ LockStep /\ WriterInv /\ GatherInv
  BY SMTT(60) DEF SlotInv, LockStep, WriterInv, GatherInv, Filling, Writing, Producing,
         Outside, Consuming
<1>3. ResultInv /\ Agreement /\ ResultCorrect /\ AbortInv
  BY DEF ResultInv, Agreement, ResultCorrect, AbortInv
<1> QED
  BY <1>1, <1>2, <1>3, ZenonT(60) DEF IInv

\* Every step of the engine keeps the invariant.
LEMMA NextIInv ==
  ASSUME Discipline # "free", IInv, [Next]_vars
  PROVE  IInv'
<1>1. CASE UNCHANGED vars
  <2>1. TypeOK' /\ AbortInv' /\ Agreement'
    BY <1>1, ZenonT(60) DEF vars, IInv, TypeOK, AbortInv, Agreement
  <2>2. SlotInv' /\ LockStep' /\ ResultInv'
    BY <1>1, ZenonT(60) DEF vars, IInv, SlotInv, LockStep, ResultInv, Cur, SameLabel
  <2>3. WriterInv' /\ GatherInv' /\ ResultCorrect'
    BY <1>1, ZenonT(60) DEF vars, IInv, WriterInv, GatherInv, ResultCorrect, Cur, SameLabel
  <2> QED
    BY <2>1, <2>2, <2>3, ZenonT(60) DEF IInv
<1>2. ASSUME NEW r \in Rank, NEW c \in Calls, Enter(r, c) \/ FallBack(r, c)
      PROVE  IInv'
  BY <1>2, EnterInv, FallBackInv, ZenonT(60)
<1>3. ASSUME NEW r \in Rank, Step(r) PROVE IInv'
  <2>1. PeerDiverged(r) => IInv'
    BY NoDivergence, AbortInvariant, ZenonT(60) DEF PeerDiverged, Fatal
  <2> QED
    BY ZenonT(60), <1>3, <2>1, ImpossibleAborts, PmpiReturnInv, FillSlotInv, PublishSlotInv,
       WaitPeerInv, CombineInv, StoreResultInv, LabelResultInv, AnnounceInv,
       CopyOutInv, SnoopInv, VerifyInv, CopyResultInv
    DEF Step
<1>4. ASSUME NEW r \in Rank, SpinTimeout(r) \/ Killed(r) PROVE IInv'
  BY <1>4, AbortInvariant, ZenonT(60) DEF SpinTimeout, Killed, Fatal
<1>5. CASE Terminated
  BY <1>1, <1>5, ZenonT(60) DEF Terminated
<1> QED
  BY <1>1, <1>2, <1>3, <1>4, <1>5, ZenonT(60) DEF Next

\* IInv is an invariant of every run whose streams are conformant or rooted.
THEOREM InductiveInvariant ==
  ASSUME Discipline # "free"
  PROVE  Spec => []IInv
<1>1. IInv /\ [Next]_vars => IInv'
  BY NextIInv, ZenonT(60)
<1> QED
  BY InitIInv, <1>1, PTL DEF Spec

\* One barrier is enough (shmcomm.cpp lines 16-18): while any rank reads the
\* result line of its generation nobody writes the line.
THEOREM ResultLineReuseHolds ==
  ASSUME Discipline # "free"
  PROVE  Spec => []ResultLineReuse
<1>1. IInv => ResultLineReuse
  <2> SUFFICES ASSUME IInv, NEW r \in Rank, pc[r] \in Consuming
               PROVE  /\ result.seq = gen[r]
                      /\ \A w \in Rank : pc[w] \notin Producing
    BY ZenonT(60) DEF ResultLineReuse
  <2>1. result.seq = gen[r]
    BY ZenonT(60) DEF IInv, LockStep
  <2>2. ASSUME NEW w \in Rank, pc[w] \in Producing PROVE FALSE
    BY <2>2, SoleWriter, ZenonT(60)
  <2> QED
    BY <2>1, <2>2, ZenonT(60)
<1> QED
  BY <1>1, InductiveInvariant, PTL

\* Every collective returns exactly the contributions of its own generation
\* (shm_op), even when the streams of the ranks have forked.
THEOREM ResultCorrectHolds ==
  ASSUME Discipline # "free"
  PROVE  Spec => []ResultCorrect
<1>1. IInv => ResultCorrect
  BY ZenonT(60) DEF IInv
<1> QED
  BY <1>1, InductiveInvariant, PTL

\* No silent cross-op consumption (shmcomm.cpp lines 25-29): a rank returns
\* only from a call that every rank has issued at the same generation.
THEOREM ReturnsAgreedHolds ==
  ASSUME Discipline # "free"
  PROVE  Spec => []ReturnsAgreed
<1>1. IInv => ReturnsAgreed
  <2> SUFFICES ASSUME IInv, NEW r \in Rank, pc[r] \in Outside, gen[r] > 0,
                      NEW q \in Rank
               PROVE  gen[q] >= gen[r] /\ issued[q][gen[r]] = Cur(r)
    BY ZenonT(60) DEF ReturnsAgreed
  <2>1. gen[r] = result.seq
    BY ZenonT(60) DEF IInv, LockStep
  <2>2. gen[q] >= gen[r]
    <3>1. slot[q].seq \in Nat /\ gen[q] \in Nat /\ gen[r] \in Nat
      BY ZenonT(60) DEF IInv, TypeOK
    <3>2. /\ slot[q].seq = gen[q] \/ slot[q].seq + 1 = gen[q]
          /\ result.seq <= slot[q].seq
      BY ZenonT(60) DEF IInv, SlotInv, LockStep
    <3> QED
      BY <2>1, <3>1, <3>2
  <2>3. issued[q][gen[r]] = Cur(r)
    BY <2>1 DEF IInv, Agreement, Cur
  <2> QED
    BY <2>2, <2>3, ZenonT(60)
<1> QED
  BY <1>1, InductiveInvariant, PTL

\* A conformant application never trips a protocol check: spin_until's
\* run-ahead check, the writer's cross-check or the reader's result check.
THEOREM NoFatalHolds ==
  ASSUME Discipline = "conformant"
  PROVE  Spec => []NoFatal
<1>1. Discipline # "free"
  BY ZenonT(60)
<1>2. Spec => []IInv
  BY <1>1, InductiveInvariant, ZenonT(60)
<1>3. IInv => NoFatal
  BY ZenonT(60) DEF IInv, AbortInv, TypeOK, NoFatal, Fatal
<1> QED
  BY <1>2, <1>3, PTL

-----------------------------------------------------------------------------
(***************************************************************************)
(* Any streams at all.  When the calls of the ranks may differ freely, two *)
(* writers can serve one generation and the lock step above is lost.  What *)
(* is left is the label of a call: a rank passes a generation only when    *)
(* all ranks have issued calls with one label for it.                      *)
(***************************************************************************)
\* Rank q has issued a g-th call, and its label is that of c.
Agrees(q, g, c) == g <= gen[q] /\ SameLabel(issued[q][g], c)

\* All ranks have issued a g-th call, with one label.
AgreedAt(g) ==
  \A q, k \in Rank : /\ g <= gen[q]
                     /\ issued[q][g].op = issued[k][g].op
                     /\ issued[q][g].count = issued[k][g].count

\* The generations rank r has passed.
Passed(r, g) == g < gen[r] \/ pc[r] \in Outside \union Consuming

\* The inductive invariant.  A slot may show the label of the next generation
\* under the number of the old one, but then its rank has passed the old one.
Numbered ==
  \A r \in Rank :
    /\ gen[r] = Len(issued[r])
    /\ pc[r] \in InOp => gen[r] > 0
    /\ slot[r].seq <= gen[r]
    /\ (slot[r].seq = gen[r] /\ gen[r] > 0) \/ pc[r] = "publish"
         => SameLabel(slot[r], Cur(r))
Checked ==
  \A r, k \in Rank :
    \/ pc[r] = "wait" /\ k < scan[r]
    \/ pc[r] \in {"combine"} \union Producing
    => Agrees(k, gen[r], Cur(r))
PassedAgreed ==
  /\ \A r \in Rank : \A g \in 1 .. gen[r] : Passed(r, g) => AgreedAt(g)
  /\ result.seq > 0 => AgreedAt(result.seq)
Labels == TypeOK /\ Numbered /\ Checked /\ PassedAgreed

\* The call a rank is in has the number of its engine.
LEMMA CurOfLabels ==
  ASSUME TypeOK, Numbered, NEW r \in Rank, pc[r] \in InOp
  PROVE  /\ gen[r] \in Nat /\ gen[r] > 0 /\ gen[r] = Len(issued[r])
         /\ Cur(r) \in Calls
         /\ Cur(r).op \in Op /\ Cur(r).count \in Nat /\ Cur(r).bytes \in Nat
<1>1. gen[r] \in Nat /\ gen[r] > 0 /\ gen[r] = Len(issued[r])
  BY ZenonT(60) DEF TypeOK, Numbered
<1>2. issued[r] \in Seq(Calls)
  BY ZenonT(60) DEF TypeOK
<1>3. Cur(r) \in Calls
  BY <1>1, <1>2 DEF Cur
<1> QED
  BY <1>1, <1>3, CallsAssumption, ZenonT(60) DEF CallType

\* Every step keeps every variable in its type, whatever the streams are.
LEMMA NextType ==
  ASSUME TypeOK, Numbered, Next
  PROVE  TypeOK'
<1> USE DEF InOp, Filling, Writing, Producing, Consuming
<1>1. ASSUME NEW r \in Rank, NEW c \in Calls, Enter(r, c) PROVE TypeOK'
  <2>1. issued[r] \in Seq(Calls) /\ Append(issued[r], c) \in Seq(Calls)
    BY AppendFacts, ZenonT(60) DEF TypeOK
  <2>2. issued' \in [Rank -> Seq(Calls)]
    BY <1>1, <2>1, ZenonT(60) DEF TypeOK, Enter
  <2>3. gen' \in [Rank -> Nat] /\ pc' \in [Rank -> PC]
    BY <1>1, SMTT(60) DEF TypeOK, Enter, PC
  <2> QED
    BY <1>1, <2>2, <2>3, ZenonT(60) DEF TypeOK, Enter
<1>2. ASSUME NEW r \in Rank, NEW c \in Calls, FallBack(r, c) PROVE TypeOK'
  <2>1. fbAt[r] \in Seq(Nat) /\ Append(fbAt[r], gen[r]) \in Seq(Nat)
    BY AppendFacts, ZenonT(60) DEF TypeOK
  <2>2. fbAt' \in [Rank -> Seq(Nat)]
    BY <1>2, <2>1, ZenonT(60) DEF TypeOK, FallBack
  <2> QED
    BY <1>2, <2>2, ZenonT(60) DEF TypeOK, FallBack, PC
<1>3. ASSUME NEW r \in Rank, PmpiReturn(r) PROVE TypeOK'
  BY <1>3, ZenonT(60) DEF TypeOK, PmpiReturn, PC
<1>4. ASSUME NEW r \in Rank, FillSlot(r) PROVE TypeOK'
  <2>1. /\ Cur(r).op \in Op /\ Cur(r).count \in Nat
        /\ gen[r] \in Nat /\ slot[r].seq \in Nat /\ slot[r].data \in Nat
    BY <1>4, CurOfLabels, ZenonT(60) DEF FillSlot, TypeOK
  <2>2. slot' \in [Rank -> [seq : Nat, op : Op, count : Nat, data : Nat]]
    BY <1>4, <2>1, ZenonT(60) DEF FillSlot, TypeOK
  <2> QED
    BY <1>4, <2>2, ZenonT(60) DEF FillSlot, TypeOK, PC
<1>5. ASSUME NEW r \in Rank, PublishSlot(r) PROVE TypeOK'
  <2>1. slot' \in [Rank -> [seq : Nat, op : Op, count : Nat, data : Nat]]
    BY <1>5, ZenonT(60) DEF PublishSlot, TypeOK
  <2>2. scan' \in [Rank -> Rank]
    BY <1>5, RankFacts, ZenonT(60) DEF PublishSlot, TypeOK
  <2> QED
    BY <1>5, <2>1, <2>2, ZenonT(60) DEF PublishSlot, TypeOK, PC
<1>6. ASSUME NEW r \in Rank, WaitPeer(r) PROVE TypeOK'
  <2>1. scan' \in [Rank -> Rank]
    BY <1>6, RankFacts, ZenonT(60) DEF WaitPeer, NextSlot, TypeOK
  <2>2. pc' \in [Rank -> PC]
    <3>1. AfterWait(Cur(r)) \in PC
      BY ZenonT(60) DEF AfterWait, PC
    <3> QED
      BY <1>6, <3>1, ZenonT(60) DEF WaitPeer, NextSlot, TypeOK, PC
  <2> QED
    BY <1>6, <2>1, <2>2, ZenonT(60) DEF WaitPeer, NextSlot, TypeOK
<1>7. ASSUME NEW r \in Rank, NEW why \in Fatal, Abort(r, why) PROVE TypeOK'
  BY <1>7, ZenonT(60) DEF Abort, TypeOK, PC
<1>8. ASSUME NEW r \in Rank, Combine(r) PROVE TypeOK'
  <2>1. scan' \in [Rank -> Rank]
    BY <1>8, RankFacts, ZenonT(60) DEF Combine, TypeOK
  <2>2. scan[r] \in Rank /\ slot[scan[r]].data \in Nat
    BY ZenonT(60) DEF TypeOK
  <2>3. acc' \in [Rank -> Payload]
    BY <1>8, <2>2, ZenonT(60) DEF Combine, TypeOK, Payload
  <2> QED
    BY <1>8, <2>1, <2>3, ZenonT(60) DEF Combine, TypeOK, PC
<1>9. ASSUME NEW r \in Rank, StoreResult(r) PROVE TypeOK'
  <2>1. gen[r] \in Nat /\ acc[r] \in Payload /\ NoPayload \in Payload
    BY ZenonT(60) DEF TypeOK, Payload, NoPayload
  <2>2. Delivered(Cur(r), gen[r]) \in Payload
    BY <2>1, ZenonT(60) DEF Delivered, Payload
  <2>3. result' \in [seq : Nat, op : Op, count : Nat, data : Payload]
    BY <1>9, <2>1, <2>2, ZenonT(60) DEF StoreResult, TypeOK
  <2>4. acc' \in [Rank -> Payload]
    BY <1>9, <2>1, ZenonT(60) DEF StoreResult, TypeOK
  <2> QED
    BY <1>9, <2>3, <2>4, ZenonT(60) DEF StoreResult, TypeOK, PC
<1>10. ASSUME NEW r \in Rank, LabelResult(r) PROVE TypeOK'
  <2>1. Cur(r).op \in Op /\ Cur(r).count \in Nat
    BY <1>10, CurOfLabels, ZenonT(60) DEF LabelResult
  <2>2. result' \in [seq : Nat, op : Op, count : Nat, data : Payload]
    BY <1>10, <2>1, ZenonT(60) DEF LabelResult, TypeOK
  <2> QED
    BY <1>10, <2>2, ZenonT(60) DEF LabelResult, TypeOK, PC
<1>11. ASSUME NEW r \in Rank, Announce(r) PROVE TypeOK'
  BY <1>11, ZenonT(60) DEF Announce, TypeOK, PC
<1>12. ASSUME NEW r \in Rank, CopyOut(r) PROVE TypeOK'
  <2>1. gen[r] \in Nat /\ result.data \in Payload
    BY ZenonT(60) DEF TypeOK
  <2>2. Delivered(Cur(r), gen[r]) \in Payload
    BY <2>1, ZenonT(60) DEF Delivered, Payload
  <2>3. out' \in [Rank -> Payload]
    BY <1>12, <2>1, <2>2, ZenonT(60) DEF CopyOut, TypeOK
  <2> QED
    BY <1>12, <2>3, ZenonT(60) DEF CopyOut, TypeOK, PC
<1>13. ASSUME NEW r \in Rank, Snoop(r) PROVE TypeOK'
  BY <1>13, ZenonT(60) DEF Snoop, TypeOK, PC
<1>14. ASSUME NEW r \in Rank, Verify(r) PROVE TypeOK'
  <2>1. CASE SameLabel(result, Cur(r))
    BY <1>14, <2>1, ZenonT(60) DEF Verify, TypeOK, PC
  <2>2. CASE ~SameLabel(result, Cur(r))
    BY <1>14, <2>2, <1>7, ZenonT(60) DEF Verify, Fatal
  <2> QED
    BY <2>1, <2>2, ZenonT(60)
<1>15. ASSUME NEW r \in Rank, CopyResult(r) PROVE TypeOK'
  BY <1>15, ZenonT(60) DEF CopyResult, TypeOK, PC
<1>16. ASSUME NEW r \in Rank,
              PeerDiverged(r) \/ RanAhead(r) \/ SpinTimeout(r) \/ Killed(r)
       PROVE  TypeOK'
  BY <1>16, <1>7, ZenonT(60) DEF PeerDiverged, RanAhead, SpinTimeout, Killed, Fatal
<1>17. CASE Terminated
  BY <1>17, ZenonT(60) DEF Terminated, vars, TypeOK
<1> QED
  BY ZenonT(60), <1>1, <1>2, <1>3, <1>4, <1>5, <1>6, <1>8, <1>9, <1>10, <1>11, <1>12,
     <1>13, <1>14, <1>15, <1>16, <1>17 DEF Next, Step

\* What all ranks have agreed on, and what one rank has issued, stays so.
LEMMA AgreedLasts ==
  ASSUME Labels, NEW r \in Rank, NEW c \in Calls, Enter(r, c)
  PROVE  /\ \A q \in Rank : /\ gen[q] <= gen'[q]
                            /\ \A g \in 1 .. gen[q] : issued'[q][g] = issued[q][g]
         /\ \A g \in Nat : g > 0 /\ AgreedAt(g) => AgreedAt(g)'
<1>1. /\ gen' = [gen EXCEPT ![r] = @ + 1]
      /\ issued' = [issued EXCEPT ![r] = Append(@, c)]
      /\ gen \in [Rank -> Nat] /\ issued \in [Rank -> Seq(Calls)]
      /\ \A q \in Rank : gen[q] = Len(issued[q])
  BY ZenonT(60) DEF Enter, Labels, TypeOK, Numbered
<1>2. ASSUME NEW q \in Rank
      PROVE  /\ gen[q] \in Nat /\ gen[q] <= gen'[q]
             /\ \A g \in 1 .. gen[q] : issued'[q][g] = issued[q][g]
  <2>1. CASE q = r
    <3>1. gen'[q] = gen[q] + 1 /\ issued'[q] = Append(issued[q], c)
      BY <1>1, <2>1, ZenonT(60)
    <3> QED
      BY <1>1, <3>1, AppendFacts
  <2>2. CASE q # r
    BY <1>1, <2>2
  <2> QED
    BY <2>1, <2>2, ZenonT(60)
<1>3. ASSUME NEW g \in Nat, g > 0, AgreedAt(g) PROVE AgreedAt(g)'
  <2>1. ASSUME NEW q \in Rank
        PROVE  g <= gen'[q] /\ issued'[q][g] = issued[q][g]
    <3>1. g <= gen[q] /\ gen[q] \in Nat /\ gen'[q] \in Nat
      BY <1>3, <1>1 DEF AgreedAt
    <3> QED
      BY <1>2, <1>3, <3>1, SMTT(60)
  <2>2. ASSUME NEW q \in Rank, NEW k \in Rank
        PROVE  /\ issued'[q][g].op = issued'[k][g].op
               /\ issued'[q][g].count = issued'[k][g].count
    BY <1>3, <2>1, ZenonT(60) DEF AgreedAt
  <2> QED
    BY <2>1, <2>2, ZenonT(60) DEF AgreedAt
<1> QED
  BY <1>2, <1>3, ZenonT(60)

\* A rank that enters its next collective has passed the one before.
LEMMA EnterLabels ==
  ASSUME Labels, NEW r \in Rank, NEW c \in Calls, Enter(r, c)
  PROVE  Labels'
<1>1. /\ gen' = [gen EXCEPT ![r] = @ + 1]
      /\ issued' = [issued EXCEPT ![r] = Append(@, c)]
      /\ pc' = [pc EXCEPT ![r] = "fill"] /\ pc[r] = "idle"
      /\ UNCHANGED <<slot, result, scan>>
      /\ gen \in [Rank -> Nat] /\ issued \in [Rank -> Seq(Calls)]
      /\ pc \in [Rank -> PC] /\ scan \in [Rank -> Rank]
      /\ result.seq \in Nat /\ \A q \in Rank : slot[q].seq \in Nat
  BY ZenonT(60) DEF Enter, Labels, TypeOK
<1>2. ASSUME NEW q \in Rank, q # r
      PROVE  gen'[q] = gen[q] /\ issued'[q] = issued[q] /\ pc'[q] = pc[q]
             /\ Cur(q)' = Cur(q)
  BY <1>1, <1>2, ZenonT(60) DEF Cur
<1>3. /\ gen[r] \in Nat /\ gen'[r] = gen[r] + 1 /\ pc'[r] = "fill"
      /\ issued'[r] = Append(issued[r], c)
  BY <1>1, ZenonT(60)
<1>4. TypeOK'
  BY NextType, ZenonT(60) DEF Labels, Next
<1>5. Numbered'
  <2>1. ASSUME NEW q \in Rank, q # r
        PROVE  /\ gen'[q] = Len(issued'[q])
               /\ pc'[q] \in InOp => gen'[q] > 0
               /\ slot'[q].seq <= gen'[q]
               /\ (slot'[q].seq = gen'[q] /\ gen'[q] > 0) \/ pc'[q] = "publish"
                    => SameLabel(slot'[q], Cur(q)')
    BY <1>1, <1>2, <2>1, ZenonT(60) DEF Labels, Numbered
  <2>2. /\ gen'[r] = Len(issued'[r]) /\ gen'[r] > 0
        /\ slot'[r].seq < gen'[r]
    <3>1. gen[r] = Len(issued[r]) /\ slot[r].seq <= gen[r]
          /\ issued[r] \in Seq(Calls) /\ slot'[r].seq = slot[r].seq
          /\ slot[r].seq \in Nat
      BY <1>1, ZenonT(60) DEF Labels, Numbered
    <3>2. Len(issued'[r]) = Len(issued[r]) + 1
      BY <1>3, <3>1, AppendFacts, SMTT(60)
    <3> QED
      BY <1>3, <3>1, <3>2, SMTT(60)
  <2>3. /\ slot'[r].seq <= gen'[r] /\ slot'[r].seq # gen'[r]
    BY <1>1, <1>3, <2>2
  <2> QED
    BY <1>3, <2>1, <2>2, <2>3, ZenonT(60) DEF Numbered
<1>6. Checked'
  <2> SUFFICES ASSUME NEW q \in Rank, NEW k \in Rank,
                      \/ pc'[q] = "wait" /\ k < scan'[q]
                      \/ pc'[q] \in {"combine"} \union Producing
               PROVE  Agrees(k, gen[q], Cur(q))'
    BY ZenonT(60) DEF Checked
  <2>1. q # r
    BY <1>3, ZenonT(60) DEF Producing
  <2>2. /\ gen'[q] = gen[q] /\ Cur(q)' = Cur(q) /\ gen[q] \in Nat
        /\ pc[q] \in InOp
    BY <1>1, <1>2, <2>1, ZenonT(60) DEF InOp, Writing
  <2>3. Agrees(k, gen[q], Cur(q))
    BY <1>1, <1>2, <2>1, ZenonT(60) DEF Labels, Checked
  <2>4. gen[q] \in 1 .. gen[k] /\ gen[k] \in Nat /\ gen'[k] \in Nat
    BY <1>1, <2>2, <2>3, <1>4, SMTT(60) DEF Agrees, Labels, Numbered, TypeOK
  <2>5. gen[q] <= gen'[k] /\ issued'[k][gen[q]] = issued[k][gen[q]]
    BY <2>4, AgreedLasts
  <2> QED
    BY <2>2, <2>3, <2>5, ZenonT(60) DEF Agrees
<1>7. PassedAgreed'
  <2>1. ASSUME NEW q \in Rank, NEW g \in 1 .. gen'[q], Passed(q, g)'
        PROVE  AgreedAt(g) /\ g \in Nat /\ g > 0
    <3>1. CASE q = r
      <4>1. g < gen[r] + 1 /\ g \in 1 .. gen[r]
        BY <1>3, <2>1, <3>1 DEF Passed, Outside, Consuming
      <4>2. Passed(r, g)
        BY <1>1, ZenonT(60) DEF Passed, Outside
      <4> QED
        BY <4>1, <4>2, SMTT(60) DEF Labels, PassedAgreed
    <3>2. CASE q # r
      <4>1. g \in 1 .. gen[q] /\ Passed(q, g)
        BY <1>2, <2>1, <3>2, ZenonT(60) DEF Passed
      <4> QED
        BY <4>1, <1>1, SMTT(60) DEF Labels, PassedAgreed
    <3> QED
      BY <3>1, <3>2, ZenonT(60)
  <2>2. (result.seq > 0 => AgreedAt(result.seq))'
    <3>1. result' = result
      BY <1>1, ZenonT(60)
    <3>2. result.seq > 0 => AgreedAt(result.seq)
      BY ZenonT(60) DEF Labels, PassedAgreed
    <3>3. PICK g \in Nat : g = result.seq
      BY <1>1, ZenonT(60)
    <3>4. g > 0 => AgreedAt(g)'
      BY <3>2, <3>3, AgreedLasts, ZenonT(60)
    <3>5. g = result'.seq
      BY <3>1, <3>3, ZenonT(60)
    <3> QED
      BY <3>4, <3>5, ZenonT(60) DEF AgreedAt
  <2> QED
    <3>1. ASSUME NEW q \in Rank, NEW g \in 1 .. gen'[q], Passed(q, g)'
          PROVE  AgreedAt(g)'
      BY <2>1, <3>1, AgreedLasts, ZenonT(60)
    <3> QED
      BY <2>2, <3>1, ZenonT(60) DEF PassedAgreed
<1> QED
  BY <1>4, <1>5, <1>6, <1>7, ZenonT(60) DEF Labels

\* A step that issues no call and leaves the slots alone.
Moves(r, x) ==
  /\ pc' = [pc EXCEPT ![r] = x]
  /\ UNCHANGED <<gen, issued, slot>>
  /\ \A q \in Rank : q # r => scan'[q] = scan[q]

\* Where such a step may take its rank, and what it may announce.
MayMove(r, x) ==
  /\ x \notin Filling
  /\ x \in InOp => gen[r] > 0
  /\ \A k \in Rank :
       \/ x = "wait" /\ k < scan'[r]
       \/ x \in {"combine"} \union Producing
       => Agrees(k, gen[r], Cur(r))
  /\ x \in Outside \union Consuming /\ gen[r] > 0 => AgreedAt(gen[r])
  /\ result'.seq # result.seq => result'.seq = gen[r] /\ AgreedAt(gen[r])

\* Steps that write neither slots nor result.
LEMMA MoveLabels ==
  ASSUME Labels, TypeOK', NEW r \in Rank, NEW x \in PC, Moves(r, x), MayMove(r, x)
  PROVE  Labels'
<1>1. /\ pc' = [pc EXCEPT ![r] = x] /\ pc \in [Rank -> PC]
      /\ gen' = gen /\ issued' = issued /\ slot' = slot
      /\ \A q \in Rank : q # r => scan'[q] = scan[q]
      /\ gen \in [Rank -> Nat]
  BY ZenonT(60) DEF Moves, Labels, TypeOK
<1>2. /\ pc'[r] = x
      /\ \A q \in Rank : q # r => pc'[q] = pc[q]
      /\ \A q \in Rank : Cur(q)' = Cur(q)
  BY <1>1, ZenonT(60) DEF Cur
<1>3. /\ \A g : AgreedAt(g)' <=> AgreedAt(g)
      /\ \A k, g, c : Agrees(k, g, c)' <=> Agrees(k, g, c)
  BY <1>1, SMTT(60) DEF AgreedAt, Agrees
<1>4. Numbered'
  <2>1. ASSUME NEW q \in Rank
        PROVE  /\ gen'[q] = Len(issued'[q])
               /\ pc'[q] \in InOp => gen'[q] > 0
               /\ slot'[q].seq <= gen'[q]
               /\ (slot'[q].seq = gen'[q] /\ gen'[q] > 0) \/ pc'[q] = "publish"
                    => SameLabel(slot'[q], Cur(q)')
    BY <1>1, <1>2, ZenonT(60) DEF Labels, Numbered, MayMove, Filling
  <2> QED
    BY <2>1, ZenonT(60) DEF Numbered
<1>5. Checked'
  <2> SUFFICES ASSUME NEW q \in Rank, NEW k \in Rank,
                      \/ pc'[q] = "wait" /\ k < scan'[q]
                      \/ pc'[q] \in {"combine"} \union Producing
               PROVE  Agrees(k, gen[q], Cur(q))'
    BY ZenonT(60) DEF Checked
  <2>1. Agrees(k, gen[q], Cur(q))
    <3>1. CASE q = r
      BY <1>2, <3>1, ZenonT(60) DEF MayMove
    <3>2. CASE q # r
      BY <1>1, <1>2, <3>2, ZenonT(60) DEF Labels, Checked
    <3> QED
      BY <3>1, <3>2, ZenonT(60)
  <2> QED
    BY <1>1, <1>2, <2>1, ZenonT(60) DEF Agrees
<1>6. PassedAgreed'
  <2>1. ASSUME NEW q \in Rank, NEW g \in 1 .. gen'[q], Passed(q, g)'
        PROVE  AgreedAt(g)'
    <3>1. g \in 1 .. gen[q] /\ gen[q] \in Nat /\ gen'[q] = gen[q]
      BY <1>1, ZenonT(60)
    <3>2. CASE Passed(q, g)
      BY <1>3, <3>1, <3>2, ZenonT(60) DEF Labels, PassedAgreed
    <3>3. CASE ~Passed(q, g)
      <4>1. /\ ~(g < gen[q]) /\ pc'[q] \in Outside \union Consuming
            /\ pc[q] \notin Outside \union Consuming
        BY <1>1, <2>1, <3>3, ZenonT(60) DEF Passed
      <4>2. g = gen[q] /\ gen[q] > 0
        BY <3>1, <4>1
      <4>3. q = r /\ x \in Outside \union Consuming
        BY <1>2, <4>1, ZenonT(60)
      <4> QED
        BY <1>3, <4>2, <4>3, ZenonT(60) DEF MayMove
    <3> QED
      BY <3>2, <3>3, ZenonT(60)
  <2>2. (result.seq > 0 => AgreedAt(result.seq))'
    <3>1. CASE result'.seq = result.seq
      BY <1>1, <3>1, SMTT(60) DEF Labels, PassedAgreed, AgreedAt
    <3>2. CASE result'.seq # result.seq
      BY <1>1, <3>2, SMTT(60) DEF MayMove, AgreedAt
    <3> QED
      BY <3>1, <3>2, ZenonT(60)
  <2> QED
    BY <2>1, <2>2, ZenonT(60) DEF PassedAgreed
<1> QED
  BY <1>4, <1>5, <1>6, ZenonT(60) DEF Labels

\* The slot a writer finds at its generation: either the label it shows is
\* that of the generation, or its rank has passed it already.
LEMMA CheckAgrees ==
  ASSUME Labels, NEW r \in Rank, NEW k \in Rank, pc[r] \in InOp,
         slot[k].seq = gen[r], SameLabel(slot[k], Cur(r))
  PROVE  Agrees(k, gen[r], Cur(r))
<1>1. /\ gen[r] \in Nat /\ gen[r] > 0 /\ gen[k] \in Nat
      /\ slot[k].seq <= gen[k] /\ gen[r] <= gen[k]
  BY CurOfLabels, ZenonT(60) DEF Labels, TypeOK, Numbered
<1>2. CASE gen[k] = gen[r]
  BY <1>1, <1>2, ZenonT(60) DEF Labels, Numbered, Agrees, SameLabel, Cur
<1>3. CASE gen[k] # gen[r]
  <2>1. gen[r] \in 1 .. gen[k] /\ Passed(k, gen[r])
    BY <1>1, <1>3 DEF Passed
  <2>2. AgreedAt(gen[r])
    BY <2>1, ZenonT(60) DEF Labels, PassedAgreed
  <2> QED
    BY <1>1, <2>2, ZenonT(60) DEF AgreedAt, Agrees, SameLabel, Cur
<1> QED
  BY <1>2, <1>3, ZenonT(60)

\* A writer that has checked every slot knows that all ranks agree.
LEMMA AllChecked ==
  ASSUME NEW r \in Rank, \A k \in Rank : Agrees(k, gen[r], Cur(r))
  PROVE  AgreedAt(gen[r])
BY ZenonT(60) DEF Agrees, AgreedAt, SameLabel

\* The steps that write the slot of their own rank.
LEMMA SlotLabels ==
  ASSUME Labels, NEW r \in Rank, FillSlot(r) \/ PublishSlot(r)
  PROVE  Labels'
<1>1. /\ gen' = gen /\ issued' = issued /\ result' = result
      /\ pc' \in [Rank -> PC] /\ slot \in [Rank -> [seq : Nat, op : Op, count : Nat, data : Nat]]
      /\ gen \in [Rank -> Nat] /\ pc[r] \in Filling
      /\ \A q \in Rank : q # r => /\ pc'[q] = pc[q] /\ scan'[q] = scan[q]
                                  /\ slot'[q] = slot[q]
  BY NextType, ZenonT(60) DEF FillSlot, PublishSlot, Labels, TypeOK, Filling, Next, Step
<1>2. pc'[r] \in {"publish", "wait", "snoop"} /\ (pc'[r] = "wait" => scan'[r] = 0)
  BY ZenonT(60) DEF FillSlot, PublishSlot, Labels, TypeOK
<1>3. /\ \A q \in Rank : Cur(q)' = Cur(q)
      /\ \A g : AgreedAt(g)' <=> AgreedAt(g)
  BY <1>1 DEF Cur, AgreedAt
<1>4. TypeOK'
  BY NextType, ZenonT(60) DEF Labels, Next, Step
<1>5. Numbered'
  <2>1. ASSUME NEW q \in Rank, q # r
        PROVE  /\ gen'[q] = Len(issued'[q])
               /\ pc'[q] \in InOp => gen'[q] > 0
               /\ slot'[q].seq <= gen'[q]
               /\ (slot'[q].seq = gen'[q] /\ gen'[q] > 0) \/ pc'[q] = "publish"
                    => SameLabel(slot'[q], Cur(q)')
    BY <1>1, <1>3, <2>1, ZenonT(60) DEF Labels, Numbered
  <2>2. gen[r] = Len(issued[r]) /\ gen[r] > 0 /\ gen[r] \in Nat
    BY <1>1, CurOfLabels, ZenonT(60) DEF Labels, InOp
  <2>3. slot'[r].seq <= gen[r]
    BY <1>1, <2>2 DEF Labels, Numbered, FillSlot, PublishSlot
  <2>4. SameLabel(slot'[r], Cur(r))
    <3>1. CASE FillSlot(r)
      BY <1>1, <3>1, ZenonT(60) DEF FillSlot, SameLabel
    <3>2. CASE PublishSlot(r)
      <4>1. SameLabel(slot[r], Cur(r))
        BY <3>2, ZenonT(60) DEF PublishSlot, Labels, Numbered
      <4>2. slot'[r].op = slot[r].op /\ slot'[r].count = slot[r].count
        BY <1>1, <3>2, SMTT(60) DEF PublishSlot
      <4> QED
        BY <4>1, <4>2, ZenonT(60) DEF SameLabel
    <3> QED
      BY <3>1, <3>2, ZenonT(60)
  <2> QED
    BY <1>1, <1>3, <2>1, <2>2, <2>3, <2>4, ZenonT(60) DEF Numbered
<1>6. Checked'
  <2> SUFFICES ASSUME NEW q \in Rank, NEW k \in Rank,
                      \/ pc'[q] = "wait" /\ k < scan'[q]
                      \/ pc'[q] \in {"combine"} \union Producing
               PROVE  Agrees(k, gen[q], Cur(q))'
    BY ZenonT(60) DEF Checked
  <2>1. q # r
    BY <1>2, RankFacts, SMTT(60) DEF Producing
  <2>2. Agrees(k, gen[q], Cur(q))
    BY <1>1, <2>1, ZenonT(60) DEF Labels, Checked
  <2> QED
    BY <1>1, <1>3, <2>2, ZenonT(60) DEF Agrees
<1>7. PassedAgreed'
  <2>1. ASSUME NEW q \in Rank, NEW g \in 1 .. gen'[q], Passed(q, g)'
        PROVE  AgreedAt(g)'
    <3>1. g \in 1 .. gen[q] /\ Passed(q, g)
      BY <1>1, <1>2, <2>1, ZenonT(60) DEF Passed, Outside, Consuming
    <3> QED
      BY <1>3, <3>1, ZenonT(60) DEF Labels, PassedAgreed
  <2>2. (result.seq > 0 => AgreedAt(result.seq))'
    BY <1>1, ZenonT(60) DEF Labels, PassedAgreed, AgreedAt
  <2> QED
    BY <2>1, <2>2, ZenonT(60) DEF PassedAgreed
<1> QED
  BY <1>4, <1>5, <1>6, <1>7, ZenonT(60) DEF Labels

\* The writer's loop over the slots, and its result.
LEMMA WriterLabels ==
  ASSUME Labels, NEW r \in Rank,
         \/ WaitPeer(r) \/ Combine(r) \/ StoreResult(r) \/ LabelResult(r)
         \/ Announce(r) \/ CopyOut(r)
  PROVE  Labels'
<1>0. /\ gen[r] > 0 /\ gen[r] \in Nat /\ TypeOK' /\ scan \in [Rank -> Rank]
      /\ result.seq \in Nat /\ result \in [seq : Nat, op : Op, count : Nat, data : Payload]
      /\ pc[r] \in InOp
  <2>1. pc[r] \in InOp
    BY ZenonT(60) DEF WaitPeer, Combine, StoreResult, LabelResult, Announce, CopyOut, InOp,
           Writing, Producing, Consuming
  <2> QED
    BY <2>1, CurOfLabels, NextType, ZenonT(60) DEF Labels, TypeOK, Next, Step
<1>1. CASE WaitPeer(r)
  <2>1. PICK x : /\ x = IF scan[r] = N - 1 THEN AfterWait(Cur(r)) ELSE "wait"
                 /\ pc' = [pc EXCEPT ![r] = x]
    BY <1>1, ZenonT(60) DEF WaitPeer, NextSlot
  <2>2. x \in {"wait", "label", "store", "combine"}
    BY <2>1, ZenonT(60) DEF AfterWait
  <2>3. Moves(r, x)
    BY <1>0, <1>1, <2>1, ZenonT(60) DEF WaitPeer, NextSlot, Moves
  <2>4. ASSUME NEW k \in Rank, k <= scan[r] PROVE Agrees(k, gen[r], Cur(r))
    <3>1. CASE k = scan[r]
      BY <1>0, <1>1, <3>1, CheckAgrees, ZenonT(60) DEF WaitPeer
    <3>2. CASE k # scan[r]
      <4>1. k < scan[r]
        BY <1>0, <2>4, <3>2, RankFacts, SMTT(60)
      <4> QED
        BY <1>1, <4>1, ZenonT(60) DEF WaitPeer, Labels, Checked
    <3> QED
      BY <3>1, <3>2, ZenonT(60)
  <2>5. ASSUME NEW k \in Rank,
               \/ x = "wait" /\ k < scan'[r]
               \/ x \in {"combine"} \union Producing
        PROVE  k <= scan[r]
    <3>1. CASE scan[r] = N - 1
      BY <3>1, RankFacts, NAssumption, SMTT(60)
    <3>2. CASE scan[r] # N - 1
      <4>1. scan'[r] = scan[r] + 1 /\ x = "wait"
        BY <1>0, <1>1, <2>1, <3>2, ZenonT(60) DEF WaitPeer, NextSlot
      <4> QED
        BY <1>0, <2>5, <4>1, RankFacts, SMTT(60) DEF Producing
    <3> QED
      BY <3>1, <3>2, ZenonT(60)
  <2>6. MayMove(r, x)
    BY <1>0, <1>1, <2>2, <2>4, <2>5, ZenonT(60)
       DEF MayMove, WaitPeer, NextSlot, Filling, Outside, Consuming
  <2> QED
    BY <1>0, <2>2, <2>3, <2>6, MoveLabels, ZenonT(60) DEF PC
<1>2. CASE pc[r] \in {"combine"} \union Producing
  <2>1. \A k \in Rank : Agrees(k, gen[r], Cur(r))
    BY <1>2, ZenonT(60) DEF Labels, Checked
  <2>2. AgreedAt(gen[r])
    BY <2>1, AllChecked, ZenonT(60)
  <2>3. PICK x \in {"combine", "store", "label", "announce", "copyout"} :
          Moves(r, x)
    BY <1>0, <1>2, ZenonT(60) DEF WaitPeer, Combine, StoreResult, LabelResult, Announce, CopyOut,
                      Producing, Moves
  <2>4. result'.seq # result.seq => result'.seq = gen[r]
    BY <1>0, <1>2, ZenonT(60) DEF WaitPeer, Combine, StoreResult, LabelResult, Announce, CopyOut,
                      Producing
  <2>5. MayMove(r, x)
    BY <1>0, <2>1, <2>2, <2>3, <2>4, ZenonT(60) DEF MayMove, Filling, Outside, Consuming
  <2> QED
    BY <1>0, <2>3, <2>5, MoveLabels, ZenonT(60) DEF PC
<1>3. CASE CopyOut(r)
  <2>1. Moves(r, "idle") /\ result' = result /\ pc[r] = "copyout"
    BY <1>3, ZenonT(60) DEF CopyOut, Moves
  <2>2. AgreedAt(gen[r])
    BY <1>0, <2>1 DEF Labels, PassedAgreed, Passed, Consuming
  <2>3. MayMove(r, "idle")
    BY <1>0, <2>1, <2>2, ZenonT(60) DEF MayMove, Filling, InOp, Writing, Producing, Outside,
                            Consuming
  <2> QED
    BY <1>0, <2>1, <2>3, MoveLabels, ZenonT(60) DEF PC
<1> QED
  BY <1>1, <1>2, <1>3, ZenonT(60) DEF Combine, StoreResult, LabelResult, Announce, Producing

\* The readers of the result line, the fallback and the aborts.
LEMMA ReaderLabels ==
  ASSUME Labels, NEW r \in Rank,
         \/ Snoop(r) \/ Verify(r) \/ CopyResult(r) \/ PmpiReturn(r)
         \/ \E c \in Calls : FallBack(r, c)
         \/ PeerDiverged(r) \/ RanAhead(r) \/ SpinTimeout(r) \/ Killed(r)
  PROVE  Labels'
<1>0. TypeOK' /\ gen[r] \in Nat
  BY NextType, ZenonT(60) DEF Labels, TypeOK, Next, Step
<1>1. CASE Snoop(r)
  <2>1. /\ Moves(r, "verify") /\ result' = result
        /\ result.seq = gen[r] /\ pc[r] = "snoop"
    BY <1>1, ZenonT(60) DEF Snoop, Moves
  <2>2. gen[r] > 0
    BY <2>1, CurOfLabels, ZenonT(60) DEF Labels, InOp
  <2>3. AgreedAt(gen[r])
    BY <2>1, <2>2, ZenonT(60) DEF Labels, PassedAgreed
  <2>4. MayMove(r, "verify")
    BY <2>1, <2>2, <2>3, ZenonT(60) DEF MayMove, Filling, Producing
  <2> QED
    BY <1>0, <2>1, <2>4, MoveLabels, ZenonT(60) DEF PC
<1>2. CASE pc[r] \in Outside \union Consuming /\ pc'[r] # "aborted" /\ ~Snoop(r)
  <2>1. PICK x \in {"idle", "pmpi", "copy"} : Moves(r, x)
    BY <1>2, ZenonT(60) DEF Verify, CopyResult, PmpiReturn, FallBack, PeerDiverged, RanAhead,
                SpinTimeout, Killed, Abort, Moves, Labels, TypeOK
  <2>2. result' = result
    BY <1>2, ZenonT(60) DEF Verify, CopyResult, PmpiReturn, FallBack, PeerDiverged, RanAhead,
                SpinTimeout, Killed, Abort
  <2>3. gen[r] > 0 => AgreedAt(gen[r])
    BY <1>0, <1>2 DEF Labels, PassedAgreed, Passed
  <2>4. x \in InOp => gen[r] > 0
    BY <1>2, <2>1, ZenonT(60) DEF Verify, CopyResult, PmpiReturn, FallBack, PeerDiverged, RanAhead,
                SpinTimeout, Killed, Abort, Moves, Labels, TypeOK, Numbered, InOp,
                Filling, Writing, Producing, Consuming
  <2>5. MayMove(r, x)
    BY <2>1, <2>2, <2>3, <2>4, ZenonT(60) DEF MayMove, Filling, Producing
  <2> QED
    BY <1>0, <2>1, <2>5, MoveLabels, ZenonT(60) DEF PC
<1>3. CASE pc'[r] = "aborted" /\ ~Snoop(r)
  <2>1. Moves(r, "aborted") /\ result' = result
    BY <1>3, ZenonT(60) DEF Verify, CopyResult, PmpiReturn, FallBack, PeerDiverged, RanAhead,
                SpinTimeout, Killed, Abort, Moves, Labels, TypeOK
  <2>2. MayMove(r, "aborted")
    BY <2>1, ZenonT(60) DEF MayMove, Filling, InOp, Writing, Producing, Outside, Consuming
  <2> QED
    BY <1>0, <2>1, <2>2, MoveLabels, ZenonT(60) DEF PC
<1>4. pc[r] \in Outside \union Consuming \/ pc'[r] = "aborted" \/ Snoop(r)
  BY ZenonT(60) DEF Verify, CopyResult, PmpiReturn, FallBack, PeerDiverged, RanAhead,
         SpinTimeout, Killed, Abort, Labels, TypeOK, Outside, Consuming
<1> QED
  BY <1>1, <1>2, <1>3, <1>4, ZenonT(60)

\* The segment as it is created.
LEMMA InitLabels == Init => Labels
<1> SUFFICES ASSUME Init PROVE Labels
  BY SMTT(60)
<1>1. TypeOK
  BY RankFacts DEF Init, TypeOK, PC, Op, NoPayload, Payload, Fatal
<1>2. Numbered
  BY DEF Init, Numbered, InOp, Filling, Writing, Producing, Consuming
<1>3. Checked
  BY ZenonT(60) DEF Init, Checked, Producing
<1>4. PassedAgreed
  <2>1. \A r \in Rank : gen[r] = 0
    BY ZenonT(60) DEF Init
  <2> QED
    BY <2>1 DEF Init, PassedAgreed
<1> QED
  BY <1>1, <1>2, <1>3, <1>4, ZenonT(60) DEF Labels

\* Every step of the engine keeps the labels.
LEMMA NextLabels == Labels /\ [Next]_vars => Labels'
<1> SUFFICES ASSUME Labels, [Next]_vars PROVE Labels'
  BY ZenonT(60)
<1>1. ASSUME NEW r \in Rank, NEW c \in Calls, Enter(r, c) \/ FallBack(r, c)
      PROVE  Labels'
  BY <1>1, EnterLabels, ReaderLabels, ZenonT(60)
<1>2. ASSUME NEW r \in Rank, Step(r) \/ SpinTimeout(r) \/ Killed(r)
      PROVE  Labels'
  BY <1>2, SlotLabels, WriterLabels, ReaderLabels, ZenonT(60) DEF Step
<1>3. CASE UNCHANGED vars
  <2>1. /\ TypeOK' /\ Numbered' /\ Checked'
    BY <1>3, ZenonT(60) DEF vars, Labels, TypeOK, Numbered, Checked, Cur, Agrees
  <2>2. PassedAgreed'
    BY <1>3 DEF vars, Labels, PassedAgreed, Passed, AgreedAt
  <2> QED
    BY <2>1, <2>2, ZenonT(60) DEF Labels
<1> QED
  BY <1>1, <1>2, <1>3, ZenonT(60) DEF Next, Terminated

\* The invariant of the labels, for streams of any kind.
THEOREM LabelInvariant == Spec => []Labels
BY InitLabels, NextLabels, PTL DEF Spec

\* Type correctness of the collective engine, for every number of ranks and
\* every set of calls, however the streams differ.
THEOREM TypeCorrect == Spec => []TypeOK
<1>1. Labels => TypeOK
  BY ZenonT(60) DEF Labels
<1> QED
  BY <1>1, LabelInvariant, PTL

\* The cross-checks of shm_op (shmcomm.cpp lines 25-29) suffice for streams of
\* any kind: a rank returns from its g-th collective only when every rank has
\* issued a g-th one with its opcode and count.
THEOREM ReturnsLabelledHolds == Spec => []ReturnsLabelled
<1>1. Labels => ReturnsLabelled
  <2> SUFFICES ASSUME Labels, NEW r \in Rank, pc[r] \in Outside, gen[r] > 0,
                      NEW q \in Rank
               PROVE  /\ gen[q] >= gen[r]
                      /\ issued[q][gen[r]].op = Cur(r).op
                      /\ issued[q][gen[r]].count = Cur(r).count
    BY ZenonT(60) DEF ReturnsLabelled
  <2>1. gen[r] \in Nat /\ gen[q] \in Nat
    BY ZenonT(60) DEF Labels, TypeOK
  <2>2. gen[r] \in 1 .. gen[r] /\ Passed(r, gen[r])
    BY <2>1 DEF Passed
  <2>3. AgreedAt(gen[r])
    BY <2>2, ZenonT(60) DEF Labels, PassedAgreed
  <2> QED
    BY <2>1, <2>3, ZenonT(60) DEF AgreedAt, Cur
<1> QED
  BY <1>1, LabelInvariant, PTL

-----------------------------------------------------------------------------
(***************************************************************************)
(* The engine implements Collective.  Without timeouts nobody aborts, so   *)
(* every step of shm_op but the last is invisible to the callers.          *)
(***************************************************************************)
Alive == \A r \in Rank : pc[r] # "aborted"

\* A step of a conformant application without timeouts aborts nobody.
LEMMA StaysAlive ==
  ASSUME Discipline = "conformant", ~Timeouts, IInv, Alive, [Next]_vars
  PROVE  Alive'
<1>1. CASE UNCHANGED vars
  BY <1>1, ZenonT(60) DEF vars, Alive
<1>2. ASSUME NEW r \in Rank, NEW c \in Calls, Enter(r, c) \/ FallBack(r, c)
      PROVE  Alive'
  BY <1>2, ZenonT(60) DEF Alive, Enter, FallBack, IInv, TypeOK
<1>3. ASSUME NEW r \in Rank, Step(r) PROVE Alive'
  <2>1. /\ ~RanAhead(r) /\ ~PeerDiverged(r)
        /\ pc[r] = "verify" => SameLabel(result, Cur(r))
    BY ImpossibleAborts, NoDivergence, ZenonT(60)
  <2>2. pc \in [Rank -> PC]
    BY ZenonT(60) DEF IInv, TypeOK
  <2>3. ASSUME NEW x, x # "aborted", pc' = [pc EXCEPT ![r] = x] PROVE Alive'
    BY <2>2, <2>3, ZenonT(60) DEF Alive
  <2>4. AfterWait(Cur(r)) # "aborted"
    <3>1. AfterWait(Cur(r)) \in {"label", "store", "combine"}
      BY ZenonT(60) DEF AfterWait
    <3> QED
      BY <3>1, ZenonT(60)
  <2>5. PmpiReturn(r) \/ FillSlot(r) \/ PublishSlot(r) => Alive'
    BY <2>3, ZenonT(60) DEF PmpiReturn, FillSlot, PublishSlot
  <2>6. WaitPeer(r) => Alive'
    BY <2>3, <2>4, ZenonT(60) DEF WaitPeer, NextSlot
  <2>7. Combine(r) \/ StoreResult(r) \/ LabelResult(r) \/ Announce(r) => Alive'
    BY <2>3, ZenonT(60) DEF Combine, StoreResult, LabelResult, Announce
  <2>8. CopyOut(r) \/ Snoop(r) \/ Verify(r) \/ CopyResult(r) => Alive'
    BY <2>1, <2>3, ZenonT(60) DEF CopyOut, Snoop, Verify, CopyResult
  <2> QED
    BY <1>3, <2>1, <2>5, <2>6, <2>7, <2>8, ZenonT(60) DEF Step
<1>4. ASSUME NEW r \in Rank, SpinTimeout(r) \/ Killed(r) PROVE Alive'
  BY <1>4, ZenonT(60) DEF SpinTimeout, Killed, Alive
<1>5. CASE Terminated
  BY <1>1, <1>5, ZenonT(60) DEF Terminated
<1> QED
  BY <1>1, <1>2, <1>3, <1>4, <1>5, ZenonT(60) DEF Next

\* A step that leaves the streams and the output buffers alone, and does not
\* take its rank in or out of shm_op, is invisible.
LEMMA Invisible ==
  ASSUME TypeOK, NEW r \in Rank, NEW x, pc' = [pc EXCEPT ![r] = x],
         pc[r] \in Outside <=> x \in Outside,
         UNCHANGED <<gen, issued, out>>
  PROVE  UNCHANGED Abstract!vars
<1>1. Completed' = Completed
  BY ZenonT(60) DEF Completed, TypeOK
<1> QED
  BY <1>1, ZenonT(60) DEF Abstract!vars

\* Entering shm_op is a call of the abstract specification.
LEMMA EnterCalls ==
  ASSUME Discipline = "conformant", IInv, NEW r \in Rank, NEW c \in Calls,
         Enter(r, c)
  PROVE  Abstract!Call(r, c)
<1>1. TypeOK /\ SlotInv
  BY ZenonT(60) DEF IInv
<1>2. /\ pc[r] = "idle" /\ MayIssue(r, c)
      /\ gen' = [gen EXCEPT ![r] = @ + 1]
      /\ issued' = [issued EXCEPT ![r] = Append(@, c)]
      /\ pc' = [pc EXCEPT ![r] = "fill"]
      /\ out' = out
  BY ZenonT(60) DEF Enter
<1>3. \A q \in Rank : gen[q] \in Nat /\ gen[q] = Len(issued[q])
  BY <1>1, ZenonT(60) DEF TypeOK, SlotInv
<1>4. Completed' = Completed
  BY <1>1, <1>2, <1>3, SMTT(60) DEF Completed, TypeOK, Outside
<1>5. Completed[r] = Len(issued[r])
  BY <1>2, <1>3, ZenonT(60) DEF Completed, Outside
<1>6. \A q \in Rank : Len(issued[q]) > Len(issued[r])
                        => issued[q][Len(issued[r]) + 1] = c
  BY <1>2, <1>3, ZenonT(60) DEF MayIssue, Compatible
<1> QED
  BY <1>2, <1>4, <1>5, <1>6, ZenonT(60) DEF Abstract!Call

\* The last step of shm_op is a return of the abstract specification.
LEMMA LastStepReturns ==
  ASSUME Discipline = "conformant", IInv, NEW r \in Rank,
         CopyOut(r) \/ CopyResult(r)
  PROVE  Abstract!Return(r)
<1>1. TypeOK /\ SlotInv /\ LockStep /\ ResultInv /\ Agreement
  BY ZenonT(60) DEF IInv
<1>2. /\ pc[r] \in Consuming
      /\ pc' = [pc EXCEPT ![r] = "idle"]
      /\ gen' = gen /\ issued' = issued
  BY ZenonT(60) DEF CopyOut, CopyResult, Consuming
<1>3. /\ gen[r] \in Nat /\ gen[r] > 0 /\ Cur(r) \in CallType
      /\ gen[r] = Len(issued[r])
  BY <1>1, <1>2, CurrentCall, ZenonT(60) DEF InOp, SlotInv
<1>4. gen[r] = result.seq
  BY <1>1, <1>2, ZenonT(60) DEF LockStep
<1>5. Cur(r).bytes > 0 => result.data = Delivered(Cur(r), gen[r])
  BY <1>1, <1>3, <1>4, ZenonT(60) DEF ResultInv
<1>6. out' = [out EXCEPT ![r] =
                IF Cur(r).bytes = 0 THEN @ ELSE Delivered(Cur(r), gen[r])]
  <2>1. Cur(r).bytes > 0 <=> Cur(r).bytes # 0
    BY <1>3, SMTT(60) DEF CallType
  <2> QED
    BY <1>5, <2>1, ZenonT(60) DEF CopyOut, CopyResult
<1>7. ASSUME NEW q \in Rank
      PROVE  Len(issued[q]) >= gen[r] /\ issued[q][gen[r]] = Cur(r)
  <2>1. /\ gen[q] = Len(issued[q]) /\ gen[q] \in Nat /\ slot[q].seq \in Nat
        /\ slot[q].seq <= gen[q]
    <3>1. gen[q] \in Nat /\ slot[q].seq \in Nat
      BY <1>1, ZenonT(60) DEF TypeOK
    <3> QED
      BY <1>1, <3>1, SMTT(60) DEF SlotInv
  <2>2. result.seq <= slot[q].seq
    BY <1>1, ZenonT(60) DEF LockStep
  <2>3. issued[q][gen[r]] = Cur(r)
    BY <1>1, <1>3, <1>4, SMTT(60) DEF Agreement, Cur
  <2> QED
    BY <1>3, <1>4, <2>1, <2>2, <2>3, SMTT(60)
<1>8. Completed[r] < gen[r]
  BY <1>2, <1>3, SMTT(60) DEF Completed, Consuming, Outside
<1>9. Completed' = [Completed EXCEPT ![r] = gen[r]]
  BY <1>1, <1>2, ZenonT(60) DEF Completed, TypeOK, Outside
<1> QED
  BY <1>2, <1>3, <1>6, <1>7, <1>8, <1>9, ZenonT(60) DEF Abstract!Return, Cur

\* Every step of a conformant application is a step of Collective or
\* invisible.
LEMMA StepSimulation ==
  ASSUME Discipline = "conformant", ~Timeouts, IInv, Alive, [Next]_vars
  PROVE  [Abstract!Next]_(Abstract!vars)
<1>0. TypeOK
  BY ZenonT(60) DEF IInv
<1>1. CASE UNCHANGED vars
  BY <1>1, ZenonT(60) DEF vars, Abstract!vars, Completed
<1>2. ASSUME NEW r \in Rank, NEW c \in Calls, Enter(r, c)
      PROVE  Abstract!Next
  BY <1>2, EnterCalls, ZenonT(60) DEF Abstract!Next
<1>3. ASSUME NEW r \in Rank, NEW c \in Calls, FallBack(r, c)
      PROVE  UNCHANGED Abstract!vars
  BY <1>0, <1>3, Invisible, ZenonT(60) DEF FallBack, Outside
<1>4. ASSUME NEW r \in Rank, Step(r) PROVE [Abstract!Next]_(Abstract!vars)
  <2>8. /\ ~RanAhead(r) /\ ~PeerDiverged(r)
        /\ pc[r] = "verify" => SameLabel(result, Cur(r))
    BY ImpossibleAborts, NoDivergence
  <2>1. CASE CopyOut(r) \/ CopyResult(r)
    BY <2>1, LastStepReturns, ZenonT(60) DEF Abstract!Next
  <2>2. CASE PmpiReturn(r) \/ FillSlot(r)
    BY <1>0, <2>2, Invisible, ZenonT(60) DEF PmpiReturn, FillSlot, Outside
  <2>3. CASE PublishSlot(r)
    BY <1>0, <2>3, Invisible, ZenonT(60) DEF PublishSlot, Outside
  <2>4. CASE WaitPeer(r)
    <3>1. AfterWait(Cur(r)) \in {"label", "store", "combine"}
      BY DEF AfterWait
    <3> QED
      BY <1>0, <2>4, <3>1, Invisible, ZenonT(60) DEF WaitPeer, NextSlot, Outside
  <2>5. CASE Combine(r)
    BY <1>0, <2>5, Invisible, ZenonT(60) DEF Combine, Outside
  <2>6. CASE StoreResult(r) \/ LabelResult(r) \/ Announce(r)
    BY <1>0, <2>6, Invisible, ZenonT(60) DEF StoreResult, LabelResult, Announce, Outside
  <2>7. CASE Snoop(r) \/ Verify(r)
    BY <1>0, <2>7, <2>8, Invisible, ZenonT(60) DEF Snoop, Verify, Outside
  <2> QED
    BY <1>4, <2>1, <2>2, <2>3, <2>4, <2>5, <2>6, <2>7, <2>8, ZenonT(60) DEF Step
<1>5. ASSUME NEW r \in Rank PROVE ~SpinTimeout(r) /\ ~Killed(r)
  BY ZenonT(60) DEF SpinTimeout, Killed, Alive
<1>6. CASE Terminated
  BY <1>1, <1>6, ZenonT(60) DEF Terminated
<1> QED
  BY <1>1, <1>2, <1>3, <1>4, <1>5, <1>6, ZenonT(60) DEF Next

\* For a conformant application whose spins do not time out, shm_op
\* implements the collectives of Collective, for every number of ranks.
THEOREM Refinement ==
  ASSUME Discipline = "conformant", ~Timeouts
  PROVE  Spec => Implements
<1>1. Discipline # "free"
  BY ZenonT(60)
<1>2. Spec => []IInv
  BY <1>1, InductiveInvariant, ZenonT(60)
<1>3. Init => Alive /\ Abstract!Init
  BY ZenonT(60) DEF Init, Alive, Abstract!Init, Completed, Outside, NoPayload
<1>4. IInv /\ Alive /\ [Next]_vars => Alive'
  BY StaysAlive, ZenonT(60)
<1>5. IInv /\ Alive /\ [Next]_vars => [Abstract!Next]_(Abstract!vars)
  BY StepSimulation, ZenonT(60)
<1> QED
  BY <1>2, <1>3, <1>4, <1>5, PTL DEF Spec, Implements, Abstract!Spec
=============================================================================
