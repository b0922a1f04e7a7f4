----------------------------- MODULE ShmDirect ------------------------------
(***************************************************************************)
(* The direct halo exchange of ShmDistributor (mpi/shmcomm.cpp, HALO=3)    *)
(* between two ranks: direct_setup, the direct branches of exchange() and  *)
(* the destructor, on top of the two ranks' arena slices.                  *)
(*                                                                         *)
(* For every distributor instance a rank owns a descriptor line the peer   *)
(* reads, an ack line the peer reads, and staging for its messages.  The   *)
(* lines live in arena blocks that are recycled when an instance dies, so  *)
(* memory is modelled by block: a reader that follows an old offset finds  *)
(* whatever the block holds now.                                           *)
(*                                                                         *)
(* An exchange moves one message, from rank 0 to rank 1 or, in reverse,    *)
(* from rank 1 to rank 0.  Creating a distributor and exchanging are       *)
(* collective; destroying one and allocating a vector are local.           *)
(***************************************************************************)
EXTENDS ArenaOps, Integers, FiniteSets

CONSTANTS
  Instances,     \* distributor objects, numbered as they are created
  Sizes,         \* bytes of a message
  VectorSizes,   \* bytes of a vector
  Synchronised,  \* does the application destroy an instance only after the
                 \* peer has left every exchange on it?
  MaxOps,        \* bound: collective operations
  MaxVectors     \* bound: vectors per rank

\* Empty messages and vectors without points need no storage.
ASSUME DirectAssumption ==
  /\ Sizes \subseteq Nat \ {0} /\ VectorSizes \subseteq Nat \ {0}
  /\ Instances \subseteq Nat \ {0}

Rank == {0, 1}
Peer(r) == 1 - r

VARIABLES
  pc,      \* where each rank is
  script,  \* the collective operations, the same for both ranks
  pos,     \* operations each rank has started
  inst,    \* the ShmDistributor objects of each rank
  arena,   \* the allocators
  mem,     \* what each block of each slice holds
  buf,     \* the message last copied out, per rank
  owned,   \* blocks of each rank's live vectors
  fatal    \* why a rank called abort()

vars == <<pc, script, pos, inst, arena, mem, buf, owned, fatal>>

\* A block as its readers see it: first word, descriptor fields, payload.
\* Junk stands for the first word of a block that holds payload: it may
\* compare either way with an epoch.
Junk == -1
Zeroed == [word |-> 0, off |-> 0, bytes |-> 0, msg |-> <<>>]
Payload(m) == [word |-> Junk, off |-> 0, bytes |-> 0, msg |-> m]

NoInst == [st |-> "none", desc |-> 0, ack |-> 0, peerDesc |-> 0, peerAck |-> 0,
           stag |-> 0, sendEp |-> 0, recvEp |-> 0]

Init ==
  /\ pc = [r \in Rank |-> "idle"]
  /\ script = <<>>
  /\ pos = [r \in Rank |-> 0]
  /\ inst = [r \in Rank |-> [i \in Instances |-> NoInst]]
  /\ arena = [r \in Rank |-> NewArena]
  /\ mem = [r \in Rank |-> [a \in 1 .. Slice |-> Zeroed]]
  /\ buf = [r \in Rank |-> <<>>]
  /\ owned = [r \in Rank |-> {}]
  /\ fatal = [r \in Rank |-> "none"]

Op(r) == script[pos[r]]
Cur(r) == inst[r][Op(r).i]
Sender(o) == IF o.rev THEN 1 ELSE 0

\* The words a rank's loads go to.
PeerAckWord(r) == mem[Peer(r)][Cur(r).peerAck].word
PeerDesc(r) == mem[Peer(r)][Cur(r).peerDesc]

\* A collective operation: the first rank to arrive decides, the other follows.
Start(r, o) ==
  /\ pc[r] = "idle"
  /\ pos[r] < MaxOps
  /\ IF pos[r] < Len(script) THEN o = script[pos[r] + 1] /\ script' = script
                             ELSE script' = Append(script, o)
  /\ pos' = [pos EXCEPT ![r] = @ + 1]

-----------------------------------------------------------------------------
(* direct_setup *)

TableLines == 2  \* nranks lines, for the descriptors and for the acks

\* Allocate and clear both tables; what cannot be had stays null.
SetupLocal(r, i) ==
  LET a == arena[r]
      b == AfterAlloc(a, TableLines)
      okDesc == CanAlloc(a, TableLines)
      okAck == okDesc /\ CanAlloc(b, TableLines)
      desc == IF okDesc THEN BlockOf(a, TableLines) ELSE 0
      ack == IF okAck THEN BlockOf(b, TableLines) ELSE 0
  IN /\ Start(r, [kind |-> "create", i |-> i, rev |-> FALSE, bytes |-> 0])
     /\ {j \in Instances : inst[r][j].st # "none"} = 1 .. (i - 1)
     /\ inst' = [inst EXCEPT ![r][i] = [NoInst EXCEPT !.st = "setup", !.desc = desc, !.ack = ack]]
     /\ arena' = [arena EXCEPT ![r] = IF ~okDesc THEN a
                                      ELSE IF ~okAck THEN b ELSE AfterAlloc(b, TableLines)]
     /\ mem' = IF okAck
                 THEN [mem EXCEPT ![r][desc] = Zeroed, ![r][ack] = Zeroed] ELSE mem
     /\ pc' = [pc EXCEPT ![r] = "agree"]
     /\ UNCHANGED <<buf, owned, fatal>>

\* The two collectives: every rank sees whether all have their tables.
SetupAgree(r) ==
  LET i == Op(r).i
      q == inst[Peer(r)][i]
      allok == \A x \in {Cur(r), q} : x.desc # 0 /\ x.ack # 0
  IN /\ pc[r] = "agree"
     /\ q.st # "none"
     /\ inst' = [inst EXCEPT ![r][i] = [@ EXCEPT !.st = IF allok THEN "direct" ELSE "rings",
                                                 !.peerDesc = q.desc, !.peerAck = q.ack]]
     /\ pc' = [pc EXCEPT ![r] = "idle"]
     /\ UNCHANGED <<script, pos, arena, mem, buf, owned, fatal>>

-----------------------------------------------------------------------------
(* exchange, direct mode *)

\* Both ends take the next epoch of their stream.  The ranks run one program:
\* what one has destroyed the other no longer uses in a new exchange.
Enter(r, i, rev, bytes) ==
  LET o == [kind |-> "exchange", i |-> i, rev |-> rev, bytes |-> bytes]
  IN /\ Start(r, o)
     /\ inst[r][i].st = "direct"
     /\ pos[r] = Len(script) => inst[Peer(r)][i].st # "gone"
     /\ IF r = Sender(o)
          THEN /\ inst' = [inst EXCEPT ![r][i].sendEp = @ + 1]
               /\ pc' = [pc EXCEPT ![r] = "stage"]
          ELSE /\ inst' = [inst EXCEPT ![r][i].recvEp = @ + 1]
               /\ pc' = [pc EXCEPT ![r] = "poll"]
     /\ UNCHANGED <<arena, mem, buf, owned, fatal>>

Abort(r, why) ==
  /\ pc' = [pc EXCEPT ![r] = "aborted"]
  /\ fatal' = [fatal EXCEPT ![r] = why]
  /\ UNCHANGED <<script, pos, inst, arena, mem, buf, owned>>

\* Is the previous message acknowledged?  A junk word may look like anything.
Acked(r) ==
  LET word == PeerAckWord(r)
  IN word = Junk \/ word >= Cur(r).sendEp - 1

\* The staging is kept, or grown: allocate first, then free the old block.
Fits(r) == Cur(r).stag # 0 /\ arena[r].size[Cur(r).stag] * Line >= Op(r).bytes

\* Write the message at block s, and the descriptor that points to it.
WriteStaging(r, s) ==
  /\ mem' = [mem EXCEPT
       ![r][s] = Payload(<<Op(r).i, Cur(r).sendEp>>),
       ![r][Cur(r).desc] = [@ EXCEPT !.off = s, !.bytes = Op(r).bytes]]
  /\ pc' = [pc EXCEPT ![r] = "publish"]

\* Mutant: the ack is not looked at.
StageUnacked(r) ==
  /\ pc[r] = "stage"
  /\ Fits(r)
  /\ WriteStaging(r, Cur(r).stag)
  /\ UNCHANGED <<script, pos, inst, arena, buf, owned, fatal>>

Stage(r) ==
  /\ pc[r] = "stage"
  /\ Acked(r) /\ Fits(r)
  /\ WriteStaging(r, Cur(r).stag)
  /\ UNCHANGED <<script, pos, inst, arena, buf, owned, fatal>>

\* Mutant: the old staging stays where it is freed from.
StageGrowDangling(r) ==
  LET a == arena[r]
      n == Lines(Op(r).bytes)
      old == Cur(r).stag
  IN /\ pc[r] = "stage"
     /\ Acked(r) /\ ~Fits(r) /\ CanAlloc(a, n)
     /\ arena' = [arena EXCEPT ![r] =
          IF old = 0 THEN AfterAlloc(a, n) ELSE AfterFree(AfterAlloc(a, n), BlockOf(a, n))]
     /\ inst' = [inst EXCEPT ![r][Op(r).i].stag = BlockOf(a, n)]
     /\ WriteStaging(r, BlockOf(a, n))
     /\ UNCHANGED <<script, pos, buf, owned, fatal>>

StageGrow(r) ==
  LET a == arena[r]
      n == Lines(Op(r).bytes)
      old == Cur(r).stag
  IN /\ pc[r] = "stage"
     /\ Acked(r) /\ ~Fits(r) /\ CanAlloc(a, n)
     /\ arena' = [arena EXCEPT ![r] =
          IF old = 0 THEN AfterAlloc(a, n) ELSE AfterFree(AfterAlloc(a, n), old)]
     /\ inst' = [inst EXCEPT ![r][Op(r).i].stag = BlockOf(a, n)]
     /\ WriteStaging(r, BlockOf(a, n))
     /\ UNCHANGED <<script, pos, buf, owned, fatal>>

StageExhausted(r) ==
  /\ pc[r] = "stage"
  /\ Acked(r) /\ ~Fits(r) /\ ~CanAlloc(arena[r], Lines(Op(r).bytes))
  /\ Abort(r, "exhausted")

\* The release store of the epoch.
Publish(r) ==
  /\ pc[r] = "publish"
  /\ mem' = [mem EXCEPT ![r][Cur(r).desc].word = Cur(r).sendEp]
  /\ pc' = [pc EXCEPT ![r] = "idle"]
  /\ UNCHANGED <<script, pos, inst, arena, buf, owned, fatal>>

\* Has the peer published this epoch?  The size is checked.
Published(r) ==
  LET word == PeerDesc(r).word
  IN word = Junk \/ word >= Cur(r).recvEp

See(r) ==
  /\ pc[r] = "poll"
  /\ Published(r)
  /\ IF PeerDesc(r).bytes = Op(r).bytes
       THEN /\ pc' = [pc EXCEPT ![r] = "copy"]
            /\ UNCHANGED <<script, pos, inst, arena, mem, buf, owned, fatal>>
       ELSE Abort(r, "size")

\* memcpy out of the sender's slice.
CopyMsg(r) ==
  LET off == PeerDesc(r).off
  IN /\ pc[r] = "copy"
     /\ buf' = [buf EXCEPT ![r] = IF off = 0 THEN <<>> ELSE mem[Peer(r)][off].msg]
     /\ pc' = [pc EXCEPT ![r] = "ack"]
     /\ UNCHANGED <<script, pos, inst, arena, mem, owned, fatal>>

\* Mutant: the ack is left for the next message.
AckLate(r) ==
  /\ pc[r] = "ack"
  /\ mem' = [mem EXCEPT ![r][Cur(r).ack].word = Cur(r).recvEp - 1]
  /\ pc' = [pc EXCEPT ![r] = "idle"]
  /\ UNCHANGED <<script, pos, inst, arena, buf, owned, fatal>>

\* The release store of the ack.
Ack(r) ==
  /\ pc[r] = "ack"
  /\ mem' = [mem EXCEPT ![r][Cur(r).ack].word = Cur(r).recvEp]
  /\ pc' = [pc EXCEPT ![r] = "idle"]
  /\ UNCHANGED <<script, pos, inst, arena, buf, owned, fatal>>

-----------------------------------------------------------------------------
(* The rest of the application *)

\* What an object owns; a dead one is only remembered for what it offered the
\* peer in direct_setup.
Blocks(x) == IF x.st = "gone" THEN {} ELSE {x.desc, x.ack, x.stag} \ {0}

\* Has rank q left every operation on instance i?
DoneWith(q, i) ==
  \A k \in 1 .. Len(script) :
    script[k].i = i => k < pos[q] \/ (k = pos[q] /\ pc[q] = "idle")

\* if (p) arena_free(p).
Returned(a, b) == IF b = 0 THEN a ELSE AfterFree(a, b)

\* ~ShmDistributor: tables and staging go back to the free lists.
Destroy(r, i) ==
  LET x == inst[r][i]
  IN /\ pc[r] = "idle"
     /\ x.st \in {"direct", "rings"}
     /\ DoneWith(r, i)
     /\ Synchronised => DoneWith(Peer(r), i)
     /\ arena' = [arena EXCEPT ![r] =
          Returned(Returned(Returned(@, x.desc), x.ack), x.stag)]
     /\ inst' = [inst EXCEPT ![r][i] =
          [NoInst EXCEPT !.st = "gone", !.desc = x.desc, !.ack = x.ack]]
     /\ UNCHANGED <<pc, script, pos, mem, buf, owned, fatal>>

\* A vector is allocated in the rank's slice and filled.
NewVector(r, bytes) ==
  LET a == arena[r]
      n == Lines(bytes)
  IN /\ pc[r] = "idle"
     /\ Cardinality(owned[r]) < MaxVectors
     /\ CanAlloc(a, n)
     /\ arena' = [arena EXCEPT ![r] = AfterAlloc(a, n)]
     /\ owned' = [owned EXCEPT ![r] = @ \cup {BlockOf(a, n)}]
     /\ mem' = [mem EXCEPT ![r][BlockOf(a, n)] = Payload(<<"vector">>)]
     /\ UNCHANGED <<pc, script, pos, inst, buf, fatal>>

Exchanging(r) ==
  \/ SetupAgree(r)
  \/ Stage(r) \/ StageGrow(r) \/ StageExhausted(r) \/ Publish(r)
  \/ See(r) \/ CopyMsg(r) \/ Ack(r)

Next ==
  \E r \in Rank :
    \/ \E i \in Instances : SetupLocal(r, i) \/ Destroy(r, i)
    \/ \E i \in Instances, rev \in BOOLEAN, b \in Sizes : Enter(r, i, rev, b)
    \/ Exchanging(r)
    \/ \E b \in VectorSizes : NewVector(r, b)

Spec == Init /\ [][Next]_vars

\* A rank inside an exchange or a collective keeps running.
FairSpec == Spec /\ \A r \in Rank : WF_vars(Exchanging(r))

-----------------------------------------------------------------------------
\* A receiver copies exactly the message of its epoch, although staging,
\* descriptors and acks are recycled between messages and instances.
DirectDelivers ==
  \A r \in Rank : pc[r] = "ack" => buf[r] = <<Op(r).i, Cur(r).recvEp>>

\* The staging of a message that the receiver has not copied yet still holds
\* it: the sender polls the ack line before it reuses the staging.
StagingKept ==
  \A r \in Rank : pc[r] = "copy" =>
    /\ PeerDesc(r).off # 0
    /\ mem[Peer(r)][PeerDesc(r).off].msg = <<Op(r).i, Cur(r).recvEp>>

\* A block has one owner: tables and staging of live instances and vectors
\* are disjoint and none of them is on a free list.
OneOwner ==
  \A r \in Rank :
    LET free == FreeBlocks(arena[r])
    IN /\ \A i, j \in Instances : i # j => Blocks(inst[r][i]) \cap Blocks(inst[r][j]) = {}
       /\ \A i \in Instances : Blocks(inst[r][i]) \cap (owned[r] \cup free) = {}
       /\ owned[r] \cap free = {}

\* Every exchange both ranks have entered ends: the epoch and ack streams
\* never leave both sides waiting.
DirectEnds ==
  \A r \in Rank : (pc[r] # "idle") ~>
    (pc[r] = "idle" \/ pos[Peer(r)] < pos[r] \/ \E q \in Rank : pc[q] = "aborted")
=============================================================================
