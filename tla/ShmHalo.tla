------------------------------ MODULE ShmHalo -------------------------------
(***************************************************************************)
(* The halo exchange of ShmDistributor (mpi/shmcomm.cpp) over the pairwise *)
(* rings: exchange() with its progress loop, run by every rank, one        *)
(* exchange after the other.  Rings carry no framing: both ends know every *)
(* length from the plan, and a rank may be exchanges ahead of a peer.      *)
(*                                                                         *)
(* ring_push and ring_pop are atomic here; ShmRing shows that a ring is a  *)
(* bounded FIFO byte stream, whatever their interleaving.  A push accepts  *)
(* and a pop delivers at least one byte when it can, and no more than the  *)
(* room or the bytes there are: the counter a call loads may be behind.    *)
(* A byte is represented by the exchange it belongs to and its offset.     *)
(***************************************************************************)
EXTENDS Naturals, Sequences

CONSTANTS
  N,             \* nranks
  Cap,           \* ring_cap
  Exchanges,     \* the exchanges the application may run (below)
  MaxExchanges   \* bound: exchanges per rank

Rank == 0 .. N - 1

\* A block of a plan: the peer and the number of bytes.
Block == [proc : Rank, len : Nat]

\* An entry of a pending list (Pend), and a byte.
Entry == [proc : Rank, len : Nat, left : Nat]
Byte == [ex : Nat, off : Nat]

\* An exchange: every rank's captured send blocks (sblk_), its receive plan
\* (ProcsFrom and LengthsFrom), and whether it runs in reverse.
Exchange == [to : [Rank -> Seq(Block)], from : [Rank -> Seq(Block)], rev : BOOLEAN]

\* The bytes of a list of blocks for rank q, of which there is at most one.
LenTo(blocks, q) ==
  LET for == {i \in 1 .. Len(blocks) : blocks[i].proc = q}
  IN IF for = {} THEN 0 ELSE blocks[CHOOSE i \in for : TRUE].len

\* What a rank sends and receives in an exchange.
SendPlan(x, r) == IF x.rev THEN x.from[r] ELSE x.to[r]
RecvPlan(x, r) == IF x.rev THEN x.to[r] ELSE x.from[r]

\* The plan Epetra builds and capture() accepts: one block per peer, and the
\* two ends of a block agree on its length.
WellFormed(x) ==
  /\ \A s, d \in Rank : LenTo(x.to[s], d) = LenTo(x.from[d], s)
  /\ \A r \in Rank : \A blocks \in {x.to[r], x.from[r]} :
       \A i, j \in 1 .. Len(blocks) : blocks[i].proc = blocks[j].proc => i = j

ASSUME RankAssumption == N \in Nat /\ N >= 2
ASSUME CapAssumption == Cap \in Nat \ {0}
ASSUME ExchangeAssumption ==
  \A x \in Exchanges : x \in Exchange /\ WellFormed(x)
ASSUME BoundAssumption == MaxExchanges \in Nat

VARIABLES
  timed,   \* spin_timeout_s > 0, from the environment
  pc,      \* "idle", "loop" or "aborted"
  script,  \* the exchanges run so far, the same for all ranks
  cnt,     \* exchanges each rank has entered
  sends,   \* exchange(): the pending sends of each rank
  recvs,   \* exchange(): its pending receives
  at,      \* position in the pass over sends and then recvs
  moved,   \* has this pass moved anything?  (kept only if it can matter)
  stalled, \* stall0 # 0: has a pass without progress started the timer?
  ring,    \* bytes in flight from rank to rank
  inbox    \* bytes each rank has received from each peer in this exchange

vars == <<timed, pc, script, cnt, sends, recvs, at, moved, stalled, ring, inbox>>

Init ==
  /\ timed \in BOOLEAN
  /\ pc = [r \in Rank |-> "idle"]
  /\ script = <<>>
  /\ cnt = [r \in Rank |-> 0]
  /\ sends = [r \in Rank |-> <<>>]
  /\ recvs = [r \in Rank |-> <<>>]
  /\ at = [r \in Rank |-> 1]
  /\ moved = [r \in Rank |-> FALSE]
  /\ stalled = [r \in Rank |-> FALSE]
  /\ ring = [s \in Rank |-> [d \in Rank |-> <<>>]]
  /\ inbox = [d \in Rank |-> [s \in Rank |-> <<>>]]

-----------------------------------------------------------------------------
\* The entries of a pending list.  The rank's own block and a block without
\* bytes have nothing left from the start: the loop passes over them.
Pending(r, blocks) ==
  [i \in 1 .. Len(blocks) |->
     [proc |-> blocks[i].proc, len |-> blocks[i].len,
      left |-> IF blocks[i].proc = r THEN 0 ELSE blocks[i].len]]

\* No entry of the list is counted in pending any more.
Moved(list) == \A i \in 1 .. Len(list) : list[i].left = 0

\* A rank enters its next exchange.  Exchanges are collective: the ranks run
\* the same ones in the same order.
Begin(r, x) ==
  /\ pc[r] = "idle"
  /\ cnt[r] < MaxExchanges
  /\ IF cnt[r] < Len(script) THEN x = script[cnt[r] + 1] /\ script' = script
                             ELSE script' = Append(script, x)
  /\ cnt' = [cnt EXCEPT ![r] = @ + 1]
  /\ sends' = [sends EXCEPT ![r] = Pending(r, SendPlan(x, r))]
  /\ recvs' = [recvs EXCEPT ![r] = Pending(r, RecvPlan(x, r))]
  /\ inbox' = [inbox EXCEPT ![r] = [s \in Rank |-> <<>>]]
  /\ at' = [at EXCEPT ![r] = 1]
  /\ moved' = [moved EXCEPT ![r] = FALSE]
  /\ stalled' = [stalled EXCEPT ![r] = FALSE]
  /\ pc' = [pc EXCEPT ![r] = "loop"]
  /\ UNCHANGED <<timed, ring>>

\* The current entry of the pass.
AtSend(r) == pc[r] = "loop" /\ at[r] <= Len(sends[r])
AtRecv(r) ==
  /\ pc[r] = "loop"
  /\ at[r] > Len(sends[r]) /\ at[r] <= Len(sends[r]) + Len(recvs[r])
AtEnd(r) == pc[r] = "loop" /\ at[r] > Len(sends[r]) + Len(recvs[r])

Advance(r) == at' = [at EXCEPT ![r] = @ + 1]

\* A pass visits a send: push what fits of what is left.
Push(r, n) ==
  LET i == at[r]
      s == sends[r][i]
      from == s.len - s.left
  IN /\ AtSend(r)
     /\ n <= s.left /\ Len(ring[r][s.proc]) + n <= Cap
     /\ ring' = [ring EXCEPT ![r][s.proc] =
                   @ \o [k \in 1 .. n |-> [ex |-> cnt[r], off |-> from + k]]]
     /\ sends' = [sends EXCEPT ![r][i].left = @ - n]
     /\ moved' = [moved EXCEPT ![r] = timed]
     /\ Advance(r)
     /\ UNCHANGED <<timed, pc, script, cnt, recvs, stalled, inbox>>

PushNothing(r) ==
  LET s == sends[r][at[r]]
  IN /\ AtSend(r)
     /\ s.left = 0 \/ Len(ring[r][s.proc]) = Cap
     /\ Advance(r)
     /\ UNCHANGED <<timed, pc, script, cnt, sends, recvs, moved, stalled, ring, inbox>>

\* Mutants: a pop takes what there is, not what this exchange still wants;
\* nothing is received before all sends have gone.
PopGreedy(r, n) ==
  LET i == at[r] - Len(sends[r])
      p == recvs[r][i].proc
  IN /\ AtRecv(r)
     /\ n <= Len(ring[p][r]) /\ recvs[r][i].left > 0
     /\ inbox' = [inbox EXCEPT ![r][p] = @ \o SubSeq(ring[p][r], 1, n)]
     /\ ring' = [ring EXCEPT ![p][r] = SubSeq(@, n + 1, Len(@))]
     /\ recvs' = [recvs EXCEPT ![r][i].left = IF n < @ THEN @ - n ELSE 0]
     /\ moved' = [moved EXCEPT ![r] = timed]
     /\ Advance(r)
     /\ UNCHANGED <<timed, pc, script, cnt, sends, stalled>>

PopAfterSends(r, n) ==
  LET i == at[r] - Len(sends[r])
      p == recvs[r][i].proc
  IN /\ AtRecv(r)
     /\ Moved(sends[r])
     /\ n <= recvs[r][i].left /\ n <= Len(ring[p][r])
     /\ inbox' = [inbox EXCEPT ![r][p] = @ \o SubSeq(ring[p][r], 1, n)]
     /\ ring' = [ring EXCEPT ![p][r] = SubSeq(@, n + 1, Len(@))]
     /\ recvs' = [recvs EXCEPT ![r][i].left = @ - n]
     /\ moved' = [moved EXCEPT ![r] = timed]
     /\ Advance(r)
     /\ UNCHANGED <<timed, pc, script, cnt, sends, stalled>>

\* A pass visits a receive: pop what is there of what is left.
Pop(r, n) ==
  LET i == at[r] - Len(sends[r])
      p == recvs[r][i].proc
  IN /\ AtRecv(r)
     /\ n <= recvs[r][i].left /\ n <= Len(ring[p][r])
     /\ inbox' = [inbox EXCEPT ![r][p] = @ \o SubSeq(ring[p][r], 1, n)]
     /\ ring' = [ring EXCEPT ![p][r] = SubSeq(@, n + 1, Len(@))]
     /\ recvs' = [recvs EXCEPT ![r][i].left = @ - n]
     /\ moved' = [moved EXCEPT ![r] = timed]
     /\ Advance(r)
     /\ UNCHANGED <<timed, pc, script, cnt, sends, stalled>>

PopNothing(r) ==
  LET e == recvs[r][at[r] - Len(sends[r])]
  IN /\ AtRecv(r)
     /\ e.left = 0 \/ ring[e.proc][r] = <<>>
     /\ Advance(r)
     /\ UNCHANGED <<timed, pc, script, cnt, sends, recvs, moved, stalled, ring, inbox>>

\* Mutant: the loop counts the sends only.
EndPassSendOnly(r) ==
  /\ AtEnd(r)
  /\ at' = [at EXCEPT ![r] = 1]
  /\ moved' = [moved EXCEPT ![r] = FALSE]
  /\ stalled' = [stalled EXCEPT ![r] = timed /\ ~moved[r]]
  /\ pc' = [pc EXCEPT ![r] = IF Moved(sends[r]) THEN "idle" ELSE "loop"]
  /\ UNCHANGED <<timed, script, cnt, sends, recvs, ring, inbox>>

\* The end of a pass: leave when nothing is pending, else start the next one.
EndPass(r) ==
  /\ AtEnd(r)
  /\ at' = [at EXCEPT ![r] = 1]
  /\ moved' = [moved EXCEPT ![r] = FALSE]
  /\ stalled' = [stalled EXCEPT ![r] = timed /\ ~moved[r]]
  /\ pc' = [pc EXCEPT ![r] = IF Moved(sends[r]) /\ Moved(recvs[r])
                               THEN "idle" ELSE "loop"]
  /\ UNCHANGED <<timed, script, cnt, sends, recvs, ring, inbox>>

\* Mutant: only blocked sends are timed.
StallTimeoutSends(r) ==
  /\ timed
  /\ AtEnd(r) /\ ~moved[r] /\ stalled[r]
  /\ ~Moved(sends[r])
  /\ pc' = [pc EXCEPT ![r] = "aborted"]
  /\ UNCHANGED <<timed, script, cnt, sends, recvs, at, moved, stalled, ring, inbox>>

\* Passes that moved nothing for longer than the timeout: abort().
StallTimeout(r) ==
  /\ timed
  /\ AtEnd(r) /\ ~moved[r] /\ stalled[r]
  /\ ~(Moved(sends[r]) /\ Moved(recvs[r]))
  /\ pc' = [pc EXCEPT ![r] = "aborted"]
  /\ UNCHANGED <<timed, script, cnt, sends, recvs, at, moved, stalled, ring, inbox>>

\* mpirun kills the job when a rank has aborted.
Killed(r) ==
  /\ pc[r] # "aborted"
  /\ \E q \in Rank : pc[q] = "aborted"
  /\ pc' = [pc EXCEPT ![r] = "aborted"]
  /\ UNCHANGED <<timed, script, cnt, sends, recvs, at, moved, stalled, ring, inbox>>

LoopStep(r) ==
  \/ \E n \in 1 .. Cap : Push(r, n)
  \/ PushNothing(r)
  \/ \E n \in 1 .. Cap : Pop(r, n)
  \/ PopNothing(r)
  \/ EndPass(r)

Next ==
  \E r \in Rank :
    \/ \E x \in Exchanges : Begin(r, x)
    \/ LoopStep(r)
    \/ StallTimeout(r)
    \/ Killed(r)

Spec == Init /\ [][Next]_vars

\* Every rank is a process that keeps running its progress loop, a loop that
\* stalls again and again runs into its timeout, and mpirun kills the job.
FairSpec ==
  /\ Spec
  /\ \A r \in Rank : /\ WF_vars(LoopStep(r))
                      /\ SF_vars(StallTimeout(r))
                      /\ WF_vars(Killed(r))

-----------------------------------------------------------------------------
\* Type correctness.
TypeOK ==
  /\ timed \in BOOLEAN
  /\ pc \in [Rank -> {"idle", "loop", "aborted"}]
  /\ script \in Seq(Exchanges)
  /\ cnt \in [Rank -> 0 .. MaxExchanges]
  /\ sends \in [Rank -> Seq(Entry)] /\ recvs \in [Rank -> Seq(Entry)]
  /\ at \in [Rank -> Nat]
  /\ \A r \in Rank : at[r] \in 1 .. Len(sends[r]) + Len(recvs[r]) + 1
  /\ moved \in [Rank -> BOOLEAN] /\ stalled \in [Rank -> BOOLEAN]
  /\ ring \in [Rank -> [Rank -> Seq(Byte)]]
  /\ \A s, d \in Rank : Len(ring[s][d]) <= Cap
  /\ inbox \in [Rank -> [Rank -> Seq(Byte)]]

\* No framing is needed: the bytes a rank receives in an exchange are the
\* bytes of that exchange, in order, although senders run ahead and the rings
\* are shared by all exchanges, forward and reverse.
InboxOfThisExchange ==
  \A r, s \in Rank : \A k \in 1 .. Len(inbox[r][s]) :
    inbox[r][s][k] = [ex |-> cnt[r], off |-> k]

\* exchange() returns only with every block of the receive plan complete, and
\* when all ranks are between exchanges nothing is left in a ring that a later
\* exchange could mistake for its own.
CompleteOnReturn ==
  /\ \A r \in Rank : (pc[r] = "idle" /\ cnt[r] > 0) =>
       \A s \in Rank \ {r} :
         Len(inbox[r][s]) = LenTo(RecvPlan(script[cnt[r]], r), s)
  /\ (\A r \in Rank : pc[r] = "idle" /\ cnt[r] = Len(script)) =>
       \A s, d \in Rank : ring[s][d] = <<>>

\* exchange() moves exactly the bytes of its own exchange, all of them.
ExchangeExact == TypeOK /\ InboxOfThisExchange /\ CompleteOnReturn

\* Backpressure never deadlocks a cycle: without the timeout's help, an
\* exchange that every rank has entered ends on every rank, messages larger
\* than the ring included.
ExchangeEnds ==
  \A r \in Rank : (~timed /\ pc[r] = "loop") ~>
    (pc[r] # "loop" \/ \E q \in Rank : cnt[q] < cnt[r])

\* A rank whose peer never comes is stuck only until the stall timeout.
NoStuckLoop == \A r \in Rank : (timed /\ pc[r] = "loop") ~> (pc[r] # "loop")
=============================================================================
