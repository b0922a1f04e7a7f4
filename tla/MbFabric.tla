------------------------------ MODULE MbFabric ------------------------------
(***************************************************************************)
(* What the nodes of the mailbox array share: the crossbar mb_router, the  *)
(* end-of-cycle barrier mb_barrier, and the host side of mb_array_top (its *)
(* ingress state machine and its egress FIFO).  As in MbNode, clocked      *)
(* logic is a function from registers and inputs to the next registers.    *)
(*                                                                         *)
(* Router inputs are the cores 0..N-1 and the host, N; its outputs are the *)
(* cores and the egress, N.  "beats" is what the inputs offer in a clock,  *)
(* "rdy" which outputs can take a beat, "ready" the inputs whose beat is   *)
(* taken in this clock.                                                    *)
(***************************************************************************)
EXTENDS MbNode

CONSTANTS
  Hold,       \* HOLD of mb_barrier
  CreditW,    \* CREDIT_W of mb_barrier
  EDepth,     \* words the egress FIFO holds
  HostDst     \* the core the host drives

Port == 0 .. N
None == -1

\* The credit counter is wide enough for a packet on its way to every core.
ASSUME FabricAssumption ==
  /\ Hold \in Nat \ {0} /\ EDepth \in Nat /\ HostDst \in Core
  /\ 2^CreditW \in Nat /\ N < 2^CreditW

-----------------------------------------------------------------------------
(* mb_router *)

ResetRouter ==
  [lk |-> [o \in Port |-> None], hdr |-> [i \in Port |-> TRUE], route |-> [i \in Port |-> 0]]

CurDst(r, beats, i) == IF r.hdr[i] THEN beats[i].word.p.dst ELSE r.route[i]

InReady(r, beats, rdy, i) ==
  LET o == CurDst(r, beats, i) IN beats[i].valid /\ r.lk[o] = i /\ rdy[o]

Requests(r, beats, o) ==
  {i \in Port : /\ beats[i].valid
                /\ \A q \in Port : r.lk[q] # i
                /\ CurDst(r, beats, i) = o}

\* Mutant: an output is released after any beat.
NextLockBeat(r, beats, ready, o) ==
  IF r.lk[o] # None
  THEN IF r.lk[o] \in ready THEN None ELSE r.lk[o]
  ELSE IF Requests(r, beats, o) # {} THEN Min(Requests(r, beats, o)) ELSE None

NextLock(r, beats, ready, o) ==
  IF r.lk[o] # None
  THEN IF r.lk[o] \in ready /\ beats[r.lk[o]].last THEN None ELSE r.lk[o]
  ELSE IF Requests(r, beats, o) # {} THEN Min(Requests(r, beats, o)) ELSE None

NextRouter(r, beats, ready) ==
  [lk |-> [o \in Port |-> NextLock(r, beats, ready, o)],
   hdr |-> [i \in Port |-> IF i \in ready THEN beats[i].last ELSE r.hdr[i]],
   route |-> [i \in Port |-> IF i \in ready /\ r.hdr[i]
                             THEN CurDst(r, beats, i) ELSE r.route[i]]]

NoBeat == [valid |-> FALSE, last |-> FALSE, word |-> NoWord]
OutBeat(r, beats, o) == IF r.lk[o] = None THEN NoBeat ELSE beats[r.lk[o]]

-----------------------------------------------------------------------------
(* mb_barrier *)

ResetBarrier == [inFlight |-> 0, seen |-> {}, hold |-> 0, advance |-> FALSE]

\* Mutants: the barrier does not look at the network interfaces; it does not
\* wait for every core to have been busy since the last advance.
QNowNoNif(b, busy, nif) == b.seen = Core /\ busy = {} /\ b.inFlight = 0
QNowNoGate(b, busy, nif) == busy = {} /\ b.inFlight = 0 /\ nif = {}
QNow(b, busy, nif) == b.seen = Core /\ busy = {} /\ b.inFlight = 0 /\ nif = {}

NextBarrier(b, busy, nif, sent, deliv) ==
  LET q == QNow(b, busy, nif)
      fires == q /\ b.hold = Hold
  IN [inFlight |-> (b.inFlight + sent - deliv) % 2^CreditW,
      seen |-> IF b.advance THEN busy ELSE b.seen \cup busy,
      hold |-> IF q /\ ~fires THEN b.hold + 1 ELSE 0,
      advance |-> fires]

-----------------------------------------------------------------------------
(* mb_array_top: the ingress FSM with the driver's injections, the egress FIFO *)

\* k: inputs injected so far; cyc: CYCCNT; fifo, hdr: the egress FIFO and its
\* header flag; read: the words the host has read.
ResetTop == [st |-> 0, k |-> 0, cyc |-> 0, fifo |-> <<>>, hdr |-> TRUE, read |-> 0]

\* The host steps the array in lock step with CYCCNT: the input of a cycle is
\* injected once the cycles before it have ended.
CanInject(t) == t.st = 0 /\ t.k < MaxCycles /\ t.k <= t.cyc
CanRead(t) == t.fifo # <<>>

EgrReady(t) == Len(t.fifo) < EDepth

IngrBeat(t) ==
  [valid |-> t.st # 0, last |-> t.st = 2,
   word |-> Word([src |-> N, dst |-> HostDst, n |-> t.k - 1], IF t.st = 2 THEN 1 ELSE 0)]

Pushes(t, egr) == egr.valid /\ EgrReady(t) /\ ~t.hdr

NextTop(t, inject, read, ready, egr, advance) ==
  LET popped == IF read THEN Tail(t.fifo) ELSE t.fifo
  IN [st |-> CASE t.st = 0 -> IF inject THEN 1 ELSE 0
               [] t.st # 0 -> IF ready THEN (t.st + 1) % 3 ELSE t.st,
      k |-> IF inject THEN t.k + 1 ELSE t.k,
      cyc |-> IF advance THEN t.cyc + 1 ELSE t.cyc,
      fifo |-> IF Pushes(t, egr) THEN Append(popped, egr.word) ELSE popped,
      hdr |-> IF egr.valid /\ EgrReady(t) THEN egr.last ELSE t.hdr,
      read |-> IF read THEN t.read + 1 ELSE t.read]
=============================================================================
