------------------------------- MODULE MbNode -------------------------------
(***************************************************************************)
(* One node of the mailbox array (fpga/zcu104/rtl/mailbox): the slot file  *)
(* mb_slot_file, the network interface mb_nif, the MMIO registers of       *)
(* ldx_soc_mailbox and the firmware worker on its CPU.                     *)
(*                                                                         *)
(* Clocked logic is written as functions from the registers x of a node    *)
(* and its inputs "in" in this clock to the registers after the clock      *)
(* edge; MbArray wires nodes together.  A worker makes at most one MMIO    *)
(* access per clock, and in.go says whether it makes one in this clock:    *)
(* the time its instructions take is left open.                            *)
(*                                                                         *)
(* A packet has two words, as every packet of the firmware: header and     *)
(* payload.  A word is represented by the packet it belongs to (source,    *)
(* destination and the simulated cycle it was posted in) and its index.    *)
(***************************************************************************)
EXTENDS Integers, Sequences, FiniteSetsExt

CONSTANTS
  N,          \* N_CORES
  Slots,      \* N_SLOTS_MAX
  Program,    \* what the worker of each core does in a simulated cycle
  MaxCycles   \* bound: simulated cycles a worker runs

Core == 0 .. N - 1
Off == N         \* an off_array destination: the egress
Slot == 1 .. Slots

Packet == [src : 0 .. N, dst : 0 .. N, n : 0 .. MaxCycles]
NoPacket == [src |-> -1, dst |-> -1, n |-> -1]
Word(p, i) == [p |-> p, i |-> i]
NoWord == Word(NoPacket, 0)

\* A worker's program is a sequence of receives and posts.
ASSUME NodeAssumption ==
  /\ N \in Nat \ {0} /\ Slots \in Nat \ {0} /\ MaxCycles \in Nat
  /\ Program \in [Core -> Seq([op : {"recv", "post"}, dst : 0 .. N])]

-----------------------------------------------------------------------------
(* The worker: the steps of a simulated cycle, and the MMIO accesses of a    *)
(* step, in order                                                            *)

\* Step k of the worker of core i.  Before its loop, in step 0, the worker sets
\* SLOT_LIMIT.  The firmware in the repository leaves the reset value, which is
\* the case that it writes N_SLOTS_MAX.
LastStep(i) == Len(Program[i]) + 2
StepOp(i, k) ==
  CASE k = 0 -> "boot"
    [] k = 1 -> "start"
    [] k = LastStep(i) -> "end"
    [] OTHER -> Program[i][k - 1].op

FirstAccess(step) ==
  CASE step = "start" -> "busy"
    [] step = "recv" -> "look"
    [] step = "post" -> "w0"
    [] step = "end" -> "idle"
    [] OTHER -> "limit"

\* The access after op in its step, and the accesses that are the last ones.
Following(op) ==
  CASE op = "busy" -> "cycle"
    [] op = "look" -> "take"
    [] op = "take" -> "done"
    [] op = "w0" -> "d1"
    [] OTHER -> "poll"
LastAccess == {"limit", "cycle", "done", "d1", "poll"}

\* Does the next access of the worker end its polling loop, if it is in one?
Able(i, x) ==
  CASE x.cpu.op = "look" -> x.sf.ready # {}
    [] x.cpu.op = "poll" -> x.io.cnt # x.cpu.c0
    [] x.cpu.op = "busy" -> x.cpu.n < MaxCycles
    [] OTHER -> TRUE

Does(x, in, op) == in.go /\ x.cpu.op = op

NextCpu(i, x, in) ==
  IF ~in.go THEN x.cpu
  ELSE LET last == x.cpu.op = "poll"
           k == IF last THEN 1
                ELSE IF x.cpu.op \in LastAccess THEN x.cpu.k + 1 ELSE x.cpu.k
       IN [lim |-> x.cpu.lim,
           k |-> k,
           op |-> IF x.cpu.op \in LastAccess THEN FirstAccess(StepOp(i, k))
                                             ELSE Following(x.cpu.op),
           n |-> IF last THEN x.cpu.n + 1 ELSE x.cpu.n,
           c0 |-> IF x.cpu.op = "cycle" THEN x.io.cnt ELSE x.cpu.c0,
           slot |-> IF x.cpu.op = "look" THEN Min(x.sf.ready) ELSE x.cpu.slot,
           val |-> CASE x.cpu.op = "take" -> x.sf.mem[x.cpu.slot][1]
                     [] x.cpu.op = "done" -> NoWord
                     [] OTHER -> x.cpu.val]

-----------------------------------------------------------------------------
(* MMIO registers: SLOT_LIMIT, SEND_W0, SEND_D1 with its pending bit,       *)
(* CORE_BUSY, CYCLE_CNT                                                     *)

NextIo(i, x, in) ==
  LET p == [src |-> i, dst |-> Program[i][x.cpu.k - 1].dst, n |-> x.cpu.n]
  IN [limit |-> IF Does(x, in, "limit") THEN x.cpu.lim ELSE x.io.limit,
      w0 |-> IF Does(x, in, "w0") THEN Word(p, 0) ELSE x.io.w0,
      d1 |-> IF Does(x, in, "d1") THEN Word(p, 1) ELSE x.io.d1,
      pending |-> Does(x, in, "d1") \/ (x.io.pending /\ ~x.tx.ack),
      busy |-> Does(x, in, "busy") \/ (x.io.busy /\ ~Does(x, in, "idle")),
      cnt |-> IF in.advance THEN x.io.cnt + 1 ELSE x.io.cnt]

CoreBusy(x) == x.io.busy \/ x.sf.ready # {}

-----------------------------------------------------------------------------
(* TX of the network interface: the direct send of two words.  The send from *)
(* a slot (TX_HDR, TX_SEND) is tied off in ldx_soc_mailbox.                  *)

NextTx(x, in) ==
  CASE x.tx.st = "IDLE" /\ x.io.pending /\ ~x.tx.ack ->
         [st |-> "DS0", w0 |-> x.io.w0, d1 |-> x.io.d1, ack |-> FALSE]
    [] x.tx.st = "DS0" /\ in.mready ->
         [st |-> "DS1", w0 |-> x.tx.w0, d1 |-> x.tx.d1, ack |-> FALSE]
    [] x.tx.st = "DS1" /\ in.mready ->
         [st |-> "IDLE", w0 |-> x.tx.w0, d1 |-> x.tx.d1, ack |-> TRUE]
    [] OTHER -> [st |-> x.tx.st, w0 |-> x.tx.w0, d1 |-> x.tx.d1, ack |-> FALSE]

\* The beat offered to the router.
TxBeat(x) ==
  [valid |-> x.tx.st # "IDLE", last |-> x.tx.st = "DS1",
   word |-> IF x.tx.st = "DS1" THEN x.tx.d1 ELSE x.tx.w0]

\* Mutant: packets for the egress are counted as well.
PktSentAll(x, mready) == x.tx.st = "DS1" /\ mready
PktSent(x, mready) == x.tx.st = "DS1" /\ mready /\ x.tx.w0.p.dst # Off

-----------------------------------------------------------------------------
(* RX of the network interface, and the slot file *)

Candidates(x) == {s \in x.sf.free : s <= x.io.limit}
SReady(x) == x.rx.st = "RECV" \/ (x.rx.st = "IDLE" /\ Candidates(x) # {})

NoWrite == [slot |-> 0, off |-> 0, word |-> NoWord]

\* A beat goes into word off of slot s.
Got(beat, s, off) ==
  [st |-> IF beat.last THEN "COMMIT" ELSE "RECV", slot |-> s, off |-> off + 1,
   wr |-> [slot |-> s, off |-> off, word |-> beat.word], commit |-> 0]

NextRx(x, in) ==
  CASE x.rx.st = "IDLE" /\ in.beat.valid /\ SReady(x) -> Got(in.beat, Min(Candidates(x)), 0)
    [] x.rx.st = "RECV" /\ in.beat.valid -> Got(in.beat, x.rx.slot, x.rx.off)
    [] x.rx.st = "COMMIT" ->
         [st |-> "IDLE", slot |-> x.rx.slot, off |-> x.rx.off, wr |-> NoWrite,
          commit |-> x.rx.slot]
    [] OTHER ->
         [st |-> x.rx.st, slot |-> x.rx.slot, off |-> x.rx.off, wr |-> NoWrite,
          commit |-> 0]

PktDeliv(x) == x.rx.commit # 0
NifBusy(x) == x.rx.st # "IDLE" \/ x.tx.st # "IDLE"

Alloc(x, in) ==
  IF x.rx.st = "IDLE" /\ in.beat.valid /\ SReady(x) THEN {Min(Candidates(x))} ELSE {}

NextMem(x) ==
  IF x.rx.wr.slot = 0 THEN x.sf.mem
  ELSE [x.sf.mem EXCEPT ![x.rx.wr.slot][x.rx.wr.off] = x.rx.wr.word]

\* Mutant: the slot is marked free when the worker looks at it.
NextSfEarly(i, x, in) ==
  LET done == IF Does(x, in, "done") THEN {x.cpu.slot} ELSE {}
      look == IF Does(x, in, "look") THEN {Min(x.sf.ready)} ELSE {}
  IN [free |-> (x.sf.free \ Alloc(x, in)) \cup look,
      ready |-> (x.sf.ready \cup ({x.rx.commit} \ {0})) \ done,
      mem |-> NextMem(x)]

NextSf(i, x, in) ==
  LET done == IF Does(x, in, "done") THEN {x.cpu.slot} ELSE {}
  IN [free |-> (x.sf.free \ Alloc(x, in)) \cup done,
      ready |-> (x.sf.ready \cup ({x.rx.commit} \ {0})) \ done,
      mem |-> NextMem(x)]

-----------------------------------------------------------------------------
\* A node out of reset, whose image will set SLOT_LIMIT to lim: all slots are
\* live and free, and the worker starts busy.
ResetNode(lim) ==
  [cpu |-> [lim |-> lim, k |-> 0, op |-> "limit", n |-> 0, c0 |-> 0, slot |-> 0, val |-> NoWord],
   io |-> [limit |-> Slots, w0 |-> NoWord, d1 |-> NoWord, pending |-> FALSE, busy |-> TRUE, cnt |-> 0],
   tx |-> [st |-> "IDLE", w0 |-> NoWord, d1 |-> NoWord, ack |-> FALSE],
   rx |-> [st |-> "IDLE", slot |-> 0, off |-> 0, wr |-> NoWrite, commit |-> 0],
   sf |-> [free |-> Slot, ready |-> {}, mem |-> [s \in Slot |-> [k \in 0 .. 1 |-> NoWord]]]]

NextNode(i, x, in) ==
  [cpu |-> NextCpu(i, x, in), io |-> NextIo(i, x, in),
   tx |-> NextTx(x, in), rx |-> NextRx(x, in), sf |-> NextSf(i, x, in)]
=============================================================================
