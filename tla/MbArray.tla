------------------------------ MODULE MbArray -------------------------------
(***************************************************************************)
(* The mailbox array of mb_array_soc with its crossbar fabric and host     *)
(* ingress, driven through mb_array_top.  All of it runs on one clock, so  *)
(* there is one action, a clock edge; what a clock edge leaves open is     *)
(* which workers make their next MMIO access in this clock and whether the *)
(* host injects an input or reads an output.                               *)
(***************************************************************************)
EXTENDS MbFabric

VARIABLES node, router, barrier, top
vars == <<node, router, barrier, top>>

\* Each core has a slot_limit of its own in its image.
Init ==
  /\ node \in {[i \in Core |-> ResetNode(lim[i])] : lim \in [Core -> Slot]}
  /\ router = ResetRouter
  /\ barrier = ResetBarrier
  /\ top = ResetTop

Beats == [i \in Port |-> IF i = N THEN IngrBeat(top) ELSE TxBeat(node[i])]
Rdy == [o \in Port |-> IF o = N THEN EgrReady(top) ELSE SReady(node[o])]

NSent(ready) ==
  Cardinality({i \in Core : PktSent(node[i], i \in ready)})
    + (IF N \in ready /\ IngrBeat(top).last THEN 1 ELSE 0)
NDeliv == Cardinality({i \in Core : PktDeliv(node[i])})

Tick(go, inject, read) ==
  LET beats == Beats
      rdy == Rdy
      ready == {i \in Port : InReady(router, beats, rdy, i)}
      inputs(i) == [go |-> i \in go, mready |-> i \in ready,
                    beat |-> OutBeat(router, beats, i), advance |-> barrier.advance]
  IN /\ go \subseteq {i \in Core : Able(i, node[i])}
     /\ inject => CanInject(top)
     /\ read => CanRead(top)
     /\ node' = [i \in Core |-> NextNode(i, node[i], inputs(i))]
     /\ router' = NextRouter(router, beats, ready)
     /\ barrier' = NextBarrier(barrier, {i \in Core : CoreBusy(node[i])},
                               {i \in Core : NifBusy(node[i])}, NSent(ready), NDeliv)
     /\ top' = NextTop(top, inject, read, N \in ready, OutBeat(router, beats, N),
                       barrier.advance)

Next == \E go \in SUBSET Core, inject, read \in BOOLEAN : Tick(go, inject, read)

Spec == Init /\ [][Next]_vars

\* The clock runs, every CPU goes on executing, and the host's driver goes on
\* injecting inputs and reading outputs.  The last three are weak fairness of
\* the steps in which a worker moves, the host injects or the host reads; Able,
\* CanInject and CanRead say when there is such a step.
FairSpec ==
  /\ Spec
  /\ WF_vars(Next)
  /\ \A i \in Core : []<>~Able(i, node[i]) \/ []<><<node'[i].cpu # node[i].cpu>>_vars
  /\ []<>~CanInject(top) \/ []<><<top'.k # top.k>>_vars
  /\ []<>~CanRead(top) \/ []<><<top'.read # top.read>>_vars

-----------------------------------------------------------------------------
(* Properties *)

\* The credit counter of the barrier (mb_barrier.sv 31-35) stays within the
\* packets that can be in the network at once: it never wraps below zero.
TypeOK ==
  /\ \A i \in Core :
       /\ node[i].sf.free \subseteq Slot /\ node[i].sf.ready \subseteq Slot
       /\ node[i].cpu.k \in 0 .. LastStep(i) /\ node[i].io.limit \in Slot /\ node[i].cpu.n \in 0 .. MaxCycles
       /\ node[i].io.pending \in BOOLEAN /\ node[i].io.busy \in BOOLEAN
       /\ node[i].rx.st \in {"IDLE", "RECV", "COMMIT"}
       /\ node[i].tx.st \in {"IDLE", "DS0", "DS1"}
  /\ router.lk \in [Port -> Port \cup {None}]
  /\ barrier.inFlight \in 0 .. N + 1 /\ barrier.hold \in 0 .. Hold
  /\ top.st \in 0 .. 2 /\ Len(top.fifo) <= EDepth

\* The credits count exactly the packets whose last word has left its sender
\* and that the receiver's network interface has not committed yet
\* (mb_nif.sv 192-197, mb_array_soc.v 127-137).
CreditsExact ==
  barrier.inFlight = Cardinality({i \in Core : node[i].rx.st = "COMMIT"})
                     + Cardinality({i \in Core : node[i].rx.commit # 0})

\* When the barrier fires the array is settled: no message is waiting in a send
\* register, a network interface, the fabric or a mailbox, and every worker has
\* finished its part of the cycle (mb_barrier.sv 52-73).
Settled ==
  barrier.advance =>
    \A i \in Core :
      /\ ~node[i].io.pending \/ node[i].tx.ack
      /\ node[i].tx.st = "IDLE" /\ node[i].rx.st = "IDLE" /\ node[i].rx.commit = 0
      /\ node[i].sf.ready = {} /\ node[i].sf.free = Slot
      /\ node[i].cpu.op = "poll"

\* Every slot of a mailbox is in exactly one hand: free, being filled by the
\* network interface, or ready for the worker (mb_slot_file.sv 84-97).
SlotsAccounted ==
  \A i \in Core :
    LET x == node[i]
        filling == IF x.rx.st # "IDLE" THEN {x.rx.slot} ELSE {}
        commit == {x.rx.commit} \ {0}
    IN /\ x.sf.free \cap x.sf.ready = {}
       /\ (filling \cup commit) \cap (x.sf.free \cup x.sf.ready) = {}
       /\ filling \cap commit = {}
       /\ x.sf.free \cup x.sf.ready \cup filling \cup commit = Slot

\* The books of the array are right: the credits of the barrier count the
\* packets between two network interfaces, and no mailbox slot is lost.
Accounted == TypeOK /\ CreditsExact /\ SlotsAccounted

\* A slot that a worker can see holds the two words of one packet addressed to
\* its core, never words of packets that met in the router (mb_router.sv 86-106).
WholePackets ==
  \A i \in Core : \A s \in node[i].sf.ready :
    LET m == node[i].sf.mem[s]
    IN m[0].i = 0 /\ m[1] = Word(m[0].p, 1) /\ m[0].p.dst = i

\* The barrier decides to fire in this clock.  It cannot see a packet that the
\* host has begun to send, nor one that it has yet to send: that there is none
\* is up to the workers' waiting for the host's input of the cycle.
Fires == /\ QNow(barrier, {i \in Core : CoreBusy(node[i])}, {i \in Core : NifBusy(node[i])})
         /\ barrier.hold = Hold
HostInStep == Fires => top.st = 0
HostOnTime == Fires => top.k = top.cyc + 1

WorkersInStep == \A i \in Core : node[i].cpu.k > 1 => node[i].cpu.c0 = node[i].cpu.n
MessagesInStep ==
  \A i \in Core : node[i].cpu.val # NoWord => node[i].cpu.val.p.n = node[i].cpu.n

\* Workers, barrier and host stay in step: a worker in its n-th cycle saw a
\* CYCLE_CNT of n, whatever the time it takes to notice an advance
\* (mb_barrier.sv 40-50), every message it takes was sent in that cycle, and
\* the host reads the payload of each display, one for each cycle and in the
\* order of the cycles (mb_array_top.v 59-78).
InStep ==
  /\ HostInStep /\ HostOnTime /\ WorkersInStep /\ MessagesInStep
  /\ \A j \in 1 .. Len(top.fifo) :
       top.fifo[j].i = 1 /\ top.fifo[j].p.n = top.read + j - 1

\* The array never stalls: the workers run all their cycles and the host gets
\* the output of each, at any slot limits and with a full egress FIFO.
AllCyclesRun == <>(top.read = MaxCycles /\ \A i \in Core : node[i].cpu.n = MaxCycles)
=============================================================================
