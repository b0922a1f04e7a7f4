--------------------------- MODULE MbArrayProofs ----------------------------
(***************************************************************************)
(* Proofs about the mailbox array, for every number of cores and slots,    *)
(* every program of receives and posts, every hold time, FIFO depth and    *)
(* bound: the books of the array, the packets in its mailboxes, the state  *)
(* of the array when the barrier fires, and the cycles messages belong to. *)
(***************************************************************************)
EXTENDS MbArray, FiniteSetTheorems, WellFoundedInduction, TLAPS

-----------------------------------------------------------------------------
(***************************************************************************)
(* One node.                                                               *)
(***************************************************************************)
Words == [p : Packet \cup {NoPacket}, i : 0 .. 1]

\* The two words of one packet.
Pair(u, v) == u.p \in Packet /\ u = Word(u.p, 0) /\ v = Word(u.p, 1)

\* The worker is at an access of its step.
AccessesOf(step) ==
  CASE step = "boot" -> {"limit"}
    [] step = "start" -> {"busy", "cycle"}
    [] step = "recv" -> {"look", "take", "done"}
    [] step = "post" -> {"w0", "d1"}
    [] OTHER -> {"idle", "poll"}
InPlace(i, x) ==
  /\ x.cpu.k \in 0 .. LastStep(i)
  /\ x.cpu.op \in AccessesOf(StepOp(i, x.cpu.k))

\* The worker counts its cycles within the bound, has CORE_BUSY set in its
\* steps and cleared when it polls, and holds a slot it has not given back.
WorkerInv(i, x) ==
  /\ InPlace(i, x)
  /\ x.cpu.lim \in Slot /\ x.cpu.n \in 0 .. MaxCycles
  /\ x.cpu.op \notin {"limit", "busy"} => x.cpu.n < MaxCycles
  /\ x.cpu.op \notin {"limit", "busy", "poll"} => x.io.busy
  /\ x.cpu.op = "poll" => ~x.io.busy
  /\ x.cpu.op \in {"take", "done"} => x.cpu.slot \in x.sf.ready

\* A post that the network interface is about to take was completed in the
\* clock before, so its two words belong together and its worker is still busy.
SendInv(i, x) ==
  /\ x.io.limit \in Slot /\ x.io.pending \in BOOLEAN /\ x.io.busy \in BOOLEAN
  /\ x.tx.st \in {"IDLE", "DS0", "DS1"} /\ x.tx.ack \in BOOLEAN
  /\ x.cpu.op = "d1" =>
       x.io.w0 = Word([src |-> i, dst |-> Program[i][x.cpu.k - 1].dst, n |-> x.cpu.n], 0)
  /\ x.io.pending /\ x.tx.st = "IDLE" /\ ~x.tx.ack =>
       x.io.busy /\ Pair(x.io.w0, x.io.d1)
  /\ x.tx.st # "IDLE" => Pair(x.tx.w0, x.tx.d1)

\* The slots of a node, each in one hand.
SlotInv(x) ==
  LET filling == IF x.rx.st # "IDLE" THEN {x.rx.slot} ELSE {}
      commit == {x.rx.commit} \ {0}
  IN /\ x.sf.free \cap x.sf.ready = {}
     /\ (filling \cup commit) \cap (x.sf.free \cup x.sf.ready) = {}
     /\ filling \cap commit = {}
     /\ x.sf.free \cup x.sf.ready \cup filling \cup commit = Slot

\* The receiving side: two words to a packet, the write of a word one clock
\* after it has come.
RecvInv(x) ==
  /\ SlotInv(x)
  /\ x.rx.st \in {"IDLE", "RECV", "COMMIT"}
  /\ x.rx.commit # 0 => x.rx.st = "IDLE"
  /\ x.rx.st = "RECV" => x.rx.off = 1
  /\ x.rx.wr.slot # 0 => /\ x.rx.st # "IDLE" /\ x.rx.wr.slot = x.rx.slot
                         /\ x.rx.wr.off \in 0 .. 1 /\ x.rx.wr.word \in Words
  /\ x.sf.mem \in [Slot -> [0 .. 1 -> Words]]

NodeInv(i, x) == WorkerInv(i, x) /\ SendInv(i, x) /\ RecvInv(x)

-----------------------------------------------------------------------------
(***************************************************************************)
(* The fabric.  An input is silent, offers the first word of a packet or   *)
(* the second.                                                             *)
(***************************************************************************)
Phase(i) ==
  IF i = N THEN top.st
  ELSE CASE node[i].tx.st = "IDLE" -> 0 [] node[i].tx.st = "DS0" -> 1 [] OTHER -> 2
HostPacket == [src |-> N, dst |-> HostDst, n |-> top.k - 1]
Sent(i) == IF i = N THEN HostPacket ELSE node[i].tx.w0.p
Dst(i) == Sent(i).dst

HostInv ==
  /\ top.st \in 0 .. 2 /\ top.k \in 0 .. MaxCycles /\ (top.st # 0 => top.k > 0)
  /\ Len(top.fifo) <= EDepth /\ top.fifo \in Seq(Words)

\* An output is locked by an input that has a packet for it, from before the
\* first word until after the second.
RouterInv ==
  /\ router.lk \in [Port -> Port \cup {None}]
  /\ router.hdr \in [Port -> BOOLEAN] /\ router.route \in [Port -> Port]
  /\ \A i \in Port : router.hdr[i] <=> Phase(i) # 2
  /\ \A i \in Port : Phase(i) = 2 => router.route[i] = Dst(i) /\ router.lk[Dst(i)] = i
  /\ \A o \in Port : router.lk[o] # None => /\ Phase(router.lk[o]) # 0
                                            /\ Dst(router.lk[o]) = o

\* A mailbox slot with both words of one packet for core i.
Whole(i, m) == m[0].i = 0 /\ m[1] = Word(m[0].p, 1) /\ m[0].p.dst = i

\* A node is in the middle of a packet exactly when its sender is, and what it
\* has received is what was sent.
LinkInv ==
  \A o \in Core :
    LET x == node[o]
        mem == NextMem(x)
    IN /\ x.rx.st = "RECV" <=> router.lk[o] # None /\ Phase(router.lk[o]) = 2
       /\ x.rx.st = "RECV" => mem[x.rx.slot][0] = Word(Sent(router.lk[o]), 0)
       /\ x.rx.st = "COMMIT" => Whole(o, mem[x.rx.slot])
       /\ x.rx.commit # 0 => Whole(o, mem[x.rx.commit])
       /\ \A s \in x.sf.ready : Whole(o, mem[s])

CreditInv == CreditsExact /\ barrier.hold \in 0 .. Hold

ArrayInv ==
  /\ \A i \in Core : NodeInv(i, node[i])
  /\ HostInv /\ RouterInv /\ LinkInv /\ CreditInv

-----------------------------------------------------------------------------
(***************************************************************************)
(* The barrier.                                                            *)
(***************************************************************************)
\* A worker in the steps of a cycle has read the CYCLE_CNT of this cycle, and
\* one that polls is at most one advance behind.
CycleInv(x) ==
  /\ x.cpu.op \in {"limit", "busy", "cycle"} => x.io.cnt = x.cpu.n
  /\ x.cpu.op \notin {"limit", "busy", "cycle"} => x.cpu.c0 = x.cpu.n
  /\ x.cpu.op \notin {"limit", "busy", "cycle", "poll"} => x.io.cnt = x.cpu.n
  /\ x.cpu.op = "poll" => x.io.cnt = x.cpu.n \/ x.io.cnt = x.cpu.n + 1

\* A core that has been busy since the last advance and is not any more waits
\* for the next one.
GateInv ==
  /\ barrier.advance \in BOOLEAN /\ (barrier.advance => barrier.hold = 0)
  /\ \A i \in Core :
       LET x == node[i]
       IN /\ CycleInv(x)
          /\ i \in barrier.seen /\ ~CoreBusy(x) => x.cpu.op = "poll" /\ x.io.cnt = x.cpu.c0
          /\ barrier.advance => x.io.cnt = x.cpu.c0
  /\ Settled

-----------------------------------------------------------------------------
(***************************************************************************)
(* The worker.                                                             *)
(***************************************************************************)
LEMMA CoreFacts ==
  /\ \A i \in Core : i \in Port /\ i # N /\ i \in Nat
  /\ N \in Port /\ N \notin Core /\ None \notin Port /\ HostDst \in Core
  /\ \A i \in Port : i \in Core \/ i = N
  /\ 0 \notin Slot /\ \A s \in Slot : s \in Nat
BY NodeAssumption, FabricAssumption, SMTT(60) DEF Core, Port, None, Slot

\* The steps of a program.
LEMMA StepFacts ==
  ASSUME NEW i \in Core
  PROVE  /\ LastStep(i) \in Nat /\ LastStep(i) >= 2
         /\ StepOp(i, 0) = "boot" /\ StepOp(i, 1) = "start"
         /\ StepOp(i, LastStep(i)) = "end"
         /\ \A k \in 2 .. LastStep(i) - 1 :
              /\ StepOp(i, k) = Program[i][k - 1].op
              /\ StepOp(i, k) \in {"recv", "post"}
              /\ Program[i][k - 1].dst \in Port
<1> DEFINE S == [op : {"recv", "post"}, dst : 0 .. N]
<1>0. Program \in [Core -> Seq(S)]
  BY NodeAssumption, ZenonT(60)
<1> HIDE DEF S
<1>1. Program[i] \in Seq(S) /\ Len(Program[i]) \in Nat
  BY <1>0
<1>2. LastStep(i) \in Nat /\ LastStep(i) >= 2
  BY <1>1 DEF LastStep
<1>3. ASSUME NEW k \in 2 .. LastStep(i) - 1
      PROVE  /\ StepOp(i, k) = Program[i][k - 1].op
             /\ StepOp(i, k) \in {"recv", "post"}
             /\ Program[i][k - 1].dst \in Port
  <2>1. k - 1 \in 1 .. Len(Program[i])
    BY <1>1 DEF LastStep
  <2>2. Program[i][k - 1] \in S
    BY <1>1, <2>1, SMTT(60)
  <2>3. StepOp(i, k) = Program[i][k - 1].op
    BY <1>2 DEF StepOp
  <2> QED
    BY <2>2, <2>3, ZenonT(60) DEF Port, S
<1> QED
  BY <1>2, <1>3 DEF StepOp

\* Which step an access belongs to.
LEMMA PlaceFacts ==
  ASSUME NEW i \in Core, NEW x, InPlace(i, x)
  PROVE  /\ x.cpu.k \in Nat
         /\ x.cpu.op \in {"limit", "busy", "cycle", "look", "take", "done", "w0", "d1",
                          "idle", "poll"}
         /\ x.cpu.op = "limit" <=> x.cpu.k = 0
         /\ x.cpu.op \in {"busy", "cycle"} <=> x.cpu.k = 1
         /\ x.cpu.op \in {"idle", "poll"} <=> x.cpu.k = LastStep(i)
         /\ x.cpu.op \in {"look", "take", "done"} =>
              x.cpu.k \in 2 .. LastStep(i) - 1 /\ StepOp(i, x.cpu.k) = "recv"
         /\ x.cpu.op \in {"w0", "d1"} =>
              x.cpu.k \in 2 .. LastStep(i) - 1 /\ StepOp(i, x.cpu.k) = "post"
<1> DEFINE k == x.cpu.k
<1>1. k \in 0 .. LastStep(i) /\ x.cpu.op \in AccessesOf(StepOp(i, k))
  BY ZenonT(60) DEF InPlace
<1>2. k \in Nat /\ (k = 0 \/ k = 1 \/ k = LastStep(i) \/ k \in 2 .. LastStep(i) - 1)
  BY <1>1, StepFacts, SMTT(60)
<1> HIDE DEF k
<1>3. CASE k = 0
  BY <1>1, <1>3, StepFacts, SMTT(60) DEF AccessesOf, k
<1>4. CASE k = 1
  BY <1>1, <1>4, StepFacts, SMTT(60) DEF AccessesOf, k
<1>5. CASE k = LastStep(i)
  BY <1>1, <1>5, StepFacts, ZenonT(60) DEF AccessesOf, k
<1>6. CASE k \in 2 .. LastStep(i) - 1
  <2>1. k # 0 /\ k # 1 /\ k # LastStep(i)
    BY <1>6, StepFacts, ZenonT(60)
  <2>2. StepOp(i, k) \in {"recv", "post"}
    BY <1>6, StepFacts, ZenonT(60)
  <2> QED
    BY <1>1, <1>2, <1>6, <2>1, <2>2, ZenonT(60) DEF AccessesOf, k
<1> QED
  BY <1>2, <1>3, <1>4, <1>5, <1>6, ZenonT(60)

\* After an access of the worker comes the next access of the step or the first
\* one of the next step.
LEMMA NextPlace ==
  ASSUME NEW i \in Core, NEW x, InPlace(i, x), NEW in, in.go, NEW y,
         y.cpu = NextCpu(i, x, in)
  PROVE  /\ InPlace(i, y)
         /\ x.cpu.op = "limit" => y.cpu.op = "busy"
         /\ x.cpu.op = "busy" => y.cpu.op = "cycle" /\ y.cpu.k = x.cpu.k
         /\ x.cpu.op = "look" => y.cpu.op = "take" /\ y.cpu.k = x.cpu.k
         /\ x.cpu.op = "take" => y.cpu.op = "done" /\ y.cpu.k = x.cpu.k
         /\ x.cpu.op = "w0" => y.cpu.op = "d1" /\ y.cpu.k = x.cpu.k
         /\ x.cpu.op = "idle" => y.cpu.op = "poll"
         /\ x.cpu.op = "poll" => y.cpu.op = "busy"
         /\ x.cpu.op \in {"cycle", "done", "d1"} => y.cpu.op \in {"look", "w0", "idle"}
<1> DEFINE k == x.cpu.k
           k2 == IF x.cpu.op = "poll" THEN 1
                 ELSE IF x.cpu.op \in LastAccess THEN k + 1 ELSE k
<1>1. /\ y.cpu.k = k2
      /\ y.cpu.op = IF x.cpu.op \in LastAccess THEN FirstAccess(StepOp(i, k2))
                                               ELSE Following(x.cpu.op)
  BY DEF NextCpu
<1>2. /\ k \in Nat /\ k \in 0 .. LastStep(i) /\ LastStep(i) \in Nat /\ LastStep(i) >= 2
      /\ x.cpu.op \in AccessesOf(StepOp(i, k))
  BY StepFacts, PlaceFacts, ZenonT(60) DEF InPlace
<1> HIDE DEF k, k2
<1>3. CASE x.cpu.op = "limit"
  <2>1. k2 = 1
    BY <1>2, <1>3, PlaceFacts, SMTT(60) DEF k2, k, LastAccess
  <2> QED
    BY <1>1, <1>2, <1>3, <2>1, StepFacts, SMTT(60) DEF FirstAccess, LastAccess, InPlace, AccessesOf
<1>4. CASE x.cpu.op = "poll"
  <2>1. k2 = 1
    BY <1>4, ZenonT(60) DEF k2
  <2> QED
    BY <1>1, <1>2, <1>4, <2>1, StepFacts, SMTT(60) DEF FirstAccess, LastAccess, InPlace, AccessesOf
<1>5. CASE x.cpu.op \in {"cycle", "done", "d1"}
  <2>1. k2 = k + 1 /\ k2 \in 2 .. LastStep(i)
    BY <1>2, <1>5, PlaceFacts, StepFacts, SMTT(60) DEF k2, k, LastAccess
  <2>2. y.cpu.op = FirstAccess(StepOp(i, k2))
    BY <1>1, <1>5, ZenonT(60) DEF LastAccess
  <2>3. StepOp(i, k2) \in {"recv", "post", "end"}
    BY <1>2, <2>1, StepFacts, SMTT(60)
  <2>4. /\ y.cpu.op \in AccessesOf(StepOp(i, k2))
        /\ y.cpu.op \in {"look", "w0", "idle"}
    BY <2>2, <2>3, ZenonT(60) DEF FirstAccess, AccessesOf
  <2> QED
    BY <1>1, <1>2, <1>5, <2>1, <2>4, SMTT(60) DEF InPlace
<1>6. CASE x.cpu.op \in {"busy", "look", "take", "w0", "idle"}
  <2>1. k2 = k /\ y.cpu.op = Following(x.cpu.op)
    BY <1>1, <1>6, ZenonT(60) DEF k2, LastAccess
  <2>2. StepOp(i, k) \in {"boot", "start", "recv", "post", "end"}
    BY <1>2, StepFacts
  <2>3. y.cpu.op \in AccessesOf(StepOp(i, k))
    BY <1>2, <1>6, <2>1, <2>2, ZenonT(60) DEF Following, AccessesOf
  <2> QED
    BY <1>1, <1>2, <1>6, <2>1, <2>3, ZenonT(60) DEF InPlace, Following, k
<1> QED
  BY <1>3, <1>4, <1>5, <1>6, PlaceFacts, ZenonT(60)

\* A set of numbers that is not empty has a least one.
LEMMA MinIn ==
  ASSUME NEW S \in SUBSET Nat, S # {}
  PROVE  Min(S) \in S
<1> DEFINE R == OpToRel(<, Nat)
<1>1. IsWellFoundedOn(R, Nat)
  BY NatLessThanWellFounded, ZenonT(60)
<1>2. \A i, j \in Nat : i < j <=> <<i, j>> \in R
  BY ZenonT(60) DEF OpToRel
<1> HIDE DEF R
<1>3. PICK i \in S : \A j \in S : ~(<<j, i>> \in R)
  BY <1>1, WFMin, ZenonT(60)
<1>4. \A j \in S : ~(j < i)
  BY <1>2, <1>3, ZenonT(60)
<1>5. \E x \in S : \A y \in S : x <= y
  BY <1>4
<1> QED
  BY <1>5, ZenonT(60) DEF Min

-----------------------------------------------------------------------------
(***************************************************************************)
(* A node keeps its invariant, whatever its inputs do that the rest of the *)
(* array can do to it.                                                     *)
(***************************************************************************)
GoodInput(i, x, in) ==
  /\ in.go \in BOOLEAN /\ (in.go => Able(i, x)) /\ in.mready \in BOOLEAN
  /\ in.beat.valid \in BOOLEAN /\ in.beat.last \in BOOLEAN /\ in.beat.word \in Words
  /\ in.beat.valid /\ x.rx.st = "IDLE" => ~in.beat.last
  /\ in.beat.valid /\ x.rx.st = "RECV" => in.beat.last

\* The same, for the operations alone.
WorkerMoves(x, y) ==
  /\ x.cpu.op = "limit" => y.cpu.op = "busy"
  /\ x.cpu.op = "busy" => y.cpu.op = "cycle"
  /\ x.cpu.op = "look" => y.cpu.op = "take"
  /\ x.cpu.op = "take" => y.cpu.op = "done"
  /\ x.cpu.op = "w0" => y.cpu.op = "d1"
  /\ x.cpu.op = "idle" => y.cpu.op = "poll"
  /\ x.cpu.op = "poll" => y.cpu.op = "busy"
  /\ x.cpu.op \in {"cycle", "done", "d1"} => y.cpu.op \in {"look", "w0", "idle"}

\* ... of a worker that takes a step.
LEMMA NextMove ==
  ASSUME NEW i \in Core, NEW x, InPlace(i, x), NEW in, in.go, NEW y,
         y.cpu = NextCpu(i, x, in)
  PROVE  InPlace(i, y) /\ WorkerMoves(x, y)
<1>1. /\ InPlace(i, y)
      /\ x.cpu.op = "limit" => y.cpu.op = "busy"
      /\ x.cpu.op = "busy" => y.cpu.op = "cycle" /\ y.cpu.k = x.cpu.k
      /\ x.cpu.op = "look" => y.cpu.op = "take" /\ y.cpu.k = x.cpu.k
      /\ x.cpu.op = "take" => y.cpu.op = "done" /\ y.cpu.k = x.cpu.k
      /\ x.cpu.op = "w0" => y.cpu.op = "d1" /\ y.cpu.k = x.cpu.k
      /\ x.cpu.op = "idle" => y.cpu.op = "poll"
      /\ x.cpu.op = "poll" => y.cpu.op = "busy"
      /\ x.cpu.op \in {"cycle", "done", "d1"} => y.cpu.op \in {"look", "w0", "idle"}
  BY NextPlace, SMTT(60)
<1> QED BY <1>1, ZenonT(60) DEF WorkerMoves

\* The five register groups of a node after a clock edge.
LEMMA NodeParts ==
  ASSUME NEW i, NEW x, NEW in, NEW y, y = NextNode(i, x, in)
  PROVE  /\ y.cpu = NextCpu(i, x, in) /\ y.io = NextIo(i, x, in) /\ y.tx = NextTx(x, in)
         /\ y.rx = NextRx(x, in) /\ y.sf = NextSf(i, x, in)
BY ZenonT(60) DEF NextNode

\* The parts of the next state that the proofs use.
CpuNext(i, x, in, y) ==
  /\ ~in.go => y.cpu = x.cpu
  /\ in.go => /\ y.cpu.lim = x.cpu.lim
              /\ y.cpu.n = IF x.cpu.op = "poll" THEN x.cpu.n + 1 ELSE x.cpu.n
              /\ y.cpu.c0 = IF x.cpu.op = "cycle" THEN x.io.cnt ELSE x.cpu.c0
              /\ y.cpu.slot = IF x.cpu.op = "look" THEN Min(x.sf.ready)
                                                   ELSE x.cpu.slot

\* ... of its worker,
LEMMA WorkerParts ==
  ASSUME NEW i, NEW x, NEW in, NEW y, y = NextNode(i, x, in)
  PROVE  CpuNext(i, x, in, y)
<1>1. y.cpu = NextCpu(i, x, in)
  BY NodeParts
<1> QED
  BY <1>1, SMTT(60) DEF NextCpu, CpuNext

IoNext(i, x, in, y) ==
  /\ y.io.limit = IF Does(x, in, "limit") THEN x.cpu.lim ELSE x.io.limit
  /\ y.io.busy \in BOOLEAN /\ y.io.pending \in BOOLEAN
  /\ y.io.busy <=> Does(x, in, "busy") \/ (x.io.busy /\ ~Does(x, in, "idle"))
  /\ y.io.pending <=> Does(x, in, "d1") \/ (x.io.pending /\ ~x.tx.ack)
  /\ y.io.cnt = IF in.advance THEN x.io.cnt + 1 ELSE x.io.cnt
  /\ ~Does(x, in, "w0") => y.io.w0 = x.io.w0
  /\ ~Does(x, in, "d1") => y.io.d1 = x.io.d1
  /\ Does(x, in, "w0") =>
       y.io.w0 = Word([src |-> i, dst |-> Program[i][x.cpu.k - 1].dst, n |-> x.cpu.n], 0)
  /\ Does(x, in, "d1") =>
       y.io.d1 = Word([src |-> i, dst |-> Program[i][x.cpu.k - 1].dst, n |-> x.cpu.n], 1)

\* ... of its MMIO registers,
LEMMA IoParts ==
  ASSUME NEW i, NEW x, NEW in, NEW y, y = NextNode(i, x, in)
  PROVE  IoNext(i, x, in, y)
<1>1. y.io = NextIo(i, x, in)
  BY NodeParts, SMTT(60)
<1>2. /\ y.io.busy = (Does(x, in, "busy") \/ (x.io.busy /\ ~Does(x, in, "idle")))
      /\ y.io.pending = (Does(x, in, "d1") \/ (x.io.pending /\ ~x.tx.ack))
  BY <1>1 DEF NextIo
<1>3. /\ y.io.busy \in BOOLEAN /\ y.io.pending \in BOOLEAN
      /\ y.io.busy <=> Does(x, in, "busy") \/ (x.io.busy /\ ~Does(x, in, "idle"))
      /\ y.io.pending <=> Does(x, in, "d1") \/ (x.io.pending /\ ~x.tx.ack)
  BY <1>2, ZenonT(60)
<1>4. /\ y.io.limit = IF Does(x, in, "limit") THEN x.cpu.lim ELSE x.io.limit
      /\ y.io.cnt = IF in.advance THEN x.io.cnt + 1 ELSE x.io.cnt
  BY <1>1, SMTT(60) DEF NextIo
<1>5. /\ ~Does(x, in, "w0") => y.io.w0 = x.io.w0
      /\ ~Does(x, in, "d1") => y.io.d1 = x.io.d1
      /\ Does(x, in, "w0") =>
           y.io.w0 = Word([src |-> i, dst |-> Program[i][x.cpu.k - 1].dst, n |-> x.cpu.n], 0)
      /\ Does(x, in, "d1") =>
           y.io.d1 = Word([src |-> i, dst |-> Program[i][x.cpu.k - 1].dst, n |-> x.cpu.n], 1)
  BY <1>1, SMTT(60) DEF NextIo
<1> QED
  BY <1>3, <1>4, <1>5, ZenonT(60) DEF IoNext

SfNext(i, x, in, y) ==
  LET done == IF Does(x, in, "done") THEN {x.cpu.slot} ELSE {}
  IN /\ y.sf.free = (x.sf.free \ Alloc(x, in)) \cup done
     /\ y.sf.ready = (x.sf.ready \cup ({x.rx.commit} \ {0})) \ done
     /\ y.sf.mem = NextMem(x)

\* ... of its slot file,
LEMMA SfParts ==
  ASSUME NEW i, NEW x, NEW in, NEW y, y = NextNode(i, x, in)
  PROVE  SfNext(i, x, in, y)
<1>1. y.sf = NextSf(i, x, in)
  BY NodeParts
<1> QED
  BY <1>1, SMTT(60) DEF NextSf, SfNext

\* The worker of a node.
LEMMA WorkerNext ==
  ASSUME NEW i \in Core, NEW x, NEW in, NEW y, y = NextNode(i, x, in),
         NodeInv(i, x), GoodInput(i, x, in)
  PROVE  WorkerInv(i, y)
<1>0. CpuNext(i, x, in, y) /\ IoNext(i, x, in, y) /\ SfNext(i, x, in, y)
  BY WorkerParts, IoParts, SfParts, ZenonT(60)
<1>1. /\ InPlace(i, x) /\ x.cpu.n \in 0 .. MaxCycles /\ MaxCycles \in Nat /\ x.cpu.lim \in Slot
      /\ x.sf.ready \subseteq Slot /\ x.io.busy \in BOOLEAN /\ in.go \in BOOLEAN
      /\ y.cpu = NextCpu(i, x, in)
  BY NodeParts, NodeAssumption DEF NodeInv, WorkerInv, SendInv, RecvInv, SlotInv, GoodInput
<1>2. \A s \in x.sf.ready : ~Does(x, in, "done") => s \in y.sf.ready
  BY <1>0, ZenonT(60) DEF SfNext
<1>3. CASE ~in.go
  <2>1. y.cpu = x.cpu
    BY <1>0, <1>3, ZenonT(60) DEF CpuNext
  <2>2. y.io.busy <=> x.io.busy
    BY <1>1, <1>3, <1>0, ZenonT(60) DEF Does, IoNext
  <2>3. x.cpu.op \in {"take", "done"} => x.cpu.slot \in y.sf.ready
    BY <1>2, <1>3, ZenonT(60) DEF Does, NodeInv, WorkerInv
  <2> QED
    BY <2>1, <2>2, <2>3, ZenonT(60) DEF NodeInv, WorkerInv, InPlace
<1>4. CASE in.go
  <2>1. /\ InPlace(i, y)
        /\ x.cpu.op = "limit" => y.cpu.op = "busy"
        /\ x.cpu.op = "busy" => y.cpu.op = "cycle"
        /\ x.cpu.op = "look" => y.cpu.op = "take"
        /\ x.cpu.op = "take" => y.cpu.op = "done"
        /\ x.cpu.op = "w0" => y.cpu.op = "d1"
        /\ x.cpu.op = "idle" => y.cpu.op = "poll"
        /\ x.cpu.op = "poll" => y.cpu.op = "busy"
        /\ x.cpu.op \in {"cycle", "done", "d1"} => y.cpu.op \in {"look", "w0", "idle"}
    BY <1>1, <1>4, NextPlace, SMTT(60)
  <2>2. x.cpu.op \in {"limit", "busy", "cycle", "look", "take", "done", "w0", "d1",
                      "idle", "poll"}
    BY <1>1, PlaceFacts, ZenonT(60)
  <2>3. y.cpu.n \in 0 .. MaxCycles /\ (y.cpu.op \notin {"limit", "busy"} => y.cpu.n < MaxCycles)
    <3>1. y.cpu.n = IF x.cpu.op = "poll" THEN x.cpu.n + 1 ELSE x.cpu.n
      BY <1>0, <1>4, ZenonT(60) DEF CpuNext
    <3>2. x.cpu.op = "busy" => x.cpu.n < MaxCycles
      BY <1>4, ZenonT(60) DEF GoodInput, Able
    <3>3. x.cpu.op \notin {"limit", "busy"} => x.cpu.n < MaxCycles
      BY ZenonT(60) DEF NodeInv, WorkerInv
    <3> QED
      BY <1>1, <2>1, <2>2, <3>1, <3>2, <3>3, SMTT(60)
  <2>4. /\ y.cpu.op \notin {"limit", "busy", "poll"} => y.io.busy
        /\ y.cpu.op = "poll" => ~y.io.busy
    <3>1. y.io.busy <=> x.cpu.op = "busy" \/ (x.io.busy /\ x.cpu.op # "idle")
      BY <1>0, <1>4, ZenonT(60) DEF Does, IoNext
    <3>2. x.cpu.op \notin {"limit", "busy", "poll"} => x.io.busy
      BY ZenonT(60) DEF NodeInv, WorkerInv
    <3> QED
      BY <2>1, <2>2, <3>1, <3>2, ZenonT(60)
  <2>5. y.cpu.op \in {"take", "done"} => y.cpu.slot \in y.sf.ready
    <3>1. CASE x.cpu.op = "look"
      <4>1. x.sf.ready # {} /\ x.sf.ready \subseteq Nat
        BY <1>1, <1>4, <3>1, CoreFacts, ZenonT(60) DEF GoodInput, Able
      <4>2. y.cpu.slot \in x.sf.ready
        BY <1>0, <1>4, <3>1, <4>1, MinIn, SMTT(60) DEF CpuNext
      <4> QED
        BY <1>2, <3>1, <4>2, ZenonT(60) DEF Does
    <3>2. CASE x.cpu.op = "take"
      <4>1. y.cpu.slot = x.cpu.slot /\ x.cpu.slot \in x.sf.ready
        BY <1>0, <1>4, <3>2, ZenonT(60) DEF CpuNext, NodeInv, WorkerInv
      <4> QED
        BY <1>2, <3>2, <4>1, ZenonT(60) DEF Does
    <3>3. CASE x.cpu.op \notin {"look", "take"}
      BY <2>1, <2>2, <3>3, ZenonT(60)
    <3> QED
      BY <3>1, <3>2, <3>3, ZenonT(60)
  <2>6. y.cpu.lim \in Slot
    BY <1>0, <1>1, <1>4, ZenonT(60) DEF CpuNext
  <2> QED
    BY <2>1, <2>3, <2>4, <2>5, <2>6, ZenonT(60) DEF WorkerInv
<1> QED
  BY <1>1, <1>3, <1>4, ZenonT(60)

TxNext(i, x, in, y) ==
  /\ x.tx.st = "IDLE" /\ x.io.pending /\ ~x.tx.ack =>
       y.tx.st = "DS0" /\ y.tx.w0 = x.io.w0 /\ y.tx.d1 = x.io.d1 /\ y.tx.ack = FALSE
  /\ x.tx.st = "IDLE" /\ ~(x.io.pending /\ ~x.tx.ack) =>
       y.tx.st = "IDLE" /\ y.tx.ack = FALSE
  /\ x.tx.st # "IDLE" => y.tx.w0 = x.tx.w0 /\ y.tx.d1 = x.tx.d1
  /\ x.tx.st = "DS0" => /\ y.tx.st = IF in.mready THEN "DS1" ELSE "DS0"
                        /\ y.tx.ack = FALSE
  /\ x.tx.st = "DS1" => IF in.mready THEN y.tx.st = "IDLE" /\ y.tx.ack = TRUE
                                     ELSE y.tx.st = "DS1" /\ y.tx.ack = FALSE

\* ... of its sender,
LEMMA TxParts ==
  ASSUME NEW i, NEW x, NEW in, NEW y, y = NextNode(i, x, in)
  PROVE  TxNext(i, x, in, y)
<1>1. y.tx = NextTx(x, in)
  BY NodeParts, SMTT(60)
<1>2. CASE x.tx.st = "IDLE" /\ x.io.pending /\ ~x.tx.ack
  BY <1>1, <1>2, SMTT(60) DEF NextTx, TxNext
<1>3. CASE x.tx.st = "DS0" /\ in.mready
  BY <1>1, <1>3, SMTT(60) DEF NextTx, TxNext
<1>4. CASE x.tx.st = "DS1" /\ in.mready
  BY <1>1, <1>4, SMTT(60) DEF NextTx, TxNext
<1>5. CASE /\ ~(x.tx.st = "IDLE" /\ x.io.pending /\ ~x.tx.ack)
           /\ ~(x.tx.st = "DS0" /\ in.mready) /\ ~(x.tx.st = "DS1" /\ in.mready)
  <2>1. y.tx = [st |-> x.tx.st, w0 |-> x.tx.w0, d1 |-> x.tx.d1, ack |-> FALSE]
    BY <1>1, <1>5, ZenonT(60) DEF NextTx
  <2> QED
    BY <1>5, <2>1, SMTT(60) DEF TxNext
<1> QED
  BY <1>2, <1>3, <1>4, <1>5, ZenonT(60)

\* What a core posts is a packet.
LEMMA PostIsPacket ==
  ASSUME NEW i \in Core, NEW x, WorkerInv(i, x), x.cpu.op \in {"w0", "d1"}
  PROVE  [src |-> i, dst |-> Program[i][x.cpu.k - 1].dst, n |-> x.cpu.n] \in Packet
<1>1. Program[i][x.cpu.k - 1].dst \in 0 .. N
  BY PlaceFacts, StepFacts, ZenonT(60) DEF WorkerInv, Port
<1>2. x.cpu.n \in 0 .. MaxCycles /\ i \in 0 .. N
  BY CoreFacts, ZenonT(60) DEF WorkerInv, Port
<1> QED
  BY <1>1, <1>2, ZenonT(60) DEF Packet

\* The sending side of a node.
LEMMA SendNext ==
  ASSUME NEW i \in Core, NEW x, NEW in, NEW y, y = NextNode(i, x, in),
         NodeInv(i, x), GoodInput(i, x, in)
  PROVE  SendInv(i, y)
<1>1. /\ InPlace(i, x) /\ SendInv(i, x) /\ WorkerInv(i, x) /\ in.go \in BOOLEAN
      /\ in.mready \in BOOLEAN
      /\ x.tx.st \in {"IDLE", "DS0", "DS1"} /\ y.cpu = NextCpu(i, x, in)
  BY NodeParts, SMTT(60) DEF NodeInv, WorkerInv, SendInv, GoodInput
<1>0. CpuNext(i, x, in, y) /\ IoNext(i, x, in, y) /\ TxNext(i, x, in, y)
  BY WorkerParts, IoParts, TxParts, SMTT(60)
<1>2. y.io.limit \in Slot
  BY <1>0, <1>1, ZenonT(60) DEF IoNext, SendInv, WorkerInv
<1>3. y.io.pending \in BOOLEAN /\ y.io.busy \in BOOLEAN
  BY <1>0, ZenonT(60) DEF IoNext
<1>4. y.tx.st \in {"IDLE", "DS0", "DS1"} /\ y.tx.ack \in BOOLEAN
  BY <1>0, <1>1, ZenonT(60) DEF TxNext
<1>5. ASSUME y.cpu.op = "d1"
      PROVE  y.io.w0 = Word([src |-> i, dst |-> Program[i][y.cpu.k - 1].dst, n |-> y.cpu.n], 0)
  <2>1. CASE ~in.go
    <3>1. y.cpu = x.cpu /\ y.io.w0 = x.io.w0
      BY <1>0, <2>1, ZenonT(60) DEF Does, CpuNext, IoNext
    <3> QED
      BY <1>1, <1>5, <3>1, ZenonT(60) DEF SendInv
  <2>2. CASE in.go
    <3>1. x.cpu.op = "w0" /\ y.cpu.k = x.cpu.k
      BY <1>1, <1>5, <2>2, NextPlace, PlaceFacts, SMTT(60)
    <3>2. y.cpu.n = x.cpu.n
      BY <1>0, <2>2, <3>1, ZenonT(60) DEF CpuNext
    <3> QED
      BY <1>0, <2>2, <3>1, <3>2, ZenonT(60) DEF Does, IoNext
  <2> QED
    BY <1>1, <2>1, <2>2, ZenonT(60)
<1>6. ASSUME y.io.pending, y.tx.st = "IDLE", ~y.tx.ack
      PROVE  y.io.busy /\ Pair(y.io.w0, y.io.d1)
  <2>1. Does(x, in, "d1")
    BY <1>0, <1>1, <1>6, ZenonT(60) DEF TxNext, IoNext
  <2>2. y.io.busy
    BY <1>0, <1>1, <2>1, ZenonT(60) DEF Does, WorkerInv, IoNext
  <2>3. PICK p : p = [src |-> i, dst |-> Program[i][x.cpu.k - 1].dst, n |-> x.cpu.n]
    BY ZenonT(60)
  <2>4. p \in Packet
    BY <1>1, <2>1, <2>3, PostIsPacket, ZenonT(60) DEF Does
  <2>5. y.io.w0 = Word(p, 0) /\ y.io.d1 = Word(p, 1)
    BY <1>0, <1>1, <2>1, <2>3, ZenonT(60) DEF Does, SendInv, IoNext
  <2> QED
    BY <2>2, <2>4, <2>5, SMTT(60) DEF Pair, Word
<1>7. ASSUME y.tx.st # "IDLE" PROVE Pair(y.tx.w0, y.tx.d1)
  <2>1. CASE x.tx.st = "IDLE"
    BY <1>0, <1>1, <1>7, <2>1, ZenonT(60) DEF SendInv, TxNext
  <2>2. CASE x.tx.st # "IDLE"
    BY <1>0, <1>1, <2>2, ZenonT(60) DEF SendInv, TxNext
  <2> QED
    BY <2>1, <2>2, ZenonT(60)
<1> QED
  BY <1>2, <1>3, <1>4, <1>5, <1>6, <1>7, ZenonT(60) DEF SendInv

\* The receiving side: a packet begins, ends, is committed, or nothing comes.
Begins(x, in) == x.rx.st = "IDLE" /\ in.beat.valid /\ Candidates(x) # {}
Continues(x, in) == x.rx.st = "RECV" /\ in.beat.valid
RxNext(x, in, y) ==
  /\ Begins(x, in) =>
       /\ y.rx.st = IF in.beat.last THEN "COMMIT" ELSE "RECV"
       /\ y.rx.slot = Min(Candidates(x)) /\ y.rx.off = 1 /\ y.rx.commit = 0
       /\ y.rx.wr = [slot |-> Min(Candidates(x)), off |-> 0, word |-> in.beat.word]
  /\ Continues(x, in) =>
       /\ y.rx.st = IF in.beat.last THEN "COMMIT" ELSE "RECV"
       /\ y.rx.slot = x.rx.slot /\ y.rx.off = x.rx.off + 1 /\ y.rx.commit = 0
       /\ y.rx.wr = [slot |-> x.rx.slot, off |-> x.rx.off, word |-> in.beat.word]
  /\ x.rx.st = "COMMIT" =>
       y.rx.st = "IDLE" /\ y.rx.wr = NoWrite /\ y.rx.commit = x.rx.slot
  /\ x.rx.st # "COMMIT" /\ ~Begins(x, in) /\ ~Continues(x, in) =>
       /\ y.rx.st = x.rx.st /\ y.rx.slot = x.rx.slot /\ y.rx.off = x.rx.off
       /\ y.rx.wr = NoWrite /\ y.rx.commit = 0

\* ... and of its receiver.
LEMMA RxParts ==
  ASSUME NEW i, NEW x, NEW in, NEW y, y = NextNode(i, x, in)
  PROVE  RxNext(x, in, y)
<1>1. y.rx = NextRx(x, in)
  BY NodeParts, SMTT(60)
<1>2. CASE Begins(x, in)
  <2>1. y.rx = Got(in.beat, Min(Candidates(x)), 0)
    BY <1>1, <1>2, ZenonT(60) DEF NextRx, Begins, SReady
  <2> QED
    BY <1>2, <2>1, SMTT(60) DEF Got, RxNext, Begins, Continues
<1>3. CASE Continues(x, in)
  <2>1. y.rx = Got(in.beat, x.rx.slot, x.rx.off)
    BY <1>1, <1>3, ZenonT(60) DEF NextRx, Continues
  <2> QED
    BY <1>3, <2>1, SMTT(60) DEF Got, RxNext, Begins, Continues
<1>4. CASE x.rx.st = "COMMIT"
  BY <1>1, <1>4, SMTT(60) DEF NextRx, RxNext, Begins, Continues
<1>5. CASE x.rx.st # "COMMIT" /\ ~Begins(x, in) /\ ~Continues(x, in)
  <2>1. y.rx = [st |-> x.rx.st, slot |-> x.rx.slot, off |-> x.rx.off, wr |-> NoWrite,
                commit |-> 0]
    BY <1>1, <1>5, ZenonT(60) DEF NextRx, Begins, Continues, SReady
  <2> QED
    BY <1>5, <2>1, SMTT(60) DEF RxNext
<1> QED
  BY <1>2, <1>3, <1>4, <1>5, ZenonT(60)

\* The slot that a packet begins to fill.
LEMMA Allocated ==
  ASSUME NEW x, NEW in, RecvInv(x)
  PROVE  /\ Begins(x, in) => /\ Min(Candidates(x)) \in x.sf.free
                             /\ Alloc(x, in) = {Min(Candidates(x))}
         /\ ~Begins(x, in) => Alloc(x, in) = {}
<1>1. Candidates(x) \in SUBSET Nat /\ Candidates(x) \subseteq x.sf.free
  BY CoreFacts, ZenonT(60) DEF RecvInv, SlotInv, Candidates
<1>2. Candidates(x) # {} => Min(Candidates(x)) \in x.sf.free
  BY <1>1, MinIn, ZenonT(60)
<1> QED
  BY <1>2, ZenonT(60) DEF Alloc, Begins, SReady

\* Where a slot is.
Filling(x, s) == x.rx.st # "IDLE" /\ s = x.rx.slot
SlotHands(x) ==
  /\ x.sf.free \subseteq Slot /\ x.sf.ready \subseteq Slot
  /\ x.rx.st # "IDLE" => x.rx.slot \in Slot
  /\ x.rx.commit # 0 => x.rx.commit \in Slot
  /\ \A s \in Slot :
       /\ s \in x.sf.free => s \notin x.sf.ready /\ ~Filling(x, s) /\ s # x.rx.commit
       /\ s \in x.sf.ready => ~Filling(x, s) /\ s # x.rx.commit
       /\ Filling(x, s) => s # x.rx.commit
       /\ s \in x.sf.free \/ s \in x.sf.ready \/ Filling(x, s) \/ s = x.rx.commit

\* The two ways to say that every slot is in one hand.
LEMMA HandsOfSlots ==
  ASSUME NEW x
  PROVE  SlotInv(x) <=> SlotHands(x)
<1>1. ASSUME SlotInv(x) PROVE SlotHands(x)
  BY <1>1, CoreFacts, ZenonT(60) DEF SlotInv, SlotHands, Filling
<1>2. ASSUME SlotHands(x) PROVE SlotInv(x)
  <2> DEFINE filling == IF x.rx.st # "IDLE" THEN {x.rx.slot} ELSE {}
             commit == {x.rx.commit} \ {0}
  <2>1. x.sf.free \cap x.sf.ready = {}
    BY <1>2, ZenonT(60) DEF SlotHands
  <2>2. filling \subseteq Slot /\ commit \subseteq Slot
    BY <1>2, ZenonT(60) DEF SlotHands
  <2>3. (filling \cup commit) \cap (x.sf.free \cup x.sf.ready) = {}
    BY <1>2, <2>2, CoreFacts, ZenonT(60) DEF SlotHands, Filling
  <2>4. filling \cap commit = {}
    BY <1>2, <2>2, ZenonT(60) DEF SlotHands, Filling
  <2>5. x.sf.free \cup x.sf.ready \cup filling \cup commit = Slot
    BY <1>2, <2>2, CoreFacts, ZenonT(60) DEF SlotHands, Filling
  <2> QED
    BY <2>1, <2>3, <2>4, <2>5, ZenonT(60) DEF SlotInv
<1> QED
  BY <1>1, <1>2, ZenonT(60)

\* Every slot stays in one hand.
LEMMA SlotsNext ==
  ASSUME NEW i \in Core, NEW x, NEW in, NEW y, y = NextNode(i, x, in),
         NodeInv(i, x), GoodInput(i, x, in)
  PROVE  SlotHands(y)
<1> DEFINE done == IF Does(x, in, "done") THEN {x.cpu.slot} ELSE {}
           alloc == Alloc(x, in)
<1>0. RxNext(x, in, y) /\ SfNext(i, x, in, y)
  BY RxParts, SfParts, ZenonT(60)
<1>1. /\ SlotHands(x) /\ x.rx.st \in {"IDLE", "RECV", "COMMIT"}
      /\ x.rx.commit # 0 => x.rx.st = "IDLE"
  BY HandsOfSlots, ZenonT(60) DEF NodeInv, RecvInv
<1>2. done \subseteq x.sf.ready
  BY ZenonT(60) DEF Does, NodeInv, WorkerInv
<1>3. /\ y.sf.free = (x.sf.free \ alloc) \cup done
      /\ y.sf.ready = (x.sf.ready \cup ({x.rx.commit} \ {0})) \ done
  BY <1>0, ZenonT(60) DEF SfNext
<1>4. /\ Begins(x, in) => Min(Candidates(x)) \in x.sf.free /\ alloc = {Min(Candidates(x))}
      /\ ~Begins(x, in) => alloc = {}
  BY Allocated, ZenonT(60) DEF NodeInv
<1> HIDE DEF done, alloc
<1>5. y.sf.free \subseteq Slot /\ y.sf.ready \subseteq Slot
  BY <1>1, <1>2, <1>3, ZenonT(60) DEF SlotHands
<1>6. CASE Begins(x, in)
  <2>1. PICK m : m = Min(Candidates(x))
    BY ZenonT(60)
  <2>2. /\ m \in x.sf.free /\ alloc = {m} /\ x.rx.st = "IDLE"
        /\ y.rx.st # "IDLE" /\ y.rx.slot = m /\ y.rx.commit = 0
    BY <1>0, <1>4, <1>6, <2>1, ZenonT(60) DEF RxNext, Begins
  <2> QED
    BY <1>1, <1>2, <1>3, <1>5, <2>2, CoreFacts, SMTT(60) DEF SlotHands, Filling
<1>7. CASE Continues(x, in)
  <2>1. /\ alloc = {} /\ x.rx.st = "RECV" /\ x.rx.commit = 0
        /\ y.rx.st # "IDLE" /\ y.rx.slot = x.rx.slot /\ y.rx.commit = 0
    BY <1>0, <1>1, <1>4, <1>7, ZenonT(60) DEF RxNext, Begins, Continues
  <2> QED
    BY <1>1, <1>2, <1>3, <1>5, <2>1, CoreFacts, ZenonT(60) DEF SlotHands, Filling
<1>8. CASE x.rx.st = "COMMIT"
  <2>1. /\ alloc = {} /\ x.rx.commit = 0
        /\ y.rx.st = "IDLE" /\ y.rx.commit = x.rx.slot
    BY <1>0, <1>1, <1>4, <1>8, ZenonT(60) DEF RxNext, Begins
  <2> QED
    BY <1>1, <1>2, <1>3, <1>5, <1>8, <2>1, CoreFacts, ZenonT(60) DEF SlotHands, Filling
<1>9. CASE x.rx.st # "COMMIT" /\ ~Begins(x, in) /\ ~Continues(x, in)
  <2>1. /\ alloc = {} /\ y.rx.st = x.rx.st /\ y.rx.slot = x.rx.slot /\ y.rx.commit = 0
    BY <1>0, <1>4, <1>9, ZenonT(60) DEF RxNext
  <2> QED
    BY <1>1, <1>2, <1>3, <1>5, <2>1, CoreFacts, SMTT(60) DEF SlotHands, Filling
<1> QED
  BY <1>6, <1>7, <1>8, <1>9, ZenonT(60)

\* A word written to a slot.
LEMMA MemType ==
  ASSUME NEW x, RecvInv(x)
  PROVE  NextMem(x) \in [Slot -> [0 .. 1 -> Words]]
<1>1. CASE x.rx.wr.slot = 0
  BY <1>1, ZenonT(60) DEF NextMem, RecvInv
<1>2. CASE x.rx.wr.slot # 0
  <2>1. PICK s, o, w : s = x.rx.wr.slot /\ o = x.rx.wr.off /\ w = x.rx.wr.word
    BY ZenonT(60)
  <2>2. s \in Slot /\ o \in 0 .. 1 /\ w \in Words
    BY <1>2, <2>1, HandsOfSlots, ZenonT(60) DEF RecvInv, SlotHands
  <2>3. NextMem(x) = [x.sf.mem EXCEPT ![s][o] = w]
    BY <1>2, <2>1, ZenonT(60) DEF NextMem
  <2>4. PICK mem \in [Slot -> [0 .. 1 -> Words]] : mem = x.sf.mem
    BY ZenonT(60) DEF RecvInv
  <2> QED
    BY <2>2, <2>3, <2>4, SMTT(60)
<1> QED
  BY <1>1, <1>2, ZenonT(60)

\* The receiving side of a node.
LEMMA RecvNext ==
  ASSUME NEW i \in Core, NEW x, NEW in, NEW y, y = NextNode(i, x, in),
         NodeInv(i, x), GoodInput(i, x, in)
  PROVE  RecvInv(y)
<1>0. RxNext(x, in, y) /\ SfNext(i, x, in, y)
  BY RxParts, SfParts, SMTT(60)
<1>1. RecvInv(x) /\ SlotHands(y)
  BY SlotsNext, ZenonT(60) DEF NodeInv
<1>2. SlotInv(y)
  BY <1>1, HandsOfSlots, ZenonT(60)
<1>3. y.sf.mem \in [Slot -> [0 .. 1 -> Words]]
  BY <1>0, <1>1, MemType, ZenonT(60) DEF SfNext
<1>4. /\ in.beat.word \in Words /\ x.rx.st \in {"IDLE", "RECV", "COMMIT"}
      /\ in.beat.last \in BOOLEAN
      /\ in.beat.valid /\ x.rx.st = "IDLE" => ~in.beat.last
      /\ in.beat.valid /\ x.rx.st = "RECV" => in.beat.last
      /\ x.rx.st = "RECV" => x.rx.off = 1
  BY <1>1, ZenonT(60) DEF GoodInput, RecvInv
<1>5. CASE Begins(x, in)
  <2>1. y.rx.st = "RECV" /\ y.rx.off = 1 /\ y.rx.commit = 0
    BY <1>0, <1>4, <1>5, ZenonT(60) DEF RxNext, Begins
  <2>2. /\ y.rx.wr.slot = y.rx.slot /\ y.rx.wr.off = 0 /\ y.rx.wr.word \in Words
    BY <1>0, <1>4, <1>5, SMTT(60) DEF RxNext
  <2> QED
    BY <1>2, <1>3, <2>1, <2>2, SMTT(60) DEF RecvInv
<1>6. CASE Continues(x, in)
  <2>1. y.rx.st = "COMMIT" /\ y.rx.commit = 0
    BY <1>0, <1>4, <1>6, ZenonT(60) DEF RxNext, Continues
  <2>2. /\ y.rx.wr.slot = y.rx.slot /\ y.rx.wr.off = 1 /\ y.rx.wr.word \in Words
    BY <1>0, <1>4, <1>6, SMTT(60) DEF RxNext, Continues
  <2> QED
    BY <1>2, <1>3, <2>1, <2>2, SMTT(60) DEF RecvInv
<1>7. CASE x.rx.st = "COMMIT"
  <2>1. y.rx.st = "IDLE" /\ y.rx.wr.slot = 0
    BY <1>0, <1>7, SMTT(60) DEF RxNext, NoWrite
  <2> QED
    BY <1>2, <1>3, <2>1, ZenonT(60) DEF RecvInv
<1>8. CASE x.rx.st # "COMMIT" /\ ~Begins(x, in) /\ ~Continues(x, in)
  <2>1. y.rx.st = x.rx.st /\ y.rx.off = x.rx.off /\ y.rx.wr.slot = 0 /\ y.rx.commit = 0
    BY <1>0, <1>8, SMTT(60) DEF RxNext, NoWrite
  <2> QED
    BY <1>2, <1>3, <1>4, <2>1, ZenonT(60) DEF RecvInv
<1> QED
  BY <1>5, <1>6, <1>7, <1>8, ZenonT(60)

\* All of a node.
LEMMA NodeNext ==
  ASSUME NEW i \in Core, NEW x, NEW in, NEW y, y = NextNode(i, x, in),
         NodeInv(i, x), GoodInput(i, x, in)
  PROVE  NodeInv(i, y)
BY WorkerNext, SendNext, RecvNext, ZenonT(60) DEF NodeInv

-----------------------------------------------------------------------------
(***************************************************************************)
(* The wires of the array in one clock.                                    *)
(***************************************************************************)
Ready == {i \in Port : InReady(router, Beats, Rdy, i)}
InputOf(i, go) ==
  [go |-> i \in go, mready |-> i \in Ready, beat |-> OutBeat(router, Beats, i),
   advance |-> barrier.advance]

\* A clock edge, seen from the parts of the array.
LEMMA TickParts ==
  ASSUME NEW go \in SUBSET Core, NEW inject \in BOOLEAN, NEW read \in BOOLEAN,
         Tick(go, inject, read)
  PROVE  /\ \A i \in go : Able(i, node[i])
         /\ inject => CanInject(top)
         /\ read => CanRead(top)
         /\ \A i \in Core : node'[i] = NextNode(i, node[i], InputOf(i, go))
         /\ router' = NextRouter(router, Beats, Ready)
         /\ barrier' = NextBarrier(barrier, {i \in Core : CoreBusy(node[i])},
                                   {i \in Core : NifBusy(node[i])}, NSent(Ready), NDeliv)
         /\ top' = NextTop(top, inject, read, N \in Ready, OutBeat(router, Beats, N),
                           barrier.advance)
BY ZenonT(60) DEF Tick, Ready, InputOf

\* What an input offers.
LEMMA BeatFacts ==
  ASSUME ArrayInv, NEW i \in Port
  PROVE  /\ Phase(i) \in 0 .. 2
         /\ Beats[i].valid \in BOOLEAN /\ (Beats[i].valid <=> Phase(i) # 0)
         /\ Beats[i].last \in BOOLEAN /\ (Beats[i].last <=> Phase(i) = 2)
         /\ Phase(i) # 0 => /\ Sent(i) \in Packet /\ Dst(i) \in Port
                            /\ Beats[i].word = Word(Sent(i), IF Phase(i) = 2 THEN 1 ELSE 0)
<1>1. CASE i = N
  <2>1. Beats[i] = IngrBeat(top)
    BY <1>1, ZenonT(60) DEF Beats
  <2>2. top.st \in 0 .. 2 /\ top.k \in 0 .. MaxCycles /\ (top.st # 0 => top.k > 0)
    BY ZenonT(60) DEF ArrayInv, HostInv
  <2>3. Phase(i) = top.st /\ Sent(i) = HostPacket
    BY <1>1, ZenonT(60) DEF Phase, Sent
  <2>4. /\ Beats[i].valid = (top.st # 0) /\ Beats[i].last = (top.st = 2)
        /\ Beats[i].word = Word(HostPacket, IF top.st = 2 THEN 1 ELSE 0)
    BY <2>1, SMTT(60) DEF IngrBeat, HostPacket
  <2>5. top.st # 0 => HostPacket \in Packet
    BY <2>2, NodeAssumption, FabricAssumption, SMTT(60) DEF HostPacket, Packet, Core
  <2>6. top.st # 0 => HostPacket.dst \in Port
    BY CoreFacts, ZenonT(60) DEF HostPacket
  <2> QED
    BY <2>2, <2>3, <2>4, <2>5, <2>6, ZenonT(60) DEF Dst
<1>2. CASE i # N
  <2>0. i \in Core
    BY <1>2, CoreFacts, ZenonT(60)
  <2>1. Beats[i] = TxBeat(node[i])
    BY <1>2, ZenonT(60) DEF Beats
  <2>2. /\ node[i].tx.st \in {"IDLE", "DS0", "DS1"}
        /\ node[i].tx.st # "IDLE" => Pair(node[i].tx.w0, node[i].tx.d1)
    BY <2>0, ZenonT(60) DEF ArrayInv, NodeInv, SendInv
  <2>3. /\ Sent(i) = node[i].tx.w0.p
        /\ Phase(i) = 0 <=> node[i].tx.st = "IDLE"
        /\ Phase(i) = 1 <=> node[i].tx.st = "DS0"
        /\ Phase(i) = 2 <=> node[i].tx.st = "DS1"
        /\ Phase(i) \in 0 .. 2
    BY <1>2, <2>2, SMTT(60) DEF Phase, Sent
  <2>4. /\ Beats[i].valid = (node[i].tx.st # "IDLE") /\ Beats[i].last = (node[i].tx.st = "DS1")
        /\ Beats[i].word = IF node[i].tx.st = "DS1" THEN node[i].tx.d1 ELSE node[i].tx.w0
    BY <2>1, SMTT(60) DEF TxBeat
  <2>5. node[i].tx.st # "IDLE" => /\ node[i].tx.w0.p \in Packet
                                  /\ node[i].tx.w0 = Word(node[i].tx.w0.p, 0)
                                  /\ node[i].tx.d1 = Word(node[i].tx.w0.p, 1)
    BY <2>2, ZenonT(60) DEF Pair
  <2>6. Sent(i) \in Packet => Dst(i) \in Port
    BY ZenonT(60) DEF Dst, Packet, Port
  <2> QED
    BY <2>3, <2>4, <2>5, <2>6, ZenonT(60)
<1> QED
  BY <1>1, <1>2, ZenonT(60)

\* The router sends a packet where its header says, for both words.
LEMMA CurDstIs ==
  ASSUME ArrayInv, NEW i \in Port, Phase(i) # 0
  PROVE  CurDst(router, Beats, i) = Dst(i)
<1>1. CASE Phase(i) = 2
  BY <1>1, ZenonT(60) DEF ArrayInv, RouterInv, CurDst
<1>2. CASE Phase(i) # 2
  <2>1. router.hdr[i] /\ Beats[i].word = Word(Sent(i), 0)
    BY <1>2, BeatFacts, ZenonT(60) DEF ArrayInv, RouterInv
  <2> QED
    BY <2>1, SMTT(60) DEF CurDst, Dst, Word
<1> QED
  BY <1>1, <1>2, ZenonT(60)

\* Which beats are taken in this clock.
LEMMA ReadyIs ==
  ASSUME ArrayInv, NEW i \in Port
  PROVE  i \in Ready <=> Phase(i) # 0 /\ router.lk[Dst(i)] = i /\ Rdy[Dst(i)]
<1>1. CASE Phase(i) = 0
  BY <1>1, BeatFacts, ZenonT(60) DEF Ready, InReady
<1>2. CASE Phase(i) # 0
  <2>1. CurDst(router, Beats, i) = Dst(i) /\ Beats[i].valid
    BY <1>2, CurDstIs, BeatFacts, ZenonT(60)
  <2> QED
    BY <1>2, <2>1, ZenonT(60) DEF Ready, InReady
<1> QED
  BY <1>1, <1>2, ZenonT(60)

\* A locked output: its input, and the beat it gets.
LEMMA LockIs ==
  ASSUME ArrayInv, NEW o \in Port
  PROVE  /\ router.lk[o] = None => OutBeat(router, Beats, o) = NoBeat
         /\ router.lk[o] # None =>
              /\ router.lk[o] \in Port
              /\ OutBeat(router, Beats, o) = Beats[router.lk[o]]
              /\ Phase(router.lk[o]) # 0 /\ Dst(router.lk[o]) = o
              /\ router.lk[o] \in Ready <=> Rdy[o]
<1>1. router.lk[o] = None => OutBeat(router, Beats, o) = NoBeat
  BY ZenonT(60) DEF OutBeat
<1>2. ASSUME router.lk[o] # None
      PROVE  /\ router.lk[o] \in Port
             /\ OutBeat(router, Beats, o) = Beats[router.lk[o]]
             /\ Phase(router.lk[o]) # 0 /\ Dst(router.lk[o]) = o
             /\ router.lk[o] \in Ready <=> Rdy[o]
  <2>1. /\ router.lk[o] \in Port
        /\ Phase(router.lk[o]) # 0 /\ Dst(router.lk[o]) = o
    BY <1>2, SMTT(60) DEF ArrayInv, RouterInv
  <2>2. OutBeat(router, Beats, o) = Beats[router.lk[o]]
    BY <1>2, ZenonT(60) DEF OutBeat
  <2>3. PICK j \in Port : j = router.lk[o]
    BY <2>1, ZenonT(60)
  <2>4. j \in Ready <=> Phase(j) # 0 /\ router.lk[Dst(j)] = j /\ Rdy[Dst(j)]
    BY ReadyIs, ZenonT(60)
  <2> QED
    BY <2>1, <2>2, <2>3, <2>4, ZenonT(60)
<1> QED
  BY <1>1, <1>2, ZenonT(60)

\* What a node receives from the rest of the array.
LEMMA InputsGood ==
  ASSUME ArrayInv, NEW o \in Core, NEW go \in SUBSET Core, \A i \in go : Able(i, node[i])
  PROVE  /\ GoodInput(o, node[o], InputOf(o, go))
         /\ InputOf(o, go).beat.valid <=> router.lk[o] # None
         /\ InputOf(o, go).beat = OutBeat(router, Beats, o)
         /\ InputOf(o, go).mready = (o \in Ready)
<1> DEFINE in == InputOf(o, go)
<1>1. /\ in.go = (o \in go) /\ in.mready = (o \in Ready) /\ in.beat = OutBeat(router, Beats, o)
  BY ZenonT(60) DEF InputOf
<1>2. o \in Port
  BY CoreFacts, ZenonT(60)
<1>3. /\ node[o].rx.st = "RECV" <=> router.lk[o] # None /\ Phase(router.lk[o]) = 2
  BY ZenonT(60) DEF ArrayInv, LinkInv
<1> HIDE DEF in
<1>6. in.go \in BOOLEAN /\ in.mready \in BOOLEAN /\ (in.go => Able(o, node[o]))
  <2>0. (o \in go) \in BOOLEAN /\ (o \in Ready) \in BOOLEAN
    OBVIOUS
  <2>1. PICK b \in BOOLEAN, c \in BOOLEAN : b = (o \in go) /\ c = (o \in Ready)
    BY <2>0, ZenonT(60)
  <2>2. in.go = b /\ in.mready = c
    BY <1>1, <2>1, ZenonT(60)
  <2>3. b => o \in go
    BY <2>1, ZenonT(60)
  <2> QED
    BY <2>2, <2>3, ZenonT(60)
<1>4. CASE router.lk[o] = None
  <2>1. in.beat = NoBeat
    BY <1>1, <1>2, <1>4, LockIs, ZenonT(60)
  <2>2. in.beat.valid = FALSE /\ in.beat.last = FALSE /\ in.beat.word = NoWord
    BY <2>1, SMTT(60) DEF NoBeat
  <2>3. NoWord \in Words
    BY DEF NoWord, Words, Word
  <2> QED
    <3>1. GoodInput(o, node[o], in)
      BY <1>6, <2>2, <2>3, ZenonT(60) DEF GoodInput
    <3> QED
      BY <1>1, <1>4, <2>2, <3>1, ZenonT(60) DEF in
<1>5. CASE router.lk[o] # None
  <2>1. PICK j \in Port : j = router.lk[o]
    BY <1>2, <1>5, LockIs, ZenonT(60)
  <2>2. in.beat = Beats[j] /\ Phase(j) # 0
    BY <1>1, <1>2, <1>5, <2>1, LockIs, ZenonT(60)
  <2>3. /\ in.beat.valid = TRUE /\ in.beat.last \in BOOLEAN
        /\ in.beat.last <=> Phase(j) = 2
        /\ Sent(j) \in Packet
        /\ in.beat.word = Word(Sent(j), IF Phase(j) = 2 THEN 1 ELSE 0)
    BY <2>2, BeatFacts, ZenonT(60)
  <2>4. in.beat.word \in Words
    BY <2>3, SMTT(60) DEF Words, Word
  <2> QED
    <3>1. GoodInput(o, node[o], in)
      BY <1>3, <1>5, <1>6, <2>1, <2>3, <2>4, ZenonT(60) DEF GoodInput
    <3> QED
      BY <1>1, <1>5, <2>3, <3>1, ZenonT(60) DEF in
<1> QED
  BY <1>4, <1>5, ZenonT(60)

\* A clock edge that the fabric sees.
Clock(go, inject, read) ==
  /\ ArrayInv /\ go \in SUBSET Core /\ inject \in BOOLEAN /\ read \in BOOLEAN
  /\ Tick(go, inject, read)

\* A clock edge, seen from one node.
LEMMA NodesNext ==
  ASSUME NEW go, NEW inject, NEW read, Clock(go, inject, read), NEW o \in Core
  PROVE  /\ GoodInput(o, node[o], InputOf(o, go)) /\ NodeInv(o, node[o])
         /\ node'[o] = NextNode(o, node[o], InputOf(o, go))
         /\ NodeInv(o, node'[o])
<1>1. node'[o] = NextNode(o, node[o], InputOf(o, go)) /\ \A i \in go : Able(i, node[i])
  BY TickParts, ZenonT(60) DEF Clock
<1>2. GoodInput(o, node[o], InputOf(o, go))
  BY <1>1, InputsGood, ZenonT(60) DEF Clock
<1>3. NodeInv(o, node[o])
  BY ZenonT(60) DEF Clock, ArrayInv
<1> QED
  BY <1>1, <1>2, <1>3, NodeNext, ZenonT(60)

\* How far the packet of an input is after the clock edge.
LEMMA PhaseNext ==
  ASSUME NEW go, NEW inject, NEW read, Clock(go, inject, read), NEW i \in Port
  PROVE  /\ Phase(i)' \in 0 .. 2
         /\ Phase(i) = 0 => Phase(i)' \in 0 .. 1
         /\ Phase(i) # 0 => Sent(i)' = Sent(i) /\ Dst(i)' = Dst(i)
         /\ Phase(i) # 0 /\ i \notin Ready => Phase(i)' = Phase(i)
         /\ Phase(i) = 1 /\ i \in Ready => Phase(i)' = 2
         /\ Phase(i) = 2 /\ i \in Ready => Phase(i)' = 0
<1>1. CASE i = N
  <2>1. top' = NextTop(top, inject, read, N \in Ready, OutBeat(router, Beats, N),
                       barrier.advance)
    BY TickParts, ZenonT(60) DEF Clock
  <2>2. /\ top'.st = CASE top.st = 0 -> IF inject THEN 1 ELSE 0
                       [] top.st # 0 -> IF N \in Ready THEN (top.st + 1) % 3 ELSE top.st
        /\ top'.k = IF inject THEN top.k + 1 ELSE top.k
    BY <2>1, ZenonT(60) DEF NextTop
  <2>3. top.st \in 0 .. 2 /\ (inject => top.st = 0)
    BY TickParts, ZenonT(60) DEF Clock, ArrayInv, HostInv, CanInject
  <2>4. /\ Phase(i) = top.st /\ Phase(i)' = top'.st
        /\ Sent(i) = [src |-> N, dst |-> HostDst, n |-> top.k - 1]
        /\ Sent(i)' = [src |-> N, dst |-> HostDst, n |-> top'.k - 1]
    BY <1>1, ZenonT(60) DEF Phase, Sent, HostPacket
  <2>5. top.st # 0 => top'.k = top.k
    BY <2>2, <2>3, ZenonT(60)
  <2>6. top.st = 0 => top'.st \in 0 .. 1
    BY <2>2, SMTT(60)
  <2>7. top.st = 1 => top'.st = IF N \in Ready THEN 2 ELSE 1
    BY <2>2, SMTT(60)
  <2>8. top.st = 2 => top'.st = IF N \in Ready THEN 0 ELSE 2
    BY <2>2, SMTT(60)
  <2> QED
    BY <1>1, <2>3, <2>4, <2>5, <2>6, <2>7, <2>8, SMTT(60) DEF Dst
<1>2. CASE i # N
  <2>0. i \in Core
    BY <1>2, CoreFacts, ZenonT(60)
  <2>1. PICK x, y, in : x = node[i] /\ y = node'[i] /\ in = InputOf(i, go)
    BY ZenonT(60)
  <2>2. y = NextNode(i, x, in) /\ in.mready = (i \in Ready)
    BY <2>0, <2>1, NodesNext, ZenonT(60) DEF InputOf
  <2>3. TxNext(i, x, in, y) /\ x.tx.st \in {"IDLE", "DS0", "DS1"}
    BY <2>0, <2>1, <2>2, TxParts, NodesNext, ZenonT(60) DEF NodeInv, SendInv
  <2>4. /\ Phase(i) = CASE x.tx.st = "IDLE" -> 0 [] x.tx.st = "DS0" -> 1 [] OTHER -> 2
        /\ Phase(i)' = CASE y.tx.st = "IDLE" -> 0 [] y.tx.st = "DS0" -> 1 [] OTHER -> 2
        /\ Sent(i) = x.tx.w0.p /\ Sent(i)' = y.tx.w0.p
    BY <1>2, <2>1, ZenonT(60) DEF Phase, Sent
  <2>5. CASE x.tx.st = "IDLE"
    <3>1. y.tx.st \in {"IDLE", "DS0"}
      BY <2>3, <2>5, ZenonT(60) DEF TxNext
    <3> QED
      BY <2>4, <2>5, <3>1, SMTT(60)
  <2>6. CASE x.tx.st = "DS0"
    <3>1. y.tx.st = (IF i \in Ready THEN "DS1" ELSE "DS0") /\ y.tx.w0 = x.tx.w0
      BY <2>2, <2>3, <2>6, ZenonT(60) DEF TxNext
    <3> QED
      BY <2>4, <2>6, <3>1, SMTT(60) DEF Dst
  <2>7. CASE x.tx.st = "DS1"
    <3>1. y.tx.st = (IF i \in Ready THEN "IDLE" ELSE "DS1") /\ y.tx.w0 = x.tx.w0
      BY <2>2, <2>3, <2>7, ZenonT(60) DEF TxNext
    <3> QED
      BY <2>4, <2>7, <3>1, SMTT(60) DEF Dst
  <2> QED
    BY <2>3, <2>5, <2>6, <2>7, ZenonT(60)
<1> QED
  BY <1>1, <1>2, ZenonT(60)


\* What becomes of the lock of an output: it is released with the second word
\* of a packet, and given to an input that has a first word for it.
LockStep(o) ==
  /\ router.lk[o] # None /\ router.lk[o] \in Ready /\ Phase(router.lk[o]) = 2 =>
       router'.lk[o] = None
  /\ router.lk[o] # None /\ ~(router.lk[o] \in Ready /\ Phase(router.lk[o]) = 2) =>
       router'.lk[o] = router.lk[o]
  /\ router.lk[o] = None /\ router'.lk[o] # None =>
       /\ router'.lk[o] \in Port /\ router'.lk[o] \notin Ready
       /\ Phase(router'.lk[o]) = 1 /\ Dst(router'.lk[o]) = o

\* The lock of an output, in one clock.
LEMMA LockNext ==
  ASSUME NEW go, NEW inject, NEW read, Clock(go, inject, read), NEW o \in Port
  PROVE  LockStep(o)
<1>0. ArrayInv
  BY ZenonT(60) DEF Clock
<1>1. router'.lk[o] = NextLock(router, Beats, Ready, o)
  <2>1. router' = NextRouter(router, Beats, Ready)
    BY TickParts, ZenonT(60) DEF Clock
  <2> QED
    BY <2>1, ZenonT(60) DEF NextRouter
<1>2. CASE router.lk[o] # None
  <2>1. PICK j \in Port : j = router.lk[o]
    BY <1>0, <1>2, LockIs, ZenonT(60)
  <2>2. Beats[j].last <=> Phase(j) = 2
    BY <1>0, BeatFacts, ZenonT(60)
  <2>3. router'.lk[o] = IF j \in Ready /\ Beats[j].last THEN None ELSE j
    BY <1>1, <1>2, <2>1, ZenonT(60) DEF NextLock
  <2> QED
    BY <1>2, <2>1, <2>2, <2>3, ZenonT(60) DEF LockStep
<1>3. CASE router.lk[o] = None
  <2>1. CASE router'.lk[o] = None
    BY <1>3, <2>1, ZenonT(60) DEF LockStep
  <2>2. CASE router'.lk[o] # None
    <3>1. /\ Requests(router, Beats, o) # {}
          /\ router'.lk[o] = Min(Requests(router, Beats, o))
      BY <1>1, <1>3, <2>2, ZenonT(60) DEF NextLock
    <3>2. Requests(router, Beats, o) \in SUBSET Nat
      BY NodeAssumption, SMTT(60) DEF Requests, Port
    <3>3. PICK j : j = router'.lk[o]
      BY ZenonT(60)
    <3>4. j \in Requests(router, Beats, o)
      BY <3>1, <3>2, <3>3, MinIn, ZenonT(60)
    <3>5. /\ j \in Port /\ Beats[j].valid /\ (\A q \in Port : router.lk[q] # j)
          /\ CurDst(router, Beats, j) = o
      BY <3>4, ZenonT(60) DEF Requests
    <3>6. Phase(j) # 0 /\ Phase(j) \in 0 .. 2 /\ Dst(j) \in Port
      BY <1>0, <3>5, BeatFacts, ZenonT(60)
    <3>7. Dst(j) = o
      BY <1>0, <3>5, <3>6, CurDstIs, ZenonT(60)
    <3>8. Phase(j) # 2
      BY <1>0, <3>5, <3>6, ZenonT(60) DEF ArrayInv, RouterInv
    <3>9. j \notin Ready
      BY <1>0, <3>5, <3>6, ReadyIs, ZenonT(60)
    <3> QED
      BY <1>3, <2>2, <3>3, <3>5, <3>6, <3>7, <3>8, <3>9, SMTT(60) DEF LockStep
  <2> QED
    BY <2>1, <2>2, ZenonT(60)
<1> QED
  BY <1>2, <1>3, ZenonT(60)

\* The router keeps a packet together.
LEMMA RouterNext ==
  ASSUME NEW go, NEW inject, NEW read, Clock(go, inject, read)
  PROVE  RouterInv'
<1>0. ArrayInv /\ RouterInv
  BY ZenonT(60) DEF Clock, ArrayInv
<1>1. /\ router'.lk = [o \in Port |-> NextLock(router, Beats, Ready, o)]
      /\ router'.hdr = [i \in Port |-> IF i \in Ready THEN Beats[i].last ELSE router.hdr[i]]
      /\ router'.route = [i \in Port |-> IF i \in Ready /\ router.hdr[i]
                                         THEN CurDst(router, Beats, i) ELSE router.route[i]]
  <2>1. router' = NextRouter(router, Beats, Ready)
    BY TickParts, ZenonT(60) DEF Clock
  <2> QED
    BY <2>1, ZenonT(60) DEF NextRouter
<1>2. ASSUME NEW o \in Port
      PROVE  /\ router'.lk[o] \in Port \cup {None}
             /\ (router.lk[o] # None =>
                   Phase(router.lk[o]) # 0 /\ Dst(router.lk[o]) = o)'
  <2>1. CASE router'.lk[o] = None
    BY <2>1, ZenonT(60)
  <2>2. CASE router'.lk[o] # None
    <3>1. PICK j : j = router'.lk[o]
      OBVIOUS
    <3>2. /\ j \in Port /\ Phase(j) # 0 /\ Phase(j) \in 0 .. 2 /\ Dst(j) = o
          /\ ~(j \in Ready /\ Phase(j) = 2)
      <4>1. LockStep(o)
        BY LockNext, ZenonT(60)
      <4>2. CASE router.lk[o] = None
        BY <2>2, <3>1, <4>1, <4>2, SMTT(60) DEF LockStep
      <4>3. CASE router.lk[o] # None
        <5>1. j = router.lk[o] /\ ~(j \in Ready /\ Phase(j) = 2)
          BY <2>2, <3>1, <4>1, <4>3, ZenonT(60) DEF LockStep
        <5>2. j \in Port /\ Phase(j) # 0 /\ Dst(j) = o
          BY <1>0, <4>3, <5>1, LockIs, ZenonT(60)
        <5> QED
          BY <1>0, <5>1, <5>2, BeatFacts, ZenonT(60)
      <4> QED
        BY <4>2, <4>3, ZenonT(60)
    <3>3. Phase(j)' # 0 /\ Dst(j)' = Dst(j)
      BY <3>2, PhaseNext, SMTT(60)
    <3>4. (Phase(router.lk[o]) # 0 /\ Dst(router.lk[o]) = o)'
      BY <3>1, <3>2, <3>3, ZenonT(60) DEF Phase, Dst, Sent, HostPacket
    <3> QED
      BY <3>1, <3>2, <3>4, ZenonT(60)
  <2> QED
    BY <2>1, <2>2, ZenonT(60)
<1>3. router'.lk \in [Port -> Port \cup {None}]
  BY <1>1, <1>2, ZenonT(60)
<1>4. ASSUME NEW i \in Port
      PROVE  /\ router'.hdr[i] \in BOOLEAN /\ router'.route[i] \in Port
             /\ router'.hdr[i] <=> Phase(i)' # 2
             /\ Phase(i)' = 2 => /\ router'.route[i] = Dst(i)'
                                 /\ router'.lk[Dst(i)'] = i
  <2>1. /\ router.hdr[i] \in BOOLEAN /\ router.route[i] \in Port
        /\ router.hdr[i] <=> Phase(i) # 2
        /\ Phase(i) = 2 => router.route[i] = Dst(i) /\ router.lk[Dst(i)] = i
    BY <1>0, ZenonT(60) DEF RouterInv
  <2>2. /\ router'.hdr[i] = IF i \in Ready THEN Beats[i].last ELSE router.hdr[i]
        /\ router'.route[i] = IF i \in Ready /\ router.hdr[i]
                              THEN CurDst(router, Beats, i) ELSE router.route[i]
    BY <1>1, ZenonT(60)
  <2>3. /\ Phase(i) \in 0 .. 2 /\ Beats[i].last \in BOOLEAN
        /\ Beats[i].last <=> Phase(i) = 2
        /\ Phase(i) # 0 => Dst(i) \in Port
    BY <1>0, BeatFacts, ZenonT(60)
  <2>4. i \in Ready => /\ Phase(i) # 0 /\ CurDst(router, Beats, i) = Dst(i)
                       /\ router.lk[Dst(i)] = i
    BY <1>0, ReadyIs, CurDstIs, ZenonT(60)
  <2>5. /\ Phase(i) = 0 => Phase(i)' \in 0 .. 1
        /\ Phase(i) # 0 => Dst(i)' = Dst(i)
        /\ Phase(i) # 0 /\ i \notin Ready => Phase(i)' = Phase(i)
        /\ Phase(i) = 1 /\ i \in Ready => Phase(i)' = 2
        /\ Phase(i) = 2 /\ i \in Ready => Phase(i)' = 0
    BY PhaseNext, ZenonT(60)
  <2>6. router'.hdr[i] \in BOOLEAN /\ router'.route[i] \in Port
    BY <2>1, <2>2, <2>3, <2>4, ZenonT(60)
  <2>7. router'.hdr[i] <=> Phase(i)' # 2
    BY <2>1, <2>2, <2>3, <2>4, <2>5, SMTT(60)
  <2>8. ASSUME Phase(i)' = 2
        PROVE  router'.route[i] = Dst(i)' /\ router'.lk[Dst(i)'] = i
    <3>1. \/ Phase(i) = 1 /\ i \in Ready
          \/ Phase(i) = 2 /\ i \notin Ready
      BY <2>3, <2>5, <2>8, SMTT(60)
    <3>2. Dst(i)' = Dst(i) /\ Dst(i) \in Port /\ router.lk[Dst(i)] = i
      BY <2>1, <2>3, <2>4, <2>5, <3>1, SMTT(60)
    <3>3. router'.route[i] = Dst(i)
      BY <2>1, <2>2, <2>4, <3>1, ZenonT(60)
    <3>4. PICK o \in Port : o = Dst(i)
      BY <3>2, ZenonT(60)
    <3>5. LockStep(o) /\ i # None
      BY LockNext, CoreFacts, ZenonT(60)
    <3>6. router'.lk[o] = i
      BY <3>1, <3>2, <3>4, <3>5, SMTT(60) DEF LockStep
    <3> QED
      BY <3>2, <3>3, <3>4, <3>6, ZenonT(60)
  <2> QED
    BY <2>6, <2>7, <2>8, ZenonT(60)
<1>5. /\ router'.hdr \in [Port -> BOOLEAN] /\ router'.route \in [Port -> Port]
  BY <1>1, <1>4, ZenonT(60)
<1> QED
  BY <1>2, <1>3, <1>4, <1>5, ZenonT(60) DEF RouterInv

\* A word comes into the slot it is for, and leaves the others alone.
LEMMA Written ==
  ASSUME NEW y, RecvInv(y), NEW s \in Slot
  PROVE  /\ y.rx.wr.slot # s => NextMem(y)[s] = y.sf.mem[s]
         /\ y.rx.wr.slot = s =>
              /\ NextMem(y)[s][y.rx.wr.off] = y.rx.wr.word
              /\ \A k \in 0 .. 1 : k # y.rx.wr.off => NextMem(y)[s][k] = y.sf.mem[s][k]
<1>1. CASE y.rx.wr.slot = 0
  BY <1>1, CoreFacts, ZenonT(60) DEF NextMem
<1>2. CASE y.rx.wr.slot # 0
  <2>1. PICK t, o, w : t = y.rx.wr.slot /\ o = y.rx.wr.off /\ w = y.rx.wr.word
    BY ZenonT(60)
  <2>2. t \in Slot /\ o \in 0 .. 1 /\ w \in Words
    BY <1>2, <2>1, HandsOfSlots, ZenonT(60) DEF RecvInv, SlotHands
  <2>3. NextMem(y) = [y.sf.mem EXCEPT ![t][o] = w]
    BY <1>2, <2>1, ZenonT(60) DEF NextMem
  <2>4. PICK mem \in [Slot -> [0 .. 1 -> Words]] : mem = y.sf.mem
    BY ZenonT(60) DEF RecvInv
  <2>5. /\ t # s => NextMem(y)[s] = mem[s]
        /\ t = s => NextMem(y)[s] = [mem[s] EXCEPT ![o] = w]
    BY <2>2, <2>3, <2>4, ZenonT(60)
  <2>6. mem[s] \in [0 .. 1 -> Words]
    BY <2>4, ZenonT(60)
  <2> QED
    BY <2>1, <2>2, <2>4, <2>5, <2>6, ZenonT(60)
<1> QED
  BY <1>1, <1>2, ZenonT(60)

\* The link between the input that has locked core o and the node of o.
Middle(o) == router.lk[o] # None /\ Phase(router.lk[o]) = 2

\* Where no beat is taken, no packet gets to its second word.
LEMMA NoMiddle ==
  ASSUME NEW go, NEW inject, NEW read, Clock(go, inject, read), NEW o \in Core,
         ~Middle(o), router.lk[o] # None => ~Rdy[o]
  PROVE  ~Middle(o)'
<1>0. ArrayInv /\ o \in Port /\ LockStep(o)
  BY CoreFacts, LockNext, ZenonT(60) DEF Clock
<1>1. SUFFICES ASSUME router'.lk[o] # None PROVE (Phase(router.lk[o]) # 2)'
  BY ZenonT(60) DEF Middle
<1>2. PICK j : j = router'.lk[o]
  BY ZenonT(60)
<1>3. j \in Port /\ Phase(j) = 1 /\ j \notin Ready
  <2>1. CASE router.lk[o] = None
    BY <1>0, <1>1, <1>2, <2>1, ZenonT(60) DEF LockStep
  <2>2. CASE router.lk[o] # None
    <3>1. /\ router.lk[o] \in Port /\ router.lk[o] \notin Ready
          /\ Phase(router.lk[o]) # 0 /\ Phase(router.lk[o]) # 2
      BY <1>0, <2>2, LockIs, ZenonT(60) DEF Middle
    <3>2. j = router.lk[o]
      BY <1>0, <1>2, <2>2, <3>1, ZenonT(60) DEF LockStep
    <3>3. Phase(j) \in 0 .. 2
      BY <1>0, <3>1, <3>2, BeatFacts, ZenonT(60)
    <3> QED
      BY <3>1, <3>2, <3>3, SMTT(60)
  <2> QED
    BY <2>1, <2>2, ZenonT(60)
<1>4. Phase(j)' = 1
  BY <1>3, PhaseNext, SMTT(60)
<1> QED
  BY <1>2, <1>4, SMTT(60) DEF Phase

\* What the beats that a receiver gets are like, and what it does with them.
Fitting(x, in) ==
  /\ x.rx.st = "RECV" => x.rx.off = 1
  /\ in.beat.valid /\ x.rx.st = "IDLE" => ~in.beat.last
  /\ in.beat.valid /\ x.rx.st = "RECV" => in.beat.last
RxCase(x, in, y) ==
  /\ Begins(x, in) =>
       /\ y.rx.st = "RECV" /\ y.rx.commit = 0 /\ y.rx.wr.slot = y.rx.slot
       /\ y.rx.wr.off = 0 /\ y.rx.wr.word = in.beat.word
  /\ Continues(x, in) =>
       /\ y.rx.st = "COMMIT" /\ y.rx.commit = 0 /\ y.rx.wr.slot = y.rx.slot
       /\ y.rx.slot = x.rx.slot
       /\ y.rx.wr.off = 1 /\ y.rx.wr.word = in.beat.word
  /\ x.rx.st = "COMMIT" =>
       y.rx.st = "IDLE" /\ y.rx.wr.slot = 0 /\ y.rx.commit = x.rx.slot
  /\ x.rx.st # "COMMIT" /\ ~Begins(x, in) /\ ~Continues(x, in) =>
       y.rx.st = x.rx.st /\ y.rx.commit = 0

\* A receiver starts a packet, ends it or hands its slot over.
LEMMA RxCases ==
  ASSUME NEW x, NEW in, NEW y, RxNext(x, in, y), Fitting(x, in)
  PROVE  RxCase(x, in, y)
<1>1. CASE Begins(x, in)
  BY <1>1, SMTT(60) DEF RxNext, Begins, Continues, Fitting, RxCase
<1>2. CASE Continues(x, in)
  BY <1>2, SMTT(60) DEF RxNext, Begins, Continues, Fitting, RxCase
<1>3. CASE x.rx.st = "COMMIT"
  BY <1>3, SMTT(60) DEF RxNext, Begins, Continues, NoWrite, RxCase
<1>4. CASE x.rx.st # "COMMIT" /\ ~Begins(x, in) /\ ~Continues(x, in)
  BY <1>4, ZenonT(60) DEF RxNext, RxCase
<1> QED
  BY <1>1, <1>2, <1>3, <1>4, ZenonT(60)

\* What a clock edge does to the link of core o.
LEMMA LinkStep ==
  ASSUME NEW go, NEW inject, NEW read, Clock(go, inject, read), NEW o \in Core,
         NEW x, x = node[o], NEW y, y = node'[o]
  PROVE  /\ y.rx.st = "RECV" <=> Middle(o)'
         /\ y.rx.st = "RECV" => (NextMem(node[o])[node[o].rx.slot][0] = Word(Sent(router.lk[o]), 0))'
         /\ y.rx.st = "COMMIT" => Whole(o, NextMem(y)[y.rx.slot])
         /\ y.rx.commit # 0 => Whole(o, NextMem(y)[y.rx.commit])
<1>1. PICK in : in = InputOf(o, go)
  BY ZenonT(60)
<1>0. /\ GoodInput(o, x, in) /\ y = NextNode(o, x, in) /\ NodeInv(o, x) /\ NodeInv(o, y)
  BY <1>1, NodesNext, ZenonT(60)
<1>a. ArrayInv /\ o \in Port
  BY CoreFacts, ZenonT(60) DEF Clock
<1>b. LockStep(o)
  BY <1>a, LockNext, ZenonT(60)
<1>c. RecvInv(x) /\ RecvInv(y) /\ SlotHands(y)
  BY <1>0, HandsOfSlots, ZenonT(60) DEF NodeInv, RecvInv
<1>d. RxNext(x, in, y)
  BY <1>0, RxParts, ZenonT(60)
<1>e. y.sf.mem = NextMem(x)
  <2>1. SfNext(o, x, in, y)
    BY <1>0, SfParts, ZenonT(60)
  <2> QED
    BY <2>1, ZenonT(60) DEF SfNext
<1>3. in.beat = OutBeat(router, Beats, o)
  BY <1>1, ZenonT(60) DEF InputOf
<1>4. in.beat.valid <=> router.lk[o] # None
  BY <1>1, <1>a, InputsGood, NodesNext, TickParts, ZenonT(60) DEF Clock
<1>5. Rdy[o] <=> SReady(x)
  BY CoreFacts, ZenonT(60) DEF Rdy
<1>6. /\ x.rx.st = "RECV" <=> Middle(o)
      /\ x.rx.st = "RECV" => NextMem(x)[x.rx.slot][0] = Word(Sent(router.lk[o]), 0)
      /\ x.rx.st = "COMMIT" => Whole(o, NextMem(x)[x.rx.slot])
  BY <1>a, ZenonT(60) DEF ArrayInv, LinkInv, Middle
<1>7. /\ x.rx.st \in {"IDLE", "RECV", "COMMIT"} /\ (x.rx.st = "RECV" => x.rx.off = 1)
      /\ in.beat.last \in BOOLEAN
      /\ in.beat.valid /\ x.rx.st = "IDLE" => ~in.beat.last
      /\ in.beat.valid /\ x.rx.st = "RECV" => in.beat.last
  BY <1>0, <1>c, ZenonT(60) DEF RecvInv, GoodInput
<1>f. RxCase(x, in, y)
  <2>1. Fitting(x, in)
    BY <1>7, ZenonT(60) DEF Fitting
  <2> QED
    BY <1>d, <2>1, RxCases, ZenonT(60)
<1>8. CASE Begins(x, in)
  <2>1. PICK j : j = router.lk[o]
    BY ZenonT(60)
  <2>2. /\ j \in Port /\ in.beat = Beats[j] /\ Dst(j) = o /\ j \in Ready
        /\ Phase(j) = 1
    <3>1. x.rx.st = "IDLE" /\ router.lk[o] # None /\ SReady(x)
      BY <1>4, <1>8, ZenonT(60) DEF Begins, SReady
    <3>2. /\ j \in Port /\ in.beat = Beats[j] /\ Dst(j) = o /\ j \in Ready
          /\ Phase(j) # 0
      BY <1>a, <1>3, <1>5, <2>1, <3>1, LockIs, ZenonT(60)
    <3>3. Phase(j) # 2 /\ Phase(j) \in 0 .. 2
      BY <1>a, <1>6, <2>1, <3>1, <3>2, BeatFacts, ZenonT(60) DEF Middle
    <3> QED
      BY <3>2, <3>3, SMTT(60)
  <2>3. in.beat.word = Word(Sent(j), 0)
    BY <1>a, <2>2, BeatFacts, SMTT(60)
  <2>4. Phase(j)' = 2 /\ Sent(j)' = Sent(j)
    BY <2>2, PhaseNext, SMTT(60)
  <2>5. router'.lk[o] = j /\ j # None
    BY <1>b, <2>1, <2>2, CoreFacts, SMTT(60) DEF LockStep
  <2>6. /\ y.rx.st = "RECV" /\ y.rx.commit = 0 /\ y.rx.wr.slot = y.rx.slot /\ y.rx.wr.off = 0
        /\ y.rx.wr.word = in.beat.word
    BY <1>f, <1>8, ZenonT(60) DEF RxCase
  <2>7. y.rx.slot \in Slot
    BY <1>c, <2>6, ZenonT(60) DEF SlotHands
  <2>8. NextMem(y)[y.rx.slot][0] = Word(Sent(j), 0)
    BY <1>c, <2>3, <2>6, <2>7, Written, SMTT(60)
  <2>9. Middle(o)' /\ Sent(router.lk[o])' = Sent(j)
    BY <2>4, <2>5, ZenonT(60) DEF Middle, Phase, Sent, HostPacket
  <2> QED
    BY <2>6, <2>8, <2>9, ZenonT(60)
<1>9. CASE Continues(x, in)
  <2>1. PICK j : j = router.lk[o]
    BY SMTT(60)
  <2>2. /\ j \in Port /\ in.beat = Beats[j] /\ Dst(j) = o /\ j \in Ready
        /\ Phase(j) = 2 /\ router.lk[o] # None
    BY <1>a, <1>3, <1>4, <1>5, <1>6, <1>9, <2>1, LockIs, SMTT(60) DEF Continues, Middle, SReady
  <2>3. in.beat.word = Word(Sent(j), 1)
    BY <1>a, <2>2, BeatFacts, SMTT(60)
  <2>4. ~Middle(o)'
    BY <1>b, <2>1, <2>2, ZenonT(60) DEF LockStep, Middle
  <2>5. /\ y.rx.st = "COMMIT" /\ y.rx.commit = 0 /\ y.rx.wr.slot = y.rx.slot
        /\ y.rx.slot = x.rx.slot
        /\ y.rx.wr.off = 1 /\ y.rx.wr.word = in.beat.word
    BY <1>f, <1>9, ZenonT(60) DEF RxCase
  <2>6. y.rx.slot \in Slot
    BY <1>c, <2>5, ZenonT(60) DEF SlotHands
  <2>7. NextMem(y)[y.rx.slot][1] = Word(Sent(j), 1)
    BY <1>c, <2>3, <2>5, <2>6, Written, SMTT(60)
  <2>8. NextMem(y)[y.rx.slot][0] = Word(Sent(j), 0)
    <3>1. NextMem(y)[y.rx.slot][0] = y.sf.mem[y.rx.slot][0]
      BY <1>c, <2>5, <2>6, Written, SMTT(60)
    <3> QED
      BY <1>e, <1>6, <1>9, <2>1, <2>5, <3>1, ZenonT(60) DEF Continues
  <2>9. Whole(o, NextMem(y)[y.rx.slot])
    BY <2>2, <2>7, <2>8, SMTT(60) DEF Whole, Word, Dst
  <2> QED
    BY <2>4, <2>5, <2>9, ZenonT(60)
<1>10. CASE x.rx.st = "COMMIT"
  <2>0. ~Middle(o) /\ ~Rdy[o]
    BY <1>5, <1>6, <1>10, ZenonT(60) DEF SReady
  <2>1. ~Middle(o)'
    BY <2>0, NoMiddle, ZenonT(60)
  <2>2. /\ y.rx.st = "IDLE" /\ y.rx.wr.slot = 0 /\ y.rx.commit = x.rx.slot
    BY <1>f, <1>10, ZenonT(60) DEF RxCase
  <2>3. NextMem(y) = NextMem(x)
    BY <1>e, <2>2, ZenonT(60) DEF NextMem
  <2> QED
    BY <1>6, <1>10, <2>1, <2>2, <2>3, ZenonT(60)
<1>11. CASE x.rx.st # "COMMIT" /\ ~Begins(x, in) /\ ~Continues(x, in)
  <2>1. x.rx.st = "IDLE" /\ (router.lk[o] # None => ~SReady(x))
    BY <1>4, <1>6, <1>7, <1>11, ZenonT(60) DEF Begins, Continues, SReady, Middle
  <2>0. ~Middle(o) /\ (router.lk[o] # None => ~Rdy[o])
    BY <1>5, <1>6, <2>1, ZenonT(60)
  <2>2. ~Middle(o)'
    BY <2>0, NoMiddle, ZenonT(60)
  <2>3. y.rx.st = "IDLE" /\ y.rx.commit = 0
    BY <1>f, <1>11, <2>1, ZenonT(60) DEF RxCase
  <2> QED
    BY <2>2, <2>3, ZenonT(60)
<1> QED
  BY <1>8, <1>9, <1>10, <1>11, ZenonT(60)

\* The slots of core o that its worker can see.
LEMMA ReadyWhole ==
  ASSUME NEW go, NEW inject, NEW read, Clock(go, inject, read), NEW o \in Core,
         NEW x, x = node[o], NEW y, y = node'[o], NEW s \in y.sf.ready
  PROVE  Whole(o, NextMem(y)[s])
<1>1. PICK in : in = InputOf(o, go)
  BY ZenonT(60)
<1>2. /\ y = NextNode(o, x, in) /\ NodeInv(o, x) /\ NodeInv(o, y) /\ ArrayInv
  BY <1>1, NodesNext, ZenonT(60) DEF Clock
<1>3. /\ SfNext(o, x, in, y) /\ RecvInv(y) /\ SlotHands(y)
  BY <1>2, SfParts, HandsOfSlots, ZenonT(60) DEF NodeInv, RecvInv
<1>4. s \in x.sf.ready \/ (s = x.rx.commit /\ s # 0)
  BY <1>3, ZenonT(60) DEF SfNext
<1>5. Whole(o, NextMem(x)[s])
  BY <1>2, <1>4, ZenonT(60) DEF ArrayInv, LinkInv
<1>6. s \in Slot /\ y.rx.wr.slot # s
  BY <1>3, CoreFacts, ZenonT(60) DEF SlotHands, RecvInv, Filling
<1> QED
  BY <1>3, <1>5, <1>6, Written, SMTT(60) DEF SfNext

\* All links.
LEMMA LinkNext ==
  ASSUME NEW go, NEW inject, NEW read, Clock(go, inject, read)
  PROVE  LinkInv'
<1>1. ASSUME NEW o \in Core
      PROVE  LET x == node'[o]
                 mem == NextMem(x)
             IN /\ x.rx.st = "RECV" <=> Middle(o)'
                /\ x.rx.st = "RECV" => (NextMem(node[o])[node[o].rx.slot][0] = Word(Sent(router.lk[o]), 0))'
                /\ x.rx.st = "COMMIT" => Whole(o, mem[x.rx.slot])
                /\ x.rx.commit # 0 => Whole(o, mem[x.rx.commit])
                /\ \A s \in x.sf.ready : Whole(o, mem[s])
  BY LinkStep, ReadyWhole, ZenonT(60)
<1> QED
  BY <1>1, ZenonT(60) DEF LinkInv, Middle

\* The host side.
LEMMA HostNext ==
  ASSUME NEW go, NEW inject, NEW read, Clock(go, inject, read)
  PROVE  HostInv'
<1>0. ArrayInv /\ N \in Port /\ inject \in BOOLEAN /\ read \in BOOLEAN
  BY CoreFacts, ZenonT(60) DEF Clock
<1>1. /\ top.st \in 0 .. 2 /\ top.k \in 0 .. MaxCycles /\ (top.st # 0 => top.k > 0)
      /\ Len(top.fifo) <= EDepth /\ top.fifo \in Seq(Words)
      /\ MaxCycles \in Nat /\ EDepth \in Nat
  BY <1>0, NodeAssumption, FabricAssumption, ZenonT(60) DEF ArrayInv, HostInv
<1>2. PICK egr : egr = OutBeat(router, Beats, N)
  BY ZenonT(60)
<1>3. top' = NextTop(top, inject, read, N \in Ready, egr, barrier.advance)
  BY <1>2, TickParts, ZenonT(60) DEF Clock
<1>4. (inject => CanInject(top)) /\ (read => top.fifo # <<>>)
  BY TickParts, ZenonT(60) DEF Clock, CanRead
<1>5. egr.word \in Words
  <2>1. CASE router.lk[N] = None
    BY <1>0, <1>2, <2>1, LockIs, SMTT(60) DEF NoBeat, NoWord, Words, Word
  <2>2. CASE router.lk[N] # None
    <3>1. PICK j \in Port : j = router.lk[N]
      BY <1>0, <2>2, LockIs, ZenonT(60)
    <3>2. egr = Beats[j] /\ Phase(j) # 0
      BY <1>0, <1>2, <2>2, <3>1, LockIs, ZenonT(60)
    <3>3. Sent(j) \in Packet /\ egr.word = Word(Sent(j), IF Phase(j) = 2 THEN 1 ELSE 0)
      BY <1>0, <3>2, BeatFacts, ZenonT(60)
    <3> QED
      BY <3>3, SMTT(60) DEF Words, Word
  <2> QED
    BY <2>1, <2>2, ZenonT(60)
<1>6. PICK popped : popped = IF read THEN Tail(top.fifo) ELSE top.fifo
  BY ZenonT(60)
<1>7. popped \in Seq(Words) /\ Len(popped) \in Nat /\ Len(popped) <= Len(top.fifo)
  BY <1>0, <1>1, <1>4, <1>6, SMTT(60)
<1>8. top'.fifo = IF Pushes(top, egr) THEN Append(popped, egr.word) ELSE popped
  BY <1>3, <1>6, ZenonT(60) DEF NextTop
<1>9. top'.fifo \in Seq(Words) /\ Len(top'.fifo) <= EDepth
  <2>1. CASE Pushes(top, egr)
    <3>1. Len(top.fifo) < EDepth /\ Len(top.fifo) \in Nat
      BY <1>1, <2>1, SMTT(60) DEF Pushes, EgrReady
    <3>2. top'.fifo = Append(popped, egr.word)
      BY <1>8, <2>1, ZenonT(60)
    <3>3. top'.fifo \in Seq(Words) /\ Len(top'.fifo) = Len(popped) + 1
      BY <1>5, <1>7, <3>2, SMTT(60)
    <3> QED
      BY <1>1, <1>7, <3>1, <3>3, SMTT(60)
  <2>2. CASE ~Pushes(top, egr)
    BY <1>1, <1>7, <1>8, <2>2, SMTT(60)
  <2> QED
    BY <2>1, <2>2, ZenonT(60)
<1>10. top'.k = IF inject THEN top.k + 1 ELSE top.k
  BY <1>3, ZenonT(60) DEF NextTop
<1>11. top'.k \in 0 .. MaxCycles /\ (top'.st # 0 => top'.k > 0)
  <2>1. top'.st # 0 => top.st # 0 \/ inject
    BY <1>3, ZenonT(60) DEF NextTop
  <2> QED
    BY <1>0, <1>1, <1>4, <1>10, <2>1, SMTT(60) DEF CanInject
<1>12. top'.st \in 0 .. 2
  <2>1. Phase(N)' \in 0 .. 2
    BY <1>0, PhaseNext, ZenonT(60)
  <2> QED
    BY <2>1, ZenonT(60) DEF Phase
<1> QED
  BY <1>9, <1>11, <1>12, ZenonT(60) DEF HostInv

-----------------------------------------------------------------------------
(***************************************************************************)
(* The credits of the barrier.                                             *)
(***************************************************************************)
Receiving == {o \in Core : node[o].rx.st = "RECV"}
Committing == {o \in Core : node[o].rx.st = "COMMIT"}
Committed == {o \in Core : node[o].rx.commit # 0}

\* The cores can be counted.
LEMMA CoresFinite ==
  /\ IsFiniteSet(Core) /\ Cardinality(Core) = N
  /\ \A S \in SUBSET Core : IsFiniteSet(S) /\ Cardinality(S) \in 0 .. N
<1>1. IsFiniteSet(Core) /\ Cardinality(Core) = N
  <2>1. N - 1 \in Int /\ 0 \in Int
    BY NodeAssumption, SMTT(60)
  <2>2. IsFiniteSet(0 .. N - 1) /\ Cardinality(0 .. N - 1) = IF 0 > N - 1 THEN 0 ELSE (N - 1) - 0 + 1
    BY <2>1, FS_Interval, ZenonT(60)
  <2> QED
    BY <2>2, NodeAssumption, SMTT(60) DEF Core
<1>2. ASSUME NEW S \in SUBSET Core PROVE IsFiniteSet(S) /\ Cardinality(S) \in 0 .. N
  <2>1. IsFiniteSet(S) /\ Cardinality(S) <= Cardinality(Core)
    BY <1>1, FS_Subset, ZenonT(60)
  <2>2. Cardinality(S) \in Nat
    BY <2>1, FS_CardinalityType, ZenonT(60)
  <2> QED
    BY <1>1, <2>1, <2>2, NodeAssumption, SMTT(60)
<1> QED
  BY <1>1, <1>2, ZenonT(60)

\* The senders whose last word is taken in this clock.
Finishing == {j \in Port : j \in Ready /\ Phase(j) = 2 /\ Dst(j) # N}

\* There is one for each core that is receiving a packet.
LEMMA FinishersReceive ==
  ASSUME ArrayInv
  PROVE  /\ IsFiniteSet(Finishing) /\ Cardinality(Finishing) = Cardinality(Receiving)
<1> DEFINE f == [o \in Receiving |-> router.lk[o]]
<1>1. ASSUME NEW o \in Receiving
      PROVE  router.lk[o] \in Finishing /\ Dst(router.lk[o]) = o
  <2>1. o \in Core /\ o \in Port /\ o # N /\ node[o].rx.st = "RECV"
    BY CoreFacts, ZenonT(60) DEF Receiving
  <2>2. router.lk[o] # None /\ Phase(router.lk[o]) = 2
    BY <2>1, ZenonT(60) DEF ArrayInv, LinkInv
  <2>3. Rdy[o]
    BY <2>1, ZenonT(60) DEF Rdy, SReady
  <2>4. router.lk[o] \in Port /\ router.lk[o] \in Ready /\ Dst(router.lk[o]) = o
    BY <2>1, <2>2, <2>3, LockIs, ZenonT(60)
  <2> QED
    BY <2>1, <2>2, <2>4, ZenonT(60) DEF Finishing
<1>2. ASSUME NEW j \in Finishing
      PROVE  Dst(j) \in Receiving /\ router.lk[Dst(j)] = j
  <2>1. j \in Port /\ Phase(j) = 2 /\ Dst(j) # N
    BY ZenonT(60) DEF Finishing
  <2>2. Dst(j) \in Core /\ router.lk[Dst(j)] = j /\ j # None
    BY <2>1, BeatFacts, CoreFacts, SMTT(60) DEF ArrayInv, RouterInv
  <2>3. node[Dst(j)].rx.st = "RECV"
    BY <2>1, <2>2, ZenonT(60) DEF ArrayInv, LinkInv
  <2> QED
    BY <2>2, <2>3, ZenonT(60) DEF Receiving
<1>3. f \in Bijection(Receiving, Finishing)
  <2>1. f \in [Receiving -> Finishing]
    BY <1>1, ZenonT(60)
  <2>2. \A a, b \in Receiving : f[a] = f[b] => a = b
    BY <1>1, ZenonT(60)
  <2>3. \A j \in Finishing : \E o \in Receiving : f[o] = j
    BY <1>2, ZenonT(60)
  <2> QED
    BY <2>1, <2>2, <2>3, ZenonT(60) DEF Bijection, Injection, Surjection, IsInjective
<1>4. IsFiniteSet(Receiving)
  BY CoresFinite, ZenonT(60) DEF Receiving
<1> QED
  BY <1>3, <1>4, FS_Bijection, ZenonT(60) DEF ExistsBijection

\* What the barrier is told was sent.
LEMMA SentIs ==
  ASSUME ArrayInv
  PROVE  NSent(Ready) = Cardinality(Finishing)
<1> DEFINE A == {i \in Core : PktSent(node[i], i \in Ready)}
           h == N \in Ready /\ IngrBeat(top).last
<1>1. ASSUME NEW i \in Core
      PROVE  PktSent(node[i], i \in Ready) <=> i \in Finishing
  <2>1. i \in Port /\ i # N /\ Dst(i) = node[i].tx.w0.p.dst
    BY CoreFacts, ZenonT(60) DEF Dst, Sent
  <2>2. Phase(i) = 2 <=> node[i].tx.st = "DS1"
    <3>1. node[i].tx.st \in {"IDLE", "DS0", "DS1"}
      BY ZenonT(60) DEF ArrayInv, NodeInv, SendInv
    <3> QED
      BY <2>1, <3>1, SMTT(60) DEF Phase
  <2> QED
    BY <2>1, <2>2, ZenonT(60) DEF PktSent, Finishing, Off
<1>2. h <=> N \in Finishing
  <2>1. Dst(N) = HostDst /\ HostDst # N /\ N \in Port
    BY CoreFacts, ZenonT(60) DEF Dst, Sent, HostPacket
  <2>2. IngrBeat(top).last <=> Phase(N) = 2
    BY ZenonT(60) DEF IngrBeat, Phase
  <2> QED
    BY <2>1, <2>2, ZenonT(60) DEF Finishing
<1>3. NSent(Ready) = Cardinality(A) + (IF h THEN 1 ELSE 0)
  BY ZenonT(60) DEF NSent
<1>4. A = Finishing \ {N} /\ N \notin A /\ A \subseteq Core
  BY <1>1, CoreFacts, ZenonT(60) DEF Finishing
<1> HIDE DEF A, h
<1>5. IsFiniteSet(A) /\ Cardinality(A) \in Nat
  BY <1>4, CoresFinite, SMTT(60)
<1>6. CASE h
  <2>1. Finishing = A \cup {N}
    BY <1>2, <1>4, <1>6, ZenonT(60)
  <2> QED
    BY <1>3, <1>4, <1>5, <1>6, <2>1, FS_AddElement, ZenonT(60)
<1>7. CASE ~h
  <2>1. Finishing = A
    BY <1>2, <1>4, <1>7, ZenonT(60)
  <2> QED
    BY <1>3, <1>5, <1>7, <2>1, SMTT(60)
<1> QED
  BY <1>6, <1>7, ZenonT(60)

\* A packet is committed in the clock after its last word, and counted as
\* delivered in the one after that.
LEMMA CommitNext ==
  ASSUME NEW go, NEW inject, NEW read, Clock(go, inject, read)
  PROVE  Committing' = Receiving /\ Committed' = Committing
<1>1. ASSUME NEW o \in Core
      PROVE  /\ node'[o].rx.st = "COMMIT" <=> node[o].rx.st = "RECV"
             /\ node'[o].rx.commit # 0 <=> node[o].rx.st = "COMMIT"
  <2>1. PICK x, y, in : x = node[o] /\ y = node'[o] /\ in = InputOf(o, go)
    BY SMTT(60)
  <2>2. /\ GoodInput(o, x, in) /\ y = NextNode(o, x, in) /\ RecvInv(x)
    BY <2>1, NodesNext, ZenonT(60) DEF NodeInv
  <2>3. RxNext(x, in, y)
    BY <2>2, RxParts, ZenonT(60)
  <2>4. /\ x.rx.st \in {"IDLE", "RECV", "COMMIT"}
        /\ x.rx.st # "IDLE" => x.rx.slot \in Slot
    BY <2>2, HandsOfSlots, ZenonT(60) DEF RecvInv, SlotHands
  <2>5. x.rx.st = "RECV" => in.beat.valid
    <3>1. ArrayInv /\ (\A i \in go : Able(i, node[i])) /\ go \in SUBSET Core
      BY TickParts, ZenonT(60) DEF Clock
    <3>2. x.rx.st = "RECV" => router.lk[o] # None
      BY <2>1, <3>1, ZenonT(60) DEF ArrayInv, LinkInv
    <3> QED
      BY <2>1, <3>1, <3>2, InputsGood, ZenonT(60)
  <2>6. /\ in.beat.valid /\ x.rx.st = "IDLE" => ~in.beat.last
        /\ in.beat.valid /\ x.rx.st = "RECV" => in.beat.last
    BY <2>2, ZenonT(60) DEF GoodInput
  <2>7. CASE x.rx.st = "IDLE"
    BY <2>1, <2>3, <2>6, <2>7, ZenonT(60) DEF RxNext, Begins, Continues
  <2>8. CASE x.rx.st = "RECV"
    BY <2>1, <2>3, <2>5, <2>6, <2>8, ZenonT(60) DEF RxNext, Begins, Continues
  <2>9. CASE x.rx.st = "COMMIT"
    BY <2>1, <2>3, <2>4, <2>9, CoreFacts, ZenonT(60) DEF RxNext
  <2> QED
    BY <2>4, <2>7, <2>8, <2>9, ZenonT(60)
<1> QED
  BY <1>1, ZenonT(60) DEF Committing, Receiving, Committed

\* The credit counter is exact and does not wrap.
LEMMA CreditNext ==
  ASSUME NEW go, NEW inject, NEW read, Clock(go, inject, read)
  PROVE  CreditInv'
<1>0. ArrayInv
  BY ZenonT(60) DEF Clock
<1>1. PICK r, c, d : /\ r = Cardinality(Receiving) /\ c = Cardinality(Committing)
                     /\ d = Cardinality(Committed)
  BY ZenonT(60)
<1>2. r \in Nat /\ c \in Nat /\ d \in Nat /\ r + c <= N
  <2>1. /\ Receiving \subseteq Core /\ Committing \subseteq Core /\ Committed \subseteq Core
        /\ Receiving \cup Committing \subseteq Core /\ Receiving \cap Committing = {}
    BY ZenonT(60) DEF Receiving, Committing, Committed
  <2>2. /\ IsFiniteSet(Receiving) /\ IsFiniteSet(Committing)
        /\ r \in Nat /\ c \in Nat /\ d \in Nat /\ Cardinality(Receiving \cup Committing) <= N
    BY <1>1, <2>1, CoresFinite, NodeAssumption, SMTT(60)
  <2>3. Cardinality(Receiving \cup Committing) = r + c - Cardinality({})
    BY <1>1, <2>1, <2>2, FS_Union, ZenonT(60)
  <2> QED
    BY <2>2, <2>3, FS_EmptySet, SMTT(60)
<1>3. barrier.inFlight = c + d /\ barrier.hold \in 0 .. Hold
  BY <1>0, <1>1, ZenonT(60) DEF ArrayInv, CreditInv, CreditsExact, Committing, Committed
<1>4. NSent(Ready) = r /\ NDeliv = d
  BY <1>0, <1>1, SentIs, FinishersReceive, ZenonT(60) DEF NDeliv, PktDeliv, Committed
<1>5. PICK w : w = 2^CreditW
  BY ZenonT(60)
<1>6. w \in Nat /\ N < w
  BY <1>5, FabricAssumption, ZenonT(60)
<1>7. PICK busy, nif : barrier' = NextBarrier(barrier, busy, nif, r, d)
  BY <1>4, TickParts, ZenonT(60) DEF Clock
<1>8. barrier'.inFlight = (barrier.inFlight + r - d) % w
  BY <1>5, <1>7, ZenonT(60) DEF NextBarrier
<1>9. barrier'.inFlight = r + c
  <2>1. barrier.inFlight + r - d = r + c
    BY <1>2, <1>3, SMTT(60)
  <2> QED
    BY <1>2, <1>6, <1>8, <2>1, NodeAssumption, SMTT(60)
<1>10. barrier'.hold \in 0 .. Hold
  <2>1. \/ barrier'.hold = 0
        \/ barrier'.hold = barrier.hold + 1 /\ barrier.hold # Hold
    BY <1>7, ZenonT(60) DEF NextBarrier
  <2> QED
    BY <1>3, <2>1, FabricAssumption, SMTT(60)
<1>11. CreditsExact'
  <2>1. Cardinality(Committing') = r /\ Cardinality(Committed') = c
    BY <1>1, CommitNext, ZenonT(60)
  <2> QED
    BY <1>2, <1>9, <2>1, ZenonT(60) DEF CreditsExact, Committing, Committed
<1> QED
  BY <1>10, <1>11, ZenonT(60) DEF CreditInv

-----------------------------------------------------------------------------
(***************************************************************************)
(* The invariant of the array.                                             *)
(***************************************************************************)
LEMMA ArrayNext ==
  ASSUME ArrayInv, [Next]_vars
  PROVE  ArrayInv'
<1>1. CASE Next
  <2>1. PICK go \in SUBSET Core, inject \in BOOLEAN, read \in BOOLEAN : Tick(go, inject, read)
    BY <1>1, ZenonT(60) DEF Next
  <2>2. Clock(go, inject, read)
    BY <2>1, ZenonT(60) DEF Clock
  <2>3. \A i \in Core : NodeInv(i, node'[i])
    BY <2>2, NodesNext, ZenonT(60)
  <2>4. HostInv' /\ RouterInv' /\ LinkInv' /\ CreditInv'
    BY <2>2, HostNext, RouterNext, LinkNext, CreditNext, ZenonT(60)
  <2> QED
    BY <2>3, <2>4, ZenonT(60) DEF ArrayInv
<1>2. CASE UNCHANGED vars
  <2>1. node' = node /\ router' = router /\ barrier' = barrier /\ top' = top
    BY <1>2, ZenonT(60) DEF vars
  <2>2. \A i \in Core : NodeInv(i, node'[i])
    BY <2>1, ZenonT(60) DEF ArrayInv
  <2>3. HostInv' /\ CreditInv'
    BY <2>1, ZenonT(60) DEF ArrayInv, HostInv, CreditInv, CreditsExact
  <2>4. RouterInv'
    BY <2>1, ZenonT(60) DEF ArrayInv, RouterInv, Phase, Sent, Dst, HostPacket
  <2>5. LinkInv'
    BY <2>1, ZenonT(60) DEF ArrayInv, LinkInv, Phase, Sent, HostPacket
  <2> QED
    BY <2>2, <2>3, <2>4, <2>5, ZenonT(60) DEF ArrayInv
<1> QED
  BY <1>1, <1>2, ZenonT(60)

\* The array out of reset.
LEMMA ArrayInit ==
  ASSUME Init
  PROVE  ArrayInv
<1>1. PICK lim \in [Core -> Slot] : node = [i \in Core |-> ResetNode(lim[i])]
  BY ZenonT(60) DEF Init
<1>2. router = ResetRouter /\ barrier = ResetBarrier /\ top = ResetTop
  BY ZenonT(60) DEF Init
<1>3. NoWord \in Words
  BY SMTT(60) DEF NoWord, Words, Word
<1>4. ASSUME NEW i \in Core
      PROVE  /\ NodeInv(i, node[i])
             /\ node[i].tx.st = "IDLE" /\ node[i].rx.st = "IDLE" /\ node[i].rx.commit = 0
             /\ node[i].sf.ready = {}
  <2>1. PICK x : x = node[i]
    BY ZenonT(60)
  <2>2. x = ResetNode(lim[i]) /\ lim[i] \in Slot
    BY <1>1, <2>1, ZenonT(60)
  <2>3. /\ x.cpu.lim = lim[i] /\ x.cpu.k = 0 /\ x.cpu.op = "limit" /\ x.cpu.n = 0
        /\ x.io.limit = Slots /\ x.io.pending = FALSE /\ x.io.busy = TRUE
        /\ x.tx.st = "IDLE" /\ x.tx.ack = FALSE
    BY <2>2, ZenonT(60) DEF ResetNode
  <2>4. /\ x.rx.st = "IDLE" /\ x.rx.wr.slot = 0 /\ x.rx.commit = 0
        /\ x.sf.free = Slot /\ x.sf.ready = {}
        /\ x.sf.mem = [s \in Slot |-> [k \in 0 .. 1 |-> NoWord]]
    BY <2>2, ZenonT(60) DEF ResetNode, NoWrite
  <2>5. WorkerInv(i, x)
    BY <2>2, <2>3, StepFacts, NodeAssumption, SMTT(60) DEF WorkerInv, InPlace, AccessesOf
  <2>6. SendInv(i, x)
    <3>1. x.io.limit \in Slot
      BY <2>3, NodeAssumption, SMTT(60) DEF Slot
    <3> QED
      BY <2>3, <3>1, ZenonT(60) DEF SendInv
  <2>7. SlotInv(x)
    BY <2>4, ZenonT(60) DEF SlotInv
  <2>8. x.sf.mem \in [Slot -> [0 .. 1 -> Words]]
    <3>1. [k \in 0 .. 1 |-> NoWord] \in [0 .. 1 -> Words]
      BY <1>3, ZenonT(60)
    <3> QED
      BY <2>4, <3>1, ZenonT(60)
  <2>9. RecvInv(x)
    BY <2>4, <2>7, <2>8, ZenonT(60) DEF RecvInv
  <2> QED
    BY <2>1, <2>3, <2>4, <2>5, <2>6, <2>9, ZenonT(60) DEF NodeInv
<1>5. top.st = 0 /\ top.k = 0 /\ top.fifo = <<>>
  BY <1>2, ZenonT(60) DEF ResetTop
<1>6. HostInv
  BY <1>5, NodeAssumption, FabricAssumption, SMTT(60) DEF HostInv
<1>7. /\ router.lk = [o \in Port |-> None] /\ router.hdr = [i \in Port |-> TRUE]
      /\ router.route = [i \in Port |-> 0]
  BY <1>2, ZenonT(60) DEF ResetRouter
<1>8. \A i \in Port : Phase(i) = 0
  BY <1>4, <1>5, CoreFacts, ZenonT(60) DEF Phase
<1>9. RouterInv
  BY <1>7, <1>8, NodeAssumption, SMTT(60) DEF RouterInv, Port
<1>10. LinkInv
  BY <1>4, <1>7, CoreFacts, ZenonT(60) DEF LinkInv
<1>11. CreditInv
  <2>1. Committing = {} /\ Committed = {}
    BY <1>4, ZenonT(60) DEF Committing, Committed
  <2>2. Cardinality(Committing) = 0 /\ Cardinality(Committed) = 0
    BY <2>1, FS_EmptySet, ZenonT(60)
  <2>3. barrier.inFlight = 0 /\ barrier.hold = 0
    BY <1>2, ZenonT(60) DEF ResetBarrier
  <2>4. CreditsExact
    BY <2>2, <2>3, SMTT(60) DEF CreditsExact, Committing, Committed
  <2> QED
    BY <2>3, <2>4, FabricAssumption, SMTT(60) DEF CreditInv
<1> QED
  BY <1>4, <1>6, <1>9, <1>10, <1>11, ZenonT(60) DEF ArrayInv

\* The invariant of nodes, router, host and credits holds in every behaviour
\* of the array (the RTL of fpga/zcu104/rtl/mailbox under any firmware program).
THEOREM ArrayInvariant == Spec => []ArrayInv
<1>1. Init => ArrayInv
  BY ArrayInit, ZenonT(60)
<1>2. ArrayInv /\ [Next]_vars => ArrayInv'
  BY ArrayNext, ZenonT(60)
<1> QED
  BY <1>1, <1>2, PTL DEF Spec

\* The books are right for every array: the credits are those of the packets
\* between two network interfaces, the counter does not wrap, and every mailbox
\* slot is in one hand (mb_barrier.sv, mb_slot_file.sv, mb_nif.sv).
THEOREM AccountedHolds == Spec => []Accounted
<1>1. ASSUME ArrayInv PROVE Accounted
  <2>1. ASSUME NEW i \in Core
        PROVE  /\ node[i].sf.free \subseteq Slot /\ node[i].sf.ready \subseteq Slot
               /\ node[i].cpu.k \in 0 .. LastStep(i) /\ node[i].io.limit \in Slot
               /\ node[i].cpu.n \in 0 .. MaxCycles
               /\ node[i].io.pending \in BOOLEAN /\ node[i].io.busy \in BOOLEAN
               /\ node[i].rx.st \in {"IDLE", "RECV", "COMMIT"}
               /\ node[i].tx.st \in {"IDLE", "DS0", "DS1"}
               /\ SlotInv(node[i])
    <3>1. WorkerInv(i, node[i]) /\ SendInv(i, node[i]) /\ RecvInv(node[i])
      BY <1>1, ZenonT(60) DEF ArrayInv, NodeInv
    <3>2. SlotInv(node[i]) /\ SlotHands(node[i])
      BY <3>1, HandsOfSlots, ZenonT(60) DEF RecvInv
    <3>3. node[i].cpu.k \in 0 .. LastStep(i) /\ node[i].cpu.n \in 0 .. MaxCycles
      BY <3>1, ZenonT(60) DEF WorkerInv, InPlace
    <3>4. /\ node[i].io.limit \in Slot
          /\ node[i].io.pending \in BOOLEAN /\ node[i].io.busy \in BOOLEAN
          /\ node[i].tx.st \in {"IDLE", "DS0", "DS1"}
      BY <3>1, ZenonT(60) DEF SendInv
    <3>5. node[i].rx.st \in {"IDLE", "RECV", "COMMIT"}
      BY <3>1, ZenonT(60) DEF RecvInv
    <3> QED
      BY <3>2, <3>3, <3>4, <3>5, ZenonT(60) DEF SlotHands
  <2>2. SlotsAccounted
    BY <2>1, ZenonT(60) DEF SlotsAccounted, SlotInv
  <2>3. CreditsExact /\ barrier.hold \in 0 .. Hold
    BY <1>1, ZenonT(60) DEF ArrayInv, CreditInv
  <2>4. barrier.inFlight \in 0 .. N + 1
    <3>1. PICK c, d : c = Cardinality(Committing) /\ d = Cardinality(Committed)
      BY ZenonT(60)
    <3>2. Committing \cap Committed = {} /\ Committing \cup Committed \subseteq Core
      BY <1>1, ZenonT(60) DEF Committing, Committed, ArrayInv, NodeInv, RecvInv
    <3>3. /\ IsFiniteSet(Committing) /\ IsFiniteSet(Committed) /\ c \in Nat /\ d \in Nat
          /\ Cardinality(Committing \cup Committed) <= N
      BY <3>1, <3>2, CoresFinite, NodeAssumption, SMTT(60)
    <3>4. Cardinality(Committing \cup Committed) = c + d - Cardinality({})
      BY <3>1, <3>2, <3>3, FS_Union, ZenonT(60)
    <3>5. c + d <= N /\ barrier.inFlight = c + d
      BY <2>3, <3>1, <3>3, <3>4, FS_EmptySet, SMTT(60) DEF CreditsExact, Committing, Committed
    <3> QED
      BY <3>3, <3>5, NodeAssumption, SMTT(60)
  <2>5. TypeOK
    BY <1>1, <2>1, <2>3, <2>4, ZenonT(60) DEF TypeOK, ArrayInv, RouterInv, HostInv
  <2> QED
    BY <2>2, <2>3, <2>5, ZenonT(60) DEF Accounted
<1> QED
  BY <1>1, ArrayInvariant, PTL

\* In every array a slot that a worker can see holds the two words of one
\* packet addressed to its core (mb_router.sv 86-106, mb_nif.sv 79-127).
THEOREM WholePacketsHold == Spec => []WholePackets
<1>1. ASSUME ArrayInv PROVE WholePackets
  <2>1. ASSUME NEW i \in Core, NEW s \in node[i].sf.ready
        PROVE  Whole(i, node[i].sf.mem[s])
    <3>1. RecvInv(node[i]) /\ SlotHands(node[i])
      BY <1>1, HandsOfSlots, ZenonT(60) DEF ArrayInv, NodeInv, RecvInv
    <3>2. s \in Slot /\ node[i].rx.wr.slot # s
      BY <3>1, CoreFacts, ZenonT(60) DEF SlotHands, RecvInv, Filling
    <3>3. NextMem(node[i])[s] = node[i].sf.mem[s]
      BY <3>1, <3>2, Written, ZenonT(60)
    <3> QED
      BY <1>1, <3>3, ZenonT(60) DEF ArrayInv, LinkInv
  <2> QED
    BY <2>1, ZenonT(60) DEF WholePackets, Whole
<1> QED
  BY <1>1, ArrayInvariant, PTL

-----------------------------------------------------------------------------
(***************************************************************************)
(* The barrier.  When it decides to fire, nothing is left in the array,    *)
(* provided the host has not begun to send: no counter of the barrier sees *)
(* a packet of the host before its last word.                              *)
(***************************************************************************)
Quiet(i) ==
  LET x == node[i]
  IN /\ x.cpu.op = "poll" /\ x.io.cnt = x.cpu.c0 /\ ~x.io.busy
     /\ x.sf.ready = {} /\ x.sf.free = Slot
     /\ x.rx.st = "IDLE" /\ x.rx.commit = 0 /\ x.tx.st = "IDLE"
     /\ ~(x.io.pending /\ ~x.tx.ack)

\* What the barrier sees is enough to know that nothing is under way.
LEMMA FiringIsQuiet ==
  ASSUME ArrayInv, GateInv, Fires, HostInStep
  PROVE  /\ \A i \in Core : Quiet(i)
         /\ \A o \in Port : router.lk[o] = None
         /\ barrier.advance = FALSE
<1>1. /\ barrier.seen = Core /\ barrier.inFlight = 0 /\ barrier.hold = Hold /\ top.st = 0
      /\ {i \in Core : CoreBusy(node[i])} = {} /\ {i \in Core : NifBusy(node[i])} = {}
  BY ZenonT(60) DEF Fires, QNow, HostInStep
<1>2. barrier.advance = FALSE
  BY <1>1, FabricAssumption, ZenonT(60) DEF GateInv
<1>3. Committed = {}
  <2>1. PICK c, d : c = Cardinality(Committing) /\ d = Cardinality(Committed)
    BY ZenonT(60)
  <2>2. c \in Nat /\ d \in Nat /\ IsFiniteSet(Committed)
    BY <2>1, CoresFinite, SMTT(60) DEF Committing, Committed
  <2>3. 0 = c + d
    BY <1>1, <2>1, ZenonT(60) DEF ArrayInv, CreditInv, CreditsExact, Committing, Committed
  <2>4. d = 0
    BY <2>2, <2>3, SMTT(60)
  <2> QED
    BY <2>1, <2>2, <2>4, FS_EmptySet, ZenonT(60)
<1>4. ASSUME NEW i \in Core PROVE Quiet(i)
  <2>1. PICK x : x = node[i]
    BY ZenonT(60)
  <2>2. ~CoreBusy(x) /\ ~NifBusy(x) /\ x.rx.commit = 0 /\ i \in barrier.seen
    BY <1>1, <1>3, <2>1, ZenonT(60) DEF Committed
  <2>3. ~x.io.busy /\ x.sf.ready = {} /\ x.rx.st = "IDLE" /\ x.tx.st = "IDLE"
    BY <2>2, ZenonT(60) DEF CoreBusy, NifBusy
  <2>4. x.cpu.op = "poll" /\ x.io.cnt = x.cpu.c0
    BY <2>1, <2>2, ZenonT(60) DEF GateInv
  <2>5. SendInv(i, x) /\ SlotHands(x)
    BY <2>1, HandsOfSlots, ZenonT(60) DEF ArrayInv, NodeInv, RecvInv
  <2>6. ~(x.io.pending /\ ~x.tx.ack)
    BY <2>3, <2>5, ZenonT(60) DEF SendInv
  <2>7. x.sf.free = Slot
    BY <2>2, <2>3, <2>5, CoreFacts, ZenonT(60) DEF SlotHands, Filling
  <2> QED
    BY <2>1, <2>2, <2>3, <2>4, <2>6, <2>7, SMTT(60) DEF Quiet
<1>5. \A i \in Port : Phase(i) = 0
  BY <1>1, <1>4, CoreFacts, ZenonT(60) DEF Phase, Quiet
<1>6. \A o \in Port : router.lk[o] = None
  BY <1>5, LockIs, ZenonT(60)
<1> QED
  BY <1>2, <1>4, <1>6, ZenonT(60)

\* The barrier in one clock.
LEMMA BarrierParts ==
  ASSUME NEW go, NEW inject, NEW read, Clock(go, inject, read)
  PROVE  /\ barrier'.advance \in BOOLEAN /\ (barrier'.advance <=> Fires)
         /\ barrier'.advance => barrier'.hold = 0
         /\ barrier'.seen = IF barrier.advance THEN {i \in Core : CoreBusy(node[i])}
                            ELSE barrier.seen \cup {i \in Core : CoreBusy(node[i])}
<1>1. PICK busy, nif, r, d :
        /\ barrier' = NextBarrier(barrier, busy, nif, r, d)
        /\ busy = {i \in Core : CoreBusy(node[i])} /\ nif = {i \in Core : NifBusy(node[i])}
  BY TickParts, ZenonT(60) DEF Clock
<1>2. PICK q : q = (QNow(barrier, busy, nif) /\ barrier.hold = Hold)
  BY ZenonT(60)
<1>3. q \in BOOLEAN /\ (q <=> Fires)
  BY <1>1, <1>2, ZenonT(60) DEF Fires
<1>4. /\ barrier'.advance = q
      /\ barrier'.seen = IF barrier.advance THEN busy ELSE barrier.seen \cup busy
      /\ q => barrier'.hold = 0
  BY <1>1, <1>2, ZenonT(60) DEF NextBarrier
<1> QED
  BY <1>1, <1>3, <1>4, ZenonT(60)

\* When the barrier fires the array is settled in the next clock as well.
LEMMA SettledNext ==
  ASSUME NEW go, NEW inject, NEW read, Clock(go, inject, read), GateInv, Fires, HostInStep,
         NEW i \in Core, NEW y, y = node'[i]
  PROVE  /\ ~y.io.pending
         /\ y.tx.st = "IDLE" /\ y.rx.st = "IDLE" /\ y.rx.commit = 0
         /\ y.sf.ready = {} /\ y.sf.free = Slot
         /\ y.cpu.op = "poll" /\ y.io.cnt = y.cpu.c0
<1>1. PICK x, in : x = node[i] /\ in = InputOf(i, go)
  BY ZenonT(60)
<1>2. /\ GoodInput(i, x, in) /\ y = NextNode(i, x, in) /\ RecvInv(x)
  BY <1>1, NodesNext, ZenonT(60) DEF NodeInv
<1>3. ArrayInv /\ Quiet(i) /\ router.lk[i] = None /\ barrier.advance = FALSE
  BY FiringIsQuiet, CoreFacts, ZenonT(60) DEF Clock
<1>4. /\ x.cpu.op = "poll" /\ x.io.cnt = x.cpu.c0 /\ ~x.io.busy
      /\ x.sf.ready = {} /\ x.sf.free = Slot
      /\ x.rx.st = "IDLE" /\ x.rx.commit = 0 /\ x.tx.st = "IDLE"
      /\ ~(x.io.pending /\ ~x.tx.ack)
  BY <1>1, <1>3, ZenonT(60) DEF Quiet
<1>5. ~in.go /\ ~in.beat.valid /\ in.advance = FALSE
  <2>1. ~Able(i, x)
    BY <1>4, ZenonT(60) DEF Able
  <2>2. (\A j \in go : Able(j, node[j])) /\ go \in SUBSET Core
    BY TickParts, ZenonT(60) DEF Clock
  <2>3. ~in.beat.valid
    BY <1>1, <1>3, <2>2, InputsGood, ZenonT(60)
  <2> QED
    BY <1>1, <1>2, <1>3, <2>1, <2>3, ZenonT(60) DEF GoodInput, InputOf
<1>6. /\ CpuNext(i, x, in, y) /\ IoNext(i, x, in, y) /\ TxNext(i, x, in, y)
      /\ RxNext(x, in, y) /\ SfNext(i, x, in, y)
  BY <1>2, WorkerParts, IoParts, TxParts, RxParts, SfParts, ZenonT(60)
<1>7. y.cpu = x.cpu /\ y.io.cnt = x.io.cnt /\ ~y.io.pending
  BY <1>4, <1>5, <1>6, ZenonT(60) DEF CpuNext, IoNext, Does
<1>8. y.tx.st = "IDLE"
  BY <1>4, <1>6, ZenonT(60) DEF TxNext
<1>9. y.rx.st = "IDLE" /\ y.rx.commit = 0
  BY <1>4, <1>5, <1>6, ZenonT(60) DEF RxNext, Begins, Continues
<1>10. Alloc(x, in) = {}
  BY <1>5, ZenonT(60) DEF Alloc
<1>11. y.sf.ready = {} /\ y.sf.free = Slot
  BY <1>4, <1>5, <1>6, <1>10, ZenonT(60) DEF SfNext, Does
<1> QED
  BY <1>4, <1>7, <1>8, <1>9, <1>11, ZenonT(60)

\* The worker's count of its cycles and CYCLE_CNT.
LEMMA CycleNext ==
  ASSUME NEW go, NEW inject, NEW read, Clock(go, inject, read), GateInv,
         NEW i \in Core, NEW y, y = node'[i]
  PROVE  /\ CycleInv(y)
         /\ i \in barrier'.seen /\ ~CoreBusy(y) => y.cpu.op = "poll" /\ y.io.cnt = y.cpu.c0
<1>1. PICK x, in : x = node[i] /\ in = InputOf(i, go)
  BY ZenonT(60)
<1>2. /\ GoodInput(i, x, in) /\ y = NextNode(i, x, in) /\ NodeInv(i, x)
  BY <1>1, NodesNext, ZenonT(60)
<1>3. /\ CpuNext(i, x, in, y) /\ IoNext(i, x, in, y) /\ SfNext(i, x, in, y)
  BY <1>2, WorkerParts, IoParts, SfParts, ZenonT(60)
<1>4. /\ InPlace(i, x) /\ WorkerInv(i, x) /\ in.go \in BOOLEAN /\ x.io.busy \in BOOLEAN
      /\ x.cpu.n \in Nat /\ (in.go => Able(i, x)) /\ y.cpu = NextCpu(i, x, in)
  <2>1. y.cpu = NextCpu(i, x, in)
    BY <1>2, NodeParts, SMTT(60)
  <2>2. WorkerInv(i, x) /\ SendInv(i, x)
    BY <1>2, ZenonT(60) DEF NodeInv
  <2>3. x.cpu.n \in 0 .. MaxCycles /\ InPlace(i, x) /\ x.io.busy \in BOOLEAN
    BY <2>2, ZenonT(60) DEF WorkerInv, SendInv
  <2>4. in.go \in BOOLEAN /\ (in.go => Able(i, x))
    BY <1>2, ZenonT(60) DEF GoodInput
  <2> QED BY <2>1, <2>2, <2>3, <2>4, SMTT(60)
<1>5. /\ CycleInv(x) /\ (barrier.advance => x.io.cnt = x.cpu.c0)
      /\ i \in barrier.seen /\ ~CoreBusy(x) => x.cpu.op = "poll" /\ x.io.cnt = x.cpu.c0
      /\ barrier.advance => x.cpu.op = "poll" /\ x.sf.ready = {}
  BY <1>1, ZenonT(60) DEF GateInv, Settled
<1>6. x.cpu.op \in {"limit", "busy", "cycle", "look", "take", "done", "w0", "d1", "idle", "poll"}
  BY <1>4, PlaceFacts, ZenonT(60)
<1>7. in.advance = barrier.advance /\ barrier.advance \in BOOLEAN
  BY <1>1, ZenonT(60) DEF InputOf, GateInv
<1>8. CASE barrier.advance
  <2>1. x.cpu.op = "poll" /\ x.io.cnt = x.cpu.c0 /\ x.sf.ready = {} /\ ~x.io.busy
    BY <1>4, <1>5, <1>8, ZenonT(60) DEF WorkerInv
  <2>2. ~in.go
    BY <1>4, <2>1, ZenonT(60) DEF Able
  <2>3. y.cpu = x.cpu /\ y.io.cnt = x.io.cnt + 1
    BY <1>3, <1>7, <1>8, <2>2, ZenonT(60) DEF CpuNext, IoNext
  <2>4. x.io.cnt = x.cpu.n /\ x.cpu.c0 = x.cpu.n
    BY <1>5, <2>1, ZenonT(60) DEF CycleInv
  <2>5. CycleInv(y)
    BY <2>1, <2>3, <2>4, ZenonT(60) DEF CycleInv
  <2>6. i \notin barrier'.seen
    <3>1. ~CoreBusy(node[i])
      BY <1>1, <2>1, ZenonT(60) DEF CoreBusy
    <3> QED
      BY <1>8, <3>1, BarrierParts, ZenonT(60)
  <2> QED
    BY <2>5, <2>6, ZenonT(60)
<1>9. CASE ~barrier.advance
  <2>1. y.io.cnt = x.io.cnt
    BY <1>3, <1>7, <1>9, ZenonT(60) DEF IoNext
  <2>2. CASE ~in.go
    <3>1. y.cpu = x.cpu
      BY <1>3, <2>2, ZenonT(60) DEF CpuNext
    <3>2. CycleInv(y)
      BY <1>5, <2>1, <3>1, ZenonT(60) DEF CycleInv
    <3>3. ASSUME i \in barrier'.seen, ~CoreBusy(y)
          PROVE  i \in barrier.seen /\ ~CoreBusy(x)
      <4>1. (y.io.busy <=> x.io.busy) /\ x.sf.ready \subseteq y.sf.ready
        BY <1>3, <1>4, <2>2, ZenonT(60) DEF IoNext, SfNext, Does
      <4>2. ~CoreBusy(x)
        BY <3>3, <4>1, ZenonT(60) DEF CoreBusy
      <4> QED
        BY <1>1, <1>9, <3>3, <4>2, BarrierParts, ZenonT(60)
    <3> QED
      BY <1>5, <2>1, <3>1, <3>2, <3>3, ZenonT(60)
  <2>3. CASE in.go
    <3>1. /\ InPlace(i, y)
          /\ x.cpu.op = "limit" => y.cpu.op = "busy"
          /\ x.cpu.op = "busy" => y.cpu.op = "cycle"
          /\ x.cpu.op = "look" => y.cpu.op = "take"
          /\ x.cpu.op = "take" => y.cpu.op = "done"
          /\ x.cpu.op = "w0" => y.cpu.op = "d1"
          /\ x.cpu.op = "idle" => y.cpu.op = "poll"
          /\ x.cpu.op = "poll" => y.cpu.op = "busy"
          /\ x.cpu.op \in {"cycle", "done", "d1"} => y.cpu.op \in {"look", "w0", "idle"}
      <4>1. InPlace(i, x) /\ y.cpu = NextCpu(i, x, in)
        BY <1>4, ZenonT(60)
      <4>2. InPlace(i, y) /\ WorkerMoves(x, y)
        BY <2>3, <4>1, NextMove, SMTT(60)
      <4> QED BY <4>2, ZenonT(60) DEF WorkerMoves
    <3>2. /\ y.cpu.n = IF x.cpu.op = "poll" THEN x.cpu.n + 1 ELSE x.cpu.n
          /\ y.cpu.c0 = IF x.cpu.op = "cycle" THEN x.io.cnt ELSE x.cpu.c0
      BY <1>3, <2>3, ZenonT(60) DEF CpuNext
    <3>3. x.cpu.op = "poll" => x.io.cnt # x.cpu.c0
      BY <1>4, <2>3, ZenonT(60) DEF Able
    <3>4. CycleInv(y)
      <4>1. CASE x.cpu.op \in {"limit", "busy"}
        BY <1>5, <2>1, <3>1, <3>2, <4>1, ZenonT(60) DEF CycleInv
      <4>2. CASE x.cpu.op = "cycle"
        BY <1>5, <2>1, <3>1, <3>2, <4>2, ZenonT(60) DEF CycleInv
      <4>3. CASE x.cpu.op = "poll"
        BY <1>5, <2>1, <3>1, <3>2, <3>3, <4>3, ZenonT(60) DEF CycleInv
      <4>4. CASE x.cpu.op \in {"look", "take", "done", "w0", "d1", "idle"}
        <5>1. /\ y.cpu.n = x.cpu.n /\ y.cpu.c0 = x.cpu.c0
              /\ x.io.cnt = x.cpu.n /\ x.cpu.c0 = x.cpu.n
              /\ y.cpu.op \in {"look", "take", "done", "w0", "d1", "idle", "poll"}
          BY <1>5, <3>1, <3>2, <4>4, ZenonT(60) DEF CycleInv
        <5> QED
          BY <2>1, <5>1, ZenonT(60) DEF CycleInv
      <4> QED
        BY <1>6, <4>1, <4>2, <4>3, <4>4, ZenonT(60)
    <3>5. ASSUME i \in barrier'.seen, ~CoreBusy(y)
          PROVE  x.cpu.op = "idle"
      <4>1. ~y.io.busy /\ y.sf.ready = {}
        BY <3>5, ZenonT(60) DEF CoreBusy
      <4>2. y.io.busy <=> x.cpu.op = "busy" \/ (x.io.busy /\ x.cpu.op # "idle")
        BY <1>3, <2>3, ZenonT(60) DEF IoNext, Does
      <4>3. x.cpu.op \notin {"limit", "busy", "poll"} => x.io.busy
        BY <1>4, ZenonT(60) DEF WorkerInv
      <4>4. SUFFICES ASSUME x.cpu.op \in {"limit", "poll"}, ~x.io.busy PROVE FALSE
        BY <1>4, <1>6, <4>1, <4>2, <4>3, ZenonT(60)
      <4>5. x.sf.ready \subseteq y.sf.ready
        BY <1>3, <4>4, ZenonT(60) DEF SfNext, Does
      <4>6. ~CoreBusy(x)
        BY <4>1, <4>4, <4>5, ZenonT(60) DEF CoreBusy
      <4>7. i \in barrier.seen
        BY <1>1, <1>9, <3>5, <4>6, BarrierParts, ZenonT(60)
      <4> QED
        BY <1>5, <3>3, <4>6, <4>7, ZenonT(60)
    <3>6. x.cpu.op = "idle" => y.cpu.op = "poll" /\ y.io.cnt = y.cpu.c0
      BY <1>5, <2>1, <3>1, <3>2, ZenonT(60) DEF CycleInv
    <3> QED
      BY <3>4, <3>5, <3>6, ZenonT(60)
  <2> QED
    BY <1>4, <2>2, <2>3, ZenonT(60)
<1> QED
  BY <1>7, <1>8, <1>9, ZenonT(60)

\* The barrier fires only over a settled array, again in the next clock.
LEMMA GateNext ==
  ASSUME ArrayInv, GateInv, HostInStep, [Next]_vars
  PROVE  GateInv'
<1>1. CASE Next
  <2>1. PICK go \in SUBSET Core, inject \in BOOLEAN, read \in BOOLEAN : Tick(go, inject, read)
    BY <1>1, ZenonT(60) DEF Next
  <2>2. Clock(go, inject, read)
    BY <2>1, ZenonT(60) DEF Clock
  <2>3. /\ barrier'.advance \in BOOLEAN /\ (barrier'.advance <=> Fires)
        /\ barrier'.advance => barrier'.hold = 0
    BY <2>2, BarrierParts, ZenonT(60)
  <2>4. ASSUME NEW i \in Core
        PROVE  LET y == node'[i]
               IN /\ CycleInv(y)
                  /\ i \in barrier'.seen /\ ~CoreBusy(y) =>
                       y.cpu.op = "poll" /\ y.io.cnt = y.cpu.c0
                  /\ barrier'.advance =>
                       /\ ~y.io.pending \/ y.tx.ack
                       /\ y.tx.st = "IDLE" /\ y.rx.st = "IDLE" /\ y.rx.commit = 0
                       /\ y.sf.ready = {} /\ y.sf.free = Slot
                       /\ y.cpu.op = "poll" /\ y.io.cnt = y.cpu.c0
    <3>1. PICK y : y = node'[i]
      BY ZenonT(60)
    <3>2. /\ CycleInv(y)
          /\ i \in barrier'.seen /\ ~CoreBusy(y) => y.cpu.op = "poll" /\ y.io.cnt = y.cpu.c0
      BY <2>2, <3>1, CycleNext, ZenonT(60)
    <3>3. barrier'.advance =>
            /\ ~y.io.pending
            /\ y.tx.st = "IDLE" /\ y.rx.st = "IDLE" /\ y.rx.commit = 0
            /\ y.sf.ready = {} /\ y.sf.free = Slot
            /\ y.cpu.op = "poll" /\ y.io.cnt = y.cpu.c0
      BY <2>2, <2>3, <3>1, SettledNext, ZenonT(60)
    <3> QED
      BY <3>1, <3>2, <3>3, ZenonT(60)
  <2>5. Settled'
    BY <2>4, ZenonT(60) DEF Settled
  <2> QED
    BY <2>3, <2>4, <2>5, ZenonT(60) DEF GateInv
<1>2. CASE UNCHANGED vars
  BY <1>2, ZenonT(60) DEF vars, GateInv, Settled
<1> QED
  BY <1>1, <1>2, ZenonT(60)

\* Out of reset no core has been seen busy.
LEMMA GateInit ==
  ASSUME Init
  PROVE  GateInv
<1>1. PICK lim \in [Core -> Slot] : node = [i \in Core |-> ResetNode(lim[i])]
  BY SMTT(60) DEF Init
<1>2. barrier.advance = FALSE /\ barrier.seen = {} /\ barrier.hold = 0
  BY ZenonT(60) DEF Init, ResetBarrier
<1>3. \A i \in Core : node[i].cpu.op = "limit" /\ node[i].cpu.n = 0 /\ node[i].io.cnt = 0
  BY <1>1, ZenonT(60) DEF ResetNode
<1> QED
  BY <1>2, <1>3, ZenonT(60) DEF GateInv, CycleInv, Settled

\* The invariant of the barrier, with the host in step.
LEMMA GateInvariant == Spec /\ []HostInStep => []GateInv
<1>1. Init => GateInv
  BY GateInit, SMTT(60)
<1>2. ArrayInv /\ GateInv /\ HostInStep /\ [Next]_vars => GateInv'
  BY GateNext, ZenonT(60)
<1> QED
  BY <1>1, <1>2, ArrayInvariant, PTL, SMTT(60) DEF Spec

\* Whenever the barrier fires the array is settled, for every program and hold
\* time, as long as it never decides to fire while the host is sending
\* (mb_barrier.sv 52-73).
THEOREM SettledHolds == Spec /\ []HostInStep => []Settled
<1>1. GateInv => Settled
  BY ZenonT(60) DEF GateInv
<1> QED
  BY <1>1, GateInvariant, PTL

\* Under the same condition every worker is in the cycle that CYCLE_CNT says,
\* whatever the time it takes to notice an advance (mb_barrier.sv 40-50).
THEOREM WorkersStayInStep == Spec /\ []HostInStep => []WorkersInStep
<1>1. ASSUME ArrayInv, GateInv PROVE WorkersInStep
  <2>1. ASSUME NEW i \in Core, node[i].cpu.k > 1
        PROVE  node[i].cpu.c0 = node[i].cpu.n
    <3>1. InPlace(i, node[i]) /\ CycleInv(node[i])
      BY <1>1, ZenonT(60) DEF ArrayInv, NodeInv, WorkerInv, GateInv
    <3>2. node[i].cpu.op \notin {"limit", "busy", "cycle"}
      BY <2>1, <3>1, PlaceFacts, SMTT(60)
    <3> QED
      BY <3>1, <3>2, ZenonT(60) DEF CycleInv
  <2> QED
    BY <2>1, ZenonT(60) DEF WorkersInStep
<1> QED
  BY <1>1, ArrayInvariant, GateInvariant, PTL

-----------------------------------------------------------------------------
(***************************************************************************)
(* The dates of messages.  As long as the host has sent its input of the   *)
(* cycle when the barrier fires, every packet in the array, wherever it    *)
(* is, was sent in the cycle that CYCCNT says: the barrier lets none pass  *)
(* from one cycle into the next.                                           *)
(***************************************************************************)
HostDated ==
  /\ top.cyc \in Nat /\ (top.k = top.cyc \/ top.k = top.cyc + 1)
  /\ top.st # 0 => top.k = top.cyc + 1
  /\ barrier.advance => top.k = top.cyc + 1 /\ top.st = 0

\* A node in cycle c: what is about to be sent, what is being sent, what is
\* being received or ready, and what the worker has just taken.
NodeDated(x, c) ==
  /\ x.io.cnt = c
  /\ x.io.pending /\ x.tx.st = "IDLE" /\ ~x.tx.ack => x.io.w0.p.n = c
  /\ x.tx.st # "IDLE" => x.tx.w0.p.n = c
  /\ x.rx.st = "COMMIT" => NextMem(x)[x.rx.slot][0].p.n = c
  /\ x.rx.commit # 0 => NextMem(x)[x.rx.commit][0].p.n = c
  /\ \A s \in x.sf.ready : NextMem(x)[s][0].p.n = c
  /\ IF x.cpu.op = "done" THEN x.cpu.val.p.n = c ELSE x.cpu.val = NoWord

DateInv == HostDated /\ \A i \in Core : NodeDated(node[i], top.cyc)

\* What the worker keeps of a message.
LEMMA ValNext ==
  ASSUME NEW i, NEW x, NEW in, NEW y, y = NextNode(i, x, in)
  PROVE  /\ ~in.go => y.cpu.val = x.cpu.val
         /\ in.go /\ x.cpu.op = "take" => y.cpu.val = x.sf.mem[x.cpu.slot][1]
         /\ in.go /\ x.cpu.op = "done" => y.cpu.val = NoWord
         /\ in.go /\ x.cpu.op \notin {"take", "done"} => y.cpu.val = x.cpu.val
<1>1. y.cpu = NextCpu(i, x, in)
  BY NodeParts
<1>2. CASE ~in.go
  BY <1>1, <1>2, ZenonT(60) DEF NextCpu
<1>3. CASE in.go
  <2>1. y.cpu.val = CASE x.cpu.op = "take" -> x.sf.mem[x.cpu.slot][1]
                      [] x.cpu.op = "done" -> NoWord
                      [] OTHER -> x.cpu.val
    BY <1>1, <1>3, SMTT(60) DEF NextCpu
  <2> QED
    BY <1>3, <2>1, SMTT(60)
<1> QED
  BY <1>2, <1>3, ZenonT(60)

\* The host's counters: it has sent its input of the cycle before the barrier
\* fires, and sends the next one after the advance.
LEMMA HostDatedNext ==
  ASSUME NEW go, NEW inject, NEW read, Clock(go, inject, read), HostDated, GateInv,
         HostInStep, HostOnTime
  PROVE  /\ HostDated'
         /\ top'.cyc = IF barrier.advance THEN top.cyc + 1 ELSE top.cyc
<1>1. PICK r, egr : top' = NextTop(top, inject, read, r, egr, barrier.advance)
  BY TickParts, ZenonT(60) DEF Clock
<1>2. /\ top'.k = IF inject THEN top.k + 1 ELSE top.k
      /\ top'.cyc = IF barrier.advance THEN top.cyc + 1 ELSE top.cyc
      /\ top'.st # 0 => top.st # 0 \/ inject
  BY <1>1, ZenonT(60) DEF NextTop
<1>3. inject => top.st = 0 /\ top.k <= top.cyc
  BY TickParts, ZenonT(60) DEF Clock, CanInject
<1>4. /\ barrier'.advance <=> Fires
      /\ barrier.advance \in BOOLEAN /\ barrier'.advance \in BOOLEAN /\ inject \in BOOLEAN
  BY BarrierParts, ZenonT(60) DEF GateInv, Clock
<1>5. Fires => ~barrier.advance /\ top.k = top.cyc + 1 /\ top.st = 0
  BY FabricAssumption, ZenonT(60) DEF Fires, GateInv, HostInStep, HostOnTime
<1>6. /\ top.cyc \in Nat /\ (top.k = top.cyc \/ top.k = top.cyc + 1)
      /\ top.st # 0 => top.k = top.cyc + 1
      /\ barrier.advance => top.k = top.cyc + 1 /\ top.st = 0
  BY ZenonT(60) DEF HostDated
<1>7. top'.cyc \in Nat /\ (top'.k = top'.cyc \/ top'.k = top'.cyc + 1)
  BY <1>2, <1>3, <1>4, <1>6, SMTT(60)
<1>8. ASSUME barrier'.advance PROVE top'.k = top'.cyc + 1 /\ top'.st = 0
  <2>1. ~barrier.advance /\ top.k = top.cyc + 1 /\ top.st = 0
    BY <1>4, <1>5, <1>8, ZenonT(60)
  <2>2. ~inject
    BY <1>3, <1>6, <2>1, SMTT(60)
  <2> QED
    BY <1>2, <2>1, <2>2, ZenonT(60)
<1>9. ASSUME top'.st # 0 PROVE top'.k = top'.cyc + 1
  <2>1. CASE inject
    <3>1. top.k = top.cyc /\ ~barrier.advance
      BY <1>3, <1>6, <2>1, SMTT(60)
    <3> QED
      BY <1>2, <2>1, <3>1, ZenonT(60)
  <2>2. CASE ~inject
    BY <1>2, <1>6, <1>9, <2>2, ZenonT(60)
  <2> QED
    BY <1>4, <2>1, <2>2, ZenonT(60)
<1> QED
  BY <1>2, <1>7, <1>8, <1>9, ZenonT(60) DEF HostDated

\* The node of core i when the barrier advances: it is empty, so nothing of the
\* cycle that ends is left in it.
LEMMA DatedAdvance ==
  ASSUME NEW go, NEW inject, NEW read, Clock(go, inject, read), GateInv,
         barrier.advance, NEW i \in Core, NEW c, NodeDated(node[i], c)
  PROVE  NodeDated(node'[i], c + 1)
<1>1. PICK x, y, in : x = node[i] /\ y = node'[i] /\ in = InputOf(i, go)
  BY ZenonT(60)
<1>2. /\ GoodInput(i, x, in) /\ y = NextNode(i, x, in) /\ RecvInv(x) /\ in.advance
  BY <1>1, NodesNext, ZenonT(60) DEF NodeInv, InputOf
<1>3. /\ CpuNext(i, x, in, y) /\ IoNext(i, x, in, y) /\ TxNext(i, x, in, y)
      /\ RxNext(x, in, y) /\ SfNext(i, x, in, y)
  BY <1>2, WorkerParts, IoParts, TxParts, RxParts, SfParts, ZenonT(60)
<1>4. /\ ~(x.io.pending /\ ~x.tx.ack)
      /\ x.tx.st = "IDLE" /\ x.rx.st = "IDLE" /\ x.rx.commit = 0
      /\ x.sf.ready = {} /\ x.cpu.op = "poll" /\ x.io.cnt = x.cpu.c0
  BY <1>1, ZenonT(60) DEF GateInv, Settled
<1>5. ~in.go
  BY <1>2, <1>4, ZenonT(60) DEF GoodInput, Able
<1>6. y.io.cnt = c + 1 /\ ~y.io.pending
  <2>1. x.io.cnt = c
    BY <1>1, ZenonT(60) DEF NodeDated
  <2> QED
    BY <1>2, <1>3, <1>4, <1>5, <2>1, ZenonT(60) DEF IoNext, Does
<1>7. y.tx.st = "IDLE"
  BY <1>3, <1>4, ZenonT(60) DEF TxNext
<1>8. y.rx.st # "COMMIT" /\ y.rx.commit = 0
  <2>1. Fitting(x, in)
    BY <1>2, ZenonT(60) DEF Fitting, GoodInput, RecvInv
  <2>2. RxCase(x, in, y) /\ ~Continues(x, in)
    BY <1>3, <1>4, <2>1, RxCases, ZenonT(60) DEF Continues
  <2> QED
    BY <1>4, <2>2, ZenonT(60) DEF RxCase
<1>9. y.sf.ready = {}
  BY <1>3, <1>4, ZenonT(60) DEF SfNext
<1>10. y.cpu.op # "done" /\ y.cpu.val = NoWord
  <2>1. y.cpu = x.cpu
    BY <1>3, <1>5, ZenonT(60) DEF CpuNext
  <2>2. x.cpu.val = NoWord
    BY <1>1, <1>4, ZenonT(60) DEF NodeDated
  <2> QED
    BY <1>4, <2>1, <2>2, ZenonT(60)
<1> QED
  BY <1>1, <1>6, <1>7, <1>8, <1>9, <1>10, ZenonT(60) DEF NodeDated

\* What an input that has locked an output is sending is of this cycle.
LEMMA SentDated ==
  ASSUME ArrayInv, DateInv, NEW j \in Port, Phase(j) # 0
  PROVE  Sent(j).n = top.cyc
<1>1. CASE j = N
  <2>1. top.k = top.cyc + 1 /\ top.cyc \in Nat
    BY <1>1, ZenonT(60) DEF DateInv, HostDated, Phase
  <2>2. Sent(j).n = top.k - 1
    BY <1>1, ZenonT(60) DEF Sent, HostPacket
  <2> QED
    BY <2>1, <2>2, SMTT(60)
<1>2. CASE j # N
  <2>1. j \in Core /\ node[j].tx.st # "IDLE"
    BY <1>2, CoreFacts, ZenonT(60) DEF Phase
  <2> QED
    BY <1>2, <2>1, ZenonT(60) DEF Sent, DateInv, NodeDated
<1> QED
  BY <1>1, <1>2, ZenonT(60)

\* The node of core i in a clock of the cycle.
LEMMA DatedStep ==
  ASSUME NEW go, NEW inject, NEW read, Clock(go, inject, read), GateInv, DateInv,
         ~barrier.advance, NEW i \in Core
  PROVE  NodeDated(node'[i], top.cyc)
<1>1. PICK x, y, in, c : x = node[i] /\ y = node'[i] /\ in = InputOf(i, go) /\ c = top.cyc
  BY ZenonT(60)
<1>2. /\ GoodInput(i, x, in) /\ y = NextNode(i, x, in)
      /\ NodeInv(i, x) /\ NodeInv(i, y) /\ ~in.advance
  BY <1>1, NodesNext, ZenonT(60) DEF InputOf
<1>3. /\ CpuNext(i, x, in, y) /\ IoNext(i, x, in, y) /\ TxNext(i, x, in, y)
      /\ RxNext(x, in, y) /\ SfNext(i, x, in, y)
  BY <1>2, WorkerParts, IoParts, TxParts, RxParts, SfParts, ZenonT(60)
<1>4. /\ WorkerInv(i, x) /\ SendInv(i, x) /\ RecvInv(x) /\ RecvInv(y)
      /\ SlotHands(x) /\ SlotHands(y) /\ ArrayInv
  BY <1>2, HandsOfSlots, ZenonT(60) DEF NodeInv, RecvInv, Clock
<1>5. NodeDated(x, c) /\ CycleInv(x)
  BY <1>1, ZenonT(60) DEF DateInv, GateInv
<1>6. y.sf.mem = NextMem(x)
  BY <1>3, ZenonT(60) DEF SfNext
<1>7. y.io.cnt = c
  BY <1>2, <1>3, <1>5, ZenonT(60) DEF IoNext, NodeDated
<1>8. ASSUME y.io.pending, y.tx.st = "IDLE", ~y.tx.ack PROVE y.io.w0.p.n = c
  <2>1. Does(x, in, "d1")
    <3>1. x.tx.st \in {"IDLE", "DS0", "DS1"} /\ in.mready \in BOOLEAN
      BY <1>2, <1>4, ZenonT(60) DEF SendInv, GoodInput
    <3> QED
      BY <1>3, <1>8, <3>1, ZenonT(60) DEF TxNext, IoNext
  <2>2. x.cpu.op = "d1" /\ y.io.w0 = x.io.w0
    BY <1>3, <2>1, ZenonT(60) DEF Does, IoNext
  <2>3. x.io.w0.p.n = x.cpu.n
    <3>1. x.io.w0 = Word([src |-> i, dst |-> Program[i][x.cpu.k - 1].dst, n |-> x.cpu.n], 0)
      BY <1>4, <2>2, ZenonT(60) DEF SendInv
    <3> QED
      BY <3>1, SMTT(60) DEF Word
  <2>4. x.io.cnt = x.cpu.n
    BY <1>5, <2>2, ZenonT(60) DEF CycleInv
  <2> QED
    BY <1>5, <2>2, <2>3, <2>4, ZenonT(60) DEF NodeDated
<1>9. ASSUME y.tx.st # "IDLE" PROVE y.tx.w0.p.n = c
  <2>1. CASE x.tx.st = "IDLE"
    BY <1>3, <1>5, <1>9, <2>1, ZenonT(60) DEF TxNext, NodeDated
  <2>2. CASE x.tx.st # "IDLE"
    BY <1>3, <1>5, <2>2, ZenonT(60) DEF TxNext, NodeDated
  <2> QED
    BY <2>1, <2>2, ZenonT(60)
<1>10. RxCase(x, in, y) /\ x.rx.st \in {"IDLE", "RECV", "COMMIT"}
  <2>1. Fitting(x, in)
    BY <1>2, <1>4, ZenonT(60) DEF Fitting, GoodInput, RecvInv
  <2> QED
    BY <1>3, <1>4, <2>1, RxCases, ZenonT(60) DEF RecvInv
<1>11. ASSUME y.rx.st = "COMMIT" PROVE NextMem(y)[y.rx.slot][0].p.n = c
  <2>1. Continues(x, in)
    <3>1. ~Begins(x, in) /\ x.rx.st # "COMMIT"
      BY <1>10, <1>11, ZenonT(60) DEF RxCase
    <3> QED
      BY <1>10, <1>11, <3>1, ZenonT(60) DEF RxCase
  <2>2. /\ y.rx.slot = x.rx.slot /\ y.rx.wr.slot = y.rx.slot /\ y.rx.wr.off = 1
        /\ x.rx.st = "RECV" /\ y.rx.slot \in Slot
    BY <1>4, <1>10, <1>11, <2>1, ZenonT(60) DEF RxCase, Continues, SlotHands
  <2>3. NextMem(y)[y.rx.slot][0] = y.sf.mem[y.rx.slot][0]
    BY <1>4, <2>2, Written, SMTT(60)
  <2>4. PICK j : j = router.lk[i]
    BY ZenonT(60)
  <2>5. NextMem(x)[x.rx.slot][0] = Word(Sent(j), 0) /\ j # None /\ Phase(j) = 2
    BY <1>1, <1>4, <2>2, <2>4, ZenonT(60) DEF ArrayInv, LinkInv
  <2>6. j \in Port
    BY <1>4, <2>4, <2>5, CoreFacts, ZenonT(60) DEF ArrayInv, RouterInv
  <2>7. Sent(j).n = c
    BY <1>1, <1>4, <2>5, <2>6, SentDated, SMTT(60)
  <2>8. NextMem(y)[y.rx.slot][0] = Word(Sent(j), 0)
    BY <1>6, <2>2, <2>3, <2>5, ZenonT(60)
  <2> QED
    BY <2>7, <2>8, SMTT(60) DEF Word
<1>12. ASSUME y.rx.commit # 0 PROVE NextMem(y)[y.rx.commit][0].p.n = c
  <2>1. x.rx.st = "COMMIT"
    BY <1>10, <1>12, ZenonT(60) DEF RxCase
  <2>2. y.rx.wr.slot = 0 /\ y.rx.commit = x.rx.slot
    BY <1>10, <2>1, ZenonT(60) DEF RxCase
  <2>3. NextMem(y) = NextMem(x)
    BY <1>6, <2>2, ZenonT(60) DEF NextMem
  <2> QED
    BY <1>5, <2>1, <2>2, <2>3, ZenonT(60) DEF NodeDated
<1>13. ASSUME NEW s \in y.sf.ready PROVE NextMem(y)[s][0].p.n = c
  <2>1. s \in x.sf.ready \/ (s = x.rx.commit /\ s # 0)
    BY <1>3, ZenonT(60) DEF SfNext
  <2>2. NextMem(x)[s][0].p.n = c
    BY <1>5, <2>1, ZenonT(60) DEF NodeDated
  <2>3. s \in Slot /\ y.rx.wr.slot # s
    BY <1>4, CoreFacts, ZenonT(60) DEF SlotHands, RecvInv, Filling
  <2>4. NextMem(y)[s] = y.sf.mem[s]
    BY <1>4, <2>3, Written, ZenonT(60)
  <2> QED
    BY <1>6, <2>2, <2>4, ZenonT(60)
<1>14. IF y.cpu.op = "done" THEN y.cpu.val.p.n = c ELSE y.cpu.val = NoWord
  <2>1. CASE ~in.go
    <3>1. y.cpu = x.cpu
      BY <1>3, <2>1, ZenonT(60) DEF CpuNext
    <3> QED
      BY <1>5, <3>1, ZenonT(60) DEF NodeDated
  <2>2. CASE in.go
    <3>1. WorkerMoves(x, y)
      <4>1. InPlace(i, x) /\ y.cpu = NextCpu(i, x, in)
        BY <1>2, <1>4, NodeParts, ZenonT(60) DEF WorkerInv
      <4> QED
        BY <2>2, <4>1, NextMove, SMTT(60)
    <3>2. x.cpu.op \in {"limit", "busy", "cycle", "look", "take", "done", "w0", "d1",
                        "idle", "poll"}
      BY <1>4, PlaceFacts, ZenonT(60) DEF WorkerInv
    <3>3. CASE x.cpu.op = "take"
      <4>1. PICK s : s = x.cpu.slot
        BY ZenonT(60)
      <4>2. s \in x.sf.ready /\ y.cpu.op = "done" /\ y.cpu.val = x.sf.mem[s][1]
        <5>1. s \in x.sf.ready /\ y.cpu.op = "done"
          BY <1>4, <3>1, <3>3, <4>1, ZenonT(60) DEF WorkerInv, WorkerMoves
        <5>2. y.cpu.val = x.sf.mem[x.cpu.slot][1]
          BY <1>2, <2>2, <3>3, ValNext, SMTT(60)
        <5> QED
          BY <4>1, <5>1, <5>2, ZenonT(60)
      <4>3. s \in Slot /\ x.rx.wr.slot # s
        BY <1>4, <4>2, CoreFacts, ZenonT(60) DEF SlotHands, RecvInv, Filling
      <4>4. NextMem(x)[s] = x.sf.mem[s]
        BY <1>4, <4>3, Written, ZenonT(60)
      <4>5. Whole(i, x.sf.mem[s]) /\ x.sf.mem[s][0].p.n = c
        BY <1>1, <1>4, <1>5, <4>2, <4>4, ZenonT(60) DEF ArrayInv, LinkInv, NodeDated
      <4>6. y.cpu.val.p = x.sf.mem[s][0].p
        <5>1. y.cpu.val = Word(x.sf.mem[s][0].p, 1)
          BY <4>2, <4>5, ZenonT(60) DEF Whole
        <5> QED
          BY <5>1, SMTT(60) DEF Word
      <4> QED
        BY <4>2, <4>5, <4>6, ZenonT(60)
    <3>4. CASE x.cpu.op = "done"
      BY <1>2, <2>2, <3>1, <3>4, ValNext, ZenonT(60) DEF WorkerMoves
    <3>5. CASE x.cpu.op \notin {"take", "done"}
      <4>1. y.cpu.val = x.cpu.val /\ y.cpu.op # "done"
        <5>1. y.cpu.op # "done"
          BY <3>1, <3>2, <3>5, ZenonT(60) DEF WorkerMoves
        <5>2. y.cpu.val = x.cpu.val
          BY <1>2, <2>2, <3>5, ValNext, SMTT(60)
        <5> QED
          BY <5>1, <5>2, ZenonT(60)
      <4> QED
        BY <1>5, <3>5, <4>1, ZenonT(60) DEF NodeDated
    <3> QED
      BY <3>3, <3>4, <3>5, ZenonT(60)
  <2> QED
    BY <2>1, <2>2, ZenonT(60)
<1> QED
  BY <1>1, <1>7, <1>8, <1>9, <1>11, <1>12, <1>13, <1>14, ZenonT(60) DEF NodeDated

\* A clock edge keeps the dates.
LEMMA DateNext ==
  ASSUME ArrayInv, GateInv, DateInv, HostInStep, HostOnTime, [Next]_vars
  PROVE  DateInv'
<1>1. CASE Next
  <2>1. PICK go \in SUBSET Core, inject \in BOOLEAN, read \in BOOLEAN : Tick(go, inject, read)
    BY <1>1, ZenonT(60) DEF Next
  <2>2. Clock(go, inject, read)
    BY <2>1, ZenonT(60) DEF Clock
  <2>3. /\ HostDated'
        /\ top'.cyc = IF barrier.advance THEN top.cyc + 1 ELSE top.cyc
    BY <2>2, HostDatedNext, ZenonT(60) DEF DateInv
  <2>4. ASSUME NEW i \in Core PROVE NodeDated(node'[i], top'.cyc)
    <3>1. CASE barrier.advance
      BY <2>2, <2>3, <3>1, DatedAdvance, ZenonT(60) DEF DateInv
    <3>2. CASE ~barrier.advance
      BY <2>2, <2>3, <3>2, DatedStep, ZenonT(60)
    <3> QED
      BY <3>1, <3>2, ZenonT(60)
  <2> QED
    BY <2>3, <2>4, ZenonT(60) DEF DateInv
<1>2. CASE UNCHANGED vars
  BY <1>2, ZenonT(60) DEF vars, DateInv, HostDated
<1> QED
  BY <1>1, <1>2, ZenonT(60)

\* Out of reset there are no messages.
LEMMA DateInit ==
  ASSUME Init
  PROVE  DateInv
<1>1. PICK lim \in [Core -> Slot] : node = [i \in Core |-> ResetNode(lim[i])]
  BY DEF Init
<1>2. top.st = 0 /\ top.k = 0 /\ top.cyc = 0 /\ barrier.advance = FALSE
  BY ZenonT(60) DEF Init, ResetTop, ResetBarrier
<1>3. HostDated
  BY <1>2, SMTT(60) DEF HostDated
<1>4. ASSUME NEW i \in Core PROVE NodeDated(node[i], 0)
  <2>1. PICK x : x = node[i]
    BY ZenonT(60)
  <2>2. x = ResetNode(lim[i])
    BY <1>1, <2>1, ZenonT(60)
  <2>3. /\ x.io.cnt = 0 /\ x.io.pending = FALSE /\ x.cpu.op = "limit"
        /\ x.cpu.val = NoWord
    BY <2>2, ZenonT(60) DEF ResetNode
  <2>4. /\ x.tx.st = "IDLE" /\ x.rx.st = "IDLE" /\ x.rx.commit = 0 /\ x.sf.ready = {}
    BY <2>2, ZenonT(60) DEF ResetNode
  <2> QED
    BY <2>1, <2>3, <2>4, ZenonT(60) DEF NodeDated
<1> QED
  BY <1>2, <1>3, <1>4, ZenonT(60) DEF DateInv

\* Every message that a worker takes was sent in the worker's own cycle, by
\* whichever core or by the host, for every program, worker speed and hold time,
\* as long as the host has sent its input of the cycle, and nothing else, when the
\* barrier decides to fire (mb_barrier.sv 40-73, ldx_soc_mailbox.v 229-253).
THEOREM MessagesStayInStep == Spec /\ []HostInStep /\ []HostOnTime => []MessagesInStep
<1>1. Init => DateInv
  BY DateInit
<1>2. ArrayInv /\ GateInv /\ DateInv /\ HostInStep /\ HostOnTime /\ [Next]_vars => DateInv'
  BY DateNext, ZenonT(60)
<1>3. ASSUME GateInv, DateInv PROVE MessagesInStep
  <2>1. ASSUME NEW i \in Core, node[i].cpu.val # NoWord
        PROVE  node[i].cpu.val.p.n = node[i].cpu.n
    <3>1. CycleInv(node[i]) /\ NodeDated(node[i], top.cyc)
      BY <1>3, ZenonT(60) DEF GateInv, DateInv
    <3>2. /\ node[i].cpu.op = "done" /\ node[i].cpu.val.p.n = top.cyc
          /\ node[i].io.cnt = top.cyc
      BY <2>1, <3>1, ZenonT(60) DEF NodeDated
    <3>3. node[i].io.cnt = node[i].cpu.n
      BY <3>1, <3>2, ZenonT(60) DEF CycleInv
    <3> QED
      BY <3>2, <3>3, ZenonT(60)
  <2> QED
    BY <2>1, ZenonT(60) DEF MessagesInStep
<1> QED
  BY <1>1, <1>2, <1>3, ArrayInvariant, GateInvariant, PTL DEF Spec
=============================================================================
