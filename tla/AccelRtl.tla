------------------------------ MODULE AccelRtl -----------------------------
(***************************************************************************)
(* The clocked designs that the ZCU104 scripts write: the memory core and  *)
(* the NVC acceleration core with their AXI-Lite slaves, the performance   *)
(* accelerator started by a push button, the minimal array, and the        *)
(* storage arrays of the scaling benchmark.  A step is a rising clock      *)
(* edge: every register takes its next value from the old ones.            *)
(*                                                                         *)
(* The AXI masters are external.  A master has one request outstanding per *)
(* channel, holds a request until it is taken and its address until the    *)
(* answer, and may be slow to give the data or to take the answer.  The    *)
(* memory core has one master that reads or writes; the NVC core takes     *)
(* reads and writes at the same time.                                      *)
(***************************************************************************)
EXTENDS Integers, Sequences, FiniteSets, TLC

CONSTANTS RtlDepth,    \* words of an array or stages of a shift register
          MemDepth,    \* words of the memory core
          RtlWords,    \* data words, strings
          MemAddrs,    \* byte addresses used on the memory core
          NvcAddrs,    \* <<core, page, word>> used on the NVC core
          NumCores,
          CounterMod,  \* counters wrap here instead of at 2^32
          TestLength,  \* cycles of the minimal array's test (50 in the code)
          MaxOps       \* bound: requests of a master, inputs of an array

X == "x"               \* a register before its first assignment
Zero == "0"

-----------------------------------------------------------------------------
(* The memory core: s is its registers, m the wires of the master, ready   *)
(* the master's bready and rready.  The counter of cycles is read as       *)
(* "cycles".                                                               *)
Low(a) == a % 256
Index(a) == (a \div 4) % MemDepth

memory_reset ==
    [st |-> "IDLE", awready |-> FALSE, wready |-> FALSE, bvalid |-> FALSE,
     arready |-> FALSE, rvalid |-> FALSE, rdata |-> X, control |-> Zero,
     mem |-> [i \in {Index(a) : a \in MemAddrs} |-> X], accesses |-> 0]

memory_read(s, a) ==
    CASE Low(a) = 0 -> s.control
      [] Low(a) = 4 -> "cycles"
      [] Low(a) = 8 -> s.accesses
      [] Low(a) = 12 -> "depth"
      [] Low(a) = 16 -> "width"
      [] OTHER -> s.mem[Index(a)]

memory_idle(s, m) ==
    CASE m.awvalid /\ s.awready ->
           [s EXCEPT !.st = "WRITE", !.awready = FALSE, !.wready = TRUE, !.arready = TRUE]
      [] ~(m.awvalid /\ s.awready) /\ m.arvalid /\ s.arready ->
           [s EXCEPT !.st = "READ", !.arready = FALSE, !.awready = TRUE,
                     !.rdata = memory_read(s, m.a), !.rvalid = TRUE, !.accesses = @ + 1]
      [] OTHER -> [s EXCEPT !.awready = TRUE, !.arready = TRUE]

memory_write(s, m, ready) ==
    LET took == m.wvalid /\ s.wready
        done == s.bvalid /\ ready
    IN  [s EXCEPT !.wready = @ /\ ~took,
                  !.control = IF took /\ Low(m.a) = 0 THEN m.d ELSE @,
                  !.mem = IF took /\ Low(m.a) # 0 THEN [@ EXCEPT ![Index(m.a)] = m.d] ELSE @,
                  !.accesses = IF took THEN @ + 1 ELSE @,
                  !.bvalid = (took \/ @) /\ ~done,
                  !.st = IF done THEN "IDLE" ELSE @]

(* Mutant of memory_answer: the answer stays on the wires.                 *)
memory_answer_Kept(s, ready) ==
    IF s.rvalid /\ ready THEN [s EXCEPT !.st = "IDLE"] ELSE s

memory_answer(s, ready) ==
    IF s.rvalid /\ ready THEN [s EXCEPT !.rvalid = FALSE, !.st = "IDLE"] ELSE s

memory_core(s, m, ready) ==
    CASE s.st = "IDLE" -> memory_idle(s, m)
      [] s.st = "WRITE" -> memory_write(s, m, ready)
      [] s.st = "READ" -> memory_answer(s, ready)

-----------------------------------------------------------------------------
(* The NVC core.  The decoded core and word of a read are wires from the   *)
(* register axi_araddr, which takes the address at the same edge: the read *)
(* uses the address of the read before it.                                 *)
nvc_reset ==
    [awready |-> TRUE, bvalid |-> FALSE, arready |-> TRUE, rvalid |-> FALSE,
     rdata |-> Zero, araddr |-> <<>>, mem |-> [a \in NvcAddrs |-> X],
     control |-> [c \in 0..(NumCores - 1) |-> 0], synth |-> [c \in 0..(NumCores - 1) |-> 0]]

nvc_write(s, m, ready) ==
    LET took == m.awvalid /\ m.wvalid /\ s.awready
        done == s.bvalid /\ ready
    IN  [s EXCEPT !.mem = IF took /\ m.a[1] < NumCores THEN [@ EXCEPT ![m.a] = m.d] ELSE @,
                  !.bvalid = IF done THEN FALSE ELSE took \/ @,
                  !.awready = IF done THEN TRUE ELSE @ /\ ~took]

(* core_memory[core_id][core_offset]; the core number loses its high bits. *)
nvc_word(s) ==
    IF s.araddr = <<>> THEN X
    ELSE LET a == <<s.araddr[1] % NumCores, s.araddr[2], s.araddr[3]>>
         IN  IF a \in NvcAddrs THEN s.mem[a] ELSE X

nvc_read(s, m, ready) ==
    LET took == m.arvalid /\ s.arready
        done == s.rvalid /\ ready
    IN  [s EXCEPT !.araddr = IF took THEN m.a ELSE @,
                  !.rdata = CASE ~took -> @
                              [] took /\ m.a[1] >= NumCores -> "DEADBEEF"
                              [] took /\ m.a[1] < NumCores /\ m.a[2] = 0 -> nvc_word(s)
                              [] took /\ m.a[1] < NumCores /\ m.a[2] = 1 -> "status"
                              [] took /\ m.a[1] < NumCores /\ m.a[2] = 2 -> "synth"
                              [] took /\ m.a[1] < NumCores /\ m.a[2] = 3 -> "counter",
                  !.rvalid = IF done THEN FALSE ELSE took \/ @,
                  !.arready = IF done THEN TRUE ELSE @ /\ ~took]

(* The cores run while their enable bit is set, which nothing sets.        *)
nvc_cores(s) ==
    [s EXCEPT !.synth = [c \in DOMAIN @ |-> IF s.control[c] % 2 = 1 THEN @[c] + 2 ELSE @[c]]]

-----------------------------------------------------------------------------
(* The performance accelerator: writes all words, reads them all, and      *)
(* latches its counters.  Datum n is n times the constant of the code.     *)
perf_reset(s) ==
    [s EXCEPT !.st = "IDLE", !.complete = FALSE, !.cycles_elapsed = 0,
              !.operations = 0, !.addr = 0, !.cycles = 0, !.ops = 0]

(* Mutant of perf_idle: the cycle counter runs on from the reset.          *)
perf_idle_Running(s, start) ==
    IF start THEN [s EXCEPT !.st = "WRITE", !.addr = 0, !.ops = 0, !.cycles = (@ + 1) % CounterMod]
    ELSE [s EXCEPT !.cycles = (@ + 1) % CounterMod]

perf_idle(s, start) ==
    IF start THEN [s EXCEPT !.st = "WRITE", !.addr = 0, !.ops = 0, !.cycles = 0]
    ELSE [s EXCEPT !.cycles = (@ + 1) % CounterMod]

perf_accelerator(s, start) ==
    LET last == s.addr = RtlDepth - 1
        on == [s EXCEPT !.cycles = (@ + 1) % CounterMod, !.ops = (@ + 1) % CounterMod,
                        !.addr = @ + 1]
    IN  CASE s.st = "IDLE" -> perf_idle(s, start)
          [] s.st = "WRITE" ->
               [on EXCEPT !.data = s.addr, !.mem = [@ EXCEPT ![s.addr] = s.data],
                          !.st = IF last THEN "READ" ELSE @, !.addr = IF last THEN 0 ELSE @]
          [] s.st = "READ" /\ ~last -> [on EXCEPT !.data = s.mem[s.addr]]
          [] s.st = "READ" /\ last ->
               [on EXCEPT !.data = s.mem[s.addr], !.st = "COMPLETE", !.complete = TRUE,
                          !.cycles_elapsed = s.cycles, !.operations = s.ops]
          [] s.st = "COMPLETE" -> [s EXCEPT !.cycles = (@ + 1) % CounterMod]

(* The top level: the button goes through three flip-flops; the test       *)
(* starts when the oldest is high and the middle one low.                  *)
zcu104_perf_top(s, rst, button) ==
    IF rst THEN [perf_reset(s) EXCEPT !.sync = <<FALSE, FALSE, FALSE>>, !.start = FALSE]
    ELSE [perf_accelerator(s, s.start)
            EXCEPT !.sync = <<button, s.sync[1], s.sync[2]>>, !.start = s.sync[3] /\ ~s.sync[2]]

perf_power_up ==
    perf_reset([st |-> X, complete |-> X, cycles_elapsed |-> X, operations |-> X, addr |-> X,
                cycles |-> X, ops |-> X, data |-> X, mem |-> [i \in 0..(RtlDepth - 1) |-> X],
                sync |-> <<FALSE, FALSE, FALSE>>, start |-> FALSE])

-----------------------------------------------------------------------------
(* The minimal array: while started, all cores complete an operation per   *)
(* cycle until the test's length is reached.                               *)
minimal_reset == [result |-> 0, done |-> FALSE, completed |-> 0, cycles |-> 0]

minimal_array(s, start) ==
    CASE start /\ ~s.done /\ s.cycles < TestLength ->
           [s EXCEPT !.cycles = @ + 1, !.completed = @ + NumCores]
      [] start /\ ~s.done /\ s.cycles >= TestLength ->
           [s EXCEPT !.cycles = @ + 1, !.done = TRUE, !.result = s.completed]
      [] OTHER -> s

-----------------------------------------------------------------------------
(* The storage arrays of the scaling benchmark.  Their memories are not    *)
(* reset, a shift register is.                                             *)
Slots == 0..(RtlDepth - 1)

array_memory(s, in) ==
    IF in.rst THEN [s EXCEPT !.out = Zero]
    ELSE [s EXCEPT !.cells = IF in.write_en THEN [@ EXCEPT ![in.addr] = in.data] ELSE @,
                   !.out = IF in.read_en THEN s.cells[in.addr] ELSE @]

array_register_file(s, in) ==
    IF in.rst THEN [s EXCEPT !.out = Zero]
    ELSE [s EXCEPT !.cells = IF in.write_en THEN [@ EXCEPT ![in.addr] = in.data] ELSE @,
                   !.out = s.cells[in.addr_b]]


array_shift_reg(s, in) ==
    IF in.rst THEN [s EXCEPT !.cells = [i \in Slots |-> Zero]]
    ELSE IF in.write_en
         THEN [s EXCEPT !.cells = [i \in Slots |-> IF i = 0 THEN in.data ELSE @[i - 1]]] ELSE s

-----------------------------------------------------------------------------
VARIABLES arDesign,   \* the design on the clock
          arS,        \* its registers
          arR, arW,   \* the masters of its read and write channels
          arSeen      \* words written to each address, or the inputs of an array

arVars == <<arDesign, arS, arR, arW, arSeen>>

Quiet == [a |-> X, d |-> X, awvalid |-> FALSE, wvalid |-> FALSE, arvalid |-> FALSE,
          op |-> FALSE, owes |-> FALSE, age |-> 0, expect |-> X, last |-> <<>>]

Designs == {"memory", "nvc", "perf", "minimal", "array_memory", "array_register_file",
            "array_shift_reg"}

Blank == [cells |-> [i \in Slots |-> X], out |-> X]

ArInit ==
    /\ arDesign = "none" /\ arS = Blank
    /\ arR = Quiet /\ arW = Quiet
    /\ arSeen = <<>>

(* A design comes out of reset.                                            *)
PowerUp(design) ==
    /\ arDesign = "none" /\ arDesign' = design
    /\ arS' = CASE design = "memory" -> memory_reset
                [] design = "nvc" -> nvc_reset
                [] design = "perf" -> perf_power_up
                [] design = "minimal" -> minimal_reset
                [] design = "array_memory" -> array_memory(Blank, [rst |-> TRUE])
                [] design = "array_register_file" -> array_register_file(Blank, [rst |-> TRUE])
                [] design = "array_shift_reg" -> array_shift_reg(Blank, [rst |-> TRUE])
    /\ UNCHANGED <<arR, arW, arSeen>>

(* The masters.  A write is taken when its data is.  The requests taken    *)
(* are kept, the newest first: <<"w", address, word>> or <<"r">>.          *)
WTaken == arW.wvalid /\ IF arDesign = "memory" THEN arS.wready ELSE arS.awready
RTaken == arR.arvalid /\ arS.arready

WriteMaster(ready, offer) ==
    IF arS.bvalid /\ ready THEN Quiet
    ELSE [arW EXCEPT !.awvalid = @ /\ ~arS.awready,
                     !.wvalid = (@ /\ ~WTaken) \/ (arW.owes /\ offer),
                     !.owes = @ /\ ~offer,
                     !.age = IF arW.op /\ ~arW.owes /\ ready THEN @ + 1 ELSE @]

Written(a) ==
    LET hits == {i \in DOMAIN arSeen : arSeen[i][1] = "w" /\ arSeen[i][2] = a}
    IN  IF hits = {} THEN X ELSE arSeen[CHOOSE i \in hits : \A j \in hits : i <= j][3]

ReadMaster(ready) ==
    IF arS.rvalid /\ ready THEN [Quiet EXCEPT !.last = <<arR.a>>]
    ELSE [arR EXCEPT !.arvalid = @ /\ ~arS.arready,
                     !.expect = IF RTaken THEN Written(arR.a) ELSE @,
                     !.age = IF arR.op /\ ready THEN @ + 1 ELSE @]

Taken == (IF WTaken THEN <<<<"w", arW.a, arW.d>>>> ELSE <<>>)
            \o (IF RTaken THEN <<<<"r">>>> ELSE <<>>) \o arSeen

StartWrite(m, a, d, both) ==
    [m EXCEPT !.a = a, !.d = d, !.awvalid = TRUE, !.wvalid = both, !.owes = ~both, !.op = TRUE]
StartRead(m, a) == [m EXCEPT !.a = a, !.arvalid = TRUE, !.op = TRUE]

(* Requests on their way count towards the bound.                          *)
Room(w, r) ==
    Len(arSeen') + (IF w.op /\ (w.owes \/ w.wvalid) THEN 1 ELSE 0)
                 + (IF r.arvalid THEN 1 ELSE 0) < MaxOps

MemoryClock(ready, offer) ==
    LET w == WriteMaster(ready, offer)
        r == ReadMaster(ready)
        wires == [awvalid |-> arW.awvalid, wvalid |-> arW.wvalid, arvalid |-> arR.arvalid,
                  a |-> IF arW.op THEN arW.a ELSE arR.a, d |-> arW.d]
    IN  /\ arDesign = "memory"
        /\ arS' = memory_core(arS, wires, ready)
        /\ arSeen' = Taken
        /\ \/ arW' = w /\ arR' = r
           \/ /\ ~w.op /\ ~r.op /\ Room(w, r)
              /\ \E a \in MemAddrs, d \in RtlWords, both \in BOOLEAN :
                    arW' = StartWrite(w, a, d, both)
              /\ arR' = r
           \/ /\ ~w.op /\ ~r.op /\ Room(w, r)
              /\ \E a \in MemAddrs : arR' = StartRead(r, a)
              /\ arW' = w
        /\ UNCHANGED arDesign

NvcClock(bready, rready) ==
    LET w == WriteMaster(bready, FALSE)
        r == ReadMaster(rready)
    IN  /\ arDesign = "nvc"
        /\ arS' = nvc_cores(nvc_write(nvc_read(arS, arR, rready), arW, bready))
        /\ arSeen' = Taken
        /\ \/ arW' = w
           \/ ~w.op /\ Room(w, r)
              /\ \E a \in NvcAddrs, d \in RtlWords : arW' = StartWrite(w, a, d, TRUE)
        /\ \/ arR' = r
           \/ ~r.op /\ Room(arW', r) /\ \E a \in NvcAddrs : arR' = StartRead(r, a)
        /\ UNCHANGED arDesign

PerfClock(rst, button) ==
    /\ arDesign = "perf"
    /\ arS' = zcu104_perf_top(arS, rst, button)
    /\ UNCHANGED <<arDesign, arR, arW, arSeen>>

MinimalClock(rst, start) ==
    /\ arDesign = "minimal"
    /\ arS' = IF rst THEN minimal_reset ELSE minimal_array(arS, start)
    /\ UNCHANGED <<arDesign, arR, arW, arSeen>>

(* The inputs of an array are kept, the newest first.                      *)
ArrayInputs ==
    CASE arDesign = "array_memory" ->
           [rst : BOOLEAN, write_en : BOOLEAN, read_en : BOOLEAN, addr : Slots, data : RtlWords]
      [] arDesign = "array_register_file" ->
           [rst : BOOLEAN, write_en : BOOLEAN, addr : Slots, addr_b : Slots, data : RtlWords]
      [] arDesign = "array_shift_reg" -> [rst : BOOLEAN, write_en : BOOLEAN, data : RtlWords]
      [] OTHER -> {}

ArrayClock(in) ==
    /\ Len(arSeen) < MaxOps
    /\ arS' = CASE arDesign = "array_memory" -> array_memory(arS, in)
                [] arDesign = "array_register_file" -> array_register_file(arS, in)
                [] arDesign = "array_shift_reg" -> array_shift_reg(arS, in)
    /\ arSeen' = <<in>> \o arSeen
    /\ UNCHANGED <<arDesign, arR, arW>>

ArNext ==
    \/ \E design \in Designs : PowerUp(design)
    \/ \E ready, offer \in BOOLEAN : MemoryClock(ready, offer)
    \/ \E bready, rready \in BOOLEAN : NvcClock(bready, rready)
    \/ \E rst, button \in BOOLEAN : PerfClock(rst, button)
    \/ \E rst, start \in BOOLEAN : MinimalClock(rst, start)
    \/ \E in \in ArrayInputs : ArrayClock(in)

-----------------------------------------------------------------------------
(* What a master sees of the AXI slaves: an answer is given only to a      *)
(* request whose address and data were taken, a write and a read are       *)
(* answered within four cycles in which the master is not the one that     *)
(* waits, a word of the memory core reads as it was last written (on the   *)
(* NVC core: the second of two reads of one address does), and the memory  *)
(* core has counted every access.                                          *)
Readable(a) ==
    IF arDesign = "memory" THEN Low(a) \notin {4, 8, 12, 16}
    ELSE a[1] < NumCores /\ a[2] = 0 /\ arR.last = <<a>>

AxiAnswers ==
    arDesign \in {"memory", "nvc"} =>
      /\ arS.bvalid => arW.op /\ ~arW.awvalid /\ ~arW.wvalid /\ ~arW.owes
      /\ arS.rvalid => arR.op /\ ~arR.arvalid
      /\ arS.rvalid /\ Readable(arR.a) =>
           (arS.rdata = arR.expect \/ (arDesign = "memory" /\ Low(arR.a) = 0 /\ arR.expect = X /\ arS.rdata = Zero))
      /\ arW.age < 4 /\ arR.age < 4
      /\ arDesign = "memory" => arS.accesses = Len(arSeen)

(* A completed test of the performance accelerator has counted as many     *)
(* cycles as operations, one less than it made, whenever the button and    *)
(* the reset came, and each word but the first holds the datum of the word *)
(* before it; a completed test of the minimal array has counted an         *)
(* operation per core and cycle, however often the start was withdrawn.    *)
PerfCounts ==
    /\ arDesign = "perf" /\ arS.complete =>
         /\ arS.cycles_elapsed = 2 * RtlDepth - 1 /\ arS.operations = 2 * RtlDepth - 1
         /\ \A i \in 1..(RtlDepth - 1) : arS.mem[i] = i - 1
    /\ arDesign = "minimal" /\ arS.done => arS.result = TestLength * NumCores

(* A storage array gives what it was given: a memory or a register file    *)
(* the word that was there before the cycle of the read, a shift register  *)
(* the word of RtlDepth shifts ago, zero when a reset came since.          *)
ArraysRecall ==
    LET seen(P(_)) == {i \in DOMAIN arSeen : P(arSeen[i])}
        first(S) == CHOOSE i \in S : \A j \in S : i <= j
        reads == seen(LAMBDA in : in.rst \/ arDesign = "array_register_file" \/ in.read_en)
        word(i, a) == LET w == {j \in (i + 1)..Len(arSeen) : ~arSeen[j].rst /\ arSeen[j].write_en
                                                               /\ arSeen[j].addr = a}
                      IN  IF w = {} THEN X ELSE arSeen[first(w)].data
        at(i) == IF arDesign = "array_memory" THEN arSeen[i].addr ELSE arSeen[i].addr_b
        fresh == {i \in DOMAIN arSeen : \A j \in 1..i : ~arSeen[j].rst}
        shifts == {i \in fresh : arSeen[i].write_en}
        nth == {i \in shifts : Cardinality({j \in shifts : j <= i}) = RtlDepth}
    IN  /\ arDesign \in {"array_memory", "array_register_file"} =>
             arS.out = IF reads = {} THEN Zero
                       ELSE IF arSeen[first(reads)].rst THEN Zero
                       ELSE word(first(reads), at(first(reads)))
        /\ arDesign = "array_shift_reg" =>
             arS.cells[RtlDepth - 1] = IF nth = {} THEN Zero ELSE arSeen[first(nth)].data

=============================================================================
