------------------------------ MODULE Rewrite ------------------------------
(***************************************************************************)
(* python/riscv_rewrite.py, arm_rewrite.py and x86_rewrite.py: calls of    *)
(* chosen functions in an ELF file are overwritten by instructions that    *)
(* start an accelerator.                                                   *)
(*                                                                         *)
(* The text section is a sequence of units: halfwords (riscv), words (arm) *)
(* or bytes (x86).  A halfword is [op, rd, rs, imm]: what it means as the  *)
(* first half of an instruction, and its immediate bits as the second; a   *)
(* word is the same record.  The relative address of an x86 call takes one *)
(* byte instead of four.  Addresses have AddrBits bits, immediates fewer.  *)
(***************************************************************************)
EXTENDS Integers, Sequences, SequencesExt, FiniteSets, TLC

CONSTANTS FuncAddr,   \* address of every function the program calls
          PltFuncs,   \* those reached through the PLT, known to objdump
          SecFuncs,   \* of them, those x86 programs reach through .plt.sec
          Base,       \* address of the text section
          RwOptions,  \* command lines
          RwInsns,    \* instructions of each architecture's programs
          MaxInsns    \* bound: instructions of a program

AddrBits == 8
JalBits == 7          \* signed immediate of jal, bl and call
UpperBits == 4        \* immediate of auipc
LowBits == 3          \* signed immediate of jalr

Funcs == DOMAIN FuncAddr
UnitBytes(arch) == CASE arch = "riscv" -> 2 [] arch = "arm" -> 4 [] arch = "x86" -> 1
CALL == 40            \* 0xE8
UD2 == 15             \* 0x0F 0x0B
MOV == 2              \* an instruction with an immediate byte
H(op, rd, rs, imm) == [op |-> op, rd |-> rd, rs |-> rs, imm |-> imm]
Half(imm) == H("c", "-", "-", imm)

Address(arch, i) == Base + UnitBytes(arch) * (i - 1)
Addr(a) == a % 2^AddrBits
Signed(v, w) == IF v >= 2^(w - 1) THEN v - 2^w ELSE v
Field(v, w) == v % 2^w

(* What the assembler writes for an instruction at unit i.  "call" is jal, *)
(* bl or call; "far" auipc and jalr; "tail" the same without a return      *)
(* address; "mov" has the immediate n.  The rest stands for itself.        *)
Asm(arch, insn, i) ==
    LET delta == FuncAddr[insn.f] - Address(arch, i)
        upper == (delta + 2^(LowBits - 1)) \div 2^LowBits
        pair(rd) == <<H("auipc", "t1", "-", 0), Half(Field(upper, UpperBits)),
                      H("jalr", rd, "t1", 0), Half(Field(delta, LowBits))>>
    IN  CASE insn.k = "call" /\ arch = "riscv" ->
               <<H("jal", "ra", "-", 0), Half(Field(delta, JalBits))>>
          [] insn.k = "call" /\ arch = "arm" -> <<H("bl", "-", "-", Field(delta \div 4, JalBits))>>
          [] insn.k = "call" /\ arch = "x86" -> <<CALL, Field(delta - 2, JalBits)>>
          [] insn.k = "far" -> pair("ra")
          [] insn.k = "tail" -> pair("zero")
          [] OTHER -> insn.units

-----------------------------------------------------------------------------
(* The decoders.  auipc_imm takes the upper bits without their sign.       *)
auipc_imm(u, i) == u[i + 1].imm * 2^LowBits
jalr_imm(u, i) == Signed(u[i + 1].imm, LowBits)
jal_imm(u, i) == Signed(u[i + 1].imm, JalBits)
bl_offset(u, i) == 4 * Signed(u[i].imm, JalBits)
rel32(u, i) == Signed(u[i + 1], JalBits)

Site(i, f, len) == [at |-> i, f |-> f, len |-> len]
SiteAt(map, target, i, len) ==
    IF Addr(target) \in DOMAIN map THEN <<Site(i, map[Addr(target)], len)>> ELSE <<>>

(* Mutant of RiscvSites: every instruction is taken to have four bytes.    *)
RECURSIVE RiscvSitesAligned(_, _, _)
RiscvSitesAligned(u, map, i) ==
    IF i > Len(u) - 2 THEN <<>>
    ELSE (IF u[i].op = "jal" /\ u[i].rd = "ra"
          THEN SiteAt(map, Address("riscv", i) + jal_imm(u, i), i, 2) ELSE <<>>)
         \o RiscvSitesAligned(u, map, i + 2)

(* The instruction that starts in the last four bytes is not looked at.    *)
RECURSIVE RiscvSites(_, _, _)
RiscvSites(u, map, i) ==
    LET pc == Address("riscv", i)
        far == /\ u[i].op = "auipc" /\ i <= Len(u) - 3
               /\ u[i + 2].op = "jalr" /\ u[i + 2].rs = u[i].rd
    IN  IF i > Len(u) - 2 THEN <<>>
        ELSE IF u[i].op = "c" THEN RiscvSites(u, map, i + 1)
        ELSE (IF u[i].op = "jal" /\ u[i].rd = "ra"
              THEN SiteAt(map, pc + jal_imm(u, i), i, 2)
              ELSE IF far THEN SiteAt(map, pc + auipc_imm(u, i) + jalr_imm(u, i + 2), i, 4)
              ELSE <<>>)
             \o RiscvSites(u, map, i + 2)

ArmSites(u, map) ==
    FlattenSeq([i \in 1..Len(u) |->
        IF u[i].op = "bl" THEN SiteAt(map, Address("arm", i) + bl_offset(u, i), i, 1)
        ELSE <<>>])

(* Every byte is tried.                                                    *)
X86Sites(u, map) ==
    FlattenSeq([i \in 1..(Len(u) - 1) |->
        IF u[i] = CALL THEN SiteAt(map, Address("x86", i) + 2 + rel32(u, i), i, 2)
        ELSE <<>>])

find_call_sites(arch, u, map) ==
    CASE arch = "riscv" -> RiscvSites(u, map, 1)
      [] arch = "arm" -> ArmSites(u, map)
      [] arch = "x86" -> X86Sites(u, map)

(* The text with a site's call replaced: two instructions over a pair of   *)
(* auipc and jalr, one over a single call.                                 *)
Overwrite(u, at, new) ==
    [i \in DOMAIN u |-> IF i - at \in 0..(Len(new) - 1) THEN new[i - at + 1] ELSE u[i]]
custom_r(f) == <<H("custom_0", "a0", "a0", f), Half(0)>>
arm_udf(f) == <<H("udf", "-", "-", f)>>
x86_ud2_custom(f) == <<UD2, f>>
NOP == <<H("addi", "x0", "x0", 0), Half(0)>>

(* Mutant of RiscvPatched: the second instruction of a pair stays.         *)
PatchedFirst(u, s) == Overwrite(u, s.at, custom_r(s.f))

RiscvPatched(u, s) ==
    Overwrite(u, s.at, IF s.len = 2 THEN custom_r(s.f) ELSE custom_r(s.f) \o NOP)
ArmPatched(u, s) == Overwrite(u, s.at, arm_udf(s.f))
X86Patched(u, s) == Overwrite(u, s.at, x86_ud2_custom(s.f))
Patched(arch, u, s) ==
    CASE arch = "riscv" -> RiscvPatched(u, s)
      [] arch = "arm" -> ArmPatched(u, s)
      [] arch = "x86" -> X86Patched(u, s)

-----------------------------------------------------------------------------
(* The files the parsers accept, by machine and word size.                 *)
RiscVElf(file) == file.machine = "riscv"
AArch64Elf(file) == file.bits = 64 /\ file.machine = "arm"
X86Elf(file) == file.bits = 64 /\ file.machine = "x86"

(* The functions a run is about: those with a replacement, or for --scan   *)
(* every name there is.  On riscv these are the dynamic symbols; on arm    *)
(* and x86 the functions of the symbol tables and what objdump shows of    *)
(* the sections it was asked for (the first failure ends the asking).      *)
LocalFuncs == Funcs \ PltFuncs
Shown(arch, asked) ==
    (IF ".plt" \in asked THEN PltFuncs \ (IF arch = "x86" THEN SecFuncs ELSE {}) ELSE {})
        \cup (IF ".plt.sec" \in asked THEN SecFuncs ELSE {})
RiscvWanted(o) == IF o.scan THEN PltFuncs ELSE o.repl
ArmWanted(o, answered) ==
    IF o.scan THEN LocalFuncs \cup Shown("arm", answered \cap {".plt"}) ELSE o.repl
X86Wanted(o, answered) ==
    IF ~o.scan THEN o.repl
    ELSE LocalFuncs \cup IF ".plt" \in answered THEN Shown("x86", answered) ELSE {}

(* func_map: addresses of the functions wanted, from the symbol tables and *)
(* from objdump; on riscv the PLT's name wins, on arm and x86 the symbol's.*)
MapOf(fs) == [a \in {FuncAddr[f] : f \in fs} |-> CHOOSE f \in fs : FuncAddr[f] = a]
RiscvFuncMap(wanted, answered) ==
    MapOf(wanted \cap Shown("riscv", answered \cap {".plt"})) @@ MapOf(wanted \cap LocalFuncs)
ArmFuncMap(wanted, answered) ==
    MapOf(wanted \cap LocalFuncs) @@ MapOf(wanted \cap Shown("arm", answered \cap {".plt"}))
X86FuncMap(wanted, answered) ==
    MapOf(wanted \cap LocalFuncs) @@ MapOf(wanted \cap Shown("x86", answered))

-----------------------------------------------------------------------------
Option(scan, dry, repl) == [scan |-> scan, dry |-> dry, repl |-> repl]

VARIABLES rwArch, rwText,
          rwInsn,     \* the instructions of the text, with their places
          rwOpts,     \* the command line
          rwStep,
          rwMap,      \* func_map: address to function
          rwSites,    \* the call sites found
          rwOut       \* the output file

rwVars == <<rwArch, rwText, rwInsn, rwOpts, rwStep, rwMap, rwSites, rwOut>>

RwInit ==
    /\ rwArch = "none" /\ rwText = <<>> /\ rwInsn = {} /\ rwStep = "edit"
    /\ rwOpts = Option(FALSE, FALSE, {}) /\ rwMap = <<>> /\ rwSites = <<>> /\ rwOut = <<>>

Assemble(arch, insn) ==
    /\ rwStep = "edit" /\ rwArch \in {"none", arch} /\ Cardinality(rwInsn) < MaxInsns
    /\ rwArch' = arch
    /\ rwText' = rwText \o Asm(arch, insn, Len(rwText) + 1)
    /\ rwInsn' = rwInsn \cup {[at |-> Len(rwText) + 1, i |-> insn]}
    /\ UNCHANGED <<rwOpts, rwStep, rwMap, rwSites, rwOut>>

Invoke(o) ==
    /\ rwStep = "edit"
    /\ rwOpts' = o
    /\ rwStep' = "parse"
    /\ UNCHANGED <<rwArch, rwText, rwInsn, rwMap, rwSites, rwOut>>

(* The parser raises for a file of another kind; without replacements      *)
(* there is nothing to do.                                                 *)
Parse(tool, bits) ==
    LET file == [machine |-> rwArch, bits |-> bits]
        accepted == CASE tool = "riscv" -> RiscVElf(file)
                      [] tool = "arm" -> AArch64Elf(file)
                      [] tool = "x86" -> X86Elf(file)
    IN  /\ rwStep = "parse"
        /\ rwStep' = IF accepted /\ (rwOpts.scan \/ rwOpts.repl # {}) THEN "map" ELSE "failed"
        /\ UNCHANGED <<rwArch, rwText, rwInsn, rwOpts, rwMap, rwSites, rwOut>>

(* objdump runs to list the names and again for the map; either run may    *)
(* fail or take too long for some of the sections.                         *)
build_func_map(named, mapped) ==
    /\ rwStep = "map"
    /\ rwMap' = CASE rwArch = "riscv" -> RiscvFuncMap(RiscvWanted(rwOpts), mapped)
                  [] rwArch = "arm" -> ArmFuncMap(ArmWanted(rwOpts, named), mapped)
                  [] rwArch = "x86" -> X86FuncMap(X86Wanted(rwOpts, named), mapped)
    /\ rwStep' = "scan"
    /\ UNCHANGED <<rwArch, rwText, rwInsn, rwOpts, rwSites, rwOut>>

find_sites ==
    /\ rwStep = "scan"
    /\ rwSites' = find_call_sites(rwArch, rwText, rwMap)
    /\ rwStep' = IF rwOpts.scan THEN "listed" ELSE "rewrite"
    /\ UNCHANGED <<rwArch, rwText, rwInsn, rwOpts, rwMap, rwOut>>

(* The sites are patched in the order they were found; a dry run writes    *)
(* nothing.                                                                *)
rewrite ==
    /\ rwStep = "rewrite"
    /\ rwOut' = IF rwOpts.dry THEN <<>>
                ELSE FoldLeft(LAMBDA u, s : Patched(rwArch, u, s), rwText, rwSites)
    /\ rwStep' = "done"
    /\ UNCHANGED <<rwArch, rwText, rwInsn, rwOpts, rwMap, rwSites>>

RwNext ==
    \/ \E arch \in DOMAIN RwInsns : \E insn \in RwInsns[arch] : Assemble(arch, insn)
    \/ \E o \in RwOptions : Invoke(o)
    \/ \E tool \in DOMAIN RwInsns, bits \in {32, 64} : Parse(tool, bits)
    \/ \E named, mapped \in SUBSET {".plt", ".plt.sec"} : build_func_map(named, mapped)
    \/ find_sites
    \/ rewrite

-----------------------------------------------------------------------------
(* What a processor does with a text, jumping over its data: the functions *)
(* it enters, in software or in the accelerator.                           *)
Enters(a) == IF \E f \in Funcs : FuncAddr[f] = Addr(a)
             THEN <<CHOOSE f \in Funcs : FuncAddr[f] = Addr(a)>> ELSE <<"elsewhere">>
Does(len, events) == [len |-> len, events |-> events, ends |-> FALSE]
RiscvStep(u, i) ==
    LET pc == Address("riscv", i)
    IN  CASE u[i].op = "c" -> Does(1, <<>>)
          [] u[i].op = "jal" /\ u[i].rd = "ra" -> Does(2, Enters(pc + jal_imm(u, i)))
          [] u[i].op = "custom_0" -> Does(2, <<u[i].imm>>)
          [] u[i].op = "auipc" /\ u[i + 2].op = "jalr" ->
                [len |-> 4, ends |-> u[i + 2].rd = "zero",
                 events |-> Enters(pc + Signed(u[i + 1].imm, UpperBits) * 2^LowBits
                                      + jalr_imm(u, i + 2))]
          [] u[i].op = "jalr" -> Does(2, <<"elsewhere">>)
          [] OTHER -> Does(2, <<>>)
ArmStep(u, i) ==
    CASE u[i].op = "bl" -> Does(1, Enters(Address("arm", i) + bl_offset(u, i)))
      [] u[i].op = "udf" -> Does(1, <<u[i].imm>>)
      [] OTHER -> Does(1, <<>>)
X86Step(u, i) ==
    CASE i = Len(u) -> Does(1, <<>>)
      [] u[i] = CALL -> Does(2, Enters(Address("x86", i) + 2 + rel32(u, i)))
      [] u[i] = UD2 -> Does(2, <<u[i + 1]>>)
      [] u[i] = MOV -> Does(2, <<>>)
      [] OTHER -> Does(1, <<>>)
Step(arch, u, i) == CASE arch = "riscv" -> RiscvStep(u, i)
                      [] arch = "arm" -> ArmStep(u, i)
                      [] arch = "x86" -> X86Step(u, i)

RECURSIVE Trace(_, _, _, _)
Trace(arch, u, data, i) ==
    IF i > Len(u) THEN <<>>
    ELSE IF i \in data THEN Trace(arch, u, data, i + 1)
    ELSE LET s == Step(arch, u, i)
         IN  s.events \o IF s.ends THEN <<>> ELSE Trace(arch, u, data, i + s.len)

Starts(kinds) == {x.at : x \in {y \in rwInsn : y.i.k \in kinds}}
DataUnits == UNION {x.at .. (x.at + Len(x.i.units) - 1) : x \in {y \in rwInsn : y.i.k = "data"}}

(* A rewritten program enters the same functions in the same order, in     *)
(* software or in the accelerator, if nothing but a call looks like one:   *)
(* no data or immediate (every byte of an x86 text is tried) and no tail   *)
(* jump (find_call_sites does not look at the register of jalr).           *)
SameBehaviour ==
    rwStep = "done" /\ ~rwOpts.dry /\ {rwSites[i].at : i \in DOMAIN rwSites} \subseteq Starts({"call", "far"})
        => Trace(rwArch, rwOut, DataUnits, 1) = Trace(rwArch, rwText, DataUnits, 1)

(* Every call of a chosen function is found, and nothing else, in a text   *)
(* that is all code without tail jumps or immediates like the call's       *)
(* opcode, where riscv's last instruction is no call and its auipc pairs   *)
(* point forward: the scan keeps in step with instructions of two and four *)
(* bytes, and computes the targets of forward and backward calls.          *)
EveryCallFound ==
    rwStep \in {"done", "listed"} /\ Starts({"data", "tail", "mov"}) = {} =>
        {rwSites[i].at : i \in DOMAIN rwSites} =
           {x.at : x \in {y \in rwInsn :
               /\ y.i.k \in {"call", "far"}
               /\ FuncAddr[y.i.f] \in DOMAIN rwMap
               /\ y.i.k = "call" => rwArch # "riscv" \/ y.at + 1 < Len(rwText)
               /\ y.i.k = "far" => FuncAddr[y.i.f] - Address(rwArch, y.at) >= -(2^(LowBits - 1))}}

(* The rewriter changes where calls go and nothing else: the calls it      *)
(* patches are those it was asked for, and a patched program does what the *)
(* program did.                                                            *)
RewriteSound == SameBehaviour /\ EveryCallFound
=============================================================================
