------------------------------ MODULE BuildFlows ------------------------------
(***************************************************************************)
(* The scripts of examples/rtl-sim that generate sources, run Vivado,      *)
(* iverilog, Verilator, nvc or a cross compiler on them, program the board *)
(* and report success.  They all have one shape: a list of steps over      *)
(* files at fixed paths, most of them under /tmp, that outlive the script. *)
(* A definition below is one function of a script: the sequence of steps   *)
(* it takes, its early returns being the steps a failure skips.            *)
(*                                                                         *)
(* What a file holds is reduced to the question the reports depend on: was *)
(* it made by this invocation for the configuration now being built, or is *)
(* it Old, which stands for everything else (an earlier invocation, another *)
(* configuration, a file cut short by a kill).  The scripts share no file  *)
(* but one and no state but the board, which may hold anything when one of *)
(* them starts, so each behaviour is a series of invocations of one script. *)
(***************************************************************************)
EXTENDS Integers, Sequences, FiniteSets

CONSTANTS FlowScripts, \* the scripts a behaviour chooses from
          FlowConfigs  \* how many configurations (sizes, circuits, modules) a script loops over

VARIABLES flScript,  \* the script of this behaviour, "none" before the first invocation
          flCfg,     \* the configuration being built; 0 when no invocation runs
          flPc,      \* the next step of the program for that configuration
          flFiles,   \* the files that exist, each with what it was made for
          flBoard,   \* what the board is programmed with
          flClaims   \* the claims the invocation has printed about this configuration

flVars == <<flScript, flCfg, flPc, flFiles, flBoard, flClaims>>

Old == 0

(***************************************************************************)
(* Steps.  skip is the number of steps a failure passes over; End passes   *)
(* over the rest of the configuration.                                     *)
(***************************************************************************)
End == 99

Write(f) == <<[kind |-> "write", file |-> f]>>
Cached(f) == <<[kind |-> "cached", file |-> f]>>
Needs(f, skip) == <<[kind |-> "needs", file |-> f, skip |-> skip]>>
Raise == <<[kind |-> "raise"]>>
Fresh(fs) == <<[kind |-> "fresh", files |-> fs]>>
Claim(fs) == <<[kind |-> "claim", files |-> fs, board |-> FALSE]>>
ClaimBoard(fs) == <<[kind |-> "claim", files |-> fs, board |-> TRUE]>>

\* A tool reads files, writes others in order, and is believed when it passes the tests in accept:
\* its return code ("rc"), a line its script prints last ("out"), its last output existing ("file").
Tool(reads, writes, accept, skip) ==
    <<[kind |-> "tool", reads |-> reads, writes |-> writes, accept |-> accept, skip |-> skip]>>
Program(script, f, skip) == <<[kind |-> "program", reads |-> {script, f}, file |-> f, skip |-> skip]>>

(***************************************************************************)
(* fpga_build_system.py: one core for one target.                          *)
(***************************************************************************)
fb_create_nvc_accel_core == Write("fb.v")
fb_create_constraints == Write("fb.xdc")
fb_create_build_tcl == <<"fb.synth.dcp", "fb.impl.dcp", "fb.bit", "fb.xsa">>
fb_build_accelerator ==
    fb_create_nvc_accel_core \o fb_create_constraints \o Write("fb.tcl")
    \o Tool({"fb.v", "fb.xdc", "fb.tcl"}, fb_create_build_tcl, {"rc"}, End)
    \o Claim({"fb.bit", "fb.xsa"})
fb_program_fpga == Write("fb.prog") \o Program("fb.prog", "fb.bit", End) \o ClaimBoard({"fb.bit"})
fb_main == fb_build_accelerator \o fb_program_fpga

(***************************************************************************)
(* zcu104_hardware_deploy.py: several memory and register file             *)
(* configurations, each built, programmed and given a test program.  The   *)
(* SoC wrapper has one path for all of them.                               *)
(***************************************************************************)
hd_create_acceleration_soc == Write("hd.soc") \o Write("hd.accel")
hd_create_vivado_project == <<"hd.synth", "hd.bit", "hd.xsa">>
hd_build_bitstream ==
    Write("hd.tcl")
    \o Tool({"hd.soc", "hd.accel", "hd.tcl"}, hd_create_vivado_project, {"rc", "out"}, End)
    \o Claim({"hd.bit"})
hd_deploy_to_hardware == Write("hd.prog") \o Program("hd.prog", "hd.bit", End) \o ClaimBoard({"hd.bit"})
hd_test_hardware_performance == Write("hd.test") \o Claim({"hd.bit", "hd.test"})
hd_run_deployment_sequence ==
    hd_create_acceleration_soc \o hd_build_bitstream \o hd_deploy_to_hardware
    \o hd_test_hardware_performance

(***************************************************************************)
(* deploy_zcu104.py: goes on in simulation mode when the bitstream or the  *)
(* programming fails.  vexriscv_accel.v is written by the Tcl script.      *)
(***************************************************************************)
dz_check_board_access == Tool({}, <<>>, {"rc"}, End)
dz_generate_vexriscv_bitstream ==
    Tool({}, <<>>, {"rc"}, 5) \o Write("dz.tcl") \o Tool({"dz.tcl"}, <<"dz.v", "dz.bit">>, {"rc", "file"}, 3)
dz_program_fpga == Write("dz.prog") \o Program("dz.prog", "dz.bit", 1) \o ClaimBoard({"dz.bit"})
dz_deploy_synthesis_modules ==
    Cached("dz.counter.c") \o Tool({}, <<"dz.counter.c">>, {"rc"}, End)
    \o Tool({}, <<"dz.exe">>, {"rc"}, End) \o Claim({"dz.exe"})
dz_main ==
    dz_check_board_access \o dz_generate_vexriscv_bitstream \o dz_program_fpga
    \o dz_deploy_synthesis_modules

(***************************************************************************)
(* zcu104_streamlined_deploy.py, and zcu104_fixed_constraints.py, which    *)
(* builds again with other pins and takes as its input whatever            *)
(* accelerator an invocation of the streamlined script left behind.        *)
(***************************************************************************)
sl_create_performance_accelerator == Write("sl.accel") \o Write("sl.top")
sl_create_constraints == Write("sl.xdc")
sl_create_build_script == Write("sl.tcl")
sl_build_performance_bitstream ==
    Tool({"sl.accel", "sl.top", "sl.xdc", "sl.tcl"}, <<"sl.bit">>, {"rc", "out", "file"}, End)
    \o Claim({"sl.bit"})
sl_create_deployment_guide == Write("sl.guide")
sl_run_streamlined_deployment ==
    sl_create_performance_accelerator \o sl_create_constraints \o sl_create_build_script
    \o sl_build_performance_bitstream \o sl_create_deployment_guide
    \o Write("sl.results") \o Claim({"sl.bit", "sl.guide", "sl.results"})

fx_create_fixed_toplevel == Write("fx.top")
fx_create_correct_zcu104_constraints == Write("fx.xdc")
fx_create_fixed_build_script ==
    fx_create_fixed_toplevel \o fx_create_correct_zcu104_constraints \o Write("fx.tcl")
fx_main ==
    fx_create_fixed_build_script \o Needs("sl.accel", End)
    \o Tool({"fx.top", "fx.xdc", "fx.tcl"}, <<"fx.bit">>, {"rc", "out"}, End)
    \o Claim({"fx.bit"})

(***************************************************************************)
(* zcu104_minimal_deploy.py: simulation, then synthesis only.              *)
(***************************************************************************)
mn_create_simple_accelerator == Write("mn.v") \o Write("mn.tb")
mn_test_with_iverilog ==
    Tool({"mn.v", "mn.tb"}, <<"mn.sim">>, {"rc"}, End)
    \o Tool({"mn.sim"}, <<"mn.simlog">>, {"rc"}, End) \o Claim({"mn.simlog"})
mn_create_synthesis_test == Write("mn.tcl")
mn_run_synthesis_test == Tool({"mn.v", "mn.tcl"}, <<"mn.util">>, {"rc", "out"}, End)
mn_create_performance_comparison == Write("mn.perf")
mn_run_minimal_test_sequence ==
    mn_create_simple_accelerator \o mn_test_with_iverilog \o mn_create_synthesis_test
    \o mn_run_synthesis_test \o mn_create_performance_comparison \o Claim({"mn.util", "mn.perf"})

(***************************************************************************)
(* vexriscv_build.py: a module cross compiled, linked with a start-up file *)
(* and a linker script whose names are the same for every module.          *)
(***************************************************************************)
vx_create_core_linkerscript == Write("vx.ld")
vx_create_startup_code == Write("vx.start.s")
vx_compile_synthesis_module(out) ==
    vx_create_core_linkerscript \o vx_create_startup_code
    \o Tool({}, <<out \o ".o">>, {"rc"}, End)
    \o Tool({"vx.start.s"}, <<out \o "_start.o">>, {"rc"}, End)
    \o Tool({"vx.ld", out \o ".o", out \o "_start.o"}, <<out \o ".elf">>, {"rc"}, End)
    \o Tool({out \o ".elf"}, <<out \o ".bin">>, {"rc"}, End)
    \o Claim({out \o ".elf", out \o ".bin"})
vx_deploy_to_fpga_cores == vx_compile_synthesis_module("vx.core_0") \o Claim({"vx.core_0.bin"})
vx_test_vexriscv_deployment ==
    Tool({}, <<>>, {"rc"}, End) \o Needs("vx.counter.c", End)
    \o vx_compile_synthesis_module("vx.test") \o vx_deploy_to_fpga_cores

(***************************************************************************)
(* array_scaling_benchmark.py and validate_array_synthesis.py: synthesis   *)
(* of one array after another.  The benchmark splits Vivado's output at a  *)
(* backslash followed by an n, so that the whole output is one line and    *)
(* unpacking what follows its first colon raises: the steps after Raise    *)
(* are in the code and never taken.                                        *)
(***************************************************************************)
as_parse_synthesis_results == Raise
as_synthesize_config ==
    Write("as.v") \o Write("as.tcl")
    \o Tool({"as.v", "as.tcl"}, <<"as.util", "as.timing">>, {"rc"}, End)
    \o as_parse_synthesis_results \o Claim({"as.util"})
as_run_nvc_benchmark ==
    Write("as.vhdl") \o Tool({"as.vhdl"}, <<"as.lib">>, {"rc"}, End)
    \o Tool({"as.lib"}, <<"as.elab">>, {"rc"}, End) \o Tool({"as.elab"}, <<"as.time">>, {"rc"}, End)
as_run_comprehensive_benchmark == as_synthesize_config \o as_run_nvc_benchmark \o Claim({"as.time"})

va_test_array_synthesis ==
    Write("va.v") \o Write("va.tcl")
    \o Tool({"va.v", "va.tcl"}, <<"va.netlist">>, {"rc", "out"}, End) \o Claim({"va.netlist"})

(***************************************************************************)
(* verilator_vs_nvc_benchmark.py: each circuit timed three times under     *)
(* both simulators, in a new temporary directory each time; the averages   *)
(* are over the times measured for this circuit.                           *)
(* zcu104_performance_baseline.py: nvc alone, over array sizes.            *)
(***************************************************************************)
vs_run_verilator_benchmark ==
    Fresh({"vs.v", "vs.cpp", "vs.exe"}) \o Write("vs.v") \o Write("vs.cpp")
    \o Tool({"vs.v", "vs.cpp"}, <<"vs.exe">>, {"rc"}, 2) \o Tool({"vs.exe"}, << >>, {"rc"}, 1)
    \o Write("vs.verilator_times")
vs_run_nvc_benchmark ==
    Fresh({"vs.vhdl", "vs.tb", "vs.lib", "vs.libtb", "vs.elab"}) \o Write("vs.vhdl") \o Write("vs.tb")
    \o Tool({"vs.vhdl"}, <<"vs.lib">>, {"rc"}, 4) \o Tool({"vs.tb"}, <<"vs.libtb">>, {"rc"}, 3)
    \o Tool({"vs.lib", "vs.libtb"}, <<"vs.elab">>, {"rc"}, 2) \o Tool({"vs.elab"}, << >>, {"rc"}, 1)
    \o Write("vs.nvc_times")
vs_one_run == vs_run_verilator_benchmark \o vs_run_nvc_benchmark
vs_run_comparative_benchmark ==
    Fresh({"vs.verilator_times", "vs.nvc_times"}) \o vs_one_run \o vs_one_run \o vs_one_run
    \o Needs("vs.verilator_times", End) \o Needs("vs.nvc_times", End)
    \o Claim({"vs.verilator_times", "vs.nvc_times"})

pb_run_nvc_performance_test ==
    Write("pb.vhdl") \o Tool({"pb.vhdl"}, <<"pb.lib">>, {"rc"}, End)
    \o Tool({"pb.lib"}, <<"pb.elab">>, {"rc"}, End) \o Tool({"pb.elab"}, <<"pb.log">>, {"rc", "out"}, End)
pb_run_baseline_comparison == pb_run_nvc_performance_test \o Claim({"pb.log"})

(***************************************************************************)
(* The scripts.                                                            *)
(***************************************************************************)
Flow == [fb |-> fb_main, hd |-> hd_run_deployment_sequence, dz |-> dz_main,
         sl |-> sl_run_streamlined_deployment, fx |-> fx_main, mn |-> mn_run_minimal_test_sequence,
         vx |-> vx_test_vexriscv_deployment, as |-> as_run_comprehensive_benchmark,
         va |-> va_test_array_synthesis, vs |-> vs_run_comparative_benchmark,
         pb |-> pb_run_baseline_comparison]

Configurations(s) == IF s \in {"hd", "as", "va", "vs", "pb"} THEN FlowConfigs ELSE 1

\* the files whose path does not name the configuration
Shared == {"hd.soc", "vs.verilator_times", "vs.nvc_times"}
Path(f) == <<f, IF f \in Shared THEN 0 ELSE flCfg>>

\* files a script does not make itself and may find or not find
Leftovers(s) == CASE s = "fx" -> {<<"sl.accel", 1>>} [] s = "vx" -> {<<"vx.counter.c", 1>>} [] OTHER -> {}

InProgress == flCfg # 0
Steps == Flow[flScript]
CurrentStep == Steps[flPc]
At(kind) == InProgress /\ flPc <= Len(Steps) /\ CurrentStep.kind = kind

Exists(f) == Path(f) \in DOMAIN flFiles
IsCurrent(f) == Exists(f) /\ flFiles[Path(f)] = flCfg
Put(fs, v) == [p \in DOMAIN flFiles \cup {Path(f) : f \in fs} |->
                  IF p \in {Path(f) : f \in fs} THEN v ELSE flFiles[p]]
Skip(n) == flPc' = IF flPc + 1 + n <= Len(Steps) THEN flPc + 1 + n ELSE Len(Steps) + 1
Prefix(q, n) == {q[i] : i \in 1..n}

(***************************************************************************)
(* What the steps do.                                                      *)
(***************************************************************************)
FlInit == /\ flScript = "none" /\ flCfg = 0 /\ flPc = 1
          /\ flFiles = << >> /\ flBoard = Old /\ flClaims = {}

\* Whatever lies at the paths, and on the board, is old to a new invocation.
InvokeScript(s, found) ==
    /\ ~InProgress /\ flScript \in {"none", s}
    /\ flScript' = s /\ flCfg' = 1 /\ flPc' = 1
    /\ flFiles' = [p \in DOMAIN flFiles \cup found |-> Old]
    /\ flBoard' = Old /\ flClaims' = {}

WriteFile ==
    /\ At("write") /\ flFiles' = Put({CurrentStep.file}, flCfg) /\ Skip(0)
    /\ UNCHANGED <<flScript, flCfg, flBoard, flClaims>>

\* generated only when it is not there yet
UseCached ==
    /\ At("cached") /\ Skip(IF Exists(CurrentStep.file) THEN 1 ELSE 0)
    /\ UNCHANGED <<flScript, flCfg, flFiles, flBoard, flClaims>>

Require ==
    /\ At("needs") /\ Skip(IF Exists(CurrentStep.file) THEN 0 ELSE CurrentStep.skip)
    /\ UNCHANGED <<flScript, flCfg, flFiles, flBoard, flClaims>>

\* a new temporary directory, an empty list
StartEmpty ==
    /\ At("fresh") /\ Skip(0)
    /\ LET gone == {Path(f) : f \in CurrentStep.files}
       IN flFiles' = [p \in DOMAIN flFiles \ gone |-> flFiles[p]]
    /\ UNCHANGED <<flScript, flCfg, flBoard, flClaims>>

RaiseError == /\ At("raise") /\ Skip(End) /\ UNCHANGED <<flScript, flCfg, flFiles, flBoard, flClaims>>

\* subprocess.run: the tool ends well, ends in error after some of its outputs, or is timed out or
\* not found, which raises.  What it left behind without ending well is nobody's product.
RunTool(how, n) ==
    /\ At("tool") /\ n \in 0..Len(CurrentStep.writes) /\ (how = "done" => n = Len(CurrentStep.writes))
    /\ LET good == how = "done" /\ \A f \in CurrentStep.reads : IsCurrent(f)
           made == Put(Prefix(CurrentStep.writes, n), IF good THEN flCfg ELSE Old)
           believed == /\ how # "raised"
                       /\ (CurrentStep.accept \cap {"rc", "out"} # {} => how = "done")
                       /\ ("file" \in CurrentStep.accept => Path(CurrentStep.writes[Len(CurrentStep.writes)]) \in DOMAIN made)
       IN flFiles' = made /\ Skip(IF believed THEN 0 ELSE CurrentStep.skip)
    /\ UNCHANGED <<flScript, flCfg, flBoard, flClaims>>

\* Vivado's hardware manager: it may fail before, during or after the board took the bitstream.
ProgramBoard(ok, left) ==
    /\ At("program") /\ left \in {flBoard, Old}
    /\ flBoard' = IF ok THEN flFiles[Path(CurrentStep.file)] ELSE left
    /\ Skip(IF ok THEN 0 ELSE CurrentStep.skip)
    /\ UNCHANGED <<flScript, flCfg, flFiles, flClaims>>

Report ==
    /\ At("claim") /\ flClaims' = flClaims \cup {CurrentStep} /\ Skip(0)
    /\ UNCHANGED <<flScript, flCfg, flFiles, flBoard>>

\* the next configuration of the loop, or the end of the invocation
NextConfiguration ==
    /\ InProgress /\ flPc = Len(Steps) + 1
    /\ flCfg' = IF flCfg < Configurations(flScript) THEN flCfg + 1 ELSE 0
    /\ flPc' = 1 /\ flClaims' = {}
    /\ UNCHANGED <<flScript, flFiles, flBoard>>

\* The script is killed; the step it was in leaves any prefix of its outputs.
Kill ==
    /\ InProgress /\ flPc <= Len(Steps)
    /\ flCfg' = 0 /\ flPc' = 1 /\ flClaims' = {}
    /\ LET outs == CASE CurrentStep.kind = "write" -> <<CurrentStep.file>> [] CurrentStep.kind = "tool" -> CurrentStep.writes [] OTHER -> << >>
       IN \E n \in 0..Len(outs) : flFiles' = Put(Prefix(outs, n), Old)
    /\ UNCHANGED <<flScript, flBoard>>

FlNext ==
    \/ \E s \in FlowScripts : \E found \in SUBSET Leftovers(s) : InvokeScript(s, found)
    \/ WriteFile \/ UseCached \/ Require \/ StartEmpty \/ RaiseError \/ Report \/ NextConfiguration \/ Kill
    \/ \E how \in {"done", "error", "raised"}, n \in 0..4 : RunTool(how, n)
    \/ \E ok \in BOOLEAN, left \in {flBoard, Old} : ProgramBoard(ok, left)

===============================================================================
