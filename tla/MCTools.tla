------------------------------ MODULE MCTools ------------------------------
(***************************************************************************)
(* The tools that run beside the system rather than in it, for TLC: the    *)
(* C-to-Verilog scan, the binary rewriters, the placer and partitioner,    *)
(* the hardware the generators emit, and the build and deploy scripts.     *)
(* They share no state, so a behaviour picks one of them and runs it.      *)
(***************************************************************************)
EXTENDS MCAccelScan, MCRewrite, Placement, ProcMesh, AccelRtl, BuildFlows

VARIABLE job   \* the tool of this behaviour

MCHeldSets == {{}, {<<0, 0>>}}
MCNvcAddrs == {<<0, 0, 0>>, <<1, 0, 0>>, <<2, 0, 0>>, <<0, 3, 0>>}

vars == <<job, scanVars, rwVars, plVars, msVars, arVars, flVars>>

Init ==
    /\ job \in {"scan", "rewrite", "place", "mesh", "rtl", "flow"}
    /\ ScanInit /\ RwInit /\ PlInit /\ MsInit /\ ArInit /\ FlInit

Next ==
    \/ /\ job = "scan" /\ ScanNext
       /\ UNCHANGED <<job, rwVars, plVars, msVars, arVars, flVars>>
    \/ /\ job = "rewrite" /\ RwNext
       /\ UNCHANGED <<job, scanVars, plVars, msVars, arVars, flVars>>
    \/ /\ job = "place" /\ PlNext
       /\ UNCHANGED <<job, scanVars, rwVars, msVars, arVars, flVars>>
    \/ /\ job = "mesh" /\ MsNext
       /\ UNCHANGED <<job, scanVars, rwVars, plVars, arVars, flVars>>
    \/ /\ job = "rtl" /\ ArNext
       /\ UNCHANGED <<job, scanVars, rwVars, plVars, msVars, flVars>>
    \/ /\ job = "flow" /\ FlNext
       /\ UNCHANGED <<job, scanVars, rwVars, plVars, msVars, arVars>>

Spec == Init /\ [][Next]_vars
=============================================================================
