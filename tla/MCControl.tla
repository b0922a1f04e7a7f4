----------------------------- MODULE MCControl -----------------------------
(***************************************************************************)
(* The run-time parts of ldx for TLC: the library that redirects and hooks *)
(* the calls of a program, a program whose system calls go to a server     *)
(* while ldx-ctl moves its pipes, and the controller with its topology.    *)
(* They share no state, so a behaviour is one of a single part.            *)
(***************************************************************************)
EXTENDS MCController, MCRemoteCalls, Hooks

VARIABLE part

MCVars == <<part, vars, rcVars, hkVars>>

\* A lazily bound JUMP_SLOT and a GLOB_DAT of one symbol in one object, and a
\* slot of another symbol.
MCSlots ==
    <<[sym |-> 1, obj |-> "main", lazy |-> TRUE],
      [sym |-> 2, obj |-> "main", lazy |-> FALSE],
      [sym |-> 1, obj |-> "main", lazy |-> FALSE]>>

MCTargets == {[sym |-> 1, lib |-> "*"], [sym |-> 1, lib |-> "libm"],
              [sym |-> 2, lib |-> "*"]}

MCInit ==
    /\ part \in {"topology", "calls", "hooks"} /\ Init /\ RcInit /\ HkInit
    /\ part # "topology" => file = NoFile

MCNext ==
    \/ part = "topology" /\ Next /\ UNCHANGED <<part, rcVars, hkVars>>
    \/ part = "calls" /\ RcNext /\ UNCHANGED <<part, vars, hkVars>>
    \/ part = "hooks" /\ HkNext /\ UNCHANGED <<part, vars, rcVars>>

MCSpec == MCInit /\ [][MCNext]_MCVars
=============================================================================
