-------------------------- MODULE MCShmCollective --------------------------
(***************************************************************************)
(* Instances of ShmCollective for TLC.                                     *)
(***************************************************************************)
EXTENDS ShmCollective

CallOf(op, count, bytes, root) ==
  [op |-> op, count |-> count, bytes |-> bytes, root |-> root]

\* A reduction, broadcasts from two roots, a barrier and a payload that is
\* one byte too large for the slots.
MCCalls ==
  {CallOf("SUM", 1, 1, 0), CallOf("BCAST", 1, 1, 1),
   CallOf("BARRIER", 0, 0, 0), CallOf("MAX", 3, 3, 0)}
=============================================================================
