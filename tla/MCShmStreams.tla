---------------------------- MODULE MCShmStreams ----------------------------
(***************************************************************************)
(* Applications that break MPI's rule, for TLC: a library's error path has *)
(* forked the streams of calls, and any rank may go on with any call.      *)
(***************************************************************************)
EXTENDS MCShmCollective

\* The same opcode with different counts, different opcodes, and broadcasts
\* from different roots.  (A rank in PMPI is to the others one that has not
\* come, as any rank may be here.)
MCAnyCalls ==
  {CallOf("SUM", 1, 1, 0), CallOf("SUM", 2, 2, 0), CallOf("BCAST", 1, 1, 0),
   CallOf("BCAST", 1, 1, 1)}

\* Processes keep running, and the clock with them: a rank that can take a
\* step, or else only time out, does so.  That mpirun ends the siblings of an
\* aborted rank is not relied on.
StreamsSpec == Spec /\ \A r \in Rank : WF_vars(Step(r) \/ SpinTimeout(r))
=============================================================================
