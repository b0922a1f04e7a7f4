------------------------------ MODULE ShmInit -------------------------------
(***************************************************************************)
(* init_once of mpi/shmcomm.cpp: how the ranks of a job set up the shared  *)
(* segment and agree that all of them, or none, will use it.  Any call to  *)
(* the operating system may fail on any rank, a crashed job may have left  *)
(* its segment under the name, and the ranks meet only in the collectives. *)
(***************************************************************************)
EXTENDS Naturals, FiniteSets

CONSTANTS
  N,        \* nranks
  MAXR,     \* ranks the segment has room for
  Hosts     \* processor names

Rank == 0 .. N - 1

ASSUME InitAssumption == N \in Nat \ {0} /\ MAXR \in Nat

VARIABLES
  pc,      \* where each rank is in init_once
  state,   \* UNINIT, DISABLED, SOLO or ACTIVE
  host,    \* processor name of each rank
  met,     \* collectives each rank has entered
  ok,      \* each rank's contribution to the Allreduce
  name,    \* the object the segment's name stands for, or Nothing
  mapped   \* the object each rank has mapped, or Nothing

vars == <<pc, state, host, met, ok, name, mapped>>

Nothing == "nothing"
Stale == "stale"        \* left by a crashed job
Unsized == "unsized"    \* created, but ftruncate failed
Segment == "segment"    \* created and zero-filled

Init ==
  /\ pc = [r \in Rank |-> "start"]
  /\ state = [r \in Rank |-> "UNINIT"]
  /\ host \in [Rank -> Hosts]
  /\ met = [r \in Rank |-> 0]
  /\ ok = [r \in Rank |-> TRUE]
  /\ name \in {Nothing, Stale}
  /\ mapped = [r \in Rank |-> Nothing]

\* Enter the k-th collective; it is over once all have entered it.
Enter(r, k) == met' = [met EXCEPT ![r] = k]
Over(k) == \A r \in Rank : met[r] >= k

Goto(r, where) == pc' = [pc EXCEPT ![r] = where]

\* Disabled until the end.  One rank needs no segment, too many have none.
Start(r) ==
  /\ pc[r] = "start"
  /\ state' = [state EXCEPT ![r] = IF N = 1 THEN "SOLO" ELSE "DISABLED"]
  /\ IF N = 1 \/ N > MAXR THEN Goto(r, "done") /\ UNCHANGED met
                          ELSE Goto(r, "names") /\ Enter(r, 1)
  /\ UNCHANGED <<host, ok, name, mapped>>

\* Allgather of the processor names: all on one node?  Then the broadcast of
\* rank 0's pid, for which the others wait.
Names(r) ==
  /\ pc[r] = "names"
  /\ Over(1)
  /\ IF \E q \in Rank : host[q] # host[r]
       THEN Goto(r, "done") /\ UNCHANGED met
       ELSE Goto(r, IF r = 0 THEN "create" ELSE "pid") /\ Enter(r, 2)
  /\ UNCHANGED <<state, host, ok, name, mapped>>

Pid(r) ==
  /\ pc[r] = "pid"
  /\ met[0] >= 2
  /\ Goto(r, "open") /\ Enter(r, 3)
  /\ UNCHANGED <<state, host, ok, name, mapped>>

\* Mutant: the leftover of a crashed job is kept.
CreateKeep(r, obj) ==
  /\ pc[r] = "create"
  /\ name' = IF name = Stale THEN Stale ELSE obj
  /\ ok' = [ok EXCEPT ![r] = name' \in {Stale, Segment}]
  /\ Goto(r, "open") /\ Enter(r, 3)
  /\ UNCHANGED <<state, host, mapped>>

\* Rank 0: unlink what is there, create the object, size it.  It ends up with
\* the segment, with an object that could not be sized, with nothing, or with
\* the leftover that could not be unlinked (then O_EXCL fails).
Create(r, obj) ==
  /\ pc[r] = "create"
  /\ obj = Stale => name = Stale
  /\ name' = obj
  /\ ok' = [ok EXCEPT ![r] = obj = Segment]
  /\ Goto(r, "open") /\ Enter(r, 3)
  /\ UNCHANGED <<state, host, mapped>>

\* Mutant: a rank that could not attach returns at once.
AttachReturns(r, opens, maps) ==
  LET found == IF r = 0 THEN ok[0] ELSE opens /\ name # Nothing
  IN /\ pc[r] = "open"
     /\ Over(3)
     /\ ok' = [ok EXCEPT ![r] = found /\ maps]
     /\ mapped' = [mapped EXCEPT ![r] = IF found /\ maps THEN name ELSE Nothing]
     /\ IF found /\ maps THEN Goto(r, "agree") /\ Enter(r, 4)
                         ELSE Goto(r, "done") /\ UNCHANGED met
     /\ UNCHANGED <<state, host, name>>

\* After the barrier the others open the name; whoever is fine so far maps it.
\* Then the Allreduce is entered.
Attach(r, opens, maps) ==
  LET found == IF r = 0 THEN ok[0] ELSE opens /\ name # Nothing
  IN /\ pc[r] = "open"
     /\ Over(3)
     /\ ok' = [ok EXCEPT ![r] = found /\ maps]
     /\ mapped' = [mapped EXCEPT ![r] = IF found /\ maps THEN name ELSE Nothing]
     /\ Goto(r, "agree") /\ Enter(r, 4)
     /\ UNCHANGED <<state, host, name>>

Agree(r) ==
  /\ pc[r] = "agree"
  /\ Over(4)
  /\ Goto(r, "finish") /\ Enter(r, 5)
  /\ UNCHANGED <<state, host, ok, name, mapped>>

\* shm_unlink; a leftover is only still there because it cannot be removed.
Unlinked == IF name = Stale THEN Stale ELSE Nothing

\* After the last barrier rank 0 removes the name; active if all are fine,
\* else unmapped.
Finish(r) ==
  LET allok == \A q \in Rank : ok[q]
  IN /\ pc[r] = "finish"
     /\ Over(5)
     /\ name' = IF r = 0 THEN Unlinked ELSE name
     /\ state' = [state EXCEPT ![r] = IF allok THEN "ACTIVE" ELSE @]
     /\ mapped' = [mapped EXCEPT ![r] = IF allok THEN @ ELSE Nothing]
     /\ Goto(r, "done")
     /\ UNCHANGED <<host, met, ok>>

Step(r) ==
  \/ Start(r) \/ Names(r) \/ Pid(r)
  \/ \E obj \in {Nothing, Stale, Unsized, Segment} : Create(r, obj)
  \/ \E opens, maps \in BOOLEAN : Attach(r, opens, maps)
  \/ Agree(r) \/ Finish(r)

Next == \E r \in Rank : Step(r)

Spec == Init /\ [][Next]_vars

\* Every rank runs until it has returned.
FairSpec == Spec /\ \A r \in Rank : WF_vars(Step(r))

-----------------------------------------------------------------------------
\* Type correctness.
TypeOK ==
  /\ pc \in [Rank -> {"start", "names", "pid", "create", "open", "agree", "finish", "done"}]
  /\ state \in [Rank -> {"UNINIT", "DISABLED", "SOLO", "ACTIVE"}]
  /\ met \in [Rank -> 0 .. 5] /\ ok \in [Rank -> BOOLEAN]
  /\ name \in {Nothing, Stale, Unsized, Segment}
  /\ mapped \in [Rank -> {Nothing, Stale, Unsized, Segment}]

\* From the moment one rank is ACTIVE, and may write to the segment, every
\* rank has mapped the one fresh segment: never the leftover of a crashed
\* job, and never one that was not sized.
ActiveMeansAllMapped ==
  (\E r \in Rank : state[r] = "ACTIVE") => \A q \in Rank : mapped[q] = Segment

\* The ranks that have returned are in the same state: no rank uses shared
\* memory where another uses MPI.
StateUniform ==
  \A q, r \in Rank : (pc[q] = "done" /\ pc[r] = "done") => state[q] = state[r]

\* When all have returned, a job that is not active keeps no mapping, and none
\* leaves a segment of its own under the name.
NothingLeft ==
  (\A r \in Rank : pc[r] = "done") =>
    /\ (\A r \in Rank : state[r] # "ACTIVE") => \A r \in Rank : mapped[r] = Nothing
    /\ name \in {Nothing, Stale}

\* init_once returns on every rank: no rank waits in a collective that another
\* has left out.
InitReturns == <>(\A r \in Rank : pc[r] = "done")

-----------------------------------------------------------------------------
(* The inductive invariant *)

AllOk == \A r \in Rank : ok[r]
Alone == N = 1 \/ N > MAXR

\* Where a rank is tells how many collectives it has entered.
Phase(r) ==
  /\ pc[r] = "start" => met[r] = 0 /\ state[r] = "UNINIT"
  /\ pc[r] = "names" => met[r] = 1
  /\ pc[r] = "pid" => met[r] = 2 /\ r # 0
  /\ pc[r] = "create" => met[r] = 2 /\ r = 0
  /\ pc[r] = "open" => met[r] = 3
  /\ pc[r] = "agree" => met[r] = 4
  /\ pc[r] = "finish" => met[r] = 5
  /\ pc[r] = "done" => met[r] \in {0, 1, 5}
  /\ pc[r] \notin {"start", "done"} => state[r] = "DISABLED"

\* What a rank that has come so far knows of the others.
Meeting(r) ==
  /\ (pc[r] = "done" /\ met[r] = 0) <=> (pc[r] # "start" /\ Alone)
  /\ met[r] >= 2 => Over(1) /\ \A q \in Rank : host[q] = host[r]
  /\ met[r] >= 4 => Over(3)
  /\ met[r] >= 5 => Over(4)
  /\ pc[r] = "done" /\ met[r] = 1 => \E q \in Rank : host[q] # host[r]
  /\ pc[r] = "done" /\ met[r] = 5 => Over(5)

\* The outcome of a rank that has returned.
Outcome(r) ==
  pc[r] = "done" =>
    state[r] = IF N = 1 THEN "SOLO"
               ELSE IF met[r] = 5 /\ AllOk THEN "ACTIVE" ELSE "DISABLED"

\* What the name stands for, and what a rank has mapped.
Naming ==
  /\ (met[0] >= 3 /\ pc[0] # "done" /\ ok[0]) => name = Segment
  /\ (met[0] < 3 \/ pc[0] = "done") => name \in {Nothing, Stale}

Mapping(r) ==
  /\ (met[r] >= 4 /\ ok[r] /\ ok[0] /\ (pc[r] # "done" \/ AllOk)) => mapped[r] = Segment
  /\ (met[r] < 4 \/ (pc[r] = "done" /\ ~AllOk)) => mapped[r] = Nothing

IInv ==
  /\ TypeOK
  /\ Naming
  /\ \A r \in Rank : Phase(r) /\ Meeting(r) /\ Outcome(r) /\ Mapping(r)
=============================================================================
