----------------------------- MODULE Placement -----------------------------
(***************************************************************************)
(* The mailbox array's tool chain: mesh_place.py places the cells of a     *)
(* synthesised design on an N by N mesh and measures the critical path,    *)
(* m3c2_partition.py orders its instances along a row and lists the edges  *)
(* between them, genmap.py writes the header of the first edge.            *)
(*                                                                         *)
(* Cell i drives net i and reads the nets reads[i]; a net without a cell   *)
(* is an input of the design.  A behaviour draws a netlist, then runs one  *)
(* of the tools on it.                                                     *)
(***************************************************************************)
EXTENDS Integers, Sequences, SequencesExt, FiniteSets, FiniteSetsExt

CONSTANTS MaxCells,   \* bound: cells of a design, and nets
          MeshSizes   \* values of -N

VARIABLES plCells,    \* the cells: [seq, reads]
          plStep,
          plCoord,    \* coord: cell to its place
          plReport,   \* depth of each cell and the costs of the mesh
          plMap       \* m3c2's map: order of the instances and edges

plVars == <<plCells, plStep, plCoord, plReport, plMap>>

PlInit ==
    /\ plCells = <<>> /\ plStep = "draw" /\ plCoord = <<>>
    /\ plReport = <<>> /\ plMap = <<>>

(* A cell reads two nets at most, one of them from after it.               *)
DrawCell(seq, before, after) ==
    /\ plStep = "draw" /\ Len(plCells) < MaxCells
    /\ Cardinality(after) <= 1
    /\ Cardinality(before \cup after) <= 2
    /\ plCells' = Append(plCells, [seq |-> seq, reads |-> before \cup after])
    /\ UNCHANGED <<plStep, plCoord, plReport, plMap>>

(* run_yosys may fail, and mesh_place exits when there is nothing to place.*)
run_yosys(ok, tool) ==
    /\ plStep = "draw"
    /\ plStep' = IF ok /\ (tool = "place" => plCells # <<>>) THEN tool ELSE "failed"
    /\ UNCHANGED <<plCells, plCoord, plReport, plMap>>

-----------------------------------------------------------------------------
(* build_graph and adjacency: nets that touch more than one cell, and the  *)
(* cells that share one.                                                   *)
Cells == DOMAIN plCells
Touches(b) == {i \in Cells : b = i \/ b \in plCells[i].reads}
hyper == {b \in 1..MaxCells : Cardinality(Touches(b)) > 1}
adjacency ==
    LET nets == {Touches(b) : b \in hyper}
    IN  [i \in Cells |-> UNION {cs \in nets : i \in cs} \ {i}]

RECURSIVE Bfs(_, _, _, _, _)
Bfs(queue, seen, order, mset, adj) ==
    IF queue = <<>> THEN order
    ELSE LET new == (adj[Head(queue)] \cap mset) \ seen
             nbs == SelectSeq([i \in Cells |-> i], LAMBDA i : i \in new)
         IN  Bfs(Tail(queue) \o nbs, seen \cup new, Append(order, Head(queue)), mset, adj)

(* Connected cells follow each other, from a cell of the lowest degree on. *)
bfs_order(members, adj) ==
    LET mset == ToSet(members)
        degree == [c \in mset |-> Cardinality(adj[c] \cap mset)]
        seeds == FlattenSeq([d \in 1..Len(plCells) |->
                               SelectSeq(members, LAMBDA c : degree[c] = d - 1)])
    IN  FoldLeft(LAMBDA order, seed :
                   IF seed \in ToSet(order) THEN order
                   ELSE Bfs(<<seed>>, {seed} \cup ToSet(order), order, mset, adj),
                 <<>>, seeds)

(* round(p / q), halves to even.  RoundOver is a mutant of it.             *)
RoundOver(p, q) == IF p = 0 THEN 0 ELSE (p \div q) + 1
Round(p, q) ==
    LET f == p \div q
        twice == 2 * (p % q)
    IN  IF twice < q THEN f ELSE IF twice > q THEN f + 1 ELSE f + (f % 2)

RECURSIVE place(_, _, _, _, _, _)
place(members, adj, x0, y0, w, h) ==
    LET order == bfs_order(members, adj)
        wl == w \div 2
        hl == h \div 2
        cut == IF w >= h THEN Round(Len(order) * wl, w) ELSE Round(Len(order) * hl, h)
        left == SubSeq(order, 1, cut)
        right == SubSeq(order, cut + 1, Len(order))
    IN  IF w = 1 /\ h = 1 THEN [c \in ToSet(members) |-> <<x0, y0>>]
        ELSE IF w >= h
        THEN place(left, adj, x0, y0, wl, h) @@ place(right, adj, x0 + wl, y0, w - wl, h)
        ELSE place(left, adj, x0, y0, w, hl) @@ place(right, adj, x0, y0 + hl, w, h - hl)

PlaceOn(n) ==
    /\ plStep = "place"
    /\ plCoord' = [size |-> n,
                   at |-> place([i \in Cells |-> i], adjacency, 0, 0, n, n)]
    /\ plStep' = "analyse"
    /\ UNCHANGED <<plCells, plReport, plMap>>

-----------------------------------------------------------------------------
(* comb_depth and crit_hops: a depth-first walk that adds up the cost of   *)
(* the edges, ends at registers and inputs, and keeps the result of every  *)
(* cell it has finished.  Memo maps finished cells to results; the cells   *)
(* on the stack count as 0.  The nets of a cell are taken in order, which  *)
(* matters only inside of combinational loops.                             *)
(* Mutant of Drivers: only the first net of a cell is followed.            *)
FirstDriver(i) == {b \in plCells[i].reads : b = Min(plCells[i].reads) /\ b \in Cells /\ b # i}

Drivers(i) == {b \in plCells[i].reads : b \in Cells /\ b # i}

RECURSIVE WalkFrom(_, _, _, _)
WalkFrom(i, stack, memo, cost) ==
    IF i \in DOMAIN memo \/ i \in stack THEN memo
    ELSE LET visit(acc, drv) ==
               LET below == IF plCells[drv].seq THEN acc.memo
                            ELSE WalkFrom(drv, stack \cup {i}, acc.memo, cost)
                   rest == IF plCells[drv].seq \/ drv \notin DOMAIN below
                           THEN 0 ELSE below[drv]
               IN  [memo |-> below, best |-> Max({acc.best, cost[drv, i] + rest})]
             end == FoldLeft(visit, [memo |-> memo, best |-> 0], SelectSeq([k \in Cells |-> k], LAMBDA k : k \in Drivers(i)))
         IN  (i :> end.best) @@ end.memo

WalkAll(cost) ==
    FoldLeft(LAMBDA memo, i : WalkFrom(i, {}, memo, cost), <<>>, [i \in Cells |-> i])

One == [a, b \in Cells |-> 1]
Distance(p, q) ==
    LET d(u, v) == IF u < v THEN v - u ELSE u - v
    IN  d(p[1], q[1]) + d(p[2], q[2])
mh == [a, b \in Cells |-> Distance(plCoord.at[a], plCoord.at[b])]
Express == [a, b \in Cells |-> IF mh[a, b] > 0 THEN 1 ELSE 0]

comb_depth == WalkAll(One)
crit_hops(cost) == LET best_to == WalkAll(cost) IN Max({best_to[i] : i \in Cells})
cut_nets == Cardinality({b \in hyper : Cardinality({plCoord.at[c] : c \in Touches(b)}) > 1})

Analyse ==
    /\ plStep = "analyse"
    /\ plReport' = [depth |-> comb_depth, worst |-> crit_hops(mh),
                    express |-> crit_hops(Express), cut |-> cut_nets]
    /\ plStep' = "done"
    /\ UNCHANGED <<plCells, plCoord, plMap>>

-----------------------------------------------------------------------------
(* m3c2_partition: an edge from the driver of a net to every other reader; *)
(* the instances whose producers are placed follow, pass after pass, and   *)
(* in a cycle the rest follows as it stands.                               *)
Consumes(i) == (plCells[i].reads \cap Cells) \ {i}
Edges == {<<s, d>> \in Cells \X Cells : s \in Consumes(d)}

(* Mutant of Pass: an instance follows any of its producers.               *)
PassAny(order) ==
    FoldLeft(LAMBDA o, i : IF i \notin ToSet(o)
                              /\ (Consumes(i) = {} \/ Consumes(i) \cap ToSet(o) # {})
                           THEN Append(o, i) ELSE o,
             order, [i \in Cells |-> i])

Pass(order) ==
    FoldLeft(LAMBDA o, i : IF i \notin ToSet(o) /\ Consumes(i) \subseteq ToSet(o)
                           THEN Append(o, i) ELSE o,
             order, [i \in Cells |-> i])

RECURSIVE Ordered(_)
Ordered(order) ==
    LET next == Pass(order)
        rest == SelectSeq([i \in Cells |-> i], LAMBDA i : i \notin ToSet(order))
    IN  IF Len(order) = Len(plCells) THEN order
        ELSE IF next = order THEN order \o rest ELSE Ordered(next)

base(idx) == 3840 + (idx - 1) * 64
Partition ==
    LET order == Ordered(<<>>)
    IN  /\ plStep = "partition"
        /\ plMap' = [cores |-> [idx \in DOMAIN order |->
                                  [instance |-> order[idx], state |-> base(idx),
                                   in |-> base(idx) + 16, out |-> base(idx) + 32]],
                     edges |-> {[producer |-> CHOOSE k \in DOMAIN order : order[k] = e[1],
                                 consumer |-> CHOOSE k \in DOMAIN order : order[k] = e[2]] :
                                e \in Edges}]
        /\ plStep' = "genmap"
        /\ UNCHANGED <<plCells, plCoord, plReport>>

(* genmap.py: the header names the cores of the first edge.  Of a map      *)
(* without edges it asks for an expression m3c2_partition never writes.    *)
Genmap(e) ==
    /\ plStep = "genmap"
    /\ plMap.edges # {} => e \in plMap.edges
    /\ IF plMap.edges = {} THEN plStep' = "failed" /\ UNCHANGED plReport
       ELSE /\ plReport' = [p |-> plMap.cores[e.producer], c |-> plMap.cores[e.consumer]]
            /\ plStep' = "mapped"
    /\ UNCHANGED <<plCells, plCoord, plMap>>

PlNext ==
    \/ \E seq \in BOOLEAN, before \in SUBSET DOMAIN plCells,
          after \in SUBSET ((Len(plCells) + 2)..MaxCells) : DrawCell(seq, before, after)
    \/ \E ok \in BOOLEAN, tool \in {"place", "partition"} : run_yosys(ok, tool)
    \/ \E n \in MeshSizes : PlaceOn(n)
    \/ Analyse
    \/ Partition
    \/ \E p, c \in 1..MaxCells : Genmap([producer |-> p, consumer |-> c])

-----------------------------------------------------------------------------
(* Chains of dependent cells that end with those of s: between its ends a  *)
(* chain is combinational, and only a register may be at both.             *)
Feeds(i) == (plCells[i].reads \cap Cells) \ {i}
RECURSIVE Chains(_)
Chains(s) ==
    {s} \cup IF Len(s) > 1 /\ plCells[s[1]].seq THEN {}
             ELSE UNION {Chains(<<d>> \o s) : d \in
                    {e \in Feeds(s[1]) : e \notin ToSet(s)
                                           \/ (plCells[e].seq /\ e = Last(s))}}
Cost(s, cost) == FoldLeft(LAMBDA sum, k : sum + cost[s[k], s[k + 1]], 0,
                                [k \in 1..(Len(s) - 1) |-> k])
Longest(i, cost) == Max({Cost(s, cost) : s \in Chains(<<i>>)})
CombLoop == \E S \in SUBSET {i \in Cells : ~plCells[i].seq} :
                S # {} /\ \A i \in S : Feeds(i) \cap S # {}

(* Without a combinational loop the depth of a cell is the length of its   *)
(* longest chain and the mesh cost of the design that of its most          *)
(* expensive one (results are kept across walks from different cells), and *)
(* express channels never make it worse.                                   *)
CriticalPathExact ==
    plStep = "done" =>
        /\ ~CombLoop => /\ \A i \in Cells : plReport.depth[i] = Longest(i, One)
                        /\ LET hops == mh IN plReport.worst = Max({Longest(i, hops) : i \in Cells})
                        /\ plReport.express <= plReport.worst
        /\ plReport.cut = 0 => plReport.worst = 0

(* The bisection puts every cell on one core of the mesh and keeps the     *)
(* loads of two cores within one cell of each other.                       *)
PlacementBalanced ==
    plStep = "done" =>
        LET core == 0..(plCoord.size - 1)
            load(p) == Cardinality({c \in Cells : plCoord.at[c] = p})
        IN  /\ plCoord.at \in [Cells -> core \X core]
            /\ \A p, q \in core \X core : load(p) - load(q) <= 1

(* Every instance gets one node and words of its own, every edge of the    *)
(* design is in the map, and producers come before their consumers unless  *)
(* the instances feed back.                                                *)
PartitionOrdered ==
    plStep = "genmap" =>
        LET core == plMap.cores
            words == (DOMAIN core) \X {"state", "in", "out"}
            Feedback == \E S \in SUBSET Cells : S # {} /\ \A i \in S : Consumes(i) \cap S # {}
        IN  /\ {core[k].instance : k \in DOMAIN core} = Cells
            /\ \A a, b \in words : core[a[1]][a[2]] = core[b[1]][b[2]] => a = b
            /\ {<<core[e.producer].instance, core[e.consumer].instance>> : e \in plMap.edges} = Edges
            /\ ~Feedback => \A e \in plMap.edges : e.producer < e.consumer

(* What the tools report of a design is true of it: the critical path, the *)
(* balance of the placement and the order of the partition.                *)
PlacementSound == CriticalPathExact /\ PlacementBalanced /\ PartitionOrdered
=============================================================================
