----------------------------- MODULE Controller -----------------------------
(***************************************************************************)
(* The orchestration controller, python/ldx_controller.py: hardware nodes, *)
(* shards placed on them, functions owned by shards and routes between     *)
(* shards, behind a REST interface that a single-threaded HTTPServer       *)
(* serves.  A request runs to its end before the next one starts, so one   *)
(* action is one request; only a save, which truncates the file before it  *)
(* writes it, has two steps a crash may separate.                          *)
(*                                                                         *)
(* Ids are the integers of the requests: they count from 0, nothing checks *)
(* them, and a negative one indexes a Python list from its end.  A request *)
(* that raises is dropped by the server with what it had changed so far.   *)
(***************************************************************************)
EXTENDS Integers, Sequences, FiniteSets

CONSTANTS
    Hosts,      \* host names of nodes
    NoHost,     \* the empty string of a shard or a route without a host
    MaxNodes, MaxShards, MaxFuncs, MaxRoutes,   \* bounds on the four lists
    Configs,    \* topologies a config file may hold when the controller starts
    MaxRequests \* bound on the requests of a behaviour

ASSUME HostAssumption == NoHost \notin Hosts
ASSUME BoundAssumption ==
    {MaxNodes, MaxShards, MaxFuncs, MaxRoutes, MaxRequests} \subseteq Nat

Node == [host : Hosts, shards : Int]
Shard == [node : Int, host : Hosts \cup {NoHost},
          state : {"stopped", "migrating"}, functions : Seq(Int)]
Route == [from : Int, to : Int, host : Hosts \cup {NoHost}, port : Int,
          active : BOOLEAN]
Topology == Seq(Node) \X Seq(Shard) \X Seq(Int) \X Seq(Route)

(* The shards a list of shards places on node n, and how far a list of     *)
(* nodes counts them wrong.                                                *)
On(sh, n) == {s \in DOMAIN sh : sh[s].node = n}
Count(nd, n) == IF n < Len(nd) THEN nd[n + 1].shards ELSE 0
Drift(nd, sh, n) == Count(nd, n) - Cardinality(On(sh, n))

(* The two records of who owns a function: each owner is a shard, which    *)
(* lists the function, once; and a shard lists its own functions only.     *)
Lists(list, f) == \E i \in DOMAIN list : list[i] = f
Distinct(list) == \A i, j \in DOMAIN list : list[i] = list[j] => i = j
Owned(sh, fn) ==
    /\ \A f \in 0..(Len(fn) - 1) :
          fn[f + 1] \in 0..(Len(sh) - 1) /\ Lists(sh[fn[f + 1] + 1].functions, f)
    /\ \A s \in DOMAIN sh :
          /\ Distinct(sh[s].functions)
          /\ \A i \in DOMAIN sh[s].functions :
                LET f == sh[s].functions[i]
                IN  f \in 0..(Len(fn) - 1) /\ fn[f + 1] = s - 1

(* A config file holds a topology that was saved: its shards are on nodes  *)
(* it lists, and its counts and its owners are right.                      *)
ASSUME ConfigAssumption ==
    \A c \in Configs :
        /\ c \in Topology
        /\ \A s \in DOMAIN c[2] : c[2][s].node \in -1..(Len(c[1]) - 1)
        /\ \A n \in 0..(Len(c[1]) - 1) : Drift(c[1], c[2], n) = 0
        /\ Owned(c[2], c[3])

VARIABLES
    nodes,      \* sequence of [host, shards]: "shards" is the node's count
    shards,     \* sequence of [node, host, state, functions]
    functions,  \* sequence of owners
    routes,     \* sequence of [from, to, host, port, active]
    file,       \* topology.json: absent, truncated, or a whole topology
    saving,     \* a save has truncated the file and not yet written it
    up,         \* the controller runs
    bad,        \* history: requests so far that named an id that does not exist
    settled,    \* history: shards last placed by a migration, with no route
                \* added to them since
    requests    \* number of requests so far

topology == <<nodes, shards, functions, routes>>
vars == <<topology, file, saving, up, bad, settled, requests>>

Empty == << <<>>, <<>>, <<>>, <<>> >>
NoFile == [st |-> "none", topo |-> Empty]
Torn == [st |-> "torn", topo |-> Empty]

Init ==
    /\ file \in {NoFile} \cup {[st |-> "whole", topo |-> c] : c \in Configs}
    /\ nodes = file.topo[1] /\ shards = file.topo[2]
    /\ functions = file.topo[3] /\ routes = file.topo[4]
    /\ saving = FALSE /\ up = TRUE
    /\ bad = 0 /\ settled = {} /\ requests = 0

-----------------------------------------------------------------------------
(* A Python list subscript.                                                *)
InList(list, i) == -Len(list) <= i /\ i < Len(list)
At(list, i) == IF i < 0 THEN Len(list) + i + 1 ELSE i + 1
Known(list, i) == 0 <= i /\ i < Len(list)

(* The server takes a request.                                             *)
Take ==
    /\ up /\ ~saving
    /\ requests < MaxRequests
    /\ requests' = requests + 1

(* A request on the topology; "ok" says that every id it names exists.     *)
Serve(ok) ==
    /\ Take
    /\ bad' = IF ok THEN bad ELSE bad + 1
    /\ UNCHANGED <<file, saving, up>>

add_node ==
    /\ Serve(TRUE)
    /\ Len(nodes) < MaxNodes
    /\ \E h \in Hosts : nodes' = Append(nodes, [host |-> h, shards |-> 0])
    /\ UNCHANGED <<shards, functions, routes, settled>>

add_shard ==
    /\ Serve(TRUE)
    /\ Len(shards) < MaxShards
    /\ shards' = Append(shards, [node |-> -1, host |-> NoHost,
                                 state |-> "stopped", functions |-> <<>>])
    /\ UNCHANGED <<nodes, functions, routes, settled>>

(* A placement that forgets the node the shard was on.                     *)
PlacedTwice(sh, sid, nid) ==
    LET s == At(sh, sid)
        n == At(nodes, nid)
    IN  IF ~InList(nodes, nid)
        THEN [nodes |-> nodes, shards |-> [sh EXCEPT ![s].node = nid], ok |-> FALSE]
        ELSE [nodes |-> [nodes EXCEPT ![n].shards = @ + 1],
              shards |-> [sh EXCEPT ![s].node = nid, ![s].host = nodes[n].host],
              ok |-> TRUE]

(* place_shard on the list sh of shards: the old node's count first, then  *)
(* the shard's node, then the lookup of the new node, which may raise.     *)
Placed(sh, sid, nid) ==
    LET s == At(sh, sid)
        m == sh[s].node
        left == IF m >= 0 THEN [nodes EXCEPT ![m + 1].shards = @ - 1] ELSE nodes
        n == At(nodes, nid)
    IN  IF m >= Len(nodes) THEN [nodes |-> nodes, shards |-> sh, ok |-> FALSE]
        ELSE IF ~InList(nodes, nid)
             THEN [nodes |-> left, shards |-> [sh EXCEPT ![s].node = nid],
                   ok |-> FALSE]
             ELSE [nodes |-> [left EXCEPT ![n].shards = @ + 1],
                   shards |-> [sh EXCEPT ![s].node = nid,
                                         ![s].host = nodes[n].host],
                   ok |-> TRUE]

place_shard(sid, nid) ==
    /\ Serve(Known(shards, sid) /\ Known(nodes, nid))
    /\ IF InList(shards, sid)
       THEN LET p == Placed(shards, sid, nid)
            IN  nodes' = p.nodes /\ shards' = p.shards
       ELSE UNCHANGED <<nodes, shards>>
    /\ settled' = settled \ {sid}
    /\ UNCHANGED <<functions, routes>>

add_function(owner) ==
    /\ Serve(Known(shards, owner))
    /\ Len(functions) < MaxFuncs
    /\ functions' = Append(functions, owner)
    /\ shards' = IF InList(shards, owner)
                 THEN [shards EXCEPT ![At(shards, owner)].functions =
                                        Append(@, Len(functions))]
                 ELSE shards
    /\ UNCHANGED <<nodes, routes, settled>>

(* list.remove: the first occurrence; the order of the rest is kept.       *)
Without(list, x) ==
    IF \E i \in DOMAIN list : list[i] = x
    THEN LET k == CHOOSE i \in DOMAIN list :
                     list[i] = x /\ \A j \in 1..(i - 1) : list[j] # x
         IN  SubSeq(list, 1, k - 1) \o SubSeq(list, k + 1, Len(list))
    ELSE list

(* A move that leaves the function in its old owner's list.                *)
MoveKeepsListed(fid, sid) ==
    /\ Serve(Known(functions, fid) /\ Known(shards, sid))
    /\ IF InList(functions, fid) /\ InList(shards, sid)
       THEN /\ functions' = [functions EXCEPT ![At(functions, fid)] = sid]
            /\ shards' = [shards EXCEPT ![At(shards, sid)].functions = Append(@, fid)]
       ELSE UNCHANGED <<functions, shards>>
    /\ UNCHANGED <<nodes, routes, settled>>

move_function(fid, sid) ==
    LET old == functions[At(functions, fid)]
        removed == [shards EXCEPT ![At(shards, old)].functions = Without(@, fid)]
    IN  /\ Serve(Known(functions, fid) /\ Known(shards, sid))
        /\ IF InList(functions, fid) /\ InList(shards, old)
           THEN /\ functions' = [functions EXCEPT ![At(functions, fid)] = sid]
                /\ shards' = IF InList(shards, sid)
                             THEN [removed EXCEPT ![At(shards, sid)].functions =
                                                     Append(@, fid)]
                             ELSE removed
           ELSE UNCHANGED <<functions, shards>>
        /\ UNCHANGED <<nodes, routes, settled>>

add_route(from, to, host, port) ==
    /\ Serve(Known(shards, from) /\ (to = -1 \/ Known(shards, to)))
    /\ Len(routes) < MaxRoutes
    /\ routes' = Append(routes, [from |-> from, to |-> to, host |-> host,
                                 port |-> port, active |-> FALSE])
    /\ settled' = settled \ {to}
    /\ UNCHANGED <<nodes, shards, functions>>

(* resolve_routes on the list rt of routes: each route of the shard takes  *)
(* the host of its destination, if that has one, and its pipe_port, which  *)
(* no request sets; an unknown destination ends the loop by an exception.  *)
Resolved(rt, sh, sid) ==
    LET raises(i) == rt[i].from = sid /\ rt[i].to >= Len(sh)
        reached(i) == \A j \in 1..i : ~raises(j)
    IN  [i \in DOMAIN rt |->
            IF /\ reached(i) /\ rt[i].from = sid /\ rt[i].to >= 0
               /\ sh[rt[i].to + 1].host # NoHost
            THEN [rt[i] EXCEPT !.host = sh[rt[i].to + 1].host, !.port = 0]
            ELSE rt[i]]

resolve_routes(sid) ==
    /\ Serve(Known(shards, sid))
    /\ routes' = Resolved(routes, shards, sid)
    /\ UNCHANGED <<nodes, shards, functions, settled>>

(* The routes of a shard are disconnected, and those to it redirected.     *)
Disconnected(rt, sid) ==
    [i \in DOMAIN rt |-> IF sid \in {rt[i].from, rt[i].to}
                         THEN [rt[i] EXCEPT !.active = FALSE] ELSE rt[i]]

Redirected(rt, sid, host) ==
    [i \in DOMAIN rt |-> IF rt[i].to = sid
                         THEN [rt[i] EXCEPT !.host = host] ELSE rt[i]]

(* A migration that resolves the shard's own routes only.                  *)
MigrateOwnRoutes(sid, nid) ==
    /\ Serve(Known(shards, sid) /\ Known(nodes, nid))
    /\ IF InList(shards, sid)
       THEN LET p == Placed(shards, sid, nid)
            IN  /\ nodes' = p.nodes
                /\ shards' = p.shards
                /\ routes' = IF p.ok THEN Resolved(routes, p.shards, sid) ELSE routes
                /\ settled' = IF p.ok THEN settled \cup {sid} ELSE settled \ {sid}
       ELSE UNCHANGED <<nodes, shards, routes, settled>>
    /\ UNCHANGED functions

(* migrate_shard: disconnect, place, redirect, resolve; an exception in    *)
(* the placement leaves the shard migrating and its routes disconnected.   *)
migrate_shard(sid, nid) ==
    /\ Serve(Known(shards, sid) /\ Known(nodes, nid))
    /\ IF InList(shards, sid)
       THEN LET marked == [shards EXCEPT ![At(shards, sid)].state = "migrating"]
                cut == Disconnected(routes, sid)
                p == Placed(marked, sid, nid)
                led == Redirected(cut, sid, p.shards[At(shards, sid)].host)
            IN  /\ nodes' = p.nodes
                /\ shards' = p.shards
                /\ routes' = IF p.ok THEN Resolved(led, p.shards, sid) ELSE cut
                /\ settled' = IF p.ok THEN settled \cup {sid} ELSE settled \ {sid}
       ELSE UNCHANGED <<nodes, shards, routes, settled>>
    /\ UNCHANGED functions

-----------------------------------------------------------------------------
(* POST /save truncates the file, then writes the whole topology; POST     *)
(* /load parses before it replaces anything, and raises otherwise.         *)
SaveBegin ==
    /\ Take
    /\ file' = Torn /\ saving' = TRUE
    /\ UNCHANGED <<topology, up, bad, settled>>

SaveEnd ==
    /\ up /\ saving
    /\ file' = [st |-> "whole", topo |-> topology]
    /\ saving' = FALSE
    /\ UNCHANGED <<topology, up, bad, settled, requests>>

Replace(topo) ==
    /\ nodes' = topo[1] /\ shards' = topo[2]
    /\ functions' = topo[3] /\ routes' = topo[4]
    /\ settled' = {}

load ==
    /\ Take
    /\ file.st = "whole"
    /\ Replace(file.topo)
    /\ UNCHANGED <<file, saving, up, bad>>

(* The process is killed; what is not in the file is gone.                 *)
Crash ==
    /\ up
    /\ up' = FALSE /\ saving' = FALSE
    /\ Replace(Empty)
    /\ UNCHANGED <<file, bad, requests>>

(* main with --config: a missing file is skipped, a truncated one raises   *)
(* before the server exists.  Without --config the controller is empty.    *)
RestartConfig ==
    /\ ~up /\ file.st # "torn"
    /\ Replace(file.topo)
    /\ up' = TRUE
    /\ UNCHANGED <<file, saving, bad, requests>>

RestartEmpty ==
    /\ ~up
    /\ up' = TRUE
    /\ UNCHANGED <<topology, file, saving, bad, settled, requests>>

-----------------------------------------------------------------------------
NodeIds == -1..MaxNodes
ShardIds == -1..MaxShards
FuncIds == -1..MaxFuncs

Next ==
    \/ add_node
    \/ add_shard
    \/ \E s \in ShardIds, n \in NodeIds : place_shard(s, n)
    \/ \E s \in ShardIds : add_function(s)
    \/ \E f \in FuncIds, s \in ShardIds : move_function(f, s)
    \/ \E s \in ShardIds, t \in ShardIds, h \in Hosts \cup {NoHost} :
           add_route(s, t, h, 1)
    \/ \E s \in ShardIds : resolve_routes(s)
    \/ \E s \in ShardIds, n \in NodeIds : migrate_shard(s, n)
    \/ SaveBegin
    \/ SaveEnd
    \/ load
    \/ Crash
    \/ RestartConfig
    \/ RestartEmpty

Spec == Init /\ [][Next]_vars

-----------------------------------------------------------------------------
(* Every list of the topology and of the file holds entries of its kind.   *)
TypeOK ==
    /\ nodes \in Seq(Node) /\ shards \in Seq(Shard)
    /\ functions \in Seq(Int) /\ routes \in Seq(Route)
    /\ file \in [st : {"none", "torn", "whole"}, topo : Topology]
    /\ saving \in BOOLEAN /\ up \in BOOLEAN
    /\ bad \in Nat /\ requests \in Nat /\ settled \in SUBSET Int

(* The count a node keeps of its shards is exact as long as every request  *)
(* names ids that exist, through moves, migrations, saves, loads, crashes  *)
(* and restarts; and each request that does not, which place_shard carries *)
(* out by halves or on the node a negative id happens to name, puts a      *)
(* count off by at most one.                                               *)
CountDrift ==
    \A n \in 0..(Len(nodes) - 1) :
        /\ Drift(nodes, shards, n) <= bad
        /\ -Drift(nodes, shards, n) <= bad

(* As long as every request names ids that exist, the two records of who   *)
(* owns a function agree: a function is listed by the shard its owner      *)
(* field names, once, and by no other, however it was moved.               *)
OwnershipExact ==
    bad = 0 =>
        \A s \in DOMAIN shards, f \in 0..(Len(functions) - 1) :
            Cardinality({i \in DOMAIN shards[s].functions :
                            shards[s].functions[i] = f})
              = IF functions[f + 1] = s - 1 THEN 1 ELSE 0

(* After a migration no route leads to the shard's old host: every route   *)
(* to it names the host it is on, whatever other shards do, until the      *)
(* shard is placed without a migration, which leaves its routes alone, or  *)
(* a client adds a route with a host of its own.                           *)
RoutesFollowMigration ==
    bad = 0 =>
        \A s \in settled, i \in DOMAIN routes :
            routes[i].to = s => routes[i].host = shards[s + 1].host
=============================================================================
