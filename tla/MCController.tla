---------------------------- MODULE MCController ----------------------------
(* Starts of the controller: with no config file, or with two nodes, two    *)
(* shards on them, a function and a route.                                  *)
EXTENDS Controller

CONSTANTS h1, h2

MCConfigs ==
    {<< <<[host |-> h1, shards |-> 1], [host |-> h2, shards |-> 1]>>,
        <<[node |-> 0, host |-> h1, state |-> "stopped", functions |-> <<0>>],
          [node |-> 1, host |-> h2, state |-> "stopped", functions |-> <<>>]>>,
        <<0>>,
        <<[from |-> 0, to |-> 1, host |-> h2, port |-> 1, active |-> FALSE]>> >>}
=============================================================================
