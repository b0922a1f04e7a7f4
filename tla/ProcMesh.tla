----------------------------- MODULE ProcMesh ------------------------------
(***************************************************************************)
(* The processor mesh that vivado_mesh_gen.py generates: N by N cores      *)
(* (ldx_soc_mesh) with an outbound FIFO per direction, wired to their      *)
(* neighbours and, at the edges, to the host's endpoints, which have       *)
(* FIFOs towards the mesh (ldx_mesh_bridge).  A core sees the head of its  *)
(* neighbour's FIFO and dequeues it by a pulse on the ready wire.          *)
(*                                                                         *)
(* A port is <<x, y, d>> with d = 0 (north), 1 (east), 2 (south), 3 (west) *)
(* or <<ep>>, an endpoint.  Every word sent is a new number.               *)
(***************************************************************************)
EXTENDS Integers, Sequences, SequencesExt, FiniteSets

CONSTANTS MeshN, FifoDepth,
          MaxWords,   \* bound: words sent
          HeldSets,   \* the sets of cores the host holds in reset
          MaxResets   \* bound: writes of the reset register

Coords == 0..(MeshN - 1)
Ports == Coords \X Coords \X (0..3)
Endpoints == {<<ep>> : ep \in 0..(4 * MeshN - 1)}

(* The wires of valid and data into port p, and of ready out of it, as the *)
(* generate blocks connect them.                                           *)
Boundary(p) ==
    CASE p[3] = 0 -> <<0 * MeshN + p[1]>>
      [] p[3] = 1 -> <<MeshN + p[2]>>
      [] p[3] = 2 -> <<2 * MeshN + p[1]>>
      [] p[3] = 3 -> <<3 * MeshN + p[2]>>


rx_valid(p) ==
    CASE p[3] = 1 /\ p[1] < MeshN - 1 -> <<p[1] + 1, p[2], 3>>
      [] p[3] = 3 /\ p[1] > 0 -> <<p[1] - 1, p[2], 1>>
      [] p[3] = 0 /\ p[2] < MeshN - 1 -> <<p[1], p[2] + 1, 2>>
      [] p[3] = 2 /\ p[2] > 0 -> <<p[1], p[2] - 1, 0>>
      [] OTHER -> Boundary(p)

(* The port, or the endpoint, whose pop drives the ready of port q.        *)
tx_ready(q) ==
    CASE q[3] = 1 /\ q[1] < MeshN - 1 -> <<q[1] + 1, q[2], 3>>
      [] q[3] = 3 /\ q[1] > 0 -> <<q[1] - 1, q[2], 1>>
      [] q[3] = 0 /\ q[2] < MeshN - 1 -> <<q[1], q[2] + 1, 2>>
      [] q[3] = 2 /\ q[2] > 0 -> <<q[1], q[2] - 1, 0>>
      [] OTHER -> Boundary(q)

(* bndry_tx_valid and bndry_rx_ready: the core port an endpoint sees, and  *)
(* the one whose pops it sees.                                             *)
bndry_tx_valid(ep) ==
    LET k == ep[1] % MeshN
    IN  CASE ep[1] \div MeshN = 0 -> <<k, MeshN - 1, 0>>
          [] ep[1] \div MeshN = 1 -> <<MeshN - 1, k, 1>>
          [] ep[1] \div MeshN = 2 -> <<k, 0, 2>>
          [] ep[1] \div MeshN = 3 -> <<0, k, 3>>
bndry_rx_ready(ep) == bndry_tx_valid(ep)

Source(p) == IF p \in Ports THEN rx_valid(p) ELSE bndry_tx_valid(p)
Dequeued(p) == IF p \in Endpoints THEN {q \in Ports : tx_ready(q) = p}
               ELSE {q \in Ports : tx_ready(q) = p} \cup {e \in Endpoints : bndry_rx_ready(e) = p}

-----------------------------------------------------------------------------
VARIABLES msFifo,     \* the FIFOs of the ports: words on their way out
          msHeld,     \* cores held in reset
          msWords,    \* words sent so far, with the port each was sent from
          msLog,      \* words received, with the port each was received at
          msResets

msVars == <<msFifo, msHeld, msWords, msLog, msResets>>

Cores == Coords \X Coords
CoreOf(p) == <<p[1], p[2]>>
Running(p) == IF p \in Ports THEN CoreOf(p) \notin msHeld ELSE TRUE

MsInit ==
    /\ msFifo = [p \in Ports \cup Endpoints |-> <<>>]
    /\ msHeld = Cores /\ msWords = <<>> /\ msLog = <<>> /\ msResets = 0

(* A core or the host writes PUSH_DATA.  The FIFO ignores the push when it *)
(* is full; the firmware asks PUSH_STATUS first.                           *)
Push(p) ==
    /\ Running(p) /\ Len(msWords) < MaxWords
    /\ Len(msFifo[p]) < FifoDepth
    /\ msWords' = Append(msWords, p)
    /\ msFifo' = [msFifo EXCEPT ![p] = Append(@, Len(msWords) + 1)]
    /\ UNCHANGED <<msHeld, msLog, msResets>>

(* POP_DATA after POP_STATUS showed a word: the word at the head of the    *)
(* source is returned, and the FIFOs whose ready is pulsed lose theirs.    *)
Pop(p) ==
    LET from == Source(p)
    IN  /\ Running(p) /\ msFifo[from] # <<>>
        /\ msLog' = Append(msLog, <<p, Head(msFifo[from])>>)
        /\ msFifo' = [q \in DOMAIN msFifo |->
                        IF q \in Dequeued(p) /\ msFifo[q] # <<>> THEN Tail(msFifo[q])
                        ELSE msFifo[q]]
        /\ UNCHANGED <<msHeld, msWords, msResets>>

(* CTRL_RESET: the cores of the set are held, with empty FIFOs.            *)
SetReset(held) ==
    /\ msResets < MaxResets
    /\ msHeld' = held /\ msResets' = msResets + 1
    /\ msFifo' = [p \in DOMAIN msFifo |->
                    IF p \in Ports /\ CoreOf(p) \in held THEN <<>> ELSE msFifo[p]]
    /\ UNCHANGED <<msWords, msLog>>

MsNext ==
    \/ \E p \in Ports \cup Endpoints : Push(p)
    \/ \E p \in Ports \cup Endpoints : Pop(p)
    \/ \E held \in HeldSets : SetReset(held)

-----------------------------------------------------------------------------
(* Where a word sent at port p belongs: the facing port of the neighbour   *)
(* in that direction, or the endpoint of that row or column.               *)
Facing(p) ==
    IF p \in Endpoints THEN bndry_tx_valid(p)
    ELSE LET x == p[1] + CASE p[3] = 1 -> 1 [] p[3] = 3 -> -1 [] OTHER -> 0
             y == p[2] + CASE p[3] = 0 -> 1 [] p[3] = 2 -> -1 [] OTHER -> 0
         IN  IF x \in Coords /\ y \in Coords THEN <<x, y, (p[3] + 2) % 4>>
             ELSE CHOOSE e \in Endpoints : bndry_tx_valid(e) = p

=============================================================================
