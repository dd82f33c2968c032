--------------------------- MODULE DeviceTopology ---------------------------
(***************************************************************************)
(* The coupling graph of a quantum device and its all-pairs tables:        *)
(* device/device.cpp, classes Topology and Device.                         *)
(*                                                                         *)
(* A device is its list of adjacency lists, [Qubits -> Seq(Qubits)]: the   *)
(* order of a list is the order in which read_device adds the pairs, and   *)
(* the router walks a list in that order.                                  *)
(***************************************************************************)
EXTENDS Naturals, Sequences, SequencesExt, FiniteSetsExt

CONSTANT NumQubits   \* _num_qubit of the device

Qubits == 0 .. NumQubits - 1

\* max_qubit_id, the entry of _predecessor that names no qubit
NoQubit == NumQubits

\* default_max_dist
MaxDist == 100000

ASSUME NumQubitsAssumption == NumQubits \in Nat \ {0}

\* PhysicalQubit::is_adjacency
IsAdjacency(dev, p, q) == q \in ToSet(dev[p])

\* The devices with NumQubits qubits: add_adjacency enters a pair in both lists, and
\* read_device gives it no pair of a qubit with itself.
IsDevice(dev) ==
    /\ dev \in [Qubits -> Seq(Qubits)]
    /\ \A p, q \in Qubits : IsAdjacency(dev, p, q) => p # q /\ IsAdjacency(dev, q, p)

\* Device::add_adjacency called for every pair i < j of read_device's lists:
\* the two lists grow together, so the lists are symmetric and each one holds
\* first its smaller neighbours, in order, and then the larger ones.
ReadDevice(edges) ==
    [q \in Qubits |->
        SetToSortSeq({p \in Qubits : {p, q} \in edges /\ p # q}, <)]

-----------------------------------------------------------------------------
(* The tables of Topology.                                                 *)

\* _set_weight and _init_predecessor_and_distance
InitTables(dev) ==
    [dist |-> [i \in Qubits |-> [j \in Qubits |->
                  IF IsAdjacency(dev, i, j) THEN 1
                  ELSE IF i = j THEN 0 ELSE MaxDist]],
     pred |-> [i \in Qubits |-> [j \in Qubits |->
                  IF IsAdjacency(dev, i, j) THEN i ELSE NoQubit]]]

\* The tables after the pairs in shorter were led through k (mutant: the
\* predecessor is k itself)
ThroughMiddle(tab, k, shorter) ==
    [dist |-> [i \in Qubits |-> [j \in Qubits |->
                  IF <<i, j>> \in shorter THEN tab.dist[i][k] + tab.dist[k][j]
                                          ELSE tab.dist[i][j]]],
     pred |-> [i \in Qubits |-> [j \in Qubits |->
                  IF <<i, j>> \in shorter THEN k ELSE tab.pred[i][j]]]]

Through(tab, k, shorter) ==
    [dist |-> [i \in Qubits |-> [j \in Qubits |->
                  IF <<i, j>> \in shorter THEN tab.dist[i][k] + tab.dist[k][j]
                                          ELSE tab.dist[i][j]]],
     pred |-> [i \in Qubits |-> [j \in Qubits |->
                  IF <<i, j>> \in shorter THEN tab.pred[k][j]
                                          ELSE tab.pred[i][j]]]]

\* The pairs that k may shorten
Reaching(tab, k) == {p \in Qubits \X Qubits : tab.dist[p[1]][k] # MaxDist}

\* One iteration of the outermost loop of floyd_warshall.  Row and column k
\* do not change in it, so the update in place equals this simultaneous one.
Relax(tab, k) ==
    Through(tab, k, {p \in Reaching(tab, k) :
        tab.dist[p[1]][p[2]] > tab.dist[p[1]][k] + tab.dist[k][p[2]]})

\* Device::calculate_path
CalculatePath(dev) ==
    LET after[k \in 0 .. NumQubits] ==
            IF k = 0 THEN InitTables(dev) ELSE Relax(after[k - 1], k - 1)
    IN  after[NumQubits]

\* Device::get_path: from src along the predecessors of the row of dest, which has none.
GetPath(tab, src, dest) ==
    LET hop[n \in 0 .. NumQubits] ==
            IF n = 0 THEN src
            ELSE IF hop[n - 1] = NoQubit THEN NoQubit
            ELSE tab.pred[dest][hop[n - 1]]
        hops == Max({n \in 0 .. NumQubits : hop[n] # NoQubit})
    IN  [n \in 1 .. hops + 1 |-> hop[n - 1]]
=============================================================================
