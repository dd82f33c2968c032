---------------------------- MODULE FloydWarshall ----------------------------
(***************************************************************************)
(* Device::calculate_path (device/device.cpp) as it runs, one step for     *)
(* each iteration of the outermost loop of Topology::floyd_warshall.       *)
(***************************************************************************)
EXTENDS DeviceTopology, FiniteSetsExt

CONSTANT Devices   \* the devices whose paths may be computed, connected or not

\* No distance is as long as default_max_dist, which stands for none.
ASSUME FloydWarshallAssumption ==
    /\ \A d \in Devices : IsDevice(d)
    /\ NumQubits < MaxDist

\* All graphs on the qubits
AllDevices == {ReadDevice(edges) : edges \in SUBSET kSubset(2, Qubits)}

VARIABLES dev,      \* the device whose paths are computed
          k,        \* the loop variable of floyd_warshall
          tables    \* _distance and _predecessor

vars == <<dev, k, tables>>

Init == /\ dev \in Devices
        /\ k = 0
        /\ tables = InitTables(dev)

Include == /\ k < NumQubits
           /\ tables' = Relax(tables, k)
           /\ k' = k + 1
           /\ UNCHANGED dev

Done == k = NumQubits /\ UNCHANGED vars

Next == Include \/ Done

Spec == Init /\ [][Next]_vars

-----------------------------------------------------------------------------
(* Reference definitions, independent of the tables.                       *)

\* The qubits reached from i by a walk of at most n edges whose interior
\* qubits are all smaller than bound, for n up to NumQubits
ReachWithin(device, i, bound) ==
    LET ball[n \in 0 .. NumQubits] ==
            IF n = 0 THEN {i}
            ELSE ball[n - 1] \cup
                 UNION {ToSet(device[q]) :
                           q \in {i} \cup {p \in ball[n - 1] : p < bound}}
    IN  ball

\* The length of a shortest such walk, MaxDist when there is none
WalkLength(device, i, j, bound) ==
    LET ball == ReachWithin(device, i, bound)
    IN  IF j \in ball[NumQubits]
        THEN CHOOSE n \in 0 .. NumQubits :
                j \in ball[n] /\ (n = 0 \/ j \notin ball[n - 1])
        ELSE MaxDist

\* The loop invariant of floyd_warshall: after k iterations every entry of
\* _distance is the length of a shortest walk through the qubits below k.
ShortestSoFar ==
    \A i, j \in Qubits : tables.dist[i][j] = WalkLength(dev, i, j, k)

\* Every predecessor entry names the last qubit but one of a walk of the
\* tabulated length: it is coupled to j and one step nearer to i.  The router
\* follows these entries to move a logical qubit over coupled pairs.
PredecessorsAreHops ==
    \A i, j \in Qubits :
        LET p == tables.pred[i][j]
        IN  IF i = j \/ tables.dist[i][j] = MaxDist THEN p = NoQubit
            ELSE /\ p \in Qubits
                 /\ IsAdjacency(dev, p, j)
                 /\ tables.dist[i][p] + 1 = tables.dist[i][j]

\* The path read from the row of t, from s, is the path read from the row of
\* s, from t, backwards: the two ends of apsp_routing, which walk by
\* different rows, walk towards each other on one path.
PathsAgree ==
    k = NumQubits =>
        \A s, t \in Qubits :
            tables.dist[s][t] # MaxDist =>
                GetPath(tables, s, t) = Reverse(GetPath(tables, t, s))

\* What calculate_path leaves in _distance and _predecessor can be routed by: the
\* distances are those of the device at every round of the loop, the predecessors
\* lead along its edges, and both ends of a walk are on one path.
PathTables == ShortestSoFar /\ PredecessorsAreHops /\ PathsAgree
=============================================================================
