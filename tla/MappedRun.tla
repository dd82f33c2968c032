------------------------------ MODULE MappedRun ------------------------------
(***************************************************************************)
(* What Duostra::map promises: a physical circuit that runs the logical    *)
(* circuit on the device.  Every logical qubit is at one physical qubit;   *)
(* three CX on a coupled pair exchange what the two hold; every other      *)
(* physical operation is a gate of the logical circuit, all of whose       *)
(* predecessors have run, on the coupled physical qubits where its logical *)
(* qubits are.                                                             *)
(***************************************************************************)
EXTENDS DeviceTopology, Circuit

VARIABLES device,    \* the device mapped to
          circuit,   \* the logical circuit
          at,        \* the physical qubit that holds each logical qubit
          done,      \* the ids of the logical gates that have run
          physical   \* the operations of the physical circuit so far

runVars == <<device, circuit, at, done, physical>>

\* Duostra::build_circuit_by_result writes a SWAP as three CX.
ThreeCX(a, b) == <<[op |-> "cx", qubits |-> <<a, b>>],
                   [op |-> "cx", qubits |-> <<b, a>>],
                   [op |-> "cx", qubits |-> <<a, b>>]>>

PhysicalGate(op, qubits) ==
    IF op = "swap" THEN ThreeCX(qubits[1], qubits[2])
                   ELSE <<[op |-> op, qubits |-> qubits]>>

RunInit == /\ at \in [Qubits -> Qubits]
           /\ \A a, b \in Qubits : at[a] = at[b] => a = b
           /\ done = {}
           /\ physical = <<>>

\* A SWAP that moves the logical qubits held by p and q
Exchange(p, q) ==
    /\ p # q
    /\ IsAdjacency(device, p, q)
    /\ at' = [l \in Qubits |-> IF at[l] = p THEN q
                               ELSE IF at[l] = q THEN p ELSE at[l]]
    /\ physical' = physical \o ThreeCX(p, q)
    /\ UNCHANGED <<device, circuit, done>>

\* A gate of the logical circuit, where its qubits are
Execute(g) ==
    LET place == [pin \in DOMAIN g.qubits |-> at[g.qubits[pin]]]
    IN  /\ g.id \notin done
        /\ Requires(circuit, g.id) \subseteq done
        /\ Len(g.qubits) = 2 => IsAdjacency(device, place[1], place[2])
        /\ done' = done \cup {g.id}
        /\ physical' = physical \o PhysicalGate(g.op, place)
        /\ UNCHANGED <<device, circuit, at>>

RunNext == \/ \E p, q \in Qubits : Exchange(p, q)
           \/ \E i \in DOMAIN circuit : Execute(circuit[i])

RunSpec == RunInit /\ [][RunNext]_runVars
=============================================================================
