--------------------------- MODULE MCMappingChecker ---------------------------
(* The checker alone: every physical circuit of up to MaxGates operations   *)
(* on a line of three qubits, against logical circuits with CX, with a      *)
(* SWAP written as three CX, and with a gate on one qubit.                  *)
EXTENDS MappingChecker

CONSTANT MaxGates

MCPlacements == {[l \in Qubits |-> l], [l \in Qubits |-> (l + 1) % NumQubits]}

MCLine == ReadDevice({{0, 1}, {1, 2}})

MCCircuit(gates) ==
    [i \in DOMAIN gates |-> [id |-> i - 1, op |-> gates[i][1], qubits |-> gates[i][2]]]
MCCx(a, b) == <<"cx", <<a, b>>>>

MCLogical == {MCCircuit(c) : c \in {
                 <<MCCx(0, 1), <<"h", <<1>>>>, MCCx(0, 2)>>,
                 <<MCCx(0, 1), MCCx(1, 0), MCCx(0, 1)>>,
                 <<MCCx(0, 2), MCCx(1, 2)>> }}

MCPairs == {<<0, 1>>, <<1, 0>>, <<1, 2>>, <<2, 1>>, <<0, 2>>}
MCOperations == {<<"cx", pair>> : pair \in MCPairs} \cup {<<"h", <<1>>>>, <<"h", <<0>>>>}

Init == /\ device = MCLine
        /\ logical \in MCLogical
        /\ physical \in {MCCircuit(c) : c \in BoundedSeq(MCOperations, MaxGates)}
        /\ placed \in MCPlacements
        /\ CheckInit

Spec == Init /\ [][CheckNext]_checkVars
=============================================================================
