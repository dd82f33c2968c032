------------------------------ MODULE MCRouterCalls ------------------------------
(* Connected devices of five qubits with different shapes, three          *)
(* placements, both routers, both tie rules.      *)
EXTENDS RouterCalls

MCLine == ReadDevice({{0, 1}, {1, 2}, {2, 3}, {3, 4}})
MCRing == ReadDevice({{0, 1}, {1, 2}, {2, 3}, {3, 4}, {4, 0}})
MCLasso == ReadDevice({{0, 1}, {1, 2}, {2, 3}, {3, 0}, {3, 4}})
MCStar == ReadDevice({{2, 0}, {2, 1}, {2, 3}, {2, 4}})
MCDevices == {MCLine, MCRing, MCLasso, MCStar}

MCPlacements == {[l \in Qubits |-> l], [l \in Qubits |-> 4 - l],
                 [l \in Qubits |-> (2 * l) % 5]}

MCConfigs == [duostra : BOOLEAN, tieMin : BOOLEAN]

MCGate(op, qubits) == [id |-> 0, op |-> op, qubits |-> qubits]
MCGates == {MCGate("h", <<1>>), MCGate("h", <<3>>), MCGate("swap", <<1, 4>>)}
           \cup {MCGate("cx", <<0, q>>) : q \in {3, 4}}
           \cup {MCGate("cx", <<q, 0>>) : q \in {2}}
=============================================================================
