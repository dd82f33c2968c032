------------------------------ MODULE MCDuostra ------------------------------
(* Duostra::map from placement to check, on devices of four qubits: circuits *)
(* that make the schedulers choose, route and wait, and a configuration or   *)
(* more for each type of scheduler.                                          *)
EXTENDS Duostra

\* On the line the depth-first placement is not the identity.
MCLine == ReadDevice({{0, 2}, {2, 1}, {1, 3}})
MCRing == ReadDevice({{0, 1}, {1, 2}, {2, 3}, {3, 0}})
MCStar == ReadDevice({{1, 0}, {1, 2}, {1, 3}})
MCDevices == {MCLine, MCRing, MCStar}

MCConfigs == [duostra : BOOLEAN, tieMin : {TRUE}]
MCPlacements == Bijection(Qubits, Qubits)

MCGate(id, op, qubits) == [id |-> id, op |-> op, qubits |-> qubits]

\* Gates in program order, ids from 0: what append builds.
MCAppended(gates) ==
    [i \in DOMAIN gates |-> MCGate(i - 1, gates[i][1], gates[i][2])]

\* The same gates written back to front by prepend
MCPrepended(gates) ==
    [i \in DOMAIN gates |-> MCGate(Len(gates) - i, gates[i][1], gates[i][2])]

MCCx(a, b) == <<"cx", <<a, b>>>>

MCFar == <<MCCx(0, 3), <<"h", <<0>>>>, MCCx(3, 0), MCCx(1, 2)>>
MCFork == << <<"h", <<2>>>>, MCCx(0, 2), MCCx(1, 3), <<"cz", <<2, 1>>>> >>
\* A gate with two successors, of which the later one also waits for another
MCLate == <<MCCx(0, 1), <<"h", <<0>>>>, <<"h", <<2>>>>, MCCx(1, 2)>>
MCTwice == <<MCCx(0, 2), MCCx(2, 0), <<"h", <<1>>>> >>
\* SWAPs written out in the logical circuit, alone and after a gate that makes
\* the router move its qubits
MCSpelled == <<MCCx(0, 2), MCCx(2, 0), MCCx(0, 2), <<"h", <<0>>>> >>
MCMoved == <<MCCx(0, 3), MCCx(3, 1), MCCx(1, 3), MCCx(3, 1)>>

MCScheduler(type, candidates, costMax, availMax, single) ==
    [type |-> type, candidates |-> candidates, costMax |-> costMax,
     availMax |-> availMax, apspCoeff |-> 1, executeSingle |-> single]

MCBase == MCScheduler("base", 9, FALSE, TRUE, FALSE)
MCNaive == MCScheduler("naive", 9, FALSE, TRUE, FALSE)
MCRandom == MCScheduler("random", 9, FALSE, TRUE, FALSE)
MCGreedy == {MCScheduler("greedy", 1, FALSE, TRUE, FALSE),
             MCScheduler("greedy", 9, TRUE, FALSE, FALSE)}
MCSearch == MCScheduler("search", 9, FALSE, TRUE, TRUE)

MCCalls(circuits, schedulers, placers, check) ==
    [circuit : circuits, scheduler : schedulers, placer : placers, check : {check}]

\* The base scheduler takes the gates by id, the others as they get available.
MCJobs ==
    MCCalls({MCAppended(c) : c \in {MCFork, MCTwice}}, {MCBase}, {"naive", "dfs"}, TRUE)
    \cup MCCalls({MCAppended(MCFork), MCAppended(MCLate), MCPrepended(MCFar)},
                 {MCNaive, MCRandom} \cup MCGreedy, {"naive", "dfs"}, TRUE)
    \cup MCCalls({MCAppended(MCSpelled), MCAppended(MCMoved)}, {MCRandom, MCSearch},
                 {"naive", "dfs"}, TRUE)
    \cup MCCalls({MCPrepended(MCTwice)}, {MCSearch}, {"random"}, FALSE)
=============================================================================
