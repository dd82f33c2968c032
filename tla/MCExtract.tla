------------------------------ MODULE MCExtract ------------------------------
(***************************************************************************)
(* Graphs of two-qubit circuits, through three routines of the simplifier; *)
(* graph-like graphs with and without gadgets, some of them without flow;  *)
(* and a graph of five qubits in which two spiders share three CZs.        *)
(***************************************************************************)
EXTENDS ExtractSession

Config(level) ==
    [level |-> level, block |-> 5, filter |-> TRUE, sort_frontier |-> FALSE,
     sort_neighbors |-> TRUE, permute |-> TRUE, reduce |-> FALSE, dynamic |-> FALSE,
     random |-> FALSE]

MCConfigs == {
    Config(2),
    [Config(0) EXCEPT !.dynamic = TRUE, !.random = TRUE],
    [Config(1) EXCEPT !.sort_frontier = TRUE, !.permute = FALSE],
    [Config(3) EXCEPT !.dynamic = TRUE, !.reduce = TRUE, !.sort_neighbors = FALSE] }

T(q) == PZGate(1, q)
RX(p, q) == [op |-> "px", phase |-> p, qubits |-> <<q>>]
GateLists == {
    <<CXGate(0, 1), HGate(0), T(1)>>,
    <<HGate(0), CXGate(0, 1), CXGate(0, 1)>>,
    <<CXGate(0, 1), CXGate(1, 0), CXGate(0, 1)>>,
    <<T(0), HGate(0), T(0), CXGate(1, 0), RX(1, 0), CXGate(0, 1)>>,
    <<HGate(0), T(0), CXGate(0, 1), T(1), CXGate(0, 1), HGate(0), T(0), CXGate(1, 0)>> }

MCCircuits ==
    {[n |-> 2, gates |-> gates, asked |-> a, config |-> c, commands |-> 1] :
       gates \in GateLists, a \in {"graph_like", "interior", "full"}, c \in MCConfigs}

----------------------------------------------------------------------------
\* Graphs by hand: outputs, inputs and spiders with Hadamard edges

Bare(n) == FoldLeft(LAMBDA g, q : AddOutput(AddInput(g, q), q), EmptyGraph, [i \in 1 .. n |-> i - 1])
With(g, phases) == FoldLeft(LAMBDA h, p : AddVertex(h, "z", p), g, phases)
Joining(g, es, kind) == FoldLeft(LAMBDA h, e : AddEdge(h, e[1], e[2], kind), g, es)

\* Two qubits: 0 and 2 are the inputs, 1 and 3 the outputs, 4 and 5 the spiders at the
\* outputs, 6 and 7 those at the inputs.
Base == Joining(With(Bare(2), <<0, 1, 0, 2>>), <<<<1, 4>>, <<3, 5>>, <<0, 6>>, <<2, 7>>>>, "simple")
Sides == <<<<4, 5>>, <<4, 6>>, <<4, 7>>, <<5, 6>>, <<5, 7>>, <<6, 7>>>>
Among(S) == SelectSeq(Sides, LAMBDA e : e \in S)
Plain(S) == Joining(Base, Among(S), "hadamard")
Gadget(S, rim, phase) ==
    Joining(With(Plain(S), <<phase, 1>>),
          <<<<8, 9>>>> \o [i \in DOMAIN rim |-> <<rim[i], 8>>], "hadamard")

PlainGraphs == {Plain(S) : S \in {T2 \in SUBSET ToSet(Sides) : Cardinality(T2) >= 3}}
Rims4 == {<<4, 5>>, <<4, 6>>, <<4, 7>>, <<6, 7>>, <<4, 5, 6>>, <<5, 6, 7>>, <<4, 5, 6, 7>>}
GadgetGraphs == {Gadget(S, rim, phase) : rim \in Rims4, phase \in {0, 4},
    S \in {{<<4, 6>>, <<5, 7>>}, {<<4, 6>>, <<4, 7>>, <<5, 7>>}, {<<4, 5>>, <<4, 7>>, <<5, 6>>}}}

\* Three qubits: outputs at 6 to 8, inputs at 9 to 11, and between them a matrix with no
\* row of a single one
Block(rows) ==
    Joining(Joining(Joining(With(Bare(3), <<0, 1, 0, 0, 2, 0>>),
                            <<<<1, 6>>, <<3, 7>>, <<5, 8>>>>, "simple"),
                    <<<<0, 9>>, <<2, 10>>, <<4, 11>>>>, "simple"),
            LET ones == SelectSeq(Cells(1 .. 3, 1 .. 3), LAMBDA p : p[2] \in rows[p[1]])
            IN [k \in DOMAIN ones |-> <<5 + ones[k][1], 8 + ones[k][2]>>], "hadamard")
FullRows == {{1, 2}, {1, 3}, {2, 3}, {1, 2, 3}}
Blocks == {Block(<<r, s, t>>) : r \in FullRows, s \in FullRows, t \in {{1, 3}, {1, 2, 3}}}

\* A gadget next to 6, whose pivot would join 7 to two more spiders than it takes from it
Costly ==
    Joining(With(Joining(Block(<<{1, 2}, {3}, {2}>>), <<<<6, 7>>>>, "hadamard"), <<4, 1>>),
            <<<<12, 13>>, <<6, 12>>, <<9, 12>>, <<10, 12>>>>, "hadamard")

\* Five qubits; the spiders 10 .. 14 of which two have CZs with the three others
Shared ==
    Joining(Joining(Joining(With(Bare(5), <<0, 0, 0, 0, 0>>),
                      [i \in 1 .. 5 |-> <<2 * i - 1, 9 + i>>], "simple"),
                [i \in 1 .. 5 |-> <<2 * i - 2, 9 + i>>], "simple"),
          <<<<10, 12>>, <<10, 13>>, <<10, 14>>, <<11, 12>>, <<11, 13>>, <<11, 14>>>>, "hadamard")

Read(graphs, configs, n) ==
    {[graph |-> g, config |-> c, commands |-> n] : g \in graphs, c \in configs}
MCReading ==
    Read(PlainGraphs \cup GadgetGraphs \cup Blocks \cup {Costly}, MCConfigs, 1)
    \cup Read({Plain({<<4, 5>>, <<4, 6>>, <<5, 6>>, <<5, 7>>}), Gadget({<<4, 6>>, <<5, 7>>}, <<4, 7>>, 4)}, MCConfigs, 2)
    \cup Read({Shared}, {[Config(2) EXCEPT !.reduce = TRUE]}, 1)
=============================================================================
