----------------------------- MODULE Extractor -----------------------------
(***************************************************************************)
(* The extractor: from a graph-like ZX graph back to a circuit             *)
(* (extractor/extract.cpp).  What it works with is a record                *)
(*                                                                         *)
(*   graph, circuit   the graph and the gates found so far; the graph      *)
(*                    followed by the gates is what there was before       *)
(*   frontier         the spiders next to the outputs still to be done     *)
(*   qubit            by frontier spider, its qubit (set_qubit)            *)
(*   neighbors        the vertices next to the frontier, in order          *)
(*   axels            the axels of the gadgets there were at the start     *)
(*   lost             a Hadamard edge has been dropped without its gate    *)
(*                                                                         *)
(* The inputs and outputs are those of qubits 0 .. n-1, so that _qubit_map *)
(* is the identity.  Statistics, columns and printing are left out.        *)
(***************************************************************************)
EXTENDS ZXRules, GFlow, Integers

(***************************************************************************)
(* How the extractor turns its biadjacency matrix into one with rows that  *)
(* have a single one (extractor/extract.cpp, greedy_elimination.cpp).  The *)
(* matrices are those of BooleanMatrix; a configuration is a record with   *)
(* the fields of ExtractorConfig that are looked at here.                  *)
(***************************************************************************)

SumOfRows(rows, is) == FoldLeft(LAMBDA r, i : Sum2Rows(r, rows[i]), {}, is)

InOrderOf(S) == SelectSeq(Upto(Max(S \cup {0})), LAMBDA i : i \in S)

\* find_minimal_sums: the fewest rows with a sum that has a single one, the first such
\* rows in the order of their indices; none if a row has a single one already.  The
\* limit of 100000 sums is beyond the bounds.
FindMinimalSums(rows) ==
    LET sums == {is \in SUBSET DOMAIN rows :
                   Cardinality(is) > 1 /\ IsOneHot(SumOfRows(rows, InOrderOf(is)))}
        least == Min({Cardinality(is) : is \in sums})
        Before(a, b) == a = b \/ Min(Sum2Rows(a, b)) \in a
        fewest == {is \in sums : Cardinality(is) = least}
    IN IF sums = {} \/ \E i \in DOMAIN rows : IsOneHot(rows[i]) THEN {}
       ELSE CHOOSE a \in fewest : \A b \in fewest : Before(a, b)

\* One round of greedy_reduction: of the additions of a row to another, the first of
\* those that take away the most.
GreedyRound(s, k) ==
    LET rows == s.rows
        Sum(op) == Cardinality(rows[op[2]]) - Cardinality(Sum2Rows(rows[op[1]], rows[op[2]]))
        pairs == {op \in s.left \X s.left : op[1] # op[2]}
        best  == {op \in pairs : \A other \in pairs : Sum(op) >= Sum(other)}
        lo(op) == Min({op[1], op[2]})
        hi(op) == Max({op[1], op[2]})
        \* pairs in the order of their rows, and j added to i before i to j
        Before(a, b) == \/ a = b
                        \/ lo(a) < lo(b)
                        \/ lo(a) = lo(b) /\ hi(a) < hi(b)
                        \/ lo(a) = lo(b) /\ hi(a) = hi(b) /\ a[1] > a[2]
        With(op) == [rows |-> [rows EXCEPT ![op[2]] = Sum2Rows(@, rows[op[1]])],
                     ops  |-> Append(s.ops, op),
                     left |-> s.left \ {op[1]}]
    IN With(CHOOSE a \in best : \A b \in best : Before(a, b))

GreedyReduction(rows) ==
    LET sums == FindMinimalSums(rows)
        start == [rows |-> rows, ops |-> <<>>, left |-> sums]
    IN FoldLeft(GreedyRound, start, Upto(Cardinality(sums) - 1)).ops

----------------------------------------------------------------------------
\* column_optimal_swap: which column goes where, so that the diagonal has ones.

\* _find_column_swap: a function from columns to rows, <<>> on a contradiction.  An
\* option that failed stays in the copy the next one is tried with.
RECURSIVE FindColumnSwap(_, _)
FindColumnSwap(rows, target) ==
    LET left      == DOMAIN rows \ {target[j] : j \in DOMAIN target}
        Free(i)   == rows[i] \ DOMAIN target
        Rows(j)   == {i \in left : j \in rows[i]}
        Only(i)   == IF Cardinality(Free(i)) = 1 THEN Free(i)
                     ELSE {j \in Free(i) : Cardinality(Rows(j)) = 1}
        forced    == {i \in left : Free(i) = {} \/ Only(i) # {}}
        i         == Min(forced)
        fewest    == Min({Cardinality(Free(k)) : k \in left})
        row       == Min({k \in left : Cardinality(Free(k)) = fewest})
        options   == InOrderOf(Free(row))
        Tried(k)  == [j \in {options[n] : n \in 1 .. k} |-> row] @@ target
        Found(k)  == FindColumnSwap(rows, Tried(k))
        good      == {k \in DOMAIN options : Found(k) # <<>>}
    IN IF left = {} THEN target
       ELSE IF forced # {}
            THEN IF Free(i) = {} THEN <<>> ELSE FindColumnSwap(rows, (Min(Only(i)) :> i) @@ target)
       ELSE IF good = {} THEN target ELSE Found(Min(good))

\* The column that comes to stand at each place.
ColumnOrder(rows, n) ==
    LET target == FindColumnSwap(rows, <<>>)
        values == {target[j] : j \in DOMAIN target}
        places == InOrderOf((1 .. n) \ values)
        others == InOrderOf((1 .. n) \ DOMAIN target)
        all    == target @@ [j \in ToSet(others) |->
                               places[CHOOSE k \in DOMAIN others : others[k] = j]]
    IN [i \in 1 .. n |-> CHOOSE j \in DOMAIN all : all[j] = i]

Reordered(rows, order) ==
    [i \in DOMAIN rows |-> {k \in DOMAIN order : order[k] \in rows[i]}] \o <<>>

----------------------------------------------------------------------------
\* biadjacency_eliminations

\* _filter_duplicate_cxs: until nothing more goes.
FilterAll(m) == [m EXCEPT !.ops = FoldLeft(LAMBDA ops, k : FilterDuplicates(ops), @, Upto(Len(@)))]

\* Of several block sizes, that with the fewest operations, smaller ones first.  (The
\* filter between them works on the matrix that has no operations yet, so it does
\* nothing.)  With none to try, what is left is no matrix.
NoMatrix == [rows |-> <<>>, ops |-> <<>>]
BestBlock(rows, n, blocks) ==
    LET Fewer(best, m) == IF best = NoMatrix \/ Len(m.ops) < Len(best.ops) THEN m ELSE best
        Try(best, b) == Fewer(best, GaussianEliminationSkip(Matrix(rows), n, b, TRUE))
    IN FoldLeft(Try, NoMatrix, blocks)

\* Level 3: more operations for each row that comes out than the greedy ones, by
\* 32-bit floats; a quotient by zero is infinite, or not a number.
GreedyWins(gauss, greedy) ==
    LET single == Cardinality({i \in DOMAIN gauss.rows : IsOneHot(gauss.rows[i])})
    IN IF single = 0 THEN gauss.ops # <<>>
       ELSE 10 * Len(gauss.ops) > single * (10 * Len(greedy) - 1)

\* The reduced matrix, with the columns in the order they were reduced in; the greedy
\* operations are replayed with the columns where they were.
Eliminated(rows, n, config) ==
    LET blocks == IF config.level = 0 THEN <<config.block>> ELSE Upto(n - 1)
        Filtered(m) == IF config.level = 0 /\ config.filter THEN FilterAll(m) ELSE m
        Ordered(m, order) == [rows |-> m.rows, ops |-> m.ops, order |-> order]
        Better(greedy, gauss) ==
            greedy # <<>> /\ (config.level = 2 \/ GreedyWins(gauss, greedy))
        Choose(greedy, gauss, order) ==
            IF Better(greedy, gauss) THEN Ordered(Replay(Matrix(rows), greedy), Upto(n))
            ELSE Ordered(gauss, order)
        With(order) == Choose(IF config.level > 1 THEN GreedyReduction(rows) ELSE <<>>,
                              Filtered(BestBlock(Reordered(rows, order), n, blocks)), order)
    IN With(ColumnOrder(rows, n))

----------------------------------------------------------------------------
\* _max_overlap: the two rows with the most ones in common, the fuller one first, the
\* first such pair; and the columns they have in common.
MaxOverlap(rows) ==
    LET Common(p) == rows[p[1]] \cap rows[p[2]]
        pairs == {p \in (DOMAIN rows) \X (DOMAIN rows) : p[1] < p[2] /\ Common(p) # {}}
        most  == {p \in pairs : \A q \in pairs : Cardinality(Common(p)) >= Cardinality(Common(q))}
        Before(p, q) == p[1] < q[1] \/ (p[1] = q[1] /\ p[2] <= q[2])
        Fuller(p) == IF Cardinality(rows[p[1]]) < Cardinality(rows[p[2]]) THEN <<p[2], p[1]>> ELSE p
        With(p) == [rows |-> Fuller(p), common |-> Common(p)]
    IN IF pairs = {} THEN [rows |-> <<>>, common |-> {}]
       ELSE With(CHOOSE p \in most : \A q \in most : Before(p, q))

-----------------------------------------------------------------------------
HGate(q)     == [op |-> "h", phase |-> Pi, qubits |-> <<q>>]
PZGate(p, q) == [op |-> "pz", phase |-> p, qubits |-> <<q>>]
CXGate(c, t) == [op |-> "control", of |-> "px", phase |-> Pi, qubits |-> <<c, t>>]
CZGate(c, t) == [op |-> "control", of |-> "pz", phase |-> Pi, qubits |-> <<c, t>>]

\* prepend_series_gates: each gate comes to stand before those of the circuit.
Prepended(x, gates) == [x EXCEPT !.circuit = Reverse(gates) \o @]

OutputQubits(g) == [i \in 1 .. Cardinality(DOMAIN g.outs) |-> i - 1]
AtOutput(g, q)  == FirstNeighbor(g, g.outs[q])

\* The entries of a matrix, row by row
Cells(rows, columns) ==
    FlattenSeq([i \in rows |-> [j \in columns |-> <<i, j>>]])

\* A frontier spider leaves, one comes in; ordered_hashset keeps the order.
Dismiss(x, f) == [x EXCEPT !.frontier = SelectSeq(@, LAMBDA v : v # f),
                           !.qubit = [v \in DOMAIN @ \ {f} |-> @[v]]]
Enlist(x, v, q) == [x EXCEPT !.frontier = IF v \in ToSet(@) THEN @ ELSE Append(@, v),
                             !.qubit = (v :> q) @@ @]

ByQubit(x) == [x EXCEPT !.frontier = SortSeq(@, LAMBDA v, w : x.qubit[v] < x.qubit[w])]

----------------------------------------------------------------------------
\* update_neighbors.  A frontier spider between an output and an input goes if there
\* is nothing else to it; otherwise the wire to the input gets a spider of its own.

Rims(g, f) == {v \in NeighborIds(g, f) : IsBoundary(g, v)}
InputAt(g, f) == CHOOSE b \in Rims(g, f) : b \in Inputs(g)
IsBare(g, f) == Degree(g, f) = 2 /\ g.phase[f] = 0

\* The spider has a Hadamard gate for its edge to the input, and none for the one to
\* the output: `lost` says whether there was one.
Discharge(x, f) ==
    LET g == x.graph
        a == FirstNeighbor(g, f)
        b == SecondNeighbor(g, f)
        gates == IF Joined(g, f, InputAt(g, f), "hadamard") THEN <<HGate(x.qubit[f])>> ELSE <<>>
        out   == IF a[1] \in Outputs(g) THEN a ELSE b
        cut   == RemoveVertex(AddEdge(g, a[1], b[1], "simple"), f)
    IN Dismiss(Prepended([x EXCEPT !.graph = cut, !.lost = @ \/ out[2] = "hadamard"], gates), f)

Separate(x, f) ==
    [x EXCEPT !.graph = AddIdentityVertex(@, f, InputAt(@, f), "z", "hadamard")]

\* Mutant: nothing is put between a spider and its input.
UpdateNeighborsAsTheyAre(x) ==
    LET bare == SelectSeq(x.frontier, LAMBDA f : Cardinality(Rims(x.graph, f)) = 2 /\ IsBare(x.graph, f))
        With(y) == [y EXCEPT !.neighbors = Distinct(
                      SelectSeq(FlattenSeq([i \in DOMAIN y.frontier |->
                                              NeighborList(y.graph, y.frontier[i])]),
                                LAMBDA v : ~IsBoundary(y.graph, v) /\ v \notin ToSet(y.frontier)))]
    IN With(FoldLeft(Discharge, x, bare))

UpdateNeighbors(x) ==
    LET ends   == SelectSeq(x.frontier, LAMBDA f : Cardinality(Rims(x.graph, f)) = 2)
        bare   == SelectSeq(ends, LAMBDA f : IsBare(x.graph, f))
        others == SelectSeq(ends, LAMBDA f : ~IsBare(x.graph, f))
        With(y) == [y EXCEPT !.neighbors = Distinct(
                      SelectSeq(FlattenSeq([i \in DOMAIN y.frontier |->
                                              NeighborList(y.graph, y.frontier[i])]),
                                LAMBDA v : ~IsBoundary(y.graph, v) /\ v \notin ToSet(y.frontier)))]
    IN With(FoldLeft(Discharge, FoldLeft(Separate, x, others), bare))

\* The constructor, initialize
Initialize(g, circuit) ==
    LET Begin(x, q) ==
          LET v == AtOutput(g, q)[1]
          IN IF IsBoundary(g, v) THEN x ELSE Enlist(x, v, q)
        bare == [graph |-> g, circuit |-> circuit, frontier |-> <<>>, qubit |-> <<>>,
                 neighbors |-> <<>>, axels |-> {}, lost |-> FALSE]
        Axels(x) == [x EXCEPT !.axels = {FirstNeighbor(x.graph, v)[1] :
                                           v \in {u \in Vertices(x.graph) : IsGadgetLeaf(x.graph, u)}}]
    IN Axels(UpdateNeighbors(ByQubit(FoldLeft(Begin, bare, OutputQubits(g)))))

----------------------------------------------------------------------------
\* clean_frontier

\* extract_singles: the Hadamard edges at the outputs and the phases next to them.
ExtractSingles(x) ==
    LET g == x.graph
        At(q) == AtOutput(g, q)
        gates(q) == (IF At(q)[2] = "hadamard" THEN <<HGate(q)>> ELSE <<>>)
                    \o (IF g.phase[At(q)[1]] # 0 THEN <<PZGate(g.phase[At(q)[1]], q)>> ELSE <<>>)
        qs == OutputQubits(g)
        Clear(h, q) == [h EXCEPT !.phase[At(q)[1]] = 0]
        Toggle(h, q) == IF At(q)[2] = "simple" THEN h
                        ELSE AddEdge(Unlink(h, g.outs[q], At(q)[1], "hadamard"),
                                     g.outs[q], At(q)[1], "simple")
    IN Prepended([x EXCEPT !.graph = FoldLeft(Toggle, FoldLeft(Clear, @, qs), qs)],
                 FlattenSeq([i \in DOMAIN qs |-> gates(qs[i])]))

\* reduce_czs: CZs that two rows share are done once, between two CXs.
ShareCZs(s, k) ==
    LET Without(r, i, j, common) ==
          IF r \in {i, j} THEN s.rows[r] \ common
          ELSE IF r \in common THEN s.rows[r] \ {i, j} ELSE s.rows[r]
        CZs(j, seq) == [n \in DOMAIN seq |-> CZGate(s.qubit[j], s.qubit[seq[n]])]
        Share(i, j, common) ==
          [s EXCEPT !.rows  = [r \in DOMAIN @ |-> Without(r, i, j, common)] \o <<>>,
                    !.gates = @ \o <<CXGate(s.qubit[i], s.qubit[j])>> \o CZs(j, Ascending(common))
                                \o <<CXGate(s.qubit[i], s.qubit[j])>>]
        With(o) == IF Cardinality(o.common) <= 2 THEN s ELSE Share(o.rows[1], o.rows[2], o.common)
    IN With(MaxOverlap(s.rows))

\* extract_czs: the Hadamard edges inside the frontier.
ExtractCZs(x, reduce) ==
    LET fs    == x.frontier
        ks    == DOMAIN fs
        pairs == SelectSeq(Cells(ks, ks), LAMBDA p :
                   p[1] < p[2] /\ Joined(x.graph, fs[p[1]], fs[p[2]], "hadamard"))
        start == [rows |-> Biadjacency(x.graph, fs, fs), gates |-> <<>>,
                  qubit |-> [k \in ks |-> x.qubit[fs[k]]]]
        CZ(p) == CZGate(x.qubit[fs[p[1]]], x.qubit[fs[p[2]]])
        CZs(seq) == [n \in DOMAIN seq |-> CZ(seq[n])]
        Gates(s) == s.gates \o CZs(SelectSeq(pairs, LAMBDA p : p[2] \in s.rows[p[1]]))
        Cut(h, p) == Unlink(h, fs[p[1]], fs[p[2]], "hadamard")
    IN Prepended([x EXCEPT !.graph = FoldLeft(Cut, @, pairs)],
                 Gates(IF reduce THEN FoldLeft(ShareCZs, start, pairs) ELSE start))

CleanFrontier(x, config) ==
    IF config.dynamic THEN ExtractSingles(x) ELSE ExtractCZs(ExtractSingles(x), config.reduce)

\* frontier_is_cleaned and axel_in_neighbors, asked for by the commands that take a
\* single step
FrontierIsCleaned(x) ==
    \A f \in ToSet(x.frontier) :
       /\ x.graph.phase[f] = 0
       /\ NeighborIds(x.graph, f) \cap ToSet(x.frontier) = {}
       /\ \A o \in Outputs(x.graph) : ~Joined(x.graph, f, o, "hadamard")

\* What extract_czs asks for itself
FrontierIsCleanedForCZ(x) ==
    \A f \in ToSet(x.frontier) :
       /\ x.graph.phase[f] = 0
       /\ \A o \in Outputs(x.graph) : ~Joined(x.graph, f, o, "hadamard")

AxelInNeighbors(x) == ToSet(x.neighbors) \cap x.axels # {}

----------------------------------------------------------------------------
\* remove_gadget: an axel next to the frontier is pivoted with its first neighbour
\* there, and what then stands at that one's boundary takes its place.

\* _calculate_diff_pivot_edges_if_extracting_cz.  (The neighbours of the axel alone are
\* taken to be those that are not neighbours of the axel, so there are none.)
PivotEdgeDiff(g, f, axel, other) ==
    LET both == NeighborIds(g, f) \cap NeighborIds(g, axel)
        near == Cardinality(both \cap NeighborIds(g, other))
        far  == Cardinality(both) - near
    IN IF IsNeighbor(g, other, axel) THEN far - near ELSE near - far

\* pred_coeff is 0.7.
CZsFirst(x, f, axel) ==
    LET others == NeighborIds(x.graph, f) \cap ToSet(x.frontier)
    IN 7 * MapThenSumSet(LAMBDA o : PivotEdgeDiff(x.graph, f, axel, o), others)
       + 10 * Cardinality(others) < 0

RemoveGadget(x, config, axel) ==
    LET Freed(y, f) == IF config.dynamic /\ CZsFirst(y, f, axel)
                       THEN ExtractCZs(y, config.reduce) ELSE y
        Pivoted(y, f) == [y EXCEPT !.graph = PivotUnfusion(@, f, axel, {}, {}).graph]
        Succeeded(y, f, rim) == Enlist(y, FirstNeighbor(y.graph, rim)[1], x.qubit[f])
        At(f, rim) == Succeeded(Pivoted(Freed([Dismiss(x, f) EXCEPT !.axels = @ \ {axel}], f), f), f, rim)
        With(f) == At(f, SelectSeq(NeighborList(x.graph, f), LAMBDA v : IsBoundary(x.graph, v))[1])
    IN With(SelectSeq(NeighborList(x.graph, axel), LAMBDA v : v \in ToSet(x.frontier))[1])

\* An axel that no longer has a neighbour in the frontier stays.
TouchesFrontier(x, v) == NeighborIds(x.graph, v) \cap ToSet(x.frontier) # {}

RemoveGadgets(x, config, order) ==
    LET Visit(y, n) == IF n \in y.axels /\ TouchesFrontier(y, n) THEN RemoveGadget(y, config, n) ELSE y
    IN FoldLeft(Visit, x, order)

HasGadget(x) == \E n \in ToSet(x.neighbors) : n \in x.axels /\ TouchesFrontier(x, n)

----------------------------------------------------------------------------
\* extract_cxs

\* contains_single_neighbor
ContainsSingleNeighbor(x) == \E f \in ToSet(x.frontier) : Degree(x.graph, f) = 2

Sorted(x, config) ==
    LET y == IF config.sort_frontier THEN ByQubit(x) ELSE x
    IN [y EXCEPT !.neighbors = IF config.sort_neighbors THEN Ascending(ToSet(@)) ELSE @]

\* biadjacency_eliminations: what is to be done, and the order of the neighbours that
\* goes with it.  x has been Sorted.
ReducedMatrix(x, config) ==
    Eliminated(Biadjacency(x.graph, x.frontier, x.neighbors), Len(x.neighbors), config)

\* update_graph_by_matrix
UpdateGraphByMatrix(g, frontier, neighbors, rows) ==
    LET cells == Cells(DOMAIN frontier, DOMAIN neighbors)
        Set(h, p) ==
          LET f == frontier[p[1]]
              n == neighbors[p[2]]
              is == Joined(h, f, n, "hadamard")
          IN IF p[2] \in rows[p[1]] /\ ~is THEN AddEdge(h, f, n, "hadamard")
             ELSE IF p[2] \notin rows[p[1]] /\ is THEN Unlink(h, f, n, "hadamard") ELSE h
    IN FoldLeft(Set, g, cells)

\* The neighbours in their new order and the edges of the new matrix; and the CXs, of
\* which the control is the row that is added to.
WithMatrix(x, e) ==
    LET ordered == [k \in DOMAIN x.neighbors |-> x.neighbors[e.order[k]]]
    IN [x EXCEPT !.neighbors = ordered,
                 !.graph = UpdateGraphByMatrix(@, x.frontier, ordered, e.rows)]

\* Mutant: the control is the row that is added.
RowGatesTurned(x, ops) ==
    [k \in DOMAIN ops |-> CXGate(x.qubit[x.frontier[ops[k][1]]], x.qubit[x.frontier[ops[k][2]]])]

RowGates(x, ops) ==
    [k \in DOMAIN ops |-> CXGate(x.qubit[x.frontier[ops[k][2]]], x.qubit[x.frontier[ops[k][1]]])]

\* With a single neighbour, no best block size is found at the levels above 0, and
\* update_graph_by_matrix reads rows that are not there.
ReadsNoMatrix(x, config) ==
    x.frontier # <<>> /\ Len(x.neighbors) = 1 /\ config.level > 0

\* What was found is done to the graph, and to the circuit unless the operations get lost.
EliminateAs(x, e, keeps) ==
    IF keeps THEN Prepended(WithMatrix(x, e), RowGates(x, e.ops))
    ELSE [WithMatrix(x, e) EXCEPT !.lost = @ \/ e.ops # <<>>]

Eliminate(x, config, keeps) == EliminateAs(x, ReducedMatrix(x, config), keeps)
ExtractCXs(x, config) == Eliminate(Sorted(x, config), config, TRUE)

\* `extract step -cx` eliminates and updates the graph before it extracts: the CXs of the
\* first time are forgotten.
EliminateTwice(x, config) ==
    FoldLeft(LAMBDA y, keeps : Eliminate(Sorted(y, config), config, keeps), x, <<FALSE, TRUE>>)

----------------------------------------------------------------------------
\* extract_hadamards_from_matrix: a frontier spider with one neighbour only gives way
\* to it.

OneHotPairs(x) ==
    LET rows == Biadjacency(x.graph, x.frontier, x.neighbors)
        hot  == SelectSeq(Upto(Len(rows)), LAMBDA i : IsOneHot(rows[i]))
    IN [k \in DOMAIN hot |-> <<x.frontier[hot[k]], x.neighbors[Min(rows[hot[k]])]>>]

\* The neighbour takes over the spider's first boundary.
Advance(x, pair) ==
    LET f   == pair[1]
        n   == pair[2]
        q   == x.qubit[f]
        rim == SelectSeq(x.graph.nbr[f], LAMBDA e : IsBoundary(x.graph, e[1]))[1]
        y   == Enlist(Dismiss(Prepended(x, <<HGate(q)>>), f), n, q)
    IN [y EXCEPT !.graph = RemoveVertex(AddEdge(@, rim[1], n, rim[2]), f)]

ExtractHadamards(x) == FoldLeft(Advance, x, OneHotPairs(x))

----------------------------------------------------------------------------
\* permute_qubits: the wires that are left may be crossed; swaps undo that.

IsWires(g) ==
    \A o \in Outputs(g) : Degree(g, o) = 1 /\ FirstNeighbor(g, o)[1] \in Inputs(g)

InputQubit(g, q) == CHOOSE p \in DOMAIN g.ins : g.ins[p] = AtOutput(g, q)[1]
Matched(g) == \A q \in DOMAIN g.outs : InputQubit(g, q) = q

\* prepend_swap_gate
SwapGates(q, r) == <<CXGate(q, r), CXGate(r, q), CXGate(q, r)>>

SwapOne(s, o) ==
    LET i == s.to[o]
        t == s.from[o]
    IN IF o = i THEN s
       ELSE [to |-> [s.to EXCEPT ![t] = i], from |-> [s.from EXCEPT ![i] = t],
             gates |-> s.gates \o SwapGates(o, t)]

PermuteQubits(x) ==
    LET g  == x.graph
        qs == OutputQubits(g)
        to == [q \in DOMAIN g.outs |-> InputQubit(g, q)]
        start == [to |-> to, gates |-> <<>>,
                  from |-> [p \in DOMAIN g.ins |-> CHOOSE q \in DOMAIN g.outs : to[q] = p]]
        Cut(h, q) == Unlink(h, AtOutput(h, q)[1], h.outs[q], AtOutput(h, q)[2])
        Join(h, q) == AddEdge(h, h.outs[q], h.ins[q], "simple")
    IN IF ~IsWires(g) \/ Matched(g) THEN x
       ELSE Prepended([x EXCEPT !.graph = FoldLeft(Join, FoldLeft(Cut, @, qs), qs),
                                !.lost = @ \/ \E q \in ToSet(qs) : AtOutput(g, q)[2] = "hadamard"],
                      FoldLeft(SwapOne, start, qs).gates)
=============================================================================
