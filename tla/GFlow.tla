-------------------------------- MODULE GFlow --------------------------------
(***************************************************************************)
(* The generalized flow of a ZX graph (zx/flow/gflow.cpp): from the        *)
(* outputs on, level by level, the vertices whose measurement errors can   *)
(* be corrected on the frontier of the levels before, by solving a linear  *)
(* system over GF(2) for each.                                             *)
(*                                                                         *)
(* A vertex found in an earlier level is measured later.                   *)
(***************************************************************************)
EXTENDS ZXGraph, BooleanMatrix

HasNPi(g, v) == Denominator(g.phase[v]) = 1

IsGadgetLeaf(g, v) ==
    /\ g.type[v] = "z" /\ Degree(g, v) = 1
    /\ LET a == FirstNeighbor(g, v)
       IN g.type[a[1]] = "z" /\ a[2] = "hadamard" /\ HasNPi(g, a[1])

IsGadgetAxel(g, v) ==
    /\ g.type[v] = "z" /\ HasNPi(g, v)
    /\ \E e \in ToSet(g.nbr[v]) :
          Degree(g, e[1]) = 1 /\ g.type[e[1]] = "z" /\ e[2] = "hadamard"

\* Members in the order in which they were put into an ordered_hashset
Distinct(seq) ==
    LET first == SelectSeq(Upto(Len(seq)), LAMBDA i : \A j \in 1 .. i - 1 : seq[j] # seq[i])
    IN [i \in DOMAIN first |-> seq[first[i]]]

\* get_biadjacency_matrix
Biadjacency(g, rows, columns) ==
    [i \in DOMAIN rows |-> {j \in DOMAIN columns : IsNeighbor(g, rows[i], columns[j])}] \o <<>>

\* _measurement_planes; the planes of an axel other than yz need a phase that
\* is_gadget_axel does not allow.
Plane(g, v, extended) ==
    IF ~extended THEN "xy"
    ELSE IF IsGadgetLeaf(g, v) THEN "not_a_qubit"
    ELSE IF IsGadgetAxel(g, v) THEN "yz" ELSE "xy"

IsXError(plane) == plane = "yz"
IsZError(plane) == plane = "xy"

\* What the calculator keeps: the levels, the correction sets by vertex, the
\* frontier and the vertices taken.  planes never changes.
FlowBegin(g, extended) ==
    LET planes == [v \in Vertices(g) |-> Plane(g, v, extended)]
        outs   == [i \in 1 .. Cardinality(DOMAIN g.outs) |-> g.outs[i - 1]]
    IN [planes |-> planes, levels |-> <<outs>>, frontier |-> outs,
        taken  |-> ToSet(outs) \cup {v \in Vertices(g) : planes[v] = "not_a_qubit"},
        sets   |-> [v \in ToSet(outs) |-> {}]]

\* _update_neighbors_by_frontier
FlowNeighbors(g, s) ==
    LET around == FlattenSeq([i \in DOMAIN s.frontier |->
                                [k \in DOMAIN g.nbr[s.frontier[i]] |-> g.nbr[s.frontier[i]][k][1]]])
    IN Distinct(SelectSeq(around, LAMBDA v : v \notin s.taken))

\* _prepare_matrix: the errors of v, in the column after those of the frontier.
\* row is the index of v.
Augmented(g, s, neighbors, v, row) ==
    LET last == Len(s.frontier) + 1
        matrix == Biadjacency(g, neighbors, s.frontier)
        IsError(j) == (IsZError(s.planes[v]) /\ j = row)
                      # (IsXError(s.planes[v]) /\ Joined(g, v, neighbors[j], "hadamard"))
    IN [j \in DOMAIN neighbors |-> IF IsError(j) THEN matrix[j] \cup {last} ELSE matrix[j]] \o <<>>

\* _set_correction_set_by_matrix: the frontier vertices whose row is one.
CorrectionSet(s, v, rows) ==
    LET last == Len(s.frontier) + 1
        ones == {r \in DOMAIN rows : last \in rows[r] /\ rows[r] # {last}}
    IN {s.frontier[Min(rows[r])] : r \in ones} \cup (IF IsXError(s.planes[v]) THEN {v} ELSE {})

\* Mutant: the right-hand side is left out, so that every system has a solution.
FlowSolveAlways(g, s, neighbors, level, v, row) ==
    LET out == GaussianEliminationAugmented(Matrix(Biadjacency(g, neighbors, s.frontier)),
                                            Len(s.frontier) + 1)
    IN [level EXCEPT !.found = Append(@, v), !.sets = (v :> CorrectionSet(s, v, out.rows)) @@ @]

FlowSolve(g, s, neighbors, level, v, row) ==
    LET out == GaussianEliminationAugmented(Matrix(Augmented(g, s, neighbors, v, row)),
                                            Len(s.frontier) + 1)
    IN IF ~out.solved THEN level
       ELSE [level EXCEPT !.found = Append(@, v),
                          !.sets  = (v :> CorrectionSet(s, v, out.rows)) @@ @]

\* _update_frontier
FlowFrontier(g, s, found, taken) ==
    SelectSeq(s.frontier, LAMBDA v : ~(NeighborIds(g, v) \subseteq taken))
    \o SelectSeq(found, LAMBDA v : v \notin Inputs(g))

FlowLevel(g, s) ==
    LET neighbors == FlowNeighbors(g, s)
        Visit(l, row) == FlowSolve(g, s, neighbors, l, neighbors[row], row)
        Next1(l) == [s EXCEPT !.levels   = Append(@, l.found),
                              !.sets     = l.sets @@ @,
                              !.taken    = @ \cup ToSet(l.found),
                              !.frontier = FlowFrontier(g, s, l.found, s.taken \cup ToSet(l.found))]
    IN Next1(FoldLeft(Visit, [found |-> <<>>, sets |-> <<>>], Upto(Len(neighbors))))

\* calculate, without independent levels: levels until one is empty; that one goes, and the
\* inputs go to the last.
CalculateGFlow(g, extended) ==
    LET round[n \in 0 .. Cardinality(Vertices(g)) + 1] ==
          IF n = 0 THEN FlowBegin(g, extended)
          ELSE LET s == round[n - 1]
               IN IF Last(s.levels) = <<>> THEN s ELSE FlowLevel(g, s)
        Moved(ls, k) == SelectSeq(ls[k], LAMBDA v : (v \in Inputs(g)) = (k = Len(ls)))
        inputs(ls) == SelectSeq(FlattenSeq(Front(ls)), LAMBDA v : v \in Inputs(g))
        Levels(ls) == [k \in DOMAIN ls |->
                         Ascending(ToSet(IF k < Len(ls) THEN Moved(ls, k) ELSE ls[k] \o inputs(ls)))]
        Done(s) == [valid |-> s.taken = Vertices(g), planes |-> s.planes, sets |-> s.sets,
                    found |-> Front(s.levels), levels |-> Levels(Front(s.levels))]
    IN Done(round[Cardinality(Vertices(g)) + 1])

----------------------------------------------------------------------------
\* What a generalized flow is (Backens et al., the paper gflow.cpp names).

\* get_z_correction_set: Odd(g(v))
OddNeighbors(g, vs) == {w \in Vertices(g) : Cardinality(vs \cap NeighborIds(g, w)) % 2 = 1}

\* _vertex2levels: the level a vertex was found in, whatever list it ended up in.
LevelOf(flow, v) == CHOOSE k \in DOMAIN flow.found : v \in ToSet(flow.found[k])

IsGFlow(g, flow) ==
    \A v \in Vertices(g) \ Outputs(g) : flow.planes[v] # "not_a_qubit" =>
       LET xs == flow.sets[v]
           zs == {w \in OddNeighbors(g, xs) : flow.planes[w] # "not_a_qubit"}
       IN /\ xs \cap Inputs(g) = {}
          /\ (v \in xs) = IsXError(flow.planes[v])
          /\ (v \in zs) = IsZError(flow.planes[v])
          /\ \A w \in (xs \cup zs) \ {v} : LevelOf(flow, w) < LevelOf(flow, v)
=============================================================================
