----------------------------- MODULE Simplifier -----------------------------
(***************************************************************************)
(* The reduction routines of zx/simplifier/simplify.cpp.  A routine is a   *)
(* loop over steps: a step applies a rule in rounds until it finds nothing *)
(* more, or calls another routine.  The loops that are running are kept as *)
(* frames, the innermost one first:                                        *)
(*                                                                         *)
(*   loop    the routine, or a rule that `zx rule` asks for by itself      *)
(*   rest    the steps left of this pass                                   *)
(*   again   a rule the loop counts has had a round in this pass           *)
(*   kept    the graphs put aside: in dynamic_reduce the graph while a     *)
(*           copy of it is reduced, in partition_reduce the other subgraphs*)
(*   optimal in dynamic_reduce, how many T phases that copy ends with      *)
(*   cuts    in partition_reduce, the edges between the subgraphs          *)
(*                                                                         *)
(* SIGINT raises stop_requested() at any moment: the rounds and the loops  *)
(* look at it before they go on.                                           *)
(***************************************************************************)
EXTENDS ZXRules, Integers, FiniteSetsExt

(***************************************************************************)
(* The rules that the simplifier applies in rounds (zx/simplifier/rules):  *)
(* a round finds as many matches as it can, none of which touches what     *)
(* another one claims, and applies them all.  Vertices are scanned in the  *)
(* order of their ids and edges from their lower end, in the order in      *)
(* which they were added; a match takes what it claims off the candidates. *)
(***************************************************************************)

\* The matches found over a list, in order: Found answers the matches of an item
\* (one or none) and Claims the vertices a match takes off the candidates.
Scan(g, items, Found(_, _), Claims(_)) ==
    LET Visit(s, x) ==
          LET ms == Found(s.free, x)
          IN [free  |-> s.free \ UNION {Claims(m) : m \in ToSet(ms)},
              found |-> s.found \o ms]
    IN FoldLeft(Visit, [free |-> Vertices(g), found |-> <<>>], items).found

OneIf(test, m) == IF test THEN <<m>> ELSE <<>>

VertexList(g) == Ascending(Vertices(g))

\* for_each_edge: [v, w] with v < w.
EdgeList(g, et) ==
    LET At(v) == SelectSeq(g.nbr[v], LAMBDA e : e[1] > v /\ e[2] = et)
        From(v) == LET es == At(v) IN [k \in DOMAIN es |-> <<v, es[k][1]>>]
        vs == VertexList(g)
    IN FlattenSeq([i \in DOMAIN vs |-> From(vs[i])])

HasNPiPhase(g, v) == Denominator(g.phase[v]) = 1
Around(g, v) == {v} \cup NeighborIds(g, v)

\* _update and ZXRuleMatcher::apply both end by dropping isolated vertices.
Swept(g) == RemoveVertices(g, IsolatedVertices(g))
AddEdges(g, es) == FoldLeft(LAMBDA h, e : AddEdge(h, e[1], e[2], e[3]), g, es)

----------------------------------------------------------------------------
\* The matches of each rule.

HadamardMatches(g) ==
    LET Found(free, v) ==
          OneIf(g.type[v] = "h_box" /\ Degree(g, v) = 2 /\ NeighborIds(g, v) \subseteq free, v)
    IN Scan(g, VertexList(g), Found, LAMBDA v : Around(g, v))

IdentityMatches(g) ==
    LET Found(free, v) == OneIf(v \in free /\ IsIdentity(g, v), v)
    IN Scan(g, VertexList(g), Found, LAMBDA v : Around(g, v))

\* A spider about to be merged away keeps its other neighbours out of the round.
SpiderFusionMatches(g) ==
    LET Found(free, e) ==
          OneIf({e[1], e[2]} \subseteq free /\ IsZX(g, e[1]) /\ g.type[e[1]] = g.type[e[2]], e)
    IN Scan(g, EdgeList(g, "simple"), Found, LAMBDA e : {e[1]} \cup Around(g, e[2]))

LCompMatches(g) ==
    LET Found(free, v) ==
          OneIf(/\ v \in free /\ g.type[v] = "z" /\ Denominator(g.phase[v]) = 2
                /\ IsInteriorlyGraphLikeAt(g, v) /\ NeighborIds(g, v) \subseteq free, v)
    IN Scan(g, VertexList(g), Found, LAMBDA v : Around(g, v))

\* Two Pauli spiders with at most one boundary between them.
PivotMatches(g) ==
    LET Regular(v) == \A e \in ToSet(g.nbr[v]) :
                         g.type[e[1]] = "boundary" \/ (g.type[e[1]] = "z" /\ e[2] = "hadamard")
        Rims(v) == Cardinality({w \in NeighborIds(g, v) : IsBoundary(g, w)})
        Found(free, e) ==
          OneIf(/\ {e[1], e[2]} \subseteq free
                /\ \A v \in {e[1], e[2]} :
                      g.type[v] = "z" /\ HasNPiPhase(g, v) /\ Regular(v)
                /\ Rims(e[1]) + Rims(e[2]) <= 1, e)
    IN Scan(g, EdgeList(g, "hadamard"), Found, LAMBDA e : Around(g, e[1]) \cup Around(g, e[2]))

\* A spider at one boundary and the first Pauli neighbour of it that is free and
\* has no dangling neighbour.
PivotBoundaryMatches(g) ==
    LET rims == Ascending(Inputs(g)) \o Ascending(Outputs(g))
        Found(free, rim) ==
          LET s    == FirstNeighbor(g, rim)[1]
              fits == SelectSeq(NeighborList(g, s), LAMBDA t :
                        /\ t \in free /\ ~IsBoundary(g, t)
                        /\ HasNPiPhase(g, t) /\ ~HasDanglingNeighbors(g, t))
          IN OneIf(/\ s \in free /\ IsGraphLikeAt(g, s)
                   /\ Cardinality({w \in NeighborIds(g, s) : IsBoundary(g, w)}) = 1
                   /\ fits # <<>>
                   /\ IsInteriorlyGraphLikeAt(g, fits[1]),
                   <<s, fits[1]>>)
    IN Scan(g, rims, Found, LAMBDA e : Around(g, e[1]) \cup Around(g, e[2]))

\* An interior Pauli spider next to an interior one that is not: the pair is
\* pivoted and the other's phase becomes a gadget.
PivotGadgetMatches(g) ==
    LET Found(free, e) ==
          LET s == IF HasNPiPhase(g, e[1]) THEN e[1] ELSE e[2]
              t == IF s = e[1] THEN e[2] ELSE e[1]
          IN OneIf(/\ {s, t} \subseteq free
                   /\ HasNPiPhase(g, s) /\ ~HasNPiPhase(g, t)
                   /\ Degree(g, t) # 1
                   /\ \A v \in {s, t} \cup NeighborIds(g, s) \cup NeighborIds(g, t) :
                         g.type[v] = "z"
                   /\ \A v \in NeighborIds(g, s) : Degree(g, v) # 1,
                   <<s, t>>)
    IN Scan(g, EdgeList(g, "hadamard"), Found, LAMBDA e : Around(g, e[1]) \cup Around(g, e[2]))

\* A leaf with a Pauli phase that hangs on a spider: no edge type is looked at.
StateCopyMatches(g) ==
    LET Axel(v) == FirstNeighbor(g, v)[1]
        Found(free, v) ==
          OneIf(/\ v \in free /\ g.type[v] = "z" /\ HasNPiPhase(g, v) /\ Degree(g, v) = 1
                /\ g.type[Axel(v)] = "z", v)
    IN Scan(g, VertexList(g), Found, LAMBDA v : NeighborIds(g, Axel(v)))

\* A Z and an X spider, simple edges only, and around each of them the other colour.
BialgebraMatches(g) ==
    LET Opposed(v, w) ==
          /\ IsZX(g, v) /\ Degree(g, v) # 1
          /\ \A e \in ToSet(g.nbr[v]) :
                e[2] = "simple" /\ g.phase[e[1]] = 0 /\ g.type[e[1]] = g.type[w]
        Found(free, e) ==
          OneIf(/\ {e[1], e[2]} \subseteq free /\ g.type[e[1]] # g.type[e[2]]
                /\ Opposed(e[1], e[2]) /\ Opposed(e[2], e[1]), e)
    IN Scan(g, EdgeList(g, "simple"), Found,
            LAMBDA e : NeighborIds(g, e[1]) \cup NeighborIds(g, e[2]))

----------------------------------------------------------------------------
\* The phase gadget rule: a leaf with a phase that is not Clifford hangs on an
\* axel; gadgets on the same spiders become one.  Finding the matches already
\* turns the pi of an axel into a sign of its leaf.

GadgetLeaves(g) ==
    LET Axel(v) == FirstNeighbor(g, v)[1]
        Found(s, v) ==
          IF /\ Denominator(g.phase[v]) > 2 /\ Degree(g, v) = 1
             /\ HasNPiPhase(g, Axel(v)) /\ ~IsBoundary(g, Axel(v))
             /\ \A u \in ToSet(s) : Axel(u) # Axel(v)
          THEN Append(s, v) ELSE s
    IN SelectSeq(FoldLeft(Found, <<>>, VertexList(g)), LAMBDA v : Degree(g, Axel(v)) > 1)

PhaseGadgetMatches(g) ==
    LET leaves   == GadgetLeaves(g)
        Axel(v)  == FirstNeighbor(g, v)[1]
        Group(v) == NeighborIds(g, Axel(v)) \ {v}
        Peers(v) == SelectSeq(leaves, LAMBDA u : Group(u) = Group(v))
        first    == SelectSeq(leaves, LAMBDA v : Peers(v)[1] = v)
        Works(v) == Len(Peers(v)) > 1 \/ g.phase[Axel(v)] # 0
    IN [i \in DOMAIN SelectSeq(first, Works) |-> Peers(SelectSeq(first, Works)[i])]

FusePhaseGadgets(g, groups) ==
    LET Axel(v) == FirstNeighbor(g, v)[1]
        Share(v) == IF g.phase[Axel(v)] = 0 THEN g.phase[v] ELSE Minus(0, g.phase[v])
        Total(vs) == FoldLeft(LAMBDA p, v : Plus(p, Share(v)), 0, vs)
        Fuse1(h, vs) ==
          [h EXCEPT !.phase = [v \in DOMAIN @ |->
             IF v = vs[1] THEN Total(vs)
             ELSE IF \E i \in DOMAIN vs : v = Axel(vs[i]) THEN 0 ELSE @[v]]]
        Gone(vs) == UNION {{vs[i], Axel(vs[i])} : i \in 2..Len(vs)}
    IN Swept(RemoveVertices(FoldLeft(Fuse1, g, groups), UNION {Gone(vs) : vs \in ToSet(groups)}))

----------------------------------------------------------------------------
\* Applying a round's matches.

ApplyHadamards(g, vs) ==
    LET Bridge(v) ==
          LET a == FirstNeighbor(g, v)
              b == SecondNeighbor(g, v)
          IN <<a[1], b[1], IF a[2] = b[2] THEN "hadamard" ELSE "simple">>
    IN Swept(RemoveVertices(AddEdges(g, [i \in DOMAIN vs |-> Bridge(vs[i])]), ToSet(vs)))

\* The second spider of every pair is merged into the first.
ApplySpiderFusions(g, es) ==
    LET Merge(h, e) == Turned(h, e[1], g.phase[e[2]])
        Moved(e) ==
          LET rest == SelectSeq(g.nbr[e[2]], LAMBDA x : x[1] # e[1])
          IN [i \in DOMAIN rest |-> <<e[1], rest[i][1], rest[i][2]>>]
        edges == FlattenSeq([i \in DOMAIN es |-> Moved(es[i])])
    IN Swept(RemoveVertices(AddEdges(FoldLeft(Merge, g, es), edges), {e[2] : e \in ToSet(es)}))

\* The Pauli state goes to every other neighbour of the axel: to a spider as a phase,
\* to a boundary as a spider of its own.
ApplyStateCopies(g, vs) ==
    LET Axel(v) == FirstNeighbor(g, v)[1]
        Copy(h, v) ==
          LET Push(k, e) ==
                IF IsBoundary(g, e[1])
                THEN AddEdge(AddVertex(k, "z", g.phase[v]), FreshId(k), e[1], ToggleEdge(e[2]))
                ELSE Turned(k, e[1], g.phase[v])
          IN FoldLeft(Push, h, SelectSeq(g.nbr[Axel(v)], LAMBDA e : e[1] # v))
    IN Swept(RemoveVertices(FoldLeft(Copy, g, vs), UNION {{v, Axel(v)} : v \in ToSet(vs)}))

ApplyBialgebras(g, es) ==
    LET Sides(v, w) == SelectSeq(NeighborList(g, v), LAMBDA u : u # w)
        Crossed(e) ==
          LET ls == Sides(e[1], e[2])
              rs == Sides(e[2], e[1])
          IN FlattenSeq([i \in DOMAIN ls |-> [k \in DOMAIN rs |-> <<ls[i], rs[k], "simple">>]])
    IN Swept(RemoveVertices(AddEdges(g, FlattenSeq([i \in DOMAIN es |-> Crossed(es[i])])),
                            UNION {{e[1], e[2]} : e \in ToSet(es)}))

\* The rules that are rule objects are applied one after the other.
ApplyEach(g, ms, One(_, _)) == Swept(FoldLeft(One, g, ms))

Matches(g, rule) ==
    CASE rule = "hadamard"        -> HadamardMatches(g)
      [] rule = "identity"        -> IdentityMatches(g)
      [] rule = "spider_fusion"   -> SpiderFusionMatches(g)
      [] rule = "lcomp"           -> LCompMatches(g)
      [] rule = "pivot"           -> PivotMatches(g)
      [] rule = "pivot_boundary"  -> PivotBoundaryMatches(g)
      [] rule = "pivot_gadget"    -> PivotGadgetMatches(g)
      [] rule = "phase_gadget"    -> PhaseGadgetMatches(g)
      [] rule = "state_copy"      -> StateCopyMatches(g)
      [] rule = "bialgebra"       -> BialgebraMatches(g)

ApplyMatches(g, rule, ms) ==
    CASE rule = "hadamard"        -> ApplyHadamards(g, ms)
      [] rule = "identity"        -> ApplyEach(g, ms, RemoveIdentity)
      [] rule = "spider_fusion"   -> ApplySpiderFusions(g, ms)
      [] rule = "lcomp"           -> ApplyEach(g, ms, LAMBDA h, v : LComp(h, v).graph)
      [] rule = "pivot"           -> ApplyEach(g, ms, LAMBDA h, e : Pivot(h, e[1], e[2]).graph)
      [] rule \in {"pivot_boundary", "pivot_gadget"} ->
           ApplyEach(g, ms, LAMBDA h, e : PivotUnfusion(h, e[1], e[2], {}, {}).graph)
      [] rule = "phase_gadget"    -> FusePhaseGadgets(g, ms)
      [] rule = "state_copy"      -> ApplyStateCopies(g, ms)
      [] rule = "bialgebra"       -> ApplyBialgebras(g, ms)

\* to_z_graph and to_x_graph: every spider of the other colour changes it.
ToZGraph(g) ==
    FoldLeft(ToggleVertex, g, SelectSeq(VertexList(g), LAMBDA v : g.type[v] = "x"))
ToXGraph(g) ==
    FoldLeft(ToggleVertex, g, SelectSeq(VertexList(g), LAMBDA v : g.type[v] = "z"))

TCount(g) == Cardinality({v \in Vertices(g) : Denominator(g.phase[v]) = 4})

-----------------------------------------------------------------------------
(***************************************************************************)
(* Cutting a ZX graph into subgraphs and joining them again                *)
(* (zx/zx_partition.cpp).  A part is the list of its vertices.  A subgraph *)
(* numbers them afresh and ends every edge that leaves the part in a       *)
(* boundary vertex of its own, an output on a qubit that no circuit has;   *)
(* the two such ends of an edge are a cut.  _outputs is taken to be in the *)
(* order of the ids, though a subgraph's is in that of the insertions.     *)
(***************************************************************************)

\* max_qubit_id, from which the qubits of the boundaries are counted down: a number
\* that no qubit of a circuit comes near (a bound for the largest integer).
MaxQubitId == 1000

\* The first place of x.
IndexIn(list, x) == Min({i \in DOMAIN list : list[i] = x})

----------------------------------------------------------------------------
\* Kernighan and Lin's bipartition: [first, second].

Alternating(vs) ==
    [first  |-> [i \in 1..(Len(vs) \div 2) |-> vs[2 * i]],
     second |-> [i \in 1..((Len(vs) + 1) \div 2) |-> vs[2 * i - 1]]]

\* The edges of v that leave its side, less those that stay.
Pull(g, mine, other, v) ==
    Cardinality(NeighborIds(g, v) \cap ToSet(other)) - Cardinality(NeighborIds(g, v) \cap ToSet(mine))

SwapGain(g, p, v, w) ==
    Pull(g, p.first, p.second, v) + Pull(g, p.second, p.first, w)
    - (IF IsNeighbor(g, v, w) THEN 2 ELSE 0)

Swapped(p, v, w) ==
    [first |-> Append(Remove(p.first, v), w), second |-> Append(Remove(p.second, w), v)]

\* Of the pairs that are not locked the first with the best gain: <<v, w, gain>>.
BestSwap(g, s) ==
    LET Free(list) == SelectSeq(list, LAMBDA v : v \notin s.locked)
        Gains(vs, ws) == [i \in DOMAIN vs |-> [k \in DOMAIN ws |-> SwapGain(g, s.sides, vs[i], ws[k])]]
        Best(vs, ws, gains) ==
          LET most == Max(UNION {ToSet(gains[i]) : i \in DOMAIN vs})
              i    == Min({j \in DOMAIN vs : most \in ToSet(gains[j])})
          IN <<vs[i], ws[IndexIn(gains[i], most)], most>>
        From(vs, ws) == Best(vs, ws, Gains(vs, ws))
    IN From(Free(s.sides.first), Free(s.sides.second))

\* swap_once: the two change sides and are locked.  `after` are the swaps since the
\* gain was best.
TakeSwap(s, best) ==
    LET gain == s.gain + best[3]
        top  == s.top = <<>> \/ gain >= s.top[1]
    IN [sides  |-> Swapped(s.sides, best[1], best[2]),
        locked |-> s.locked \cup {best[1], best[2]},
        gain   |-> gain,
        top    |-> IF top THEN <<gain>> ELSE s.top,
        after  |-> IF top THEN <<>> ELSE Append(s.after, best)]

\* A pass swaps all pairs but one and goes back to where the gain was best; a pass
\* that gains nothing is the last one, and is left as it is.
SwapPass(g, sides) ==
    LET Once(s, i) == TakeSwap(s, BestSwap(g, s))
        Back(p, e) == Swapped(p, e[2], e[1])
        End(s) == IF s.top = <<>> \/ s.top[1] <= 0 THEN [sides |-> s.sides, last |-> TRUE]
                  ELSE [sides |-> FoldRight(LAMBDA e, p : Back(p, e), s.after, s.sides), last |-> FALSE]
    IN End(FoldLeft(Once, [sides |-> sides, locked |-> {}, gain |-> 0, top |-> <<>>, after |-> <<>>],
                    [i \in 1..(Len(sides.first) - 1) |-> i]))

\* Every pass but the last takes an edge out of the cut.
Bipartition(g, vs, stop) ==
    LET Again(s, i) == IF s.last THEN s ELSE SwapPass(g, s.sides)
        Cut(p) == FoldSet(LAMBDA v, n : n + Cardinality(NeighborIds(g, v) \cap ToSet(p.second)),
                          0, ToSet(p.first))
        From(p) == FoldLeft(Again, [sides |-> p, last |-> stop], [i \in 0..Cut(p) |-> i])
    IN From(Alternating(vs)).sides

\* kl_partition: one part after the other is halved until there are enough.
HalvedAt(parts, i, p) == [parts EXCEPT ![i] = p.first] \o <<p.second>>

Partition(g, n, stop) ==
    LET Halve(s, k) ==
          [of   |-> HalvedAt(s.of, s.next, Bipartition(g, s.of[s.next], stop)),
           next |-> IF s.next = s.till THEN 1 ELSE s.next + 1,
           till |-> IF s.next = s.till THEN Len(s.of) + 1 ELSE s.till]
    IN FoldLeft(Halve, [of |-> <<Ascending(Vertices(g))>>, next |-> 1, till |-> 1],
                [k \in 1..(n - 1) |-> k]).of

----------------------------------------------------------------------------
\* create_subgraphs.

\* The edges that leave a part, in the order they are met: <<v, w, type>>.
Leaving(g, part) ==
    LET From(v) == LET es == SelectSeq(g.nbr[v], LAMBDA e : e[1] \notin ToSet(part))
                   IN [k \in DOMAIN es |-> <<v, es[k][1], es[k][2]>>]
    IN FlattenSeq([i \in DOMAIN part |-> From(part[i])])

Subgraph(g, part, before) ==
    LET ends   == Leaving(g, part)
        Id(v)  == IndexIn(part, v) - 1
        End(x) == Len(part) + IndexIn(ends, x) - 1
        inside == 0..(Len(part) - 1)
        rims   == Len(part)..(Len(part) + Len(ends) - 1)
        Inner(v) ==
          LET kept == SelectSeq(g.nbr[v], LAMBDA e : e[1] \in ToSet(part))
              cut  == SelectSeq(ends, LAMBDA x : x[1] = v)
          IN [k \in DOMAIN kept |-> <<Id(kept[k][1]), kept[k][2]>>]
             \o [k \in DOMAIN cut |-> <<End(cut[k]), cut[k][3]>>]
        Rim(i) == LET x == ends[i + 1 - Len(part)] IN <<<<Id(x[1]), x[3]>>>>
        Ports(list) == [q \in {r \in DOMAIN list : list[r] \in ToSet(part)} |-> Id(list[q])]
    IN [type  |-> [i \in inside |-> g.type[part[i + 1]]] @@ [i \in rims |-> "boundary"],
        phase |-> [i \in inside |-> g.phase[part[i + 1]]] @@ [i \in rims |-> 0],
        nbr   |-> [i \in inside |-> Inner(part[i + 1])] @@ [i \in rims |-> Rim(i)],
        ins   |-> Ports(g.ins),
        outs  |-> Ports(g.outs)
                  @@ [q \in {MaxQubitId - before - k : k \in 0..(Len(ends) - 1)} |->
                        Len(part) + MaxQubitId - before - q],
        next  |-> Len(part) + Len(ends),
        thrown |-> g.thrown]

\* [subgraphs, cuts]: the ends of a cut are <<subgraph, vertex>>.
CreateSubgraphs(g, parts) ==
    LET leaving   == [i \in DOMAIN parts |-> Leaving(g, parts[i])]
        Before(i) == FoldLeft(LAMBDA n, k : n + Len(leaving[k]), 0, [k \in 1..(i - 1) |-> k])
        Part(v)   == CHOOSE i \in DOMAIN parts : v \in ToSet(parts[i])
        End(x)    == <<Part(x[1]), Len(parts[Part(x[1])]) + IndexIn(leaving[Part(x[1])], x) - 1>>
        once      == SelectSeq(FlattenSeq(leaving), LAMBDA x : Part(x[1]) < Part(x[2]))
    IN [subgraphs |-> [i \in DOMAIN parts |-> Subgraph(g, parts[i], Before(i))],
        cuts      |-> [i \in DOMAIN once |->
                         <<End(once[i]), End(<<once[i][2], once[i][1], once[i][3]>>), once[i][3]>>]]

----------------------------------------------------------------------------
\* from_subgraphs: what the two ends of a cut hang on is joined.  The neighbour is
\* recorded as it is, whatever edge there is already.

\* The end of v on the edge to `old` becomes one to `new`, or none if that is there.
Rehang(h, v, old, new) ==
    LET rest == SelectSeq(h.nbr[v], LAMBDA e : e # old)
    IN [h EXCEPT !.nbr[v] = IF new \in ToSet(rest) THEN rest ELSE Append(rest, new)]

Tie(h, b1, b2, x1, x2, et) ==
    RemoveVertices(Rehang(Rehang(h, x1[1], <<b1, x1[2]>>, <<x2[1], et>>),
                          x2[1], <<b2, x2[2]>>, <<x1[1], et>>),
                   {b1, b2})

JoinCut(h, b1, b2, et) ==
    LET Join(x1, x2) == Tie(h, b1, b2, x1, x2, ConcatEdge(ConcatEdge(x1[2], x2[2]), et))
    IN Join(h.nbr[b1][1], h.nbr[b2][1])

\* One graph after the other moves to s.graph; `base` are the graphs they found there.
MoveIn(s, g, names) ==
    LET Moved(list) == [q \in DOMAIN list |-> MovedId(s.graph, names, list[q])]
    IN [graph |-> [MoveVerticesFrom(s.graph, g, names) EXCEPT
                     !.ins = Moved(g.ins) @@ @, !.outs = Moved(g.outs) @@ @,
                     !.thrown = @ \/ g.thrown],
        base  |-> Append(s.base, s.graph)]

Gathered(graphs) ==
    FoldLeft(LAMBDA s, g : MoveIn(s, g, Ascending(Vertices(g))),
             [graph |-> EmptyGraph, base |-> <<>>], graphs)

\* The cuts are joined one after the other, and the vertices numbered afresh.
FromSubgraphs(subgraphs, cuts) ==
    LET Joined1(all) ==
          LET At(end) == MovedId(all.base[end[1]], Ascending(Vertices(subgraphs[end[1]])), end[2])
          IN FoldLeft(LAMBDA h, c : JoinCut(h, At(c[1]), At(c[2]), c[3]), all.graph, cuts)
    IN Gathered(<<Joined1(Gathered(subgraphs))>>).graph

\* Two cuts meet when they join the same two vertices, or one with itself.
CutsMeet(subgraphs, cuts, merged) ==
    LET Ends(g) == FoldSet(LAMBDA v, n : n + Degree(g, v), 0, Vertices(g))
        before  == FoldLeft(LAMBDA n, g : n + Ends(g), 0, subgraphs)
    IN \/ Ends(merged) < before - 2 * Len(cuts)
       \/ \E v \in Vertices(merged) :
             v \in NeighborIds(merged, v) \/ Cardinality(NeighborIds(merged, v)) < Degree(merged, v)

-----------------------------------------------------------------------------
VARIABLES graph,    \* the graph being reduced
          frames,   \* the running loops
          stopped   \* stop_requested()

svars == <<graph, frames, stopped>>

\* The partition routine, by the number of parts asked for (a bound: two or three).
Partitions == [partition_2 |-> 2, partition_3 |-> 3]

Rules == {"hadamard", "identity", "spider_fusion", "lcomp", "pivot",
          "pivot_boundary", "pivot_gadget", "phase_gadget", "state_copy", "bialgebra"}
Recolorings == {"to_z", "to_x"}
Routines == {"graph_like", "interior", "clifford", "full", "dynamic", "symbolic"}
            \cup DOMAIN Partitions

\* simplify() runs the Hadamard rule before the rule it is asked for.
Simp(rule) == IF rule = "hadamard" THEN <<rule>> ELSE <<"hadamard", rule>>

\* What a routine does before its loop, the pass it repeats, and the rules that
\* make it go round again.  dynamic_reduce reduces a copy to learn how many T phases
\* it can get down to, and stops when it has enough.
Prologue(r) ==
    CASE r \in Recolorings -> <<r>>
      [] r \in Rules       -> Simp(r)
      [] r = "graph_like"  -> <<"to_z">> \o Simp("spider_fusion")
      [] r = "interior"    -> <<"graph_like">>
      [] r = "clifford"    -> <<>>
      [] r = "full"        -> <<"interior">> \o Simp("pivot_gadget")
      [] r = "dynamic"     -> <<"hadamard", "copy", "full", "measure", "interior">>
                              \o Simp("pivot_gadget") \o <<"enough">>
      [] r = "symbolic"    -> <<"interior">> \o Simp("pivot_gadget") \o Simp("state_copy")
      [] r \in DOMAIN Partitions ->
           <<"hadamard", "split">>
           \o FlattenSeq([i \in 1..Partitions[r] |-> <<"dynamic", "turn">>])
           \o <<"merge">> \o Simp("spider_fusion")

Pass(r) ==
    CASE r = "interior"   -> Simp("identity") \o Simp("spider_fusion") \o Simp("pivot") \o Simp("lcomp")
      [] r = "clifford"   -> <<"interior">> \o Simp("pivot_boundary")
      [] r = "full"       -> <<"clifford">> \o Simp("phase_gadget")
                             \o <<"interior">> \o Simp("pivot_gadget")
      [] r = "dynamic"    -> <<"clifford", "enough">> \o Simp("phase_gadget") \o <<"enough">>
                             \o <<"interior", "enough">> \o Simp("pivot_gadget") \o <<"enough">>
      [] r = "symbolic"   -> <<"clifford">> \o Simp("phase_gadget") \o <<"interior">>
                             \o Simp("pivot_gadget") \o Simp("state_copy")

\* Mutant: a round of local complementation is not counted.
CountedButLComp(r) ==
    CASE r = "interior" -> {"identity", "spider_fusion", "pivot"}
      [] r = "clifford" -> {"pivot_boundary"}
      [] r \in {"full", "dynamic", "symbolic"} -> {"phase_gadget", "pivot_gadget"}
      [] OTHER -> {}

Counted(r) ==
    CASE r = "interior" -> {"identity", "spider_fusion", "pivot", "lcomp"}
      [] r = "clifford" -> {"pivot_boundary"}
      [] r \in {"full", "dynamic", "symbolic"} -> {"phase_gadget", "pivot_gadget"}
      [] OTHER -> {}

Loops == {"interior", "clifford", "full", "dynamic", "symbolic"}
Entered(r) ==
    [loop |-> r, rest |-> Prologue(r), again |-> r \in Loops,
     kept |-> <<>>, optimal |-> 0, cuts |-> <<>>]

Running == frames # <<>>
Frame == Head(frames)
AtStep == Running /\ Frame.rest # <<>>
Step == Head(Frame.rest)
StepDone == [Frame EXCEPT !.rest = Tail(@)]
WithFrame(f) == <<f>> \o Tail(frames)

\* A round of the rule.  The Hadamard rule gives up when a round leaves as many
\* vertices as before.
AtRule == AtStep /\ Step \in Rules
HasRound == AtRule /\ ~stopped /\ Matches(graph, Step) # <<>>

Round ==
    /\ HasRound
    /\ graph' = ApplyMatches(graph, Step, Matches(graph, Step))
    /\ LET stuck == /\ Step = "hadamard"
                    /\ Cardinality(Vertices(graph')) >= Cardinality(Vertices(graph))
           f     == IF stuck THEN StepDone ELSE Frame
       IN frames' = WithFrame([f EXCEPT !.again = @ \/ Step \in Counted(Frame.loop)])
    /\ UNCHANGED stopped

EndRounds ==
    /\ AtRule /\ ~HasRound
    /\ frames' = WithFrame(StepDone)
    /\ UNCHANGED <<graph, stopped>>

Recolor ==
    /\ AtStep /\ Step \in Recolorings
    /\ graph' = IF Step = "to_z" THEN ToZGraph(graph) ELSE ToXGraph(graph)
    /\ frames' = WithFrame(StepDone)
    /\ UNCHANGED stopped

\* dynamic_reduce: a copy is reduced in place of the graph, its T phases are counted,
\* and the graph comes back.
ReduceCopy ==
    /\ AtStep /\ Step = "copy"
    /\ graph' = CopyOf(graph)
    /\ frames' = WithFrame([StepDone EXCEPT !.kept = <<graph>>])
    /\ UNCHANGED stopped

MeasureCopy ==
    /\ AtStep /\ Step = "measure"
    /\ graph' = Frame.kept[1]
    /\ frames' = WithFrame([StepDone EXCEPT !.kept = <<>>, !.optimal = TCount(graph)])
    /\ UNCHANGED stopped

Enough == TCount(graph) = Frame.optimal

LeaveWhenEnough ==
    /\ AtStep /\ Step = "enough"
    /\ frames' = IF Enough THEN Tail(frames) ELSE WithFrame(StepDone)
    /\ UNCHANGED <<graph, stopped>>

\* partition_reduce: the subgraphs take turns in being `graph`, and are joined again.
\* The partition is one step here; a flag raised before it leaves no pass to it.
Split ==
    /\ AtStep /\ Step = "split"
    /\ \E made \in {CreateSubgraphs(graph, Partition(graph, Partitions[Frame.loop], stopped))} :
          /\ graph' = Head(made.subgraphs)
          /\ frames' = WithFrame([StepDone EXCEPT !.kept = Tail(made.subgraphs), !.cuts = made.cuts])
    /\ UNCHANGED stopped

TakeTurns ==
    /\ AtStep /\ Step = "turn"
    /\ graph' = Head(Frame.kept)
    /\ frames' = WithFrame([StepDone EXCEPT !.kept = Append(Tail(@), graph)])
    /\ UNCHANGED stopped

AtMerge == AtStep /\ Step = "merge"
Subgraphs == <<graph>> \o Frame.kept

Merge ==
    /\ AtMerge
    /\ graph' = FromSubgraphs(Subgraphs, Frame.cuts)
    /\ frames' = WithFrame([StepDone EXCEPT !.kept = <<>>, !.cuts = <<>>])
    /\ UNCHANGED stopped

Call ==
    /\ AtStep /\ Step \in Routines
    /\ frames' = <<Entered(Step)>> \o WithFrame(StepDone)
    /\ UNCHANGED <<graph, stopped>>

\* The head of the loop: clifford_simp is the one that does not look at the flag.
GoesOn == Frame.again /\ (~stopped \/ Frame.loop = "clifford")

AtPassEnd == Running /\ Frame.rest = <<>>

\* Mutant: the flag of the last pass is not cleared.
NextPassAgain ==
    /\ AtPassEnd /\ GoesOn
    /\ frames' = WithFrame([Frame EXCEPT !.rest = Pass(Frame.loop)])
    /\ UNCHANGED <<graph, stopped>>

NextPass ==
    /\ AtPassEnd /\ GoesOn
    /\ frames' = WithFrame([Frame EXCEPT !.rest = Pass(Frame.loop), !.again = FALSE])
    /\ UNCHANGED <<graph, stopped>>

\* symbolic_reduce ends in a graph of X spiders.
Return ==
    /\ AtPassEnd /\ ~GoesOn
    /\ graph' = IF Frame.loop = "symbolic" THEN ToXGraph(graph) ELSE graph
    /\ frames' = Tail(frames)
    /\ UNCHANGED stopped

Simplify ==
    \/ Round \/ EndRounds \/ Recolor \/ Call
    \/ ReduceCopy \/ MeasureCopy \/ LeaveWhenEnough
    \/ Split \/ TakeTurns \/ Merge
    \/ NextPass \/ Return

\* The flag makes a difference where a round or a pass would start.
Interrupt ==
    /\ HasRound \/ (AtPassEnd /\ GoesOn /\ ~stopped)
    /\ stopped' = TRUE
    /\ UNCHANGED <<graph, frames>>
=============================================================================
