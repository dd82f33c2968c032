------------------------------ MODULE ZXRules ------------------------------
(***************************************************************************)
(* The rewrite rules of zx/zxgraph_action.cpp as they are applied and taken*)
(* back.  A match is a record: `rule` names the rule, v (or v1 and v2) the *)
(* spiders it is about and un (un1, un2) the neighbours to unfuse.  The    *)
(* code's rule object remembers what it did in mutable members so that it  *)
(* can undo it: here Apply answers the new graph and that memory.  A rule  *)
(* object is applied at most once, so the path that reapplies one with its *)
(* old buffers is left out.                                                *)
(***************************************************************************)
EXTENDS ZXGraph, Integers

Turns(g, vs, p) ==
    [g EXCEPT !.phase = [v \in DOMAIN @ |-> IF v \in ToSet(vs) THEN Plus(@[v], p) ELSE @[v]]]

\* Every pair of a list, and every pair across two lists.
Pairs(vs) ==
    FlattenSeq([i \in DOMAIN vs |-> [j \in 1..(Len(vs) - i) |-> <<vs[i], vs[i + j]>>]])
Across(vs, ws) ==
    FlattenSeq([i \in DOMAIN vs |-> [j \in DOMAIN ws |-> <<vs[i], ws[j]>>]])

\* Adding a Hadamard edge where there is one between spiders takes it away.
Complement(g, pairs) ==
    FoldLeft(LAMBDA h, p : AddEdge(h, p[1], p[2], "hadamard"), g, pairs)

NeighborList(g, v) == [i \in DOMAIN g.nbr[v] |-> g.nbr[v][i][1]]

----------------------------------------------------------------------------
\* IdentityRemoval throws on a vertex that is not an identity.
RemoveIdentity(g, v) ==
    IF IsIdentity(g, v) THEN RemoveIdentityVertex(g, v) ELSE [g EXCEPT !.thrown = TRUE]

\* IdentityFusion: an identity goes, and the right neighbour is merged into
\* the left one.
IsFusable(g, v) ==
    /\ v \in Vertices(g) /\ g.type[v] = "z" /\ g.phase[v] = 0 /\ Degree(g, v) = 2
    /\ LET l == FirstNeighbor(g, v)
           r == SecondNeighbor(g, v)
       IN IsZX(g, l[1]) /\ IsZX(g, r[1]) /\ g.type[l[1]] = g.type[r[1]] /\ l[2] = r[2]

FuseIdentity(g, v) ==
    LET l    == FirstNeighbor(g, v)[1]
        r    == SecondNeighbor(g, v)[1]
        rest == SelectSeq(g.nbr[r], LAMBDA e : e[1] # v)
        Merge(h, e) == IF e[1] = l THEN Turned(h, l, Pi) ELSE AddEdge(h, l, e[1], e[2])
        merged == FoldLeft(Merge, g, rest)
    IN [graph |-> Turned(RemoveVertex(RemoveVertex(merged, v), r), l, g.phase[r]),
        memo  |-> [l |-> l, r |-> r, phase |-> g.phase[r],
                   nbs |-> [i \in DOMAIN rest |-> rest[i][1]]]]

\* The undo puts Z spiders and Hadamard edges back: it is meant for graph-like
\* graphs.
UnfuseIdentity(g, v, m) ==
    LET bare   == AddVertexAs(AddVertexAs(g, v, "z", 0), m.r, "z", m.phase)
        joined == Turned(Complement(bare, <<<<m.l, v>>, <<v, m.r>>>>), m.l, Minus(0, m.phase))
        Part(h, nb) ==
          LET et == GetEdgeType(h, m.l, nb)
          IN IF nb = m.l THEN Complement(Turned(h, m.l, Pi), <<<<m.l, m.r>>>>)
             ELSE IF et # "none" THEN AddEdge(Unlink(h, m.l, nb, et), m.r, nb, et)
             ELSE Complement(h, <<<<m.l, nb>>, <<m.r, nb>>>>)
    IN FoldLeft(Part, joined, m.nbs)

\* BoundaryDetachment: a buffer between the spider and every boundary at it.
Detach(g, v) ==
    LET rims == SelectSeq(NeighborList(g, v), LAMBDA w : IsBoundary(g, w))
    IN FoldLeft(LAMBDA h, w : AddIdentityVertex(h, v, w, "z", "hadamard"), g, rims)

BuffersOf(g, detached) == Ascending(Vertices(detached) \ Vertices(g))
Reattach(g, buffers) == FoldLeft(RemoveIdentityVertex, g, buffers)

----------------------------------------------------------------------------
\* LComp: the neighbourhood of v is complemented and v goes.
IsLCompApplicable(g, v) == v \in Vertices(g) /\ IsGraphLikeAt(g, v)

\* d is the graph g with the boundaries of v detached.
LCompDetached(g, d, v) ==
    LET p   == g.phase[v]
        nbs == NeighborList(d, v)
    IN [graph |-> RemoveVertex(Complement(Turns(d, nbs, Minus(0, p)), Pairs(nbs)), v),
        memo  |-> [phase |-> p, nbs |-> nbs, buffers |-> BuffersOf(g, d)]]

LComp(g, v) == LCompDetached(g, Detach(g, v), v)

UndoLComp(g, v, m) ==
    LET Star(h, w) == AddEdge(Turned(h, w, m.phase), v, w, "hadamard")
        back == FoldLeft(Star, AddVertexAs(g, v, "z", m.phase), m.nbs)
    IN Reattach(Complement(back, Pairs(m.nbs)), m.buffers)

\* Pivot: the neighbours of v1 alone, of v2 alone and of both are joined across,
\* and v1 and v2 go.
IsPivotApplicable(g, v1, v2) ==
    /\ {v1, v2} \subseteq Vertices(g)
    /\ Joined(g, v1, v2, "hadamard")
    /\ IsGraphLikeAt(g, v1) /\ IsGraphLikeAt(g, v2)

AcrossPivot(m) == Across(m.n1, m.n2) \o Across(m.n1, m.both) \o Across(m.n2, m.both)

\* Mutant: the common neighbours of a pivot do not get their pi.
TurnPivotFlat(g, m) ==
    Turns(Turns(Turns(g, m.n1, m.p2), m.n2, m.p1), m.both, Plus(m.p1, m.p2))

TurnPivot(g, m) ==
    Turns(Turns(Turns(g, m.n1, m.p2), m.n2, m.p1), m.both, Plus(Plus(m.p1, m.p2), Pi))

\* d is the graph g with the boundaries of v1 and v2 detached.
PivotMemo(g, d, v1, v2) ==
    LET s1 == NeighborIds(d, v1) \ {v2}
        s2 == NeighborIds(d, v2) \ {v1}
    IN [p1 |-> g.phase[v1], p2 |-> g.phase[v2],
        n1 |-> Ascending(s1 \ s2), n2 |-> Ascending(s2 \ s1),
        both |-> Ascending(s1 \cap s2), buffers |-> BuffersOf(g, d)]

PivotDetached(g, d, v1, v2) ==
    LET cut == RemoveVertex(RemoveVertex(d, v1), v2)
        Result(m) == [graph |-> Complement(TurnPivot(cut, m), AcrossPivot(m)), memo |-> m]
    IN Result(PivotMemo(g, d, v1, v2))

Pivot(g, v1, v2) == PivotDetached(g, Detach(Detach(g, v1), v2), v1, v2)

\* Mutant: the neighbours keep the phases they were given.
UndoPivotTurned(g, v1, v2, m) ==
    LET bare == AddVertexAs(AddVertexAs(Complement(g, AcrossPivot(m)), v1, "z", m.p1),
                            v2, "z", m.p2)
        star == <<<<v1, v2>>>> \o Across(<<v1>>, m.n1) \o Across(<<v2>>, m.n2)
        two  == FlattenSeq([i \in DOMAIN m.both |-> <<<<v1, m.both[i]>>, <<v2, m.both[i]>>>>])
    IN Reattach(Complement(bare, star \o two), m.buffers)

UndoPivot(g, v1, v2, m) ==
    LET turned == TurnPivot(Complement(g, AcrossPivot(m)), m)
        bare   == AddVertexAs(AddVertexAs(turned, v1, "z", m.p1), v2, "z", m.p2)
        star   == <<<<v1, v2>>>> \o Across(<<v1>>, m.n1) \o Across(<<v2>>, m.n2)
        two    == FlattenSeq([i \in DOMAIN m.both |-> <<<<v1, m.both[i]>>, <<v2, m.both[i]>>>>])
    IN Reattach(Complement(bare, star \o two), m.buffers)

----------------------------------------------------------------------------
\* NeighborUnfusion: v keeps `keep` of its phase; the rest, and the neighbours
\* in un, go to a new spider beyond a buffer.  None is what an unfusion that
\* was not needed leaves behind.
None == [unfused |-> -1, buffer |-> -1]

Unfuse(g, v, keep, un) ==
    LET unfused == FreshId(g)
        h       == AddVertex(g, g.type[v], Minus(g.phase[v], keep))
        buffer  == FreshId(h)
        k       == [AddVertex(h, "z", 0) EXCEPT !.phase[v] = keep]
        Move(j, w) ==
          LET et == GetEdgeType(j, v, w)
          IN AddEdge(Unlink(j, v, w, et), unfused, w, et)
    IN [graph |-> FoldLeft(Move, Complement(k, <<<<buffer, unfused>>, <<v, buffer>>>>), un),
        memo  |-> [unfused |-> unfused, buffer |-> buffer]]

UndoUnfuse(g, v, m) ==
    LET moved == SelectSeq(g.nbr[m.unfused], LAMBDA e : e[1] # m.buffer)
        Back(h, e) == AddEdge(h, v, e[1], e[2])
        h == Turned(FoldLeft(Back, g, moved), v, g.phase[m.unfused])
    IN IF m = None THEN g ELSE RemoveVertex(RemoveVertex(h, m.buffer), m.unfused)

\* An unfusion is skipped when there is nothing to unfuse and the phase already
\* has the denominator the rule works on.
UnfuseIfNeeded(g, v, denominator, keep, un) ==
    IF un = {} /\ Denominator(g.phase[v]) = denominator THEN [graph |-> g, memo |-> None]
    ELSE Unfuse(g, v, keep, Ascending(un))

LCompUnfusion(g, v, un) ==
    LET Both(nu, lc) == [graph |-> lc.graph, memo |-> [nu |-> nu.memo, lc |-> lc.memo]]
        After(nu)    == Both(nu, LComp(nu.graph, v))
    IN After(UnfuseIfNeeded(g, v, 2, HalfPi, un))

PivotUnfusion(g, v1, v2, un1, un2) ==
    LET All(nu1, nu2, pv) ==
          [graph |-> pv.graph, memo |-> [nu1 |-> nu1.memo, nu2 |-> nu2.memo, pv |-> pv.memo]]
        AfterBoth(nu1, nu2) == All(nu1, nu2, Pivot(nu2.graph, v1, v2))
        After(nu1) == AfterBoth(nu1, UnfuseIfNeeded(nu1.graph, v2, 1, 0, un2))
    IN After(UnfuseIfNeeded(g, v1, 1, 0, un1))

----------------------------------------------------------------------------
\* What a match does to a graph, and what takes it back.

Apply(g, m) ==
    CASE m.rule = "identity_fusion" -> FuseIdentity(g, m.v)
      [] m.rule = "lcomp_unfusion"  -> LCompUnfusion(g, m.v, m.un)
      [] m.rule = "pivot_unfusion"  -> PivotUnfusion(g, m.v1, m.v2, m.un1, m.un2)

Undo(g, m, memo) ==
    CASE m.rule = "identity_fusion" -> UnfuseIdentity(g, m.v, memo)
      [] m.rule = "lcomp_unfusion"  -> UndoUnfuse(UndoLComp(g, m.v, memo.lc), m.v, memo.nu)
      [] m.rule = "pivot_unfusion"  ->
           UndoUnfuse(UndoUnfuse(UndoPivot(g, m.v1, m.v2, memo.pv), m.v1, memo.nu1),
                      m.v2, memo.nu2)

IsApplicable(g, m) ==
    CASE m.rule = "identity_fusion" -> IsFusable(g, m.v)
      [] m.rule = "lcomp_unfusion"  ->
           IsLCompApplicable(g, m.v) /\ m.un \subseteq NeighborIds(g, m.v)
      [] m.rule = "pivot_unfusion"  ->
           /\ IsPivotApplicable(g, m.v1, m.v2)
           /\ m.un1 \subseteq NeighborIds(g, m.v1) /\ m.un2 \subseteq NeighborIds(g, m.v2)

CoreVertices(m) == IF m.rule = "pivot_unfusion" THEN {m.v1, m.v2} ELSE {m.v}

\* get_affected_vertices, g being the graph after the rule.
AffectedVertices(g, m, memo) ==
    CASE m.rule = "identity_fusion" ->
           ToSet(memo.nbs) \cup {m.v, memo.l, memo.r} \cup NeighborIds(g, memo.l)
      [] m.rule = "lcomp_unfusion"  ->
           (ToSet(memo.lc.nbs) \cup {m.v, memo.nu.unfused}) \ {-1}
      [] m.rule = "pivot_unfusion"  ->
           (ToSet(memo.pv.n1) \cup ToSet(memo.pv.n2) \cup ToSet(memo.pv.both)
            \cup {m.v1, m.v2, memo.nu1.unfused, memo.nu2.unfused}) \ {-1}
=============================================================================
