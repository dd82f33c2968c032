------------------------------ MODULE ZXGraph ------------------------------
(***************************************************************************)
(* The ZX graph (src/src/zx/zxgraph.cpp): vertices with a type and a phase *)
(* joined by simple and Hadamard edges.  A graph is a record              *)
(*                                                                         *)
(*   type, phase  by vertex id                                             *)
(*   nbr          by vertex id, the <<neighbour, edge type>> pairs in the  *)
(*                order they were inserted (Neighbors, an ordered hash set)*)
(*   ins, outs    by qubit, the boundary vertices (_input_list, ...)       *)
(*   next         _next_v_id                                               *)
(*   thrown       an add_edge raised std::logic_error                      *)
(*                                                                         *)
(* A phase is counted in eighths of a turn: multiples of pi/4 are the ones *)
(* the rules tell apart (denominators 1, 2 and the rest).  _vertices is an *)
(* ordered hash set too; ids only grow, so its order is that of the ids    *)
(* unless a vertex has been put back, and no rule that scans _vertices     *)
(* runs after one was.  Rows, columns and file names are left out.         *)
(***************************************************************************)
EXTENDS Naturals, Sequences, FiniteSets, SequencesExt

Turn == 8
Pi == Turn \div 2
HalfPi == Turn \div 4

Plus(p, q)  == (p + q) % Turn
Minus(p, q) == (p + Turn - q) % Turn

\* Phase::denominator(): 1 on multiples of pi, 2 on odd multiples of pi/2.
Denominator(p) == IF p % Pi = 0 THEN 1 ELSE IF p % HalfPi = 0 THEN 2 ELSE 4

EdgeTypes   == {"simple", "hadamard"}
VertexTypes == {"boundary", "z", "x", "h_box"}

ToggleEdge(et) == IF et = "simple" THEN "hadamard" ELSE "simple"
ConcatEdge(e, f) == IF e = f THEN "simple" ELSE "hadamard"

----------------------------------------------------------------------------
\* What a graph answers.

Vertices(g) == DOMAIN g.type
IsZX(g, v) == g.type[v] \in {"z", "x"}
IsBoundary(g, v) == g.type[v] = "boundary"
Inputs(g) == {g.ins[q] : q \in DOMAIN g.ins}
Outputs(g) == {g.outs[q] : q \in DOMAIN g.outs}

Degree(g, v) == Len(g.nbr[v])
NeighborIds(g, v) == {e[1] : e \in ToSet(g.nbr[v])}
FirstNeighbor(g, v) == g.nbr[v][1]
SecondNeighbor(g, v) == g.nbr[v][2]

Joined(g, v, w, et) == <<w, et>> \in ToSet(g.nbr[v])
IsNeighbor(g, v, w) ==
    v \in Vertices(g) /\ w \in Vertices(g) /\ w \in NeighborIds(g, v)

\* get_edge_type looks for the simple edge first.
GetEdgeType(g, v, w) ==
    IF Joined(g, v, w, "simple") THEN "simple"
    ELSE IF Joined(g, v, w, "hadamard") THEN "hadamard" ELSE "none"

\* An ascending list of ids, the order std::ranges::sort leaves.
Ascending(ids) ==
    [i \in 1..Cardinality(ids) |->
       CHOOSE x \in ids : Cardinality({y \in ids : y < x}) = i - 1]

----------------------------------------------------------------------------
\* Adding and removing.

EmptyGraph ==
    [type |-> <<>>, phase |-> <<>>, nbr |-> <<>>,
     ins |-> <<>>, outs |-> <<>>, next |-> 0, thrown |-> FALSE]

\* _next_vertex_id: the next id not in use, from _next_v_id on.
FreshId(g) ==
    CHOOSE i \in g.next..(g.next + Cardinality(Vertices(g))) :
        /\ i \notin Vertices(g)
        /\ \A j \in g.next..(i - 1) : j \in Vertices(g)

AddVertexAs(g, id, vt, p) ==
    [g EXCEPT !.type  = id :> vt @@ @,
              !.phase = id :> p @@ @,
              !.nbr   = id :> <<>> @@ @]

\* add_vertex without an id takes FreshId and steps the counter over it.
AddVertex(g, vt, p) ==
    LET id == FreshId(g)
    IN [AddVertexAs(g, id, vt, p) EXCEPT !.next = id + 1]

AddInput(g, q) ==
    LET id == FreshId(g)
    IN [AddVertex(g, "boundary", 0) EXCEPT !.ins = q :> id @@ @]

AddOutput(g, q) ==
    LET id == FreshId(g)
    IN [AddVertex(g, "boundary", 0) EXCEPT !.outs = q :> id @@ @]

Turned(g, v, p) == [g EXCEPT !.phase[v] = Plus(@, p)]

\* Both ends record the edge, or forget it.
Link(g, v, w, et) ==
    [g EXCEPT !.nbr[v] = Append(@, <<w, et>>), !.nbr[w] = Append(@, <<v, et>>)]

Unlink(g, v, w, et) ==
    [g EXCEPT !.nbr[v] = SelectSeq(@, LAMBDA e : e # <<w, et>>),
              !.nbr[w] = SelectSeq(@, LAMBDA e : e # <<v, et>>)]

\* A parallel pair of edges between two spiders: the edge type that merges
\* into one (simple for equal colours) wins over the one that cancels, and a
\* mixed pair leaves a pi on the vertex with the lower id.
Fuse(g, lo, hi, et) ==
    LET merge == IF g.type[lo] = g.type[hi] THEN "simple" ELSE "hadamard"
        old   == GetEdgeType(g, lo, hi)
    IN IF old = merge /\ et = merge THEN g
       ELSE IF old # merge /\ et # merge THEN Unlink(g, lo, hi, old)
       ELSE Turned(IF old = merge THEN g
                   ELSE Link(Unlink(g, lo, hi, old), lo, hi, merge), lo, Pi)

AddEdge(g, v, w, et) ==
    LET lo == IF v < w THEN v ELSE w
        hi == IF v < w THEN w ELSE v
    IN IF v = w
       THEN IF IsZX(g, v) THEN Turned(g, v, IF et = "hadamard" THEN Pi ELSE 0)
            ELSE [g EXCEPT !.thrown = TRUE]
       ELSE IF ~IsNeighbor(g, v, w) THEN Link(g, lo, hi, et)
       ELSE IF IsZX(g, v) /\ IsZX(g, w) THEN Fuse(g, lo, hi, et)
       ELSE [g EXCEPT !.thrown = TRUE]

RemoveVertex(g, v) ==
    LET kept == Vertices(g) \ {v}
        Ports(list) == [q \in {r \in DOMAIN list : list[r] # v} |-> list[q]]
    IN [g EXCEPT
          !.type  = [u \in kept |-> @[u]],
          !.phase = [u \in kept |-> @[u]],
          !.nbr   = [u \in kept |-> SelectSeq(@[u], LAMBDA e : e[1] # v)],
          !.ins   = Ports(@),
          !.outs  = Ports(@)]

IsolatedVertices(g) == {v \in Vertices(g) : Degree(g, v) = 0}

RemoveVertices(g, vs) == FoldLeft(RemoveVertex, g, Ascending(vs))

----------------------------------------------------------------------------
\* Shapes the rules ask for.

IsIOConnectionValid(g) == \A v \in Inputs(g) \cup Outputs(g) : Degree(g, v) = 1

IsGraphLike(g) ==
    /\ \A v \in Vertices(g) : g.type[v] \in {"z", "boundary"}
    /\ \A v \in Vertices(g) : \A e \in ToSet(g.nbr[v]) :
          ~IsBoundary(g, v) /\ ~IsBoundary(g, e[1]) => e[2] = "hadamard"
    /\ IsIOConnectionValid(g)

IsGraphLikeAt(g, v) ==
    /\ g.type[v] = "z"
    /\ \A e \in ToSet(g.nbr[v]) :
          \/ IsBoundary(g, e[1]) /\ Degree(g, e[1]) = 1
          \/ g.type[e[1]] = "z" /\ e[2] = "hadamard"

IsInteriorlyGraphLikeAt(g, v) ==
    /\ g.type[v] = "z"
    /\ \A e \in ToSet(g.nbr[v]) : g.type[e[1]] = "z" /\ e[2] = "hadamard"

HasDanglingNeighbors(g, v) == \E w \in NeighborIds(g, v) : Degree(g, w) = 1

\* closed_neighborhood(g, vs, level): a vertex found at distance level is still
\* expanded, so the neighbourhood reaches one step further than its name says.
ClosedNeighborhood(g, vs, level) ==
    LET ball[d \in 0..(level + 1)] ==
          IF d = 0 THEN vs \cap Vertices(g)
          ELSE ball[d - 1] \cup UNION {NeighborIds(g, v) : v \in ball[d - 1]}
    IN ball[level + 1]

----------------------------------------------------------------------------
\* Editing a graph (zxgraph_action.cpp).

\* toggle_vertex: a spider changes colour and every edge at it its type.
ToggleVertex(g, v) ==
    LET old  == g.nbr[v]
        Cut(h, e)    == Unlink(h, v, e[1], e[2])
        Rejoin(h, e) == AddEdge(h, v, e[1], ToggleEdge(e[2]))
    IN IF ~IsZX(g, v) THEN g
       ELSE [FoldLeft(Rejoin, FoldLeft(Cut, g, old), old)
               EXCEPT !.type[v] = IF @ = "z" THEN "x" ELSE "z"]

\* add_identity_vertex: a phaseless spider in the middle of an edge.
AddIdentityVertex(g, l, r, vt, toLeft) ==
    LET orig == GetEdgeType(g, l, r)
        id   == FreshId(g)
        h    == AddEdge(AddVertex(g, vt, 0), l, id, toLeft)
    IN Unlink(AddEdge(h, id, r, ConcatEdge(orig, toLeft)), l, r, orig)

IsIdentity(g, v) ==
    v \in Vertices(g) /\ IsZX(g, v) /\ g.phase[v] = 0 /\ Degree(g, v) = 2

\* remove_identity_vertex does nothing to a vertex that is not an identity.
RemoveIdentityVertex(g, v) ==
    LET l == FirstNeighbor(g, v)
        r == SecondNeighbor(g, v)
    IN IF ~IsIdentity(g, v) THEN g
       ELSE RemoveVertex(AddEdge(g, l[1], r[1], ConcatEdge(l[2], r[2])), v)

\* add_gadget: a phase on the parity of some spiders.
AddGadget(g, p, vs) ==
    LET axel == FreshId(g)
        h    == AddVertex(AddVertex(g, "z", 0), "z", p)
        leaf == CHOOSE i \in Vertices(h) : i \notin Vertices(g) \cup {axel}
        Attach(k, v) == AddEdge(k, v, axel, "hadamard")
    IN IF \E v \in ToSet(vs) : ~IsZX(g, v) THEN g
       ELSE FoldLeft(Attach, AddEdge(h, axel, leaf, "hadamard"), vs)

----------------------------------------------------------------------------
\* Two graphs.

\* The copy constructor adds the edges vertex by vertex: a vertex lists its lower
\* neighbours first, in the order of their ids.
CopyOf(g) ==
    LET Lower(v)  == Ascending({w \in NeighborIds(g, v) : w < v})
        Edges2(v) == [i \in DOMAIN Lower(v) |-> <<Lower(v)[i], GetEdgeType(g, v, Lower(v)[i])>>]
    IN [g EXCEPT !.nbr = [v \in DOMAIN @ |-> Edges2(v) \o SelectSeq(@[v], LAMBDA e : e[1] > v)]]

\* _move_vertices_from: the vertices of `other`, listed in `names`, take the ids from
\* _next_v_id on.
MovedId(g, names, v) == g.next + (CHOOSE i \in DOMAIN names : names[i] = v) - 1

MoveVerticesFrom(g, other, names) ==
    LET Id(v)  == MovedId(g, names, v)
        At(id) == names[id + 1 - g.next]
        ids    == {Id(v) : v \in ToSet(names)}
        Renamed(e) == <<Id(e[1]), e[2]>>
    IN [g EXCEPT
          !.type  = [i \in ids |-> other.type[At(i)]] @@ @,
          !.phase = [i \in ids |-> other.phase[At(i)]] @@ @,
          !.nbr   = [i \in ids |-> [k \in DOMAIN other.nbr[At(i)] |->
                                       Renamed(other.nbr[At(i)][k])]] @@ @,
          !.next  = @ + Len(names)]

\* concatenate: the boundary of `other` is stripped and its inside hung on
\* the outputs of g.  The boundaries need ids only until they are stripped.
Concatenate(g, other, qubits) ==
    LET inner  == Ascending({v \in Vertices(other) : ~IsBoundary(other, v)})
        rims   == Ascending({v \in Vertices(other) : IsBoundary(other, v)})
        Id(v)  == MovedId(g, inner \o rims, v)
        joined == [MoveVerticesFrom(g, other, inner \o rims) EXCEPT !.next = g.next + Len(inner)]
        Reconnect(h, q) ==
          LET i   == Id(other.ins[q])
              out == h.outs[qubits[q + 1]]
              w   == FirstNeighbor(h, i)
              u   == FirstNeighbor(h, out)
          IN RemoveVertex(AddEdge(Unlink(h, u[1], out, u[2]),
                                  u[1], w[1], ConcatEdge(u[2], w[2])), i)
        Close(h, q) ==
          LET o == Id(other.outs[q])
              w == FirstNeighbor(h, o)
          IN RemoveVertex(AddEdge(h, w[1], h.outs[qubits[q + 1]], w[2]), o)
    IN FoldLeft(Close, FoldLeft(Reconnect, joined, Ascending(DOMAIN other.ins)),
                Ascending(DOMAIN other.outs))

\* compose: the outputs of g and the inputs of a copy of `target` become spiders,
\* joined in the order of their qubits.
Compose(g, target) ==
    LET copied == CopyOf(target)
        names  == Ascending(Vertices(copied))
        outs   == Ascending(DOMAIN g.outs)
        ins    == Ascending(DOMAIN copied.ins)
        Join(h, i) ==
          LET o == g.outs[outs[i]]
              n == MovedId(g, names, copied.ins[ins[i]])
          IN AddEdge([h EXCEPT !.type[o] = "z", !.type[n] = "z"], o, n, "simple")
    IN IF Len(outs) # Len(ins) THEN g
       ELSE [FoldLeft(Join, MoveVerticesFrom(g, copied, names), [i \in DOMAIN outs |-> i])
               EXCEPT !.outs = [q \in DOMAIN copied.outs |-> MovedId(g, names, copied.outs[q])]]

\* tensor_product: the qubits of the copy are lifted over those of g.
TensorProduct(g, target) ==
    LET copied == CopyOf(target)
        names  == Ascending(Vertices(copied))
        Span(h) == Ascending(DOMAIN h.ins \cup DOMAIN h.outs)
        lift   == Last(Span(g)) + 1 - Head(Span(g)) - Head(Span(copied))
        Lifted(list) == [q \in {r + lift : r \in DOMAIN list} |-> MovedId(g, names, list[q - lift])]
    IN [MoveVerticesFrom(g, copied, names) EXCEPT
          !.ins = @ @@ Lifted(copied.ins), !.outs = @ @@ Lifted(copied.outs)]

Adjoint(g) ==
    [g EXCEPT !.phase = [v \in DOMAIN @ |-> Minus(0, @[v])], !.ins = g.outs, !.outs = g.ins]
=============================================================================
