----------------------------- MODULE ZXMeaning -----------------------------
(***************************************************************************)
(* What a ZX graph and a circuit mean: the linear map between their qubits,*)
(* up to a scalar.  It is the reference the rewriting is held to; the code *)
(* has it as tensors (convert/zxgraph_to_tensor.cpp, qcir_to_tensor.cpp).  *)
(*                                                                         *)
(* An amplitude is a number of Z[w], w = e^(i pi/4), as the four           *)
(* coefficients of 1, w, w^2, w^3.  A map is a function from the sets of   *)
(* ports that carry a one, a port being <<"in", q>> or <<"out", q>>.       *)
(***************************************************************************)
EXTENDS QCirToZX, FiniteSetsExt

Zero == <<0, 0, 0, 0>>

\* w^4 = -1: the product of two amplitudes.
Times(a, b) ==
    <<a[1] * b[1] - a[2] * b[4] - a[3] * b[3] - a[4] * b[2],
      a[1] * b[2] + a[2] * b[1] - a[3] * b[4] - a[4] * b[3],
      a[1] * b[3] + a[2] * b[2] + a[3] * b[1] - a[4] * b[4],
      a[1] * b[4] + a[2] * b[3] + a[3] * b[2] + a[4] * b[1]>>

Sum2(a, b) == <<a[1] + b[1], a[2] + b[2], a[3] + b[3], a[4] + b[4]>>

\* An amplitude times w^p.
ScaledBy(a, p) ==
    LET k == p % Turn
        w == [i \in 1..4 |-> IF i = (k % 4) + 1 THEN (IF k < 4 THEN 1 ELSE -1) ELSE 0]
    IN IF k = 0 THEN a ELSE Times(a, w)

\* f itself, laid out as a table: TLC would compute f[x] again at every use.
Tabulated(f) == f @@ <<>>

\* Two maps are the same up to a scalar that is not zero.
Proportional(f, h) ==
    \E p \in DOMAIN f :
       /\ f[p] # Zero /\ h[p] # Zero
       /\ \A q \in DOMAIN f : Times(f[q], h[p]) = Times(h[q], f[p])

----------------------------------------------------------------------------
\* A graph.  Every vertex is a Z spider once the edges at an X spider have
\* changed type, and one of the two edges at an H-box.

Ports(g) == {<<"in", q>> : q \in DOMAIN g.ins} \cup {<<"out", q>> : q \in DOMAIN g.outs}
VertexAt(g, port) == IF port[1] = "in" THEN g.ins[port[2]] ELSE g.outs[port[2]]

Flips(g, v, w) == 
    \/ g.type[v] = "x"
    \/ g.type[v] = "h_box" /\ FirstNeighbor(g, v)[1] = w

Edges(g) ==
    {<<v, w>> \in Vertices(g) \X Vertices(g) : v < w /\ w \in NeighborIds(g, v)}

IsHadamard(g, v, w) ==
    (GetEdgeType(g, v, w) = "hadamard") # (Flips(g, v, w) # Flips(g, w, v))

\* Spiders joined by simple edges carry the same bit: one name for all of them.
Spiders(g) ==
    LET Merge(rep, e) == [v \in DOMAIN rep |-> IF rep[v] = rep[e[2]] THEN rep[e[1]] ELSE rep[v]]
        simple == {e \in Edges(g) : ~IsHadamard(g, e[1], e[2])}
    IN FoldSet(LAMBDA e, rep : Tabulated(Merge(rep, e)), [v \in Vertices(g) |-> v], simple)

\* The bits of the names are summed over one name at a time: a name is opened
\* with its phases and its Hadamard edges to the open ones, and closed once every
\* Hadamard edge at it is counted, unless it stands at a port.
GraphMap(g) ==
    LET rep    == Spiders(g)
        names  == {rep[v] : v \in Vertices(g)}
        ends   == {rep[VertexAt(g, p)] : p \in Ports(g)}
        had    == {e \in Edges(g) : IsHadamard(g, e[1], e[2])}
        \* an H-box stands between two Hadamard ends and has no phase here
        Angle(v) == IF IsZX(g, v) THEN g.phase[v] ELSE 0
        turned == Tabulated([x \in names |->
                     MapThenSumSet(Angle, {v \in Vertices(g) : rep[v] = x})
                     + Pi * Cardinality({e \in had : rep[e[1]] = x /\ rep[e[2]] = x})])
        times  == Tabulated([p \in names \X names |->
                     Cardinality({e \in had : {rep[e[1]], rep[e[2]]} = {p[1], p[2]}})])
        Count(x, ys) == MapThenSumSet(LAMBDA y : times[<<x, y>>], ys)
        Take(s, x) ==
          LET open == s.open \cup {x}
              seen == s.seen \cup {x}
              amp  == Tabulated([on \in SUBSET open |->
                        IF x \notin on THEN s.amp[on]
                        ELSE ScaledBy(s.amp[on \ {x}], turned[x] + Pi * Count(x, on \ {x}))])
              shut == {y \in open \ ends : \A z \in names \ seen : times[<<y, z>>] = 0}
          IN [open |-> open \ shut,
              seen |-> seen,
              amp  |-> Tabulated([on \in SUBSET (open \ shut) |->
                         FoldSet(LAMBDA r, a : Sum2(amp[on \cup r], a), Zero, SUBSET shut)])]
        total  == FoldLeft(Take, [open |-> {}, seen |-> {},
                                  amp |-> [on \in {{}} |-> <<1, 0, 0, 0>>]],
                           Ascending(names)).amp
    IN [ps \in SUBSET Ports(g) |->
          LET on  == {rep[VertexAt(g, p)] : p \in ps}
              off == {rep[VertexAt(g, p)] : p \in Ports(g) \ ps}
          IN IF on \cap off # {} THEN Zero ELSE total[on]]

----------------------------------------------------------------------------
\* A circuit, gate by gate: a state is a function from sets of qubits to
\* amplitudes, and a gate takes states to states.

Flip(s, q) == IF q \in s THEN s \ {q} ELSE s \cup {q}

HadamardOn(f, q) ==
    Tabulated([s \in DOMAIN f |->
       Sum2(f[s \ {q}], ScaledBy(f[s \cup {q}], IF q \in s THEN Pi ELSE 0))])

\* A phase on the states whose qubits in cs are all one, `high` when the target
\* is one and `low` when it is not.
PhaseOn(f, cs, t, low, high) ==
    [s \in DOMAIN f |->
       IF cs \subseteq s THEN ScaledBy(f[s], IF t \in s THEN high ELSE low) ELSE f[s]]

\* A rotation about an axis is one about z between basis changes.
AboutAxis(f, axis, t, Op(_)) ==
    LET SGate(h, p) == PhaseOn(h, {}, t, 0, p)
    IN CASE axis = "z" -> Op(f)
         [] axis = "x" -> HadamardOn(Op(HadamardOn(f, t)), t)
         [] axis = "y" ->
              SGate(HadamardOn(Op(HadamardOn(SGate(f, Turn - HalfPi), t)), t), HalfPi)

SwapOn(f, q, r) ==
    LET Other(s) == IF (q \in s) = (r \in s) THEN s ELSE Flip(Flip(s, q), r)
    IN [s \in DOMAIN f |-> f[Other(s)]]

\* The rows of to_tensor(ECRGate), qubit q the more significant.
ECROn(f, q, r) ==
    [s \in DOMAIN f |->
       LET t == Flip(s, q)
       IN Sum2(f[t], ScaledBy(f[Flip(t, r)], IF q \in s THEN Turn - HalfPi ELSE HalfPi))]

Rotation(f, kind, p, cs, t) ==
    LET half == Signed(p) \div 2
        Op(h) == IF cs = {} \/ kind \in {"px", "py", "pz"} THEN PhaseOn(h, cs, t, 0, p)
                 ELSE PhaseOn(h, cs, t, -half, half)
    IN AboutAxis(f, Axis[kind], t, Op)

GateOn(f, gate) ==
    LET n == Len(gate.qubits)
        t == gate.qubits[n]
    IN CASE gate.op = "id"   -> f
         [] gate.op = "h"    -> HadamardOn(f, t)
         [] gate.op = "swap" -> SwapOn(f, gate.qubits[1], t)
         [] gate.op = "ecr"  -> ECROn(f, gate.qubits[1], t)
         [] gate.op = "control" ->
              Rotation(f, gate.of, gate.phase, {gate.qubits[i] : i \in 1..(n - 1)}, t)
         [] OTHER -> Rotation(f, gate.op, gate.phase, {}, t)

CircuitMap(n, gates) ==
    LET qs == 0..(n - 1)
        Start(s) == [r \in SUBSET qs |-> IF r = s THEN <<1, 0, 0, 0>> ELSE Zero]
        Image == [s \in SUBSET qs |-> FoldLeft(GateOn, Start(s), gates)]
        ports == ({"in", "out"} \X qs)
    IN [ps \in SUBSET ports |->
          Image[{q \in qs : <<"in", q>> \in ps}][{q \in qs : <<"out", q>> \in ps}]]

----------------------------------------------------------------------------
\* Maps of two graphs, or of one turned round.

PortsOf(f) == UNION DOMAIN f
QubitsOf(f) == {p[2] : p \in PortsOf(f)}

\* f, then h: the outputs of the one are summed with the inputs of the other.
MapThen(f, h) ==
    LET Through(ps, mid) ==
          Times(f[{p \in ps : p[1] = "in"} \cup {<<"out", q>> : q \in mid}],
                h[{p \in ps : p[1] = "out"} \cup {<<"in", q>> : q \in mid}])
    IN [ps \in DOMAIN h |->
          FoldSet(LAMBDA mid, a : Sum2(Through(ps, mid), a), Zero, SUBSET QubitsOf(f))]

\* h next to f, its qubits counted on from those of f.
MapBeside(f, h) ==
    LET lift == Cardinality(QubitsOf(f))
        above(ps) == {p \in ps : p[2] < lift}
        below(ps) == {<<p[1], p[2] - lift>> : p \in ps \ above(ps)}
        ports == PortsOf(f) \cup {<<p[1], p[2] + lift>> : p \in PortsOf(h)}
    IN [ps \in SUBSET ports |-> Times(f[above(ps)], h[below(ps)])]

\* Inputs and outputs change places, and w becomes its inverse.
MapAdjoint(f) ==
    LET Across(ps)   == {<<IF p[1] = "in" THEN "out" ELSE "in", p[2]>> : p \in ps}
        Conjugate(a) == <<a[1], -a[4], -a[3], -a[2]>>
    IN [ps \in DOMAIN f |-> Conjugate(f[Across(ps)])]
=============================================================================
