--------------------------- MODULE TableauToQCir ---------------------------
(***************************************************************************)
(* From a tableau to a circuit (convert/tableau_to_qcir.cpp), with the     *)
(* graphs one strategy needs (util/graph/minimum_spanning_arborescence.hpp *)
(* and digraph.hpp).                                                       *)
(*                                                                         *)
(* A digraph is its list of vertices and the weights of its edges; a tree  *)
(* in it is the list of its edges, in the order they were inserted.        *)
(***************************************************************************)
EXTENDS Tableau, ZXMeaning

Gate(kind, phase, qs) == [op |-> kind, phase |-> phase, qubits |-> qs]
Controlled(kind, c, t) == [op |-> "control", of |-> kind, phase |-> Pi, qubits |-> <<c, t>>]
CXGate(c, t) == Controlled("px", c, t)
PZGate(phase, q) == Gate("pz", phase, <<q>>)

\* add_clifford_gate
CliffordGate(op) ==
    LET q == op[2]
        r == op[3]
    IN CASE op[1] = "h"   -> <<Gate("h", Pi, <<q>>)>>
         [] op[1] = "s"   -> <<PZGate(HalfPi, q)>>
         [] op[1] = "sdg" -> <<PZGate(Negative(HalfPi), q)>>
         [] op[1] = "v"   -> <<Gate("px", HalfPi, <<q>>)>>
         [] op[1] = "vdg" -> <<Gate("px", Negative(HalfPi), <<q>>)>>
         [] op[1] = "x"   -> <<Gate("px", Pi, <<q>>)>>
         [] op[1] = "y"   -> <<Gate("py", Pi, <<q>>)>>
         [] op[1] = "z"   -> <<PZGate(Pi, q)>>
         [] op[1] = "cx"  -> IF q = r THEN <<>> ELSE <<CXGate(q, r)>>
         [] op[1] = "cz"  -> <<Controlled("pz", q, r)>>
         [] op[1] \in {"swap", "ecr"} -> <<Gate(op[1], 0, <<q, r>>)>>

CliffordGates(ops) == FlattenSeq([i \in DOMAIN ops |-> CliffordGate(ops[i])])

\* A conversion that is stopped has no circuit, but a stop during the synthesis
\* is only seen at an operator, and there may be none.  `halt` is as in
\* StabilizerTableau, or "building": while the gates are appended.
Circuit(gates) == [ok |-> TRUE, gates |-> gates]
NoCircuit == [ok |-> FALSE, gates |-> <<>>]

CircuitOf(ops, halt) ==
    IF halt # "no" /\ ops # <<>> THEN NoCircuit ELSE Circuit(CliffordGates(ops))
Extraction(halt) == IF halt = "building" THEN "no" ELSE halt

CliffordCircuit(strategy, t, halt) == CircuitOf(OperatorsBy(strategy, t, Extraction(halt)), halt)

----------------------------------------------------------------------------
\* NaivePauliRotationsSynthesisStrategy

NaiveGates(r) ==
    LET ops == ToOneQubit(r.pauli)
    IN CliffordGates(ops) \o <<PZGate(r.phase, LastQubit(r.pauli))>>
         \o CliffordGates(AdjointOps(ops))

NaiveCircuit(rs) == Circuit(FlattenSeq([i \in DOMAIN rs |-> NaiveGates(rs[i])]))

----------------------------------------------------------------------------
\* The other strategies turn the qubits into the parities that the rotations
\* are about; what that leaves behind is synthesized in the end.

Start(rs) == [rs |-> rs, gates |-> <<>>, final |-> IdentityTableau]

\* The indices in `live` are the rotations still to come.
AddCX(s, live, c, t) ==
    IF c = t THEN s
    ELSE [s EXCEPT !.rs    = [i \in DOMAIN @ |-> IF i \in live THEN OnRotation(@[i], CX(c, t))
                                                 ELSE @[i]] \o <<>>,
                   !.gates = Append(@, CXGate(c, t)),
                   !.final = PrependCX(@, c, t)]

\* The circuit of a finished synthesis
WithFinal(s, halt) ==
    LET After(c) == IF c.ok THEN Circuit(s.gates \o c.gates) ELSE NoCircuit
    IN After(CircuitOf(AGOperators(s.final, Extraction(halt) # "no"), halt))

----------------------------------------------------------------------------
\* GraySynth.  An entry of the stack is the rotations and the qubits it is
\* about, and the qubit that will hold their parity.

NoTarget == -1

ControlRows(s, entry) ==
    SelectSeq(QubitList, LAMBDA q : q # entry.targ /\ \A i \in ToSet(entry.rots) : q \in s.rs[i].pauli.z)

\* apply_cxs: all onto the target, or each onto the next in a random order
CXPairs(ctrls, targ, mode, order) ==
    LET stairs == SortSeq(ctrls, LAMBDA a, b : order[a] < order[b])
    IN IF mode = "star" THEN [i \in DOMAIN ctrls |-> <<ctrls[i], targ>>]
       ELSE [i \in DOMAIN stairs |-> <<stairs[i], IF i < Len(stairs) THEN stairs[i + 1] ELSE targ>>]

\* get_cofactor_row: the first qubit with the fewest ones or the last one with
\* the most, whichever splits off more
CofactorRow(s, entry) ==
    LET Ones(q)  == Cardinality({i \in ToSet(entry.rots) : q \in s.rs[i].pauli.z})
        qs       == ToSet(entry.qubits)
        most     == Max({q \in qs : \A r \in qs : Ones(r) <= Ones(q)})
        least    == Min({q \in qs : \A r \in qs : Ones(q) <= Ones(r)})
    IN IF Ones(most) >= Len(entry.rots) - Ones(least) THEN most ELSE least

GrayLeaf(s, entry) ==
    [s EXCEPT !.gates  = @ \o [i \in DOMAIN entry.rots |->
                                 PZGate(s.rs[entry.rots[i]].phase, entry.targ)],
              !.frozen = @ \cup ToSet(entry.rots)]

GrayBranch(s, entry, row) ==
    LET One(i) == row \in s.rs[i].pauli.z
        rest   == SelectSeq(entry.qubits, LAMBDA q : q # row)
        zeros  == SelectSeq(entry.rots, LAMBDA i : ~One(i))
        ones   == SelectSeq(entry.rots, One)
    IN [s EXCEPT !.stack = @ \o
          << [rots |-> zeros, qubits |-> rest, targ |-> entry.targ],
             [rots |-> ones,  qubits |-> rest,
              targ |-> IF entry.targ = NoTarget THEN row ELSE entry.targ] >>]

GrayEntry(s, entry, mode, order) ==
    LET pairs == IF entry.targ = NoTarget THEN <<>>
                 ELSE CXPairs(ControlRows(s, entry), entry.targ, mode, order)
        Folded(r) == IF entry.qubits = <<>> THEN GrayLeaf(r, entry)
                     ELSE GrayBranch(r, entry, CofactorRow(r, entry))
    IN Folded(Iterate(LAMBDA r, p : AddCX(r, DOMAIN r.rs \ r.frozen, p[1], p[2]), s, pairs))

GrayStep(s, mode, order) ==
    LET entry == Last(s.stack)
        below == [s EXCEPT !.stack = Front(@)]
    IN IF s.stack = <<>> THEN s
       ELSE IF entry.rots = <<>> THEN below
       ELSE GrayEntry(below, entry, mode, order)

\* The stack is walked through after as many steps as a tree has nodes that
\* branches once for every qubit.
GrayCircuit(rs, mode, order, halt) ==
    LET whole == [rots |-> FromUpto(1, Len(rs)), qubits |-> QubitList, targ |-> NoTarget]
        start == [stack |-> <<whole>>, frozen |-> {}] @@ Start(rs)
    IN IF ~\A i \in DOMAIN rs : IsDiagonal(rs[i].pauli) THEN NoCircuit
       ELSE WithFinal(Iterate(LAMBDA s, i : GrayStep(s, mode, order), start,
                               FromUpto(1, 2^(Qubits + 1))), halt)

----------------------------------------------------------------------------
\* minimum_spanning_arborescence

Into(g, v) == SelectSeq(g.vs, LAMBDA u : <<u, v>> \in DOMAIN g.w)

\* The first member of a list where a cost is least
Cheapest(list, Cost(_)) ==
    list[Min({i \in DOMAIN list : \A j \in DOMAIN list : Cost(list[i]) <= Cost(list[j])})]

\* build_min_edge_subgraph
MinPred(g, root) ==
    [v \in ToSet(g.vs) \ {root} |-> Cheapest(Into(g, v), LAMBDA u : g.w[<<u, v>>])] @@ <<>>

\* find_cycle: from the first vertex on a cycle, backwards
Backwards(pred, v, n) ==
    Iterate(LAMBDA path, i : IF Last(path) \in DOMAIN pred THEN Append(path, pred[Last(path)]) ELSE path,
             <<v>>, FromUpto(1, n))

CycleOf(g, pred) ==
    LET Around(v) == Backwards(pred, v, Len(g.vs))
        Length(v) == Min({Len(g.vs) + 1} \cup {i \in DOMAIN Around(v) \ {1} : Around(v)[i] = v})
        on == SelectSeq(g.vs, LAMBDA v : Length(v) <= Len(g.vs))
    IN IF on = <<>> THEN <<>> ELSE SubSeq(Around(on[1]), 1, Length(on[1]) - 1)

\* The cycle becomes one vertex.  An edge into it is taken with the weight of
\* the edge of the cycle it replaces added.
Contracted(g, pred, cycle) ==
    LET on    == ToSet(cycle)
        new   == Max(ToSet(g.vs)) + 1
        out   == SelectSeq(g.vs, LAMBDA v : v \notin on)
        within == SelectSeq(g.vs, LAMBDA v : v \in on)
        Enters(u) == SelectSeq(within, LAMBDA v : <<u, v>> \in DOMAIN g.w)
        Leaves(v) == SelectSeq(within, LAMBDA u : <<u, v>> \in DOMAIN g.w)
        Entry(u)  == Cheapest(Enters(u), LAMBDA v : g.w[<<u, v>>] + g.w[<<pred[v], v>>])
        Exit(v)   == Cheapest(Leaves(v), LAMBDA u : g.w[<<u, v>>])
        ins  == [u \in {u \in ToSet(out) : Enters(u) # <<>>} |-> Entry(u)]
        outs == [v \in {v \in ToSet(out) : Leaves(v) # <<>>} |-> Exit(v)]
        kept == {e \in DOMAIN g.w : e[1] \notin on /\ e[2] \notin on}
    IN [vertex |-> new, ins |-> ins, outs |-> outs,
        graph |-> [vs |-> Append(out, new),
                   w  |-> [e \in kept |-> g.w[e]]
                          @@ [e \in (DOMAIN ins) \X {new} |->
                                g.w[<<e[1], ins[e[1]]>>] + g.w[<<pred[ins[e[1]]], ins[e[1]]>>]]
                          @@ [e \in {new} \X (DOMAIN outs) |-> g.w[<<outs[e[2]], e[2]>>]]]]

\* The cycle comes back, without the edge into the vertex where it is entered.
Restored(tree, c, pred, cycle) ==
    LET leaving == SelectSeq(tree, LAMBDA e : e[1] = c.vertex)
        src     == SelectSeq(tree, LAMBDA e : e[2] = c.vertex)[1][1]
        rest    == SelectSeq(cycle, LAMBDA v : v # c.ins[src])
    IN SelectSeq(tree, LAMBDA e : c.vertex \notin {e[1], e[2]})
         \o [i \in DOMAIN leaving |-> <<c.outs[leaving[i][2]], leaving[i][2]>>]
         \o << <<src, c.ins[src]>> >>
         \o [i \in DOMAIN rest |-> <<pred[rest[i]], rest[i]>>]

RECURSIVE ArborescenceFrom(_, _)
ArborescenceFrom(g, root) ==
    LET By(pred, cycle) ==
          IF cycle = <<>>
          THEN LET vs == SelectSeq(g.vs, LAMBDA v : v # root)
               IN [i \in DOMAIN vs |-> <<pred[vs[i]], vs[i]>>]
          ELSE LET c == Contracted(g, pred, cycle)
               IN Restored(ArborescenceFrom(c.graph, root), c, pred, cycle)
        With(pred) == By(pred, CycleOf(g, pred))
    IN With(MinPred(g, root))

TreeWeight(g, tree) == Iterate(LAMBDA sum, e : sum + g.w[e], 0, tree)

\* The first root with the least total weight
Arborescence(g) ==
    Cheapest([i \in DOMAIN g.vs |-> [root |-> g.vs[i], tree |-> ArborescenceFrom(g, g.vs[i])]] \o <<>>,
             LAMBDA a : TreeWeight(g, a.tree))

----------------------------------------------------------------------------
\* MstSynthesisStrategy

WeightOn(rs, q)      == Cardinality({i \in DOMAIN rs : q \in rs[i].pauli.z})
DistanceOn(rs, q, r) == Cardinality({i \in DOMAIN rs : (q \in rs[i].pauli.z) # (r \in rs[i].pauli.z)})

ParityGraph(rs, target) ==
    LET qs == target.pauli.z
    IN [vs |-> InOrder(qs),
        w  |-> [e \in {p \in qs \X qs : p[1] # p[2]} |->
                  DistanceOn(rs, e[1], e[2]) - WeightOn(rs, e[2]) - 1] @@ <<>>]

BestRotation(rs) == Cheapest(FromUpto(1, Len(rs)), LAMBDA i : Cardinality(rs[i].pauli.z))

\* Children last to first, every vertex before its children
Preorder(a) ==
    LET Children(v) == LET es == SelectSeq(a.tree, LAMBDA e : e[1] = v)
                       IN [i \in DOMAIN es |-> es[i][2]]
        Visit(s) == [stack |-> Front(s.stack) \o Children(Last(s.stack)),
                     seen  |-> Append(s.seen, Last(s.stack))]
    IN Iterate(LAMBDA s, e : Visit(s), [stack |-> <<a.root>>, seen |-> <<>>],
                Append(a.tree, <<>>)).seen

\* One rotation: the tree is folded into its root from the leaves.
MstRotation(s, i) ==
    LET best   == BestRotation(s.rs)
        target == s.rs[best]
        Fold(r, a) ==
          LET Up(v) == SelectSeq(a.tree, LAMBDA e : e[2] = v)
          IN Iterate(LAMBDA x, v : IF Up(v) = <<>> THEN x ELSE AddCX(x, DOMAIN x.rs, v, Up(v)[1][1]),
                      r, Reverse(Preorder(a)))
        Placed(r, a) == [Fold(r, a) EXCEPT !.gates = Append(@, PZGate(target.phase, a.root))]
        Others(r) == Placed(r, Arborescence(ParityGraph(r.rs, target)))
    IN Others([s EXCEPT !.rs = Front([s.rs EXCEPT ![best] = Last(s.rs)])])

MstCircuit(rs, halt) ==
    IF ~\A i \in DOMAIN rs : IsDiagonal(rs[i].pauli) THEN NoCircuit
    ELSE WithFinal(Iterate(MstRotation, Start(rs), FromUpto(1, Len(rs))), halt)

-----------------------------------------------------------------------------
(* What a tableau means: a linear map, up to a scalar, as in ZXMeaning. It is  *)
(* the reference that the work on tableaux is held to; the code has it only   *)
(* as circuits.                                                               *)

\* Maps or states without the powers of two that all of them have
Normalised(fs) ==
    LET Divides(k) == \A i \in DOMAIN fs : \A s \in DOMAIN fs[i] : \A c \in 1 .. 4 :
                         fs[i][s][c] % 2^k = 0
        Part(f, d) == Tabulated([s \in DOMAIN f |-> [c \in 1 .. 4 |-> f[s][c] \div d] \o <<>>])
        By(d) == Tabulated([i \in DOMAIN fs |-> Part(fs[i], d)])
    IN IF Divides(1) THEN By(2^Max({k \in 0 .. 30 : Divides(k)})) ELSE fs

\* A Pauli product on a state: X on the qubits in x, Z on those in z, and a
\* factor i for every Y
PauliOn(f, p) ==
    LET Back(s) == SymmetricDifference(s, p.x)
        Power(s) == 2 * Cardinality(p.x \cap p.z) + Pi * Cardinality(p.z \cap Back(s))
                    + (IF p.neg THEN Pi ELSE 0)
    IN Tabulated([s \in DOMAIN f |-> ScaledBy(f[Back(s)], Power(s))])

\* Twice the rotation: (1 + w^k) + (1 - w^k) P
RotationOn(f, r) ==
    LET Plain(s) == Sum2(f[s], ScaledBy(f[s], r.phase))
        With(h)  == Tabulated([s \in DOMAIN f |->
                      Sum2(Plain(s), Sum2(h[s], ScaledBy(h[s], r.phase + Pi)))])
    IN With(PauliOn(f, r.pauli))

Projected(f, p) ==
    LET With(h) == Tabulated([s \in DOMAIN f |-> Sum2(f[s], h[s])])
    IN With(PauliOn(f, p))

\* The image of the state of zeros is the state that every stabilizer fixes; the
\* destabilizers of the ones take it to the other images.
ZeroImage(t) ==
    LET Basis(s) == [r \in SUBSET Register |-> IF r = s THEN <<1, 0, 0, 0>> ELSE Zero]
        From(s) == Iterate(LAMBDA f, q : Projected(f, t.stab[q]), Basis(s), FromUpto(0, Logical - 1))
        images == Tabulated([s \in SUBSET Register |-> From(s)])
    IN images[CHOOSE s \in SUBSET Register : \E r \in SUBSET Register : images[s][r] # Zero]

\* A map is given by the images of the states of its inputs.
IdentityImages == [s \in SUBSET Register |-> [r \in SUBSET Register |->
                                               IF r = s THEN <<1, 0, 0, 0>> ELSE Zero]]

\* sum of the images, weighted by the amplitudes of f
CliffordImages(t) ==
    LET From(zero) == [s \in SUBSET Register |->
                        Iterate(LAMBDA f, q : PauliOn(f, t.destab[q]), zero, InOrder(s))]
    IN Tabulated(From(ZeroImage(t)))

CliffordOn(images, f) ==
    Tabulated([r \in SUBSET Register |->
       FoldSet(LAMBDA s, sum : Sum2(sum, Times(f[s], images[s][r])), Zero, SUBSET Register)])

OnEveryInput(fs, Op(_)) == Normalised(Tabulated([s \in SUBSET Register |-> Op(fs[s])]))

SubOn(images, sub) ==
    LET With(c) == OnEveryInput(images, LAMBDA f : CliffordOn(c, f))
        Rotate(fs, r) == OnEveryInput(fs, LAMBDA f : RotationOn(f, r))
    IN IF IsClifford(sub) THEN With(CliffordImages(sub.clifford))
       ELSE Iterate(Rotate, images, sub.rotations)

\* As a function from the sets of ports that carry a one
AsMap(images) ==
    Tabulated([ps \in SUBSET ({"in", "out"} \X Register) |->
                 images[{q \in Register : <<"in", q>> \in ps}]
                       [{q \in Register : <<"out", q>> \in ps}]])

TableauMap(tb) == AsMap(Iterate(SubOn, IdentityImages, tb))

CircuitMeaning(gates) ==
    AsMap(Iterate(LAMBDA fs, g : OnEveryInput(fs, LAMBDA f : GateOn(f, g)), IdentityImages, gates))
=============================================================================
