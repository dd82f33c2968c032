------------------------------ MODULE Tableau ------------------------------
(***************************************************************************)
(* A tableau: Clifford operators and lists of Pauli rotations, one after   *)
(* the other (tableau/tableau.cpp), and how a circuit becomes one          *)
(* (convert/qcir_to_tableau.cpp).                                          *)
(*                                                                         *)
(* A subtableau is [clifford |-> a stabilizer tableau] or                  *)
(* [rotations |-> a list].  A rotation by `phase` about a Pauli product is *)
(* diag(1, e^(i phase)) on its eigenspaces; phases are counted in eighths  *)
(* of a turn and gates are records, both as in QCirToZX.                   *)
(***************************************************************************)
EXTENDS Integers, FiniteSetsExt, QCirToZX

(***************************************************************************)
(* Pauli products and Clifford operators as tableaux                       *)
(* (tableau/pauli_rotation.cpp, tableau/stabilizer_tableau.cpp).           *)
(*                                                                         *)
(* A product is the record of the qubits whose z and whose x bit is set    *)
(* and of its sign.  A tableau has for every qubit q the product that Z on *)
(* q becomes, stab[q], and the one that X becomes, destab[q].  A Clifford  *)
(* operator is a triple <<type, qubit, other qubit>>.                      *)
(***************************************************************************)

CONSTANT Qubits   \* the most qubits a tableau has

\* FoldLeft with every value computed before the next step is taken: the folds
\* below are nested too deep for TLC to leave that to the end.
Iterate(Op(_, _), base, seq) ==
    LET f[i \in 0 .. Len(seq)] ==
          IF i = 0 THEN base ELSE CHOOSE y \in {Op(x, seq[i]) : x \in {f[i - 1]}} : TRUE
    IN f[Len(seq)]

QubitSet  == 0 .. Qubits - 1
FromUpto(a, b) == IF b < a THEN <<>> ELSE [i \in 1 .. b - a + 1 |-> a + i - 1]
QubitList == FromUpto(0, Qubits - 1)
InOrder(S) == SelectSeq(QubitList, LAMBDA q : q \in S)

----------------------------------------------------------------------------
\* Pauli products

Toggle(S, q) == IF q \in S THEN S \ {q} ELSE S \cup {q}
SymmetricDifference(S, T) == (S \ T) \cup (T \ S)

PauliType(p, q) == IF q \in p.z THEN (IF q \in p.x THEN "y" ELSE "z")
                                ELSE (IF q \in p.x THEN "x" ELSE "i")

IsDiagonal(p) == p.x = {}
IsIdentityProduct(p) == p.x = {} /\ p.z = {}

\* The power of i that the product of two Paulis comes with
PowerOfI(a, b) ==
    CASE <<a, b>> \in {<<"x", "y">>, <<"y", "z">>, <<"z", "x">>} -> 1
      [] <<a, b>> \in {<<"x", "z">>, <<"z", "y">>, <<"y", "x">>} -> 3
      [] OTHER -> 0

\* operator*=: an odd power of i is rounded down to a sign.
Product(p, r) ==
    LET power == MapThenSumSet(LAMBDA q : PowerOfI(PauliType(p, q), PauliType(r, q)), QubitSet)
    IN [z   |-> SymmetricDifference(p.z, r.z),
        x   |-> SymmetricDifference(p.x, r.x),
        neg |-> (p.neg # r.neg) # ((power % 4) \div 2 = 1)]

Commute(p, r) ==
    Cardinality({q \in QubitSet : (q \in p.z /\ q \in r.x) # (q \in p.x /\ q \in r.z)}) % 2 = 0

PauliH(p, q) ==
    [z   |-> IF q \in p.x THEN p.z \cup {q} ELSE p.z \ {q},
     x   |-> IF q \in p.z THEN p.x \cup {q} ELSE p.x \ {q},
     neg |-> p.neg # (q \in p.z /\ q \in p.x)]

PauliS(p, q) ==
    [z   |-> IF q \in p.x THEN Toggle(p.z, q) ELSE p.z,
     x   |-> p.x,
     neg |-> p.neg # (q \in p.z /\ q \in p.x)]

PauliCX(p, c, t) ==
    [z   |-> IF t \in p.z THEN Toggle(p.z, c) ELSE p.z,
     x   |-> IF c \in p.x THEN Toggle(p.x, t) ELSE p.x,
     neg |-> p.neg # (c \in p.x /\ t \in p.z /\ (t \in p.x <=> c \in p.z))]

----------------------------------------------------------------------------
\* Clifford operators

H(q)     == <<"h", q, 0>>
S(q)     == <<"s", q, 0>>
CX(c, t) == <<"cx", c, t>>

\* The gate in h, s and cx (PauliProductTrait), in the order they are applied
Generators(op) ==
    LET q == op[2]
        r == op[3]
    IN CASE op[1] \in {"h", "s", "cx"} -> <<op>>
         [] op[1] = "sdg"  -> <<S(q), S(q), S(q)>>
         [] op[1] = "v"    -> <<H(q), S(q), H(q)>>
         [] op[1] = "vdg"  -> <<H(q), S(q), S(q), S(q), H(q)>>
         [] op[1] = "x"    -> <<H(q), S(q), S(q), H(q)>>
         [] op[1] = "y"    -> <<H(q), S(q), S(q), H(q), S(q), S(q)>>
         [] op[1] = "z"    -> <<S(q), S(q)>>
         [] op[1] = "cz"   -> <<H(r), CX(q, r), H(r)>>
         [] op[1] = "swap" -> <<CX(q, r), CX(r, q), CX(q, r)>>
         [] op[1] = "ecr"  -> <<CX(q, r), S(q), H(q), S(q), S(q), H(q), H(r), S(r), H(r)>>

\* ... and in the order they are prepended (StabilizerTableau::prepend_*)
PrependGenerators(op) ==
    LET q == op[2]
        r == op[3]
    IN IF op[1] = "ecr"
       THEN <<H(q), S(q), S(q), H(q), S(q), H(r), S(r), H(r), CX(q, r)>>
       ELSE Generators(op)

AllGenerators(ops) == FlattenSeq([i \in DOMAIN ops |-> Generators(ops[i])])

AdjointType(type) ==
    CASE type = "s" -> "sdg" [] type = "sdg" -> "s"
      [] type = "v" -> "vdg" [] type = "vdg" -> "v"
      [] OTHER -> type
AdjointOp(op) == <<AdjointType(op[1]), op[2], op[3]>>
AdjointOps(ops) == [i \in DOMAIN ops |-> AdjointOp(Reverse(ops)[i])]

OnPauli(p, g) ==
    CASE {g[2], g[3]} \subseteq QubitSet /\ g[1] = "h"  -> PauliH(p, g[2])
      [] {g[2], g[3]} \subseteq QubitSet /\ g[1] = "s"  -> PauliS(p, g[2])
      [] {g[2], g[3]} \subseteq QubitSet /\ g[1] = "cx" -> PauliCX(p, g[2], g[3])
      [] OTHER -> p

----------------------------------------------------------------------------
\* Stabilizer tableaux.  The rows are laid out as a table (f @@ <<>> is f):
\* TLC would compute a row again at every use.

OnRows(t, Op(_)) == [stab   |-> [q \in QubitSet |-> Op(t.stab[q])] @@ <<>>,
                     destab |-> [q \in QubitSet |-> Op(t.destab[q])] @@ <<>>]

IdentityTableau ==
    [stab   |-> [q \in QubitSet |-> [z |-> {q}, x |-> {}, neg |-> FALSE]],
     destab |-> [q \in QubitSet |-> [z |-> {}, x |-> {q}, neg |-> FALSE]]]

ApplyGenerator(t, g) == OnRows(t, LAMBDA p : OnPauli(p, g))
Apply(t, ops) == Iterate(ApplyGenerator, t, AllGenerators(ops))

PrependS(t, q) == [t EXCEPT !.destab[q] = Product(t.stab[q], t.destab[q])]
\* Mutant: the destabilizer of the control forgotten
PrependCXHalf(t, c, r) == [t EXCEPT !.stab[r] = Product(t.stab[c], t.stab[r])]

PrependCX(t, c, r) == [t EXCEPT !.stab[r]   = Product(t.stab[c], t.stab[r]),
                                !.destab[c] = Product(t.destab[r], t.destab[c])]
PrependH(t, q) == [t EXCEPT !.stab[q] = t.destab[q], !.destab[q] = t.stab[q]]

PrependGenerator(t, g) ==
    CASE ~({g[2], g[3]} \subseteq QubitSet) -> t
      [] g[1] = "h"  -> PrependH(t, g[2])
      [] g[1] = "s"  -> PrependS(t, g[2])
      [] g[1] = "cx" -> PrependCX(t, g[2], g[3])

Prepend(t, ops) ==
    Iterate(PrependGenerator, t,
             FlattenSeq([i \in DOMAIN ops |-> PrependGenerators(ops[i])]))

----------------------------------------------------------------------------
\* Synthesis: the operators that take a tableau to the identity are found one
\* by one, s.t being what is left of it and s.ops the operators so far.

Synthesis(t) == [t |-> t, ops |-> <<>>]
Add(s, op) == [t |-> Apply(s.t, <<op>>), ops |-> Append(s.ops, op)]

\* The operators Gate(q) of the qubits q of a list that pass the test when their
\* turn comes
AddWhere(s, qs, Test(_, _), Gate(_)) ==
    Iterate(LAMBDA r, q : IF Test(r.t, q) THEN Add(r, Gate(q)) ELSE r, s, qs)

Above(q) == FromUpto(q + 1, Qubits - 1)

\* make_destab_x_main_diag_1
DestabDiagonal(s, q) ==
    LET row == s.t.destab[q]
        xs  == {c \in row.x : c > q}
        zs  == {c \in row.z : c >= q}
    IN IF q \in row.x THEN s
       ELSE IF xs # {} THEN Add(s, CX(Min(xs), q))
       ELSE IF zs = {} THEN s
       ELSE IF Min(zs) = q THEN Add(s, H(q))
       ELSE Add(Add(s, H(Min(zs))), CX(Min(zs), q))

\* make_destab_x_off_diag_0
DestabRow(s, q) ==
    LET inX(t, r) == r \in t.destab[q].x
        inZ(t, r) == r \in t.destab[q].z
        Clear(r) ==
          IF \A c \in r.t.destab[q].z : c < q THEN r
          ELSE Add(AddWhere(AddWhere(r, <<q>>, LAMBDA t, c : ~inZ(t, c), S),
                            Above(q), inZ, LAMBDA c : CX(c, q)),
                   S(q))
    IN Clear(AddWhere(s, Above(q), inX, LAMBDA r : CX(q, r)))

\* make_stab_z_off_diag_0
StabRow(s, q) ==
    LET inX(t, r) == r \in t.stab[q].x
        inZ(t, r) == r \in t.stab[q].z
        Clear(r) ==
          IF \A c \in r.t.stab[q].x : c < q THEN r
          ELSE Add(AddWhere(AddWhere(Add(r, H(q)), Above(q), inX, LAMBDA c : CX(q, c)),
                            <<q>>, inZ, S),
                   H(q))
    IN Clear(AddWhere(s, Above(q), inZ, LAMBDA c : CX(c, q)))

Signs(s, q) ==
    AddWhere(AddWhere(s, <<q>>, LAMBDA t, r : t.stab[r].neg, LAMBDA r : <<"x", r, 0>>),
             <<q>>, LAMBDA t, r : t.destab[r].neg, LAMBDA r : <<"z", r, 0>>)

\* AGSynthesisStrategy
AGOperators(t, halt) ==
    IF halt THEN <<>>
    ELSE AdjointOps(
           Iterate(Signs,
                    Iterate(LAMBDA s, q : StabRow(DestabRow(DestabDiagonal(s, q), q), q),
                             Synthesis(t), QubitList),
                    QubitList).ops)

\* HOptSynthesisStrategy: first the stabilizers lose their x bits.
DiagonalizeStab(s, q, mode) ==
    LET xs   == InOrder(s.t.stab[q].x)
        ctrl == Head(xs)
        star == [i \in 1 .. Len(xs) - 1 |-> CX(ctrl, xs[i + 1])]
        down == [i \in 1 .. Len(xs) - 1 |-> CX(xs[Len(xs) - i], xs[Len(xs) - i + 1])]
    IN IF xs = <<>> THEN s
       ELSE Add(AddWhere(Iterate(Add, s, IF mode = "star" THEN star ELSE down),
                         <<ctrl>>, LAMBDA t, c : c \in t.stab[q].z, S),
                H(ctrl))

\* Ctrl-C sets a flag that the synthesis of a Clifford operator looks at twice.
\* `looks` is how often it will still be found clear: an operation that
\* synthesizes several operators hands on what is left of it.
HaltOf(looks) == IF looks <= 0 THEN "at once" ELSE IF looks = 1 THEN "later" ELSE "no"

\* A stop request is seen before the stabilizers are diagonal, or when the
\* second synthesis starts, or not at all.
Halts == {"no", "at once", "later"}

HOptOperators(t, mode, halt) ==
    IF halt = "at once" THEN <<>>
    ELSE LET s == Iterate(LAMBDA r, q : DiagonalizeStab(r, q, mode), Synthesis(t), QubitList)
         IN AGOperators(s.t, halt = "later") \o AdjointOps(s.ops)

\* extract_clifford_operators with the strategy "ag", "star" or "staircase"
OperatorsBy(strategy, t, halt) ==
    IF strategy = "ag" THEN AGOperators(t, halt # "no") ELSE HOptOperators(t, strategy, halt)

OperatorsOf(t, halt) == HOptOperators(t, "star", halt)

AdjointTableau(t, halt) == Apply(IdentityTableau, AdjointOps(OperatorsOf(t, halt)))

-----------------------------------------------------------------------------
\* The qubits of the circuits and tableaux at hand.  The others are idle: they
\* are there for tableaux with more rows (PhasePoly).
CONSTANT Logical
Register == 0 .. Logical - 1

LOCAL Lines == INSTANCE Circuit

\* get_gates: the gates in the order of a depth-first search
InGateOrder(gates) ==
    LET ids   == [i \in DOMAIN gates |-> [id |-> i, qubits |-> gates[i].qubits]]
        Of(order) == [i \in DOMAIN order |-> gates[order[i]]]
    IN IF gates = <<>> THEN gates ELSE Of(Lines!GetGates(ids, Logical))

Negative(p) == Minus(0, p)

\* PauliRotation::_normalize: the sign of the product goes to the phase.
Rotated(p, phase) == [pauli |-> [p EXCEPT !.neg = FALSE],
                      phase |-> IF p.neg THEN Negative(phase) ELSE phase]

OnRotation(r, g) == Rotated(OnPauli(r.pauli, g), r.phase)
OnRotations(rs, ops) ==
    LET gs == AllGenerators(ops)
    IN [i \in DOMAIN rs |-> Iterate(OnRotation, rs[i], gs)] \o <<>>

ZRotation(qs, phase) == [pauli |-> [z |-> qs, x |-> {}, neg |-> FALSE], phase |-> phase]

Clifford(t)  == [clifford |-> t]
Rotations(l) == [rotations |-> l]
IsClifford(sub)  == "clifford" \in DOMAIN sub
IsRotations(sub) == "rotations" \in DOMAIN sub

NewTableau == <<Clifford(IdentityTableau)>>

RotationCount(tb) ==
    Iterate(LAMBDA n, sub : IF IsRotations(sub) THEN n + Len(sub.rotations) ELSE n, 0, tb)

\* Tableau::h, s, cx: back to front, up to and including the last Clifford.
Appended(tb, ops) ==
    LET last == Max({0} \cup {i \in DOMAIN tb : IsClifford(tb[i])})
        At(i) == IF i < last THEN tb[i]
                 ELSE IF IsClifford(tb[i]) THEN Clifford(Apply(tb[i].clifford, ops))
                 ELSE Rotations(OnRotations(tb[i].rotations, ops))
    IN [i \in DOMAIN tb |-> At(i)] \o <<>>

AdjointRotations(rs) ==
    [i \in DOMAIN rs |-> [Reverse(rs)[i] EXCEPT !.phase = Negative(@)]]

AdjointSub(sub, halt) ==
    IF IsClifford(sub) THEN Clifford(AdjointTableau(sub.clifford, halt))
    ELSE Rotations(AdjointRotations(sub.rotations))

\* adjoint_inplace: the Cliffords are synthesized one after the other.
AdjointOf(tb, looks) ==
    LET back == Reverse(tb)
        Before(i) == Cardinality({j \in 1 .. i - 1 : IsClifford(back[j])})
    IN [i \in DOMAIN tb |-> AdjointSub(back[i], HaltOf(looks - 2 * Before(i)))] \o <<>>

----------------------------------------------------------------------------
\* A circuit becomes a tableau gate by gate.

\* dvlab::combinations: the sets of k members of an ascending list
Combinations(ids, k) ==
    LET Extended(c) == LET above == SelectSeq(ids, LAMBDA x : \A y \in c : y < x)
                       IN [i \in DOMAIN above |-> c \cup {above[i]}]
        Longer(cs, i) == FlattenSeq([j \in DOMAIN cs |-> Extended(cs[j])])
    IN Iterate(Longer, <<{}>>, FromUpto(1, k))

CombinationsOfSizes(ids, sizes) ==
    FlattenSeq([i \in DOMAIN sizes |-> Combinations(ids, sizes[i])])

\* To the z axis of the target and back
ToZ(axis, t) == CASE axis = "x" -> <<H(t)>> [] axis = "y" -> <<<<"v", t, 0>>>> [] OTHER -> <<>>
FromZ(axis, t) == AdjointOps(ToZ(axis, t))

WithRotations(tb, rs) ==
    LET open == IF IsClifford(Last(tb)) THEN Append(tb, Rotations(<<>>)) ELSE tb
    IN [open EXCEPT ![Len(open)].rotations = @ \o rs]

About(tb, axis, t, rs) ==
    Appended(WithRotations(Appended(WithRotations(tb, <<>>), ToZ(axis, t)), rs), FromZ(axis, t))

\* implement_mcp: a phase on the states whose qubits are all one
MultiControlPhase(tb, qubits, phase, axis) ==
    LET p   == GadgetPhase(phase, Len(qubits))
        rot(s) == ZRotation(s, IF Cardinality(s) % 2 = 1 THEN p ELSE Negative(p))
        all == CombinationsOfSizes(InOrder(ToSet(qubits)), FromUpto(1, Len(qubits)))
    IN About(tb, axis, Last(qubits), [i \in DOMAIN all |-> rot(all[i])])

\* implement_mcr: the combinations are of all the qubits, the target included.
MultiControlRotation(tb, qubits, phase, axis) ==
    LET p   == GadgetPhase(phase, Len(qubits))
        rot(s) == ZRotation(s \cup {Last(qubits)},
                            IF Cardinality(s) % 2 = 0 THEN p ELSE Negative(p))
        all == CombinationsOfSizes(InOrder(ToSet(qubits)), FromUpto(0, Len(qubits) - 1))
    IN About(tb, axis, Last(qubits), [i \in DOMAIN all |-> rot(all[i])])

\* The Clifford gates among the rotations, a half and a quarter turn
TurnGates(axis, phase, t) ==
    LET One(g) == <<g, t, 0>>
        Half(g) == IF phase = HalfPi THEN One(g) ELSE One(AdjointType(g))
    IN IF phase = Pi THEN <<One(axis)>>
       ELSE CASE axis = "z" -> <<Half("s")>>
              [] axis = "x" -> <<Half("v")>>
              [] axis = "y" -> <<One("sdg"), Half("v"), One("s")>>

PGates == {"px", "py", "pz"}

\* append_to_tableau
AppendPauliGate(tb, kind, phase, qubits) ==
    IF kind \in PGates THEN MultiControlPhase(tb, qubits, phase, Axis[kind])
                       ELSE MultiControlRotation(tb, qubits, phase, Axis[kind])

AppendControlGate(tb, gate) ==
    LET c == gate.qubits[1]
        t == Last(gate.qubits)
    IN IF Len(gate.qubits) = 2 /\ gate.phase = Pi /\ gate.of \in PGates
       THEN Appended(tb, CASE gate.of = "px" -> <<CX(c, t)>>
                           [] gate.of = "py" -> <<<<"sdg", t, 0>>, CX(c, t), S(t)>>
                           [] gate.of = "pz" -> <<<<"cz", c, t>>>>)
       ELSE AppendPauliGate(tb, gate.of, gate.phase, gate.qubits)

AppendGate(tb, gate) ==
    LET q == gate.qubits[1]
    IN CASE gate.op = "id" -> tb
         [] gate.op = "h"  -> Appended(tb, <<H(q)>>)
         [] gate.op \in {"swap", "ecr"} -> Appended(tb, <<<<gate.op, q, gate.qubits[2]>>>>)
         [] gate.op = "control" -> AppendControlGate(tb, gate)
         [] OTHER -> IF gate.phase \in {Pi, HalfPi, Negative(HalfPi)}
                     THEN Appended(tb, TurnGates(Axis[gate.op], gate.phase, q))
                     ELSE AppendPauliGate(tb, gate.op, gate.phase, gate.qubits)

ToTableau(gates) == Iterate(AppendGate, NewTableau, gates)

-----------------------------------------------------------------------------
(***************************************************************************)
(* The optimizations of a tableau (tableau/tableau_optimization.cpp and    *)
(* optimize/internal_h_opt.cpp).                                           *)
(***************************************************************************)

Operators(t, looks) == OperatorsOf(t, HaltOf(looks))

CliffordCount(tb) == Cardinality({i \in DOMAIN tb : IsClifford(tb[i])})

\* The functions that follow first make sure that a Clifford is in front.
WithFront(tb) == IF tb # <<>> /\ IsRotations(Head(tb)) THEN NewTableau \o tb ELSE tb

----------------------------------------------------------------------------
\* collapse: back to front, every Clifford moves to the one before it, through
\* the rotations in between.

MoveForward(s, sub) ==
    IF IsRotations(sub)
    THEN [s EXCEPT !.out = <<Rotations(OnRotations(sub.rotations, s.ops))>> \o @]
    ELSE LET t == Apply(sub.clifford, s.ops)
         IN [ops |-> Operators(t, s.looks), looks |-> s.looks - 2,
             out |-> <<Clifford(t)>> \o s.out]

\* Mutant: the first list is put behind itself
MergedTwice(tb) ==
    LET lists == SelectSeq(tb, IsRotations)
    IN IF lists = <<>> THEN <<Head(tb)>>
       ELSE <<Head(tb), Rotations(Head(lists).rotations \o
                                  FlattenSeq([i \in DOMAIN lists |-> lists[i].rotations]))>>

Merged(tb) ==
    LET lists == SelectSeq(tb, IsRotations)
    IN IF lists = <<>> THEN <<Head(tb)>>
       ELSE <<Head(tb), Rotations(FlattenSeq([i \in DOMAIN lists |-> lists[i].rotations]))>>

Collapse(tb, looks) ==
    LET all == WithFront(tb)
    IN IF Len(all) <= 1 THEN all
       ELSE Merged(Iterate(MoveForward, [ops |-> <<>>, looks |-> looks, out |-> <<>>],
                            Reverse(all)).out)

\* How many looks that takes
CollapseLooks(tb) ==
    IF Len(WithFront(tb)) <= 1 THEN 0 ELSE 2 * CliffordCount(WithFront(tb))

----------------------------------------------------------------------------
\* remove_identities

RemoveIdentityRotations(rs) ==
    SelectSeq(rs, LAMBDA r : r.phase # 0 /\ ~IsIdentityProduct(r.pauli))

IsIdentityClifford(sub) == IsClifford(sub) /\ sub.clifford = IdentityTableau

\* A Clifford takes in the one behind it, which is left as the identity.
TakeInNext(s, i) ==
    IF IsClifford(s.tb[i]) /\ IsClifford(s.tb[i + 1])
    THEN [looks |-> s.looks - 2,
          tb |-> [s.tb EXCEPT
                    ![i]     = Clifford(Apply(@.clifford,
                                              Operators(s.tb[i + 1].clifford, s.looks))),
                    ![i + 1] = Clifford(IdentityTableau)]]
    ELSE s

RemoveIdentities(tb, looks) ==
    LET Cleaned(sub) == IF IsClifford(sub) THEN sub
                        ELSE Rotations(RemoveIdentityRotations(sub.rotations))
        Empty(sub) == IsIdentityClifford(sub) \/ (IsRotations(sub) /\ sub.rotations = <<>>)
        kept == SelectSeq([i \in DOMAIN tb |-> Cleaned(tb[i])], LAMBDA sub : ~Empty(sub))
    IN SelectSeq(Iterate(TakeInNext, [tb |-> kept, looks |-> looks],
                          FromUpto(1, Len(kept) - 1)).tb,
                 LAMBDA sub : ~IsIdentityClifford(sub))

----------------------------------------------------------------------------
\* Mutant: without asking what is in between
ReachedAnyway(rs, i) == {j \in DOMAIN rs : j > i}

\* merge_rotations: a rotation takes in those of the same product that it
\* reaches without passing one it does not commute with.

Reached(rs, i) ==
    {j \in DOMAIN rs : j > i /\ \A k \in (i + 1) .. j : Commute(rs[i].pauli, rs[k].pauli)}

MergeInto(rs, i) ==
    LET same == {j \in Reached(rs, i) : rs[j].pauli = rs[i].pauli}
        sum  == MapThenSumSet(LAMBDA j : rs[j].phase, same)
    IN [k \in DOMAIN rs |-> IF k = i THEN [rs[k] EXCEPT !.phase = Plus(@, sum)]
                            ELSE IF k \in same THEN [rs[k] EXCEPT !.phase = 0]
                            ELSE rs[k]] \o <<>>

MergeRotations(rs) ==
    RemoveIdentityRotations(Iterate(MergeInto, rs, FromUpto(1, Len(rs))))

----------------------------------------------------------------------------
\* A Clifford operator in front of a list of rotations: a pair [c, rs].

\* extract_clifford_operators(PauliRotation): what takes the product to Z on its
\* last qubit
SupportOf(p) == InOrder(p.z \cup p.x)
LastQubit(p) == Last(SupportOf(p))
ToOneQubit(p) ==
    LET basis == [i \in DOMAIN SupportOf(p) |->
                    LET q == SupportOf(p)[i]
                    IN CASE PauliType(p, q) = "x" -> <<H(q)>>
                         [] PauliType(p, q) = "y" -> <<<<"v", q, 0>>>>
                         [] OTHER -> <<>>]
        chain == [i \in 1 .. Len(SupportOf(p)) - 1 |-> CX(SupportOf(p)[i], SupportOf(p)[i + 1])]
    IN FlattenSeq(basis) \o chain

\* ConjugationView: the operators go in front of the rotations from the i-th on.
Conjugated(pair, i, ops) ==
    [c  |-> Apply(pair.c, ops),
     rs |-> OnRotations(SubSeq(pair.rs, 1, i - 1), ops)
            \o SubSeq(pair.rs, i, Len(pair.rs))]

QuarterTurns(phase, q) ==
    CASE phase = 0 -> <<>>
      [] phase = HalfPi -> <<S(q)>>
      [] phase = Pi -> <<<<"z", q, 0>>>>
      [] phase = Negative(HalfPi) -> <<<<"sdg", q, 0>>>>

\* The part of the i-th rotation's phase that is a Clifford operator goes there.
AbsorbPart(pair, i, part) ==
    LET p   == pair.rs[i].pauli
        ops == ToOneQubit(p)
    IN IF part = 0 THEN pair
       ELSE Conjugated([pair EXCEPT !.rs[i].phase = Minus(@, part)], i,
                       ops \o QuarterTurns(part, LastQubit(p)) \o AdjointOps(ops))

\* absorb_clifford_rotations
AbsorbCliffordRotations(pair) ==
    LET Absorb(pr, i) ==
          AbsorbPart(pr, i, IF pr.rs[i].phase % HalfPi = 0 THEN pr.rs[i].phase ELSE 0)
        done == Iterate(Absorb, pair, FromUpto(1, Len(pair.rs)))
    IN [done EXCEPT !.rs = RemoveIdentityRotations(@)]

\* properize: every phase in [0, pi/2), from the last rotation to the first
Properize(pair) ==
    LET merged == [pair EXCEPT !.rs = MergeRotations(@)]
        Absorb(pr, i) == AbsorbPart(pr, i, pr.rs[i].phase - (pr.rs[i].phase % HalfPi))
        done == Iterate(Absorb, merged, Reverse(FromUpto(1, Len(merged.rs))))
    IN [done EXCEPT !.rs = RemoveIdentityRotations(@)]

\* merge_rotations(Tableau): as long as there are fewer rotations after a round
MergeRound(s, i) ==
    IF s.done THEN s
    ELSE LET next == AbsorbCliffordRotations([s.pair EXCEPT !.rs = MergeRotations(@)])
         IN [pair |-> next, done |-> Len(next.rs) >= Len(s.pair.rs)]

MergeTableau(tb, looks) ==
    LET Rounds(pair) ==
          Iterate(MergeRound, [pair |-> pair, done |-> FALSE], FromUpto(0, Len(pair.rs))).pair
        Put(pair) == <<Clifford(pair.c), Rotations(pair.rs)>>
        Whole(col) == IF Len(col) <= 1 THEN col
                      ELSE Put(Rounds([c |-> col[1].clifford, rs |-> col[2].rotations]))
    IN Whole(Collapse(tb, looks))

----------------------------------------------------------------------------
\* minimize_internal_hadamards

\* apply_clifford: in front of the last rotations if all of them commute with it
ApplyClifford(tb, ops) ==
    LET n == Len(tb)
    IN IF ops = <<>> THEN tb
       ELSE IF IsClifford(tb[n]) THEN [tb EXCEPT ![n] = Clifford(Apply(@.clifford, ops))]
       ELSE IF OnRotations(tb[n].rotations, ops) # tb[n].rotations
            THEN Append(tb, Clifford(Apply(IdentityTableau, ops)))
       ELSE [tb EXCEPT ![n - 1] = Clifford(Apply(@.clifford, ops))]

AddRotation(tb, r) ==
    IF IsClifford(Last(tb)) THEN Append(tb, Rotations(<<r>>))
    ELSE [tb EXCEPT ![Len(tb)].rotations = Append(@, r)]

\* implement_into_tableau: operators that make the stabilizer of a qubit
\* diagonal, and the rotation about what it has become
DiagonalizingOps(p) ==
    LET xs   == InOrder(p.x)
        star == [i \in 1 .. Len(xs) - 1 |-> CX(xs[1], xs[i + 1])]
        last == Iterate(OnPauli, p, star)
    IN IF xs = <<>> THEN <<>>
       ELSE star \o (IF xs[1] \in last.z THEN <<S(xs[1])>> ELSE <<>>) \o <<H(xs[1])>>

ImplementIntoTableau(s, qubit, phase) ==
    LET Into(ops, context) ==
          [s EXCEPT !.tb = AddRotation(ApplyClifford(@, ops), Rotated(context.stab[qubit], phase)),
                    !.context = context]
        By(ops) == Into(ops, Apply(s.context, ops))
    IN By(DiagonalizingOps(s.context.stab[qubit]))

\* prepend(adjoint(op)) for every operator of the list
PrependAdjoints(t, ops) == Prepend(t, [i \in DOMAIN ops |-> AdjointOp(ops[i])])

ImplementRotation(s, r) ==
    LET ops  == ToOneQubit(r.pauli)
        open == [s EXCEPT !.context = PrependAdjoints(@, ops)]
        done == ImplementIntoTableau(open, LastQubit(r.pauli), r.phase)
    IN [done EXCEPT !.context = PrependAdjoints(@, AdjointOps(ops))]

\* minimize_hadamards of a tableau that is not empty, in the context of what went
\* before: [tb, initial, context]
MinimizeHadamards(initial, tb, looks) ==
    LET rotations(col) == IF Len(col) = 1 THEN <<>> ELSE col[2].rotations
        Started(col) ==
          [tb |-> NewTableau, initial |-> initial,
           context |-> PrependAdjoints(initial,
                         Operators(col[1].clifford, looks - CollapseLooks(tb)))]
        Of(col) == Iterate(ImplementRotation, Started(col), rotations(col))
    IN Of(Collapse(tb, looks))

\* minimize_internal_hadamards of a tableau that has been collapsed: its adjoint is
\* done first and leaves the context the tableau is done in.
AdjointForHadamards(col, looks) ==
    [tb      |-> AdjointOf(col, looks - 2),
     context |-> PrependAdjoints(IdentityTableau, Operators(col[1].clifford, looks))]

WithHadamardsMinimized(s, looks) ==
    RemoveIdentities(<<Clifford(s.initial)>> \o s.tb
                       \o <<Clifford(AdjointTableau(s.context, HaltOf(looks)))>>,
                     looks - 2)

----------------------------------------------------------------------------
\* matroid_partition

AllDiagonal(rs) == \A i \in DOMAIN rs : IsDiagonal(rs[i].pauli)

\* Rank of the z parts: the span of independent rows doubles with each of them.
SpanOf(sets) ==
    Iterate(LAMBDA span, row : span \cup {SymmetricDifference(row, v) : v \in span}, {{}}, sets)
RankOf(rs) ==
    LET size == Cardinality(SpanOf([i \in DOMAIN rs |-> rs[i].pauli.z]))
    IN CHOOSE k \in 0 .. Qubits : 2^k = size

IsIndependent(rs, ancillae) == Qubits + Len(rs) <= Qubits + ancillae + RankOf(rs)

Partition(rs, ancillae) ==
    LET Place(parts, r) ==
          LET more == Append(Last(parts), r)
          IN IF IsIndependent(more, ancillae) THEN [parts EXCEPT ![Len(parts)] = more]
             ELSE Append(parts, <<r>>)
    IN Iterate(Place, <<<<>>>>, rs)

\* What is not a phase polynomial cannot be partitioned.
CanPartition(tb) == \A i \in DOMAIN tb : IsRotations(tb[i]) => AllDiagonal(tb[i].rotations)

MatroidPartition(tb, ancillae) ==
    LET Parts(rs) == LET parts == Partition(rs, ancillae)
                     IN [i \in DOMAIN parts |-> Rotations(parts[i])]
    IN NewTableau \o FlattenSeq([i \in DOMAIN tb |->
                        IF IsClifford(tb[i]) THEN <<tb[i]>> ELSE Parts(tb[i].rotations)])

-----------------------------------------------------------------------------
(***************************************************************************)
(* Third-order duplicate-and-destroy (tableau/optimize/todd.cpp): fewer    *)
(* rotations by pi/4 for the same phase polynomial, up to Clifford gates.  *)
(*                                                                         *)
(* The terms are the columns of a matrix over the bits, one row for every  *)
(* qubit; a row, or a vector of as many bits, is the set of the columns    *)
(* where it is one.                                                        *)
(***************************************************************************)

Columns(rs) == [i \in DOMAIN rs |-> rs[i].pauli.z]
RowOf(cols, q) == {j \in DOMAIN cols : q \in cols[j]}

\* get_chi_matrix: the rows z_a (R_b R_c) + z_b (R_a R_c) + z_c (R_a R_b), every
\* row once and no row of zeros
ChiRow(cols, z, abc) ==
    LET Part(q) == IF q \notin z THEN {}
                   ELSE LET others == abc \ {q}
                        IN {j \in DOMAIN cols : others \subseteq cols[j]}
    IN FoldSet(LAMBDA q, row : SymmetricDifference(row, Part(q)), {}, abc)

ChiMatrix(cols, z) ==
    LET Seen(rows, abc) ==
          LET row == ChiRow(cols, z, abc)
          IN IF row = {} \/ row \in ToSet(rows) THEN rows ELSE Append(rows, row)
    IN Iterate(Seen, <<>>, Combinations(QubitList, 3))

\* get_nullspace_transposed: row elimination of the transpose, next to the
\* identity.  A row is the set `one` of its ones and the set `sum` of the columns
\* it is the sum of; the rows below the last pivot span the null space.
Eliminate(s, k) ==
    LET n     == Len(s.rows)
        AddTo(rows, i, j) == [rows EXCEPT ![i] =
                                [one |-> SymmetricDifference(@.one, rows[j].one),
                                 sum |-> SymmetricDifference(@.sum, rows[j].sum)]]
        below(rows) == {i \in (s.pivot + 1) .. n : k \in rows[i].one}
        ready == IF k \in s.rows[s.pivot].one \/ below(s.rows) = {} THEN s.rows
                 ELSE AddTo(s.rows, s.pivot, Min(below(s.rows)))
        clean == FoldSet(LAMBDA i, rows : AddTo(rows, i, s.pivot), ready, below(ready))
    IN IF s.pivot > n THEN s
       ELSE IF k \notin ready[s.pivot].one THEN [s EXCEPT !.rows = ready]
       ELSE [rows |-> clean, pivot |-> s.pivot + 1]

NullSpace(rows, numCols) ==
    LET start == [rows |-> [i \in 1 .. numCols |->
                             [one |-> {k \in DOMAIN rows : i \in rows[k]}, sum |-> {i}]] \o <<>>,
                  pivot |-> 1]
        Below(s) == [i \in 1 .. numCols - s.pivot + 1 |-> s.rows[s.pivot + i - 1].sum]
    IN Below(Iterate(Eliminate, start, FromUpto(1, Len(rows))))

\* from_boolean_matrix: the columns that occur an odd number of times, where
\* they occur first
FromColumns(cols) ==
    LET times(c) == Cardinality({i \in DOMAIN cols : cols[i] = c})
        First(i) == \A j \in 1 .. i - 1 : cols[j] # cols[i]
        kept == SelectSeq(FromUpto(1, Len(cols)),
                          LAMBDA i : cols[i] # {} /\ First(i) /\ times(cols[i]) % 2 = 1)
    IN [i \in DOMAIN kept |-> ZRotation(cols[kept[i]], 1)]

\* A move adds z to the columns in y, and to a new one if they are odd in number.
Moved(cols, z, y) ==
    LET Turn1(i) == IF i \in y THEN SymmetricDifference(cols[i], z) ELSE cols[i]
        same == [i \in DOMAIN cols |-> Turn1(i)]
    IN FromColumns(IF Cardinality(y) % 2 = 1 THEN Append(same, z) ELSE same)

\* The y's a pair of columns can use: those that take one of the two
MovesOf(cols, ab) ==
    LET z    == SymmetricDifference(cols[Min(ab)], cols[Max(ab)])
        rows == [q \in 1 .. Qubits |-> RowOf(cols, q - 1)] \o ChiMatrix(cols, z)
        uses == SelectSeq(NullSpace(rows, Len(cols)), LAMBDA y : Cardinality(y \cap ab) = 1)
    IN [i \in DOMAIN uses |-> [z |-> z, y |-> uses[i]]]

\* todd_once: the first move of the first pair that has one.  Pairs with the same
\* sum are looked at once.
ToddOnce(rs) ==
    LET cols == Columns(rs)
        Try(s, ab) ==
          LET z == SymmetricDifference(cols[Min(ab)], cols[Max(ab)])
          IN IF s.move # <<>> \/ z \in s.seen THEN s
             ELSE [seen |-> s.seen \cup {z}, move |-> MovesOf(cols, ab)]
        By(moves) == IF moves = <<>> THEN rs ELSE Moved(cols, moves[1].z, moves[1].y)
    IN By(Iterate(Try, [seen |-> {}, move |-> <<>>], Combinations(FromUpto(1, Len(rs)), 2)).move)

\* ... until no term goes, or a stop is requested
ToddRound(s, i) ==
    IF s.done \/ i > s.looks THEN [s EXCEPT !.done = TRUE]
    ELSE LET next == ToddOnce(s.rs)
         IN [s EXCEPT !.rs = next, !.done = Len(next) \in {0, Len(s.rs)}]

ToddRounds(rs, looks) ==
    Iterate(ToddRound, [rs |-> rs, done |-> FALSE, looks |-> looks],
             FromUpto(1, Len(rs))).rs

\* MultiLinearPolynomial: how often a set of one, two or three qubits is in a
\* term, modulo what a Clifford gate cannot tell
Counted(rs, s) == Cardinality({i \in DOMAIN rs : s \subseteq rs[i].pauli.z})
Signature(before, after, s) ==
    (Counted(before, s) - Counted(after, s)) % (CASE Cardinality(s) = 1 -> 8
                                                  [] Cardinality(s) = 2 -> 4
                                                  [] Cardinality(s) = 3 -> 2)

SmallSets == {s \in SUBSET QubitSet : Cardinality(s) \in 1 .. 3}

IsCliffordDifference(before, after) ==
    \A s \in SmallSets : Signature(before, after, s) % 2 = 0

DifferenceOps(before, after) ==
    LET Gate(s) ==
          LET sig == Signature(before, after, s)
          IN IF sig = 0 THEN <<>>
             ELSE IF Cardinality(s) = 2 THEN <<<<"cz", Min(s), Max(s)>>>>
             ELSE QuarterTurns(sig, Min(s))
        sets == CombinationsOfSizes(QubitList, <<1, 2>>)
    IN FlattenSeq([i \in DOMAIN sets |-> Gate(sets[i])])

\* ToddPhasePolynomialOptimizationStrategy::optimize
ToddReduced(pair, looks) ==
    LET After(proper, rs) ==
          IF IsCliffordDifference(proper.rs, rs)
          THEN [c |-> Apply(proper.c, DifferenceOps(proper.rs, rs)), rs |-> rs]
          ELSE pair
        From(proper) == After(proper, ToddRounds(proper.rs, looks))
    IN IF pair.rs = <<>> THEN pair ELSE From(Properize(pair))

\* optimize_phase_polynomial: every list of diagonal rotations, with the Clifford
\* in front of it
OptimizeList(s, i) ==
    IF IsClifford(s.tb[i]) THEN [s EXCEPT !.last = i]
    ELSE IF ~AllDiagonal(s.tb[i].rotations) THEN s
    ELSE LET Put(pair) == [s.tb EXCEPT ![s.last] = Clifford(pair.c), ![i] = Rotations(pair.rs)]
         IN [s EXCEPT !.tb = Put(ToddReduced([c |-> s.tb[s.last].clifford,
                                              rs |-> s.tb[i].rotations], s.looks))]

OptimizePhasePolynomial(tb, looks) ==
    LET all == WithFront(tb)
    IN IF tb = <<>> THEN tb
       ELSE RemoveIdentities(
              Iterate(OptimizeList, [tb |-> all, last |-> 1, looks |-> looks],
                       FromUpto(1, Len(all))).tb,
              looks)
=============================================================================
