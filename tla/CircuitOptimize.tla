-------------------------- MODULE CircuitOptimize --------------------------
(***************************************************************************)
(* `qcir optimize` and `qcir translate` (cmd/qcir/optimizer_cmd.cpp,       *)
(* cmd/qcir_cmd.cpp): one step for each pass of basic_optimization, and    *)
(* one for every other strategy.  Ctrl-C may come between two passes.      *)
(*                                                                         *)
(* A pass is given the circuit as a constant and writes to its gates all   *)
(* the same: the first pass leaves its marks on the circuit that the       *)
(* command was called for.                                                 *)
(***************************************************************************)
EXTENDS TableauToQCir

(***************************************************************************)
(* The passes of basic_optimization over a circuit                         *)
(* (qcir/optimizer/basic_optimization.cpp, gate_optimization.cpp).         *)
(*                                                                         *)
(* A pass reads the gates in order.  Hadamard, X and Z gates wait in `hs`, *)
(* `xs` and `zs`; what is to be put out is in `storage`, and gates[q] has  *)
(* the ids of those on qubit q.  available[q] are the ones that the next   *)
(* gate on q can still reach: gates diagonal in z, or in x where           *)
(* qubit_available[q].  perm says which qubit of the circuit is where.     *)
(***************************************************************************)

IsCx(g) == g.op = "control" /\ g.of = "px" /\ g.phase = Pi /\ Len(g.qubits) = 2
IsCz(g) == g.op = "control" /\ g.of = "pz" /\ g.phase = Pi /\ Len(g.qubits) = 2
IsTwoQubit(g) == IsCx(g) \/ IsCz(g)

OneQubit(op, phase, q) == [op |-> op, phase |-> phase, qubits |-> <<q>>]
HadamardGate(q) == OneQubit("h", Pi, q)
XGate(q)        == OneQubit("px", Pi, q)
ZTurn(phase, q) == OneQubit("pz", phase, q)
TwoQubit(of, q, r) == [op |-> "control", phase |-> Pi, qubits |-> <<q, r>>, of |-> of]
Cx(c, t) == TwoQubit("px", c, t)
Cz(q, r) == TwoQubit("pz", q, r)

IsSingleZRotation(g) == g.op \in {"pz", "rz"}
IsSingleXRotation(g) == g.op \in {"px", "rx"}

\* remove_last_occurrence_if
RemoveLast(seq, Test(_)) ==
    LET hits == {i \in DOMAIN seq : Test(seq[i])}
    IN IF hits = {} THEN seq ELSE RemoveAt(seq, Max(hits))

\* Optimizer::reset
StartPass ==
    [storage |-> <<>>, hs |-> {}, xs |-> {}, zs |-> {},
     gates |-> [q \in Register |-> <<>>], available |-> [q \in Register |-> <<>>],
     qubit_available |-> [q \in Register |-> FALSE], perm |-> [q \in Register |-> q]]

----------------------------------------------------------------------------
\* Putting gates out

NextStored(s) == Len(s.storage) + 1
Store(s, g) == [s EXCEPT !.storage = Append(@, g)]

Reaches(s, q, g) == \E i \in DOMAIN s.available[q] : s.storage[s.available[q][i]] = g

\* What was available in the other basis no longer is.
Close(s, q, basis) ==
    IF s.qubit_available[q] = basis THEN s
    ELSE [s EXCEPT !.available[q] = <<>>, !.qubit_available[q] = basis]

AddHadamard(s, q, erase) ==
    [Store(s, HadamardGate(q)) EXCEPT
       !.gates[q] = Append(@, NextStored(s)),
       !.hs = IF erase THEN @ \ {q} ELSE @,
       !.available[q] = <<>>,
       !.qubit_available[q] = FALSE]

AddSingleZRotation(s, q, phase) ==
    [Store(s, ZTurn(phase, q)) EXCEPT
       !.gates[q] = Append(@, NextStored(s)),
       !.available[q] = Append(@, NextStored(s))]

AddTwoQubit(s, g) ==
    LET q == g.qubits[1]
        r == g.qubits[2]
    IN [Store(s, g) EXCEPT !.gates[q] = Append(@, NextStored(s)),
                           !.gates[r] = Append(@, NextStored(s)),
                           !.available[q] = Append(@, NextStored(s)),
                           !.available[r] = Append(@, NextStored(s))]

\* The last gate that passes the test goes from both lines of both qubits.
Drop(s, q, r, Test(_)) ==
    [s EXCEPT !.gates[q] = RemoveLast(@, Test), !.gates[r] = RemoveLast(@, Test),
              !.available[q] = RemoveLast(@, Test), !.available[r] = RemoveLast(@, Test)]

\* _swap_element
SwapElement(set, q, r) == IF (q \in set) = (r \in set) THEN set ELSE Toggle(Toggle(set, q), r)

\* CX(t,c) CX(c,t) is CX(c,t) and a swap, which is left to the permutation.
CanSwap(s, c, t) ==
    /\ s.qubit_available[c] /\ ~s.qubit_available[t]
    /\ Reaches(s, c, Cx(t, c)) /\ Reaches(s, t, Cx(t, c))

\* Mutant: the CX that is given up stays on one of its lines
DoSwapHalf(s, c, t) ==
    LET new  == NextStored(s)
        Test(id) == s.storage[id] = Cx(t, c)
    IN [Store(s, Cx(c, t)) EXCEPT
          !.gates[c] = Append(RemoveLast(@, Test), new),
          !.gates[t] = Append(@, new),
          !.available[c] = <<new>>, !.available[t] = <<new>>,
          !.qubit_available[c] = FALSE, !.qubit_available[t] = TRUE,
          !.perm = [@ EXCEPT ![c] = s.perm[t], ![t] = s.perm[c]],
          !.hs = SwapElement(@, c, t),
          !.xs = SwapElement(@, c, t),
          !.zs = SwapElement(@, c, t)]

DoSwap(s, c, t) ==
    LET new  == NextStored(s)
        Test(id) == s.storage[id] = Cx(t, c)
    IN [Store(s, Cx(c, t)) EXCEPT
          !.gates[c] = Append(RemoveLast(@, Test), new),
          !.gates[t] = Append(RemoveLast(@, Test), new),
          !.available[c] = <<new>>, !.available[t] = <<new>>,
          !.qubit_available[c] = FALSE, !.qubit_available[t] = TRUE,
          !.perm = [@ EXCEPT ![c] = s.perm[t], ![t] = s.perm[c]],
          !.hs = SwapElement(@, c, t),
          !.xs = SwapElement(@, c, t),
          !.zs = SwapElement(@, c, t)]

\* Mutant: the qubits are permuted with --physical as well
AddCxAlwaysSwaps(s, c, t, do_swap) ==
    LET open == Close(Close(s, c, FALSE), t, TRUE)
        Test(id) == open.storage[id] = Cx(c, t)
    IN IF CanSwap(s, c, t) THEN DoSwap(s, c, t)
       ELSE IF Reaches(open, c, Cx(c, t)) /\ Reaches(open, t, Cx(c, t))
            THEN Drop(open, c, t, Test)
       ELSE AddTwoQubit(open, Cx(c, t))

AddCx(s, c, t, do_swap) ==
    LET open == Close(Close(s, c, FALSE), t, TRUE)
        Test(id) == open.storage[id] = Cx(c, t)
    IN IF do_swap /\ CanSwap(s, c, t) THEN DoSwap(s, c, t)
       ELSE IF Reaches(open, c, Cx(c, t)) /\ Reaches(open, t, Cx(c, t))
            THEN Drop(open, c, t, Test)
       ELSE AddTwoQubit(open, Cx(c, t))

\* A CX that a CZ can be commuted next to: it is available on both qubits, or on
\* the target right behind what is.
IsBehind(s, c, t) ==
    LET behind == SubSeq(s.gates[t], 1, Len(s.gates[t]) - Len(s.available[t]))
        At(i)  == s.storage[behind[i]]
    IN \E i \in DOMAIN behind :
          /\ At(i) = Cx(c, t)
          /\ \A j \in i .. Len(behind) : IsCx(At(j)) /\ At(j).qubits[2] = t

CanReplace(s, c, t) ==
    /\ Reaches(s, c, Cx(c, t))
    /\ IF s.qubit_available[t] THEN Reaches(s, t, Cx(c, t)) ELSE IsBehind(s, c, t)

\* CX CZ = (Sdg on the target) CX (S on both)
Replaced(s, c, t) ==
    LET cnot == NextStored(s)
        sdg  == cnot + 1
        st   == cnot + 2
        sc   == cnot + 3
        Test(id) == s.storage[id] = Cx(c, t)
        open == IF s.qubit_available[t] THEN <<>> ELSE s.available[t]
        line == RemoveLast(s.gates[t], Test)
        cut  == Len(line) - Len(open)
    IN [s EXCEPT
          !.storage = @ \o <<Cx(c, t), ZTurn(Negative(HalfPi), t), ZTurn(HalfPi, t), ZTurn(HalfPi, c)>>,
          !.available[c] = RemoveLast(@, Test) \o <<cnot, sc>>,
          !.gates[c] = RemoveLast(@, Test) \o <<cnot, sc>>,
          !.available[t] = Append(open, st),
          !.gates[t] = SubSeq(line, 1, cut) \o <<sdg, cnot>>
                       \o SubSeq(line, cut + 1, Len(line)) \o <<st>>]

\* _add_cz
CancelCz(s, q, r) ==
    LET hits == SelectSeq(s.available[q], LAMBDA id : /\ IsCz(s.storage[id])
                                                      /\ {q, r} \subseteq ToSet(s.storage[id].qubits)
                                                      /\ id \in ToSet(s.available[r]))
        Test(id) == id = Head(hits)
    IN IF hits = <<>> THEN AddTwoQubit(s, Cz(Min({q, r}), Max({q, r}))) ELSE Drop(s, q, r, Test)

AddCz(s, q, r, minimize) ==
    IF minimize /\ CanReplace(s, q, r) THEN Replaced(s, q, r)
    ELSE IF minimize /\ CanReplace(s, r, q) THEN Replaced(s, r, q)
    ELSE CancelCz(Close(Close(s, q, FALSE), r, FALSE), q, r)

----------------------------------------------------------------------------
\* Reading gates

\* H S H becomes Sdg H Sdg.
CanExchange(s, q) ==
    LET line == s.gates[q]
    IN /\ Len(line) > 1
       /\ s.storage[line[Len(line) - 1]] = HadamardGate(q)
       /\ s.storage[Last(line)] \in {ZTurn(HalfPi, q), ZTurn(Negative(HalfPi), q)}

Exchange(s, q) ==
    LET line == s.gates[q]
        turn == ZTurn(Negative(s.storage[Last(line)].phase), q)
    IN [s EXCEPT !.storage = Append([@ EXCEPT ![Last(line)] = turn], turn),
                 !.gates[q] = InsertAt(@, Len(line) - 1, NextStored(s))]

MatchHadamards(s, q) ==
    LET turned == IF (q \in s.xs) = (q \in s.zs) THEN s
                  ELSE [s EXCEPT !.xs = Toggle(@, q), !.zs = Toggle(@, q)]
    IN IF CanExchange(turned, q) THEN Exchange(turned, q)
       ELSE [turned EXCEPT !.hs = Toggle(@, q)]

\* The phase a rotation has behind the Z and X gates that wait; the gate that is
\* read is given it.
TurnedPhase(s, g) ==
    LET q == g.qubits[1]
        p == IF q \in s.zs THEN (g.phase + Pi) % Turn ELSE g.phase
    IN IF q \in s.xs THEN Negative(p) ELSE p

MergeRotation(s, q, id, phase) ==
    LET out == [s EXCEPT !.available[q] = SelectSeq(@, LAMBDA j : j # id),
                         !.gates[q] = SelectSeq(@, LAMBDA j : j # id)]
        sum == (s.storage[id].phase + phase) % Turn
    IN CASE sum = Pi -> [out EXCEPT !.zs = Toggle(@, q)]
         [] sum = 0  -> out
         [] OTHER    -> AddSingleZRotation(out, q, sum)

MatchZRotations(s, g) ==
    LET q     == g.qubits[1]
        phase == TurnedPhase(s, g)
        base  == [s EXCEPT !.zs = @ \ {q}]
        open  == IF q \in s.hs THEN AddHadamard(base, q, TRUE) ELSE base
        rots  == SelectSeq(open.available[q], LAMBDA id : IsSingleZRotation(open.storage[id]))
    IN IF phase = Pi THEN [base EXCEPT !.zs = @ \cup {q}]
       ELSE IF ~open.qubit_available[q] /\ rots # <<>>
            THEN MergeRotation(open, q, Head(rots), phase)
       ELSE AddSingleZRotation(Close(open, q, FALSE), q, phase)

ToggleIf(set, condition, q) == IF condition THEN Toggle(set, q) ELSE set

MatchCzs(s, c, t, do_swap, minimize) ==
    LET pushed == [s EXCEPT !.zs = ToggleIf(ToggleIf(@, c \in s.xs, t), t \in s.xs, c)]
        both   == AddHadamard(AddHadamard(pushed, c, TRUE), t, TRUE)
    IN IF {c, t} \subseteq s.hs THEN AddCz(both, c, t, minimize)
       ELSE IF c \in s.hs THEN AddCx(pushed, t, c, do_swap)
       ELSE IF t \in s.hs THEN AddCx(pushed, c, t, do_swap)
       ELSE AddCz(pushed, c, t, minimize)

MatchCxs(s, c, t, do_swap, minimize) ==
    LET pushed == [s EXCEPT !.xs = ToggleIf(@, c \in s.xs, t), !.zs = ToggleIf(@, t \in s.zs, c)]
    IN IF {c, t} \subseteq s.hs THEN AddCx(pushed, t, c, do_swap)
       ELSE IF t \in s.hs THEN AddCz(pushed, Min({c, t}), Max({c, t}), minimize)
       ELSE IF c \in s.hs THEN AddCx(AddHadamard(pushed, c, TRUE), c, t, do_swap)
       ELSE AddCx(pushed, c, t, do_swap)

\* _permute_gates: the gate goes to where its qubits are now.
Permuted(s, g) ==
    [g EXCEPT !.qubits = [i \in DOMAIN @ |-> CHOOSE a \in Register : s.perm[a] = @[i]] \o <<>>]

\* parse_gate: a gate of another kind leaves no trace.
IsParsed(g) ==
    g \in {HadamardGate(g.qubits[1]), XGate(g.qubits[1])} \/ IsSingleZRotation(g) \/ IsTwoQubit(g)

Parsed(s, g, do_swap, minimize) ==
    LET q == g.qubits[1]
    IN CASE g = HadamardGate(q) -> MatchHadamards(s, q)
         [] g = XGate(q) -> [s EXCEPT !.xs = Toggle(@, q)]
         [] IsSingleZRotation(g) -> MatchZRotations(s, g)
         [] IsCz(g) -> MatchCzs(s, q, g.qubits[2], do_swap, minimize)
         [] IsCx(g) -> MatchCxs(s, q, g.qubits[2], do_swap, minimize)
         [] OTHER -> s

\* What parse_gate makes of the gate itself, which is the circuit's own
Rewritten(s, g) ==
    CASE IsSingleZRotation(g) -> [g EXCEPT !.phase = TurnedPhase(s, g)]
      [] IsCz(g) -> Cz(Min(ToSet(g.qubits)), Max(ToSet(g.qubits)))
      [] OTHER -> g

----------------------------------------------------------------------------
\* _build_from_storage: the lines are taken qubit by qubit.  A two-qubit gate
\* that heads a line waits in `seen` until it is met on its other line as well;
\* what commutes with it may go first.  out has the gates in the order they leave.

OtherQubit(g, q) == IF g.qubits[1] = q THEN g.qubits[2] ELSE g.qubits[1]

Emit(b, g) == [b EXCEPT !.out = Append(@, g)]

\* The other half of a gate that was waiting
EmitMet(b, q, id) ==
    LET g == b.storage[id]
        Test(j) == j = id
    IN [Emit(b, g) EXCEPT !.seen = @ \ {id}, !.gates[OtherQubit(g, q)] = RemoveLast(@, Test)]

\* On the line of qubit q, may the gate pass a two-qubit gate that acts on q in z
\* or, where `inX`, in x?
PassesFreely(g, inX) == IF inX THEN IsSingleXRotation(g) ELSE IsSingleZRotation(g)
PassesMet(g, q, inX) ==
    IF inX THEN IsCx(g) /\ g.qubits[2] = q ELSE IsCz(g) \/ (IsCx(g) /\ g.qubits[1] = q)

\* The gates behind the head of the line, up to the first that does not pass
LookBehind(b, q, inX) ==
    LET line == b.gates[q]
        Look(c, i) ==
          LET id == line[i]
              g  == b.storage[id]
          IN IF c.stopped THEN c
             ELSE IF PassesFreely(g, inX) THEN [Emit(c, g) EXCEPT !.gone = @ \cup {i}]
             ELSE IF ~PassesMet(g, q, inX) THEN [c EXCEPT !.stopped = TRUE]
             ELSE IF id \in c.seen THEN [EmitMet(c, q, id) EXCEPT !.gone = @ \cup {i}]
             ELSE [c EXCEPT !.seen = @ \cup {id}]
        done == Iterate(Look, [gone |-> {}, stopped |-> FALSE] @@ b, FromUpto(2, Len(line)))
        kept == SelectSeq(FromUpto(1, Len(line)), LAMBDA i : i \notin done.gone)
    IN [done EXCEPT !.gates[q] = [i \in DOMAIN kept |-> line[kept[i]]] \o <<>>, !.waits = TRUE]

TakeHead(b, q) ==
    LET id == Head(b.gates[q])
        g  == b.storage[id]
        Left(c) == [c EXCEPT !.gates[q] = Tail(@)]
    IN IF ~IsTwoQubit(g) THEN Left(Emit(b, g))
       ELSE IF id \in b.seen THEN Left(EmitMet(b, q, id))
       ELSE LookBehind([b EXCEPT !.seen = @ \cup {id}], q, IsCx(g) /\ g.qubits[1] # q)

TakeLine(b, q) ==
    LET Turns(c, i) == IF c.waits \/ c.gates[q] = <<>> THEN c ELSE TakeHead(c, q)
    IN Iterate(Turns, [b EXCEPT !.waits = FALSE], b.gates[q])

IsBuilt(b) == \A q \in Register : b.gates[q] = <<>>

\* A round that takes nothing is followed by the same round for ever.
BuildRound(b) ==
    [Iterate(TakeLine, [b EXCEPT !.seen = {}], FromUpto(0, Logical - 1)) EXCEPT !.waits = FALSE]

Build(s) ==
    LET start == [storage |-> s.storage, gates |-> s.gates, out |-> <<>>, seen |-> {}, waits |-> FALSE]
        Round(b, i) == IF IsBuilt(b) THEN b ELSE BuildRound(b)
    IN Iterate(Round, start, s.storage)

----------------------------------------------------------------------------
\* _parse_once

\* _get_swap_path
SwapPath(perm) ==
    LET Swap(s, i) ==
          LET from == CHOOSE a \in Register : s.perm[a] = i
          IN IF s.perm[i] = i THEN s
             ELSE [path |-> Append(s.path, <<i, from>>),
                   perm |-> [s.perm EXCEPT ![from] = s.perm[i], ![i] = i]]
    IN Iterate(Swap, [path |-> <<>>, perm |-> perm], FromUpto(0, Logical - 1)).path

\* What still waits goes to the end of the lines.
Flushed(s) ==
    LET hadamards == Iterate(LAMBDA t, q : AddHadamard(t, q, FALSE), s, InOrder(s.hs))
    IN Iterate(LAMBDA t, q : AddSingleZRotation(t, q, Pi), hadamards, InOrder(s.zs))

PassOutput(s, b) ==
    LET xs   == InOrder(s.xs)
        path == SwapPath(s.perm)
        ThreeCx(p) == <<Cx(p[1], p[2]), Cx(p[2], p[1]), Cx(p[1], p[2])>>
    IN b.out \o [i \in DOMAIN xs |-> XGate(xs[i])] \o FlattenSeq([i \in DOMAIN path |-> ThreeCx(path[i])])

\* A circuit is the list of its gates in the order of get_gates.  The pass also
\* leaves its mark on the circuit that it reads, in `own`.
ParseOnce(gates, reversed, minimize, do_swap) ==
    LET InOrderRead(list) == IF reversed THEN Reverse(list) ELSE list
        Read(r, g) ==
          LET here == Permuted(r.s, g)
          IN [s |-> Parsed(r.s, here, do_swap, minimize), own |-> Append(r.own, Rewritten(r.s, here))]
        With(r, b) == [gates |-> InOrderRead(PassOutput(r.s, b)),
                       own   |-> InOrderRead(r.own),
                       built |-> IsBuilt(b)]
        Of(r) == LET s == Flushed(r.s) IN With([r EXCEPT !.s = s], Build(s))
    IN Of(Iterate(Read, [s |-> StartPass, own |-> <<>>], InOrderRead(gates)))

\* _compute_stats
StatsOf(gates) ==
    LET Count(Test(_)) == Cardinality({i \in DOMAIN gates : Test(gates[i])})
        IsPauli(g) == g.op \in {"px", "py", "pz"} /\ g.phase = Pi
    IN [two_qubit  |-> Count(IsTwoQubit),
        hadamard   |-> Count(LAMBDA g : g.op = "h"),
        non_pauli  |-> Count(LAMBDA g : ~IsTwoQubit(g) /\ g.op # "h" /\ ~IsPauli(g))]

\* Mutant: as long as nothing is lost
ImprovedOrEqual(before, after) == \E k \in DOMAIN before : before[k] >= after[k]

Improved(before, after) == \E k \in DOMAIN before : before[k] > after[k]

-----------------------------------------------------------------------------
(***************************************************************************)
(* The optimizations that rewrite a circuit in one go: trivial_optimization*)
(* (qcir/optimizer/trivial_optimization.cpp), phase_teleport               *)
(* (qcir/optimizer/phase_teleport.cpp), and translate to another gate set  *)
(* (qcir/qcir_translate.cpp).                                              *)
(*                                                                         *)
(* A circuit is the list of its gates in the order of get_gates.           *)
(***************************************************************************)

\* get_last_gate, as a place in the list
LastGateOn(gates, q) == Max({0} \cup {i \in DOMAIN gates : q \in ToSet(gates[i].qubits)})

----------------------------------------------------------------------------
\* trivial_optimization: a gate is held against the last one on its last qubit.

SameQubits(g, h) ==
    \/ g.qubits = h.qubits
    \/ (IsCz(g) \/ g.op = "swap") /\ g.qubits = Reverse(h.qubits)

IsCy(g) == g.op = "control" /\ g.of = "py" /\ g.phase = Pi /\ Len(g.qubits) = 2

\* Gates that are their own inverse
SameKind(g, h) ==
    \/ IsCx(g) /\ IsCx(h)
    \/ IsCy(g) /\ IsCy(h)
    \/ IsCz(g) /\ IsCz(h)
    \/ g.op = h.op /\ g.op \in {"h", "ecr", "swap"}

BothRotate(g, h) ==
    \/ IsSingleZRotation(g) /\ IsSingleZRotation(h)
    \/ IsSingleXRotation(g) /\ IsSingleXRotation(h)

\* _fuse_z_phase, _fuse_x_phase
FusePhases(out, at, g) ==
    LET phase == (out[at].phase + g.phase) % Turn
        fused == OneQubit(IF IsSingleZRotation(g) THEN "pz" ELSE "px", phase, g.qubits[1])
    IN IF phase = 0 THEN RemoveAt(out, at) ELSE [out EXCEPT ![at] = fused]

TrivialGate(out, g) ==
    LET at == LastGateOn(out, Last(g.qubits))
    IN IF at # 0 /\ BothRotate(out[at], g) THEN FusePhases(out, at, g)
       ELSE IF at # 0 /\ SameKind(out[at], g) /\ SameQubits(out[at], g) THEN RemoveAt(out, at)
       ELSE Append(out, g)

\* The gate before is the last one on its other qubits as well: only then is the
\* pair the identity.
IsNextTo(out, g) ==
    LET at == LastGateOn(out, Last(g.qubits))
    IN at = 0 \/ ~SameKind(out[at], g) \/ \A q \in ToSet(out[at].qubits) : LastGateOn(out, q) = at

----------------------------------------------------------------------------
\* phase_teleport: the circuit becomes a list of rotations, and ids[i] is the
\* place of the gate that the i-th one comes from.

IsCliffordGate(g) ==
    \/ g.op \in {"id", "h", "swap", "ecr"}
    \/ g.op \in DOMAIN Axis /\ g.phase % HalfPi = 0
    \/ IsCx(g) \/ IsCy(g) \/ IsCz(g)
IsSingleQubitRotation(g) == g.op \in DOMAIN Axis
HasRotation(g) == IsSingleQubitRotation(g) /\ g.phase % HalfPi # 0

CanTeleport(gates) ==
    \A i \in DOMAIN gates : IsCliffordGate(gates[i]) \/ IsSingleQubitRotation(gates[i])

\* to_tableau_with_gate_ids
TeleportStart(gates) ==
    [gates |-> gates,
     rs    |-> Last(ToTableau(gates)).rotations,
     ids   |-> SelectSeq(FromUpto(1, Len(gates)), LAMBDA i : HasRotation(gates[i]))]

\* get_negated_phases
IsNegated(t, i) == t.gates[t.ids[i]].phase # t.rs[i].phase

\* Merging the j-th rotation into the i-th, and their gates' phases with them
MergePhases(t, negated, i, j) ==
    LET a == t.gates[t.ids[i]].phase
        b == t.gates[t.ids[j]].phase
    IN [t EXCEPT !.rs[i].phase = (@ + t.rs[j].phase) % Turn,
                 !.rs[j].phase = 0,
                 !.gates[t.ids[i]].phase = IF negated[i] = negated[j] THEN (a + b) % Turn ELSE Minus(a, b),
                 !.gates[t.ids[j]].phase = 0]

MergePhasesInto(t, negated, i) ==
    LET Try(c, j) ==
          IF c.done \/ ~Commute(c.t.rs[i].pauli, c.t.rs[j].pauli) THEN [c EXCEPT !.done = TRUE]
          ELSE IF c.t.rs[i].pauli # c.t.rs[j].pauli THEN c
          ELSE [c EXCEPT !.t = MergePhases(@, negated, i, j)]
    IN IF t.rs[i].phase = 0 THEN t
       ELSE Iterate(Try, [t |-> t, done |-> FALSE], FromUpto(i + 1, Len(t.rs))).t

\* remove_identities_teleport
RemoveTeleported(t) ==
    LET kept == SelectSeq(FromUpto(1, Len(t.rs)), LAMBDA i : t.rs[i].phase # 0)
        ids  == [i \in DOMAIN kept |-> t.ids[kept[i]]] \o <<>>
        rs   == [i \in DOMAIN kept |-> t.rs[kept[i]]] \o <<>>
    IN [t EXCEPT !.ids = ids, !.rs = SelectSeq(rs, LAMBDA r : ~IsIdentityProduct(r.pauli))]

\* merge_rotations_teleport: the gates that are left without a phase go, here by
\* the mark `gone`.
MergeTeleport(t) ==
    LET negated == [i \in DOMAIN t.rs |-> IsNegated(t, i)]
        merged  == Iterate(LAMBDA c, i : MergePhasesInto(c, negated, i), t, FromUpto(1, Len(t.rs)))
        empty   == {merged.ids[i] : i \in {k \in DOMAIN merged.rs : merged.rs[k].phase = 0}}
    IN RemoveTeleported([merged EXCEPT !.gates = [i \in DOMAIN @ |->
                           IF i \in empty THEN [op |-> "gone", qubits |-> <<>>] ELSE @[i]] \o <<>>])

\* Mutant: the rotations before it are left as they are
AbsorbTeleportAlone(t, i) == IF t.rs[i].phase # Pi THEN t ELSE [t EXCEPT !.rs[i].phase = 0]

\* remove_clifford_rotations_teleport: only a half turn counts as one, and it
\* goes in front of the rotations before it.
AbsorbTeleport(t, i) ==
    LET p   == t.rs[i].pauli
        ops == ToOneQubit(p)
        all == ops \o <<<<"z", LastQubit(p), 0>>>> \o AdjointOps(ops)
    IN IF t.rs[i].phase # Pi THEN t
       ELSE [t EXCEPT !.rs = OnRotations(SubSeq(@, 1, i - 1), all)
                             \o <<[t.rs[i] EXCEPT !.phase = 0]>> \o SubSeq(@, i + 1, Len(@))]

RemoveCliffordTeleport(t) ==
    RemoveTeleported(Iterate(AbsorbTeleport, t, FromUpto(1, Len(t.rs))))

TeleportRound(t) == RemoveCliffordTeleport(MergeTeleport(t))

\* ... as long as there are fewer rotations after a round
Teleported(gates) ==
    LET Again(c, i) ==
          LET next == TeleportRound(c.t)
          IN IF c.done THEN c ELSE [t |-> next, done |-> Len(next.rs) >= Len(c.t.rs)]
        start == TeleportStart(gates)
        last  == Iterate(Again, [t |-> start, done |-> FALSE], FromUpto(0, Len(start.rs))).t
    IN SelectSeq(last.gates, LAMBDA g : g.op # "gone")

----------------------------------------------------------------------------
\* EQUIVALENCE_LIBRARY: what a gate set has in place of h, cx, cz and ecr.  A
\* gate is <<what, phase, places of its qubits>>.

At(q)   == <<q>>
Pair    == <<1, 2>>
SOn(q)  == <<"pz", HalfPi, At(q)>>
SdgOn(q) == <<"pz", Turn - HalfPi, At(q)>>
ZOn(q)  == <<"pz", Pi, At(q)>>
SXOn(q) == <<"px", HalfPi, At(q)>>
SXdgOn(q) == <<"px", Turn - HalfPi, At(q)>>
XOn(q)  == <<"px", Pi, At(q)>>
ECROf == <<"ecr", 0, Pair>>
CXOf  == <<"cx", Pi, Pair>>
CZOf  == <<"cz", Pi, Pair>>

HadamardAs == <<SOn(1), SXOn(1), SOn(1)>>
Equivalences ==
    [sherbrooke |->
       [h  |-> HadamardAs,
        cx |-> <<SdgOn(1), ZOn(2), SXOn(2), ZOn(2), ECROf, XOn(1)>>,
        cz |-> <<SdgOn(1), SXOn(2), SOn(2), ECROf, XOn(1), SOn(2), SXOn(2), SOn(2)>>],
     kyiv |->
       [h   |-> HadamardAs,
        cz  |-> <<SOn(2), SXOn(2), SOn(2), CXOf, SOn(2), SXOn(2), SOn(2)>>,
        ecr |-> <<SOn(1), SXOn(2), CXOf, XOn(1)>>],
     prague |->
       [h   |-> HadamardAs,
        cx  |-> <<SOn(2), SXOn(2), ZOn(2), CZOf, SXOn(2), SOn(2)>>,
        ecr |-> <<SOn(1), SdgOn(2), SXdgOn(2), CZOf, XOn(1), SOn(2), SXOn(2), SOn(2)>>]]

NameOf(g) == CASE IsCx(g) -> "cx" [] IsCz(g) -> "cz" [] g.op \in {"h", "ecr"} -> g.op [] OTHER -> "other"

\* One gate of a replacement, on the qubits of the gate it replaces
Placed(entry, qubits) ==
    LET on == [i \in DOMAIN entry[3] |-> qubits[entry[3][i]]] \o <<>>
    IN CASE entry[1] = "cx" -> Cx(on[1], on[2])
         [] entry[1] = "cz" -> Cz(on[1], on[2])
         [] OTHER -> [op |-> entry[1], phase |-> entry[2], qubits |-> on]

Translate(gates, gate_set) ==
    LET table == Equivalences[gate_set]
        As(g) == IF NameOf(g) \notin DOMAIN table THEN <<g>>
                 ELSE LET list == table[NameOf(g)]
                      IN [i \in DOMAIN list |-> Placed(list[i], g.qubits)]
    IN FlattenSeq([i \in DOMAIN gates |-> As(gates[i])])

-----------------------------------------------------------------------------
CONSTANTS Circuits,     \* the circuits a session starts with
          MaxCommands,  \* bound on the commands of a session
          MaxIter       \* BasicOptimizationConfig::maxIter

VARIABLES circuit,  \* the gates of the circuit with the focus
          ref,      \* the gates of a circuit that `circuit` should mean the same as
          task,     \* the passes under way
          stop,     \* Ctrl-C has come during the command
          exact,    \* no gate was lost, and no pair removed that others stand between
          left      \* commands still allowed

vars == <<circuit, ref, task, stop, exact, left>>

Idle == [name |-> "idle"]
Crashed == [name |-> "crashed"]

Gates == InGateOrder(circuit)

OptimizeInit ==
    /\ circuit \in Circuits
    /\ ref = circuit
    /\ task = Idle
    /\ stop = FALSE
    /\ exact = TRUE
    /\ left = MaxCommands

Command == task = Idle /\ left > 0 /\ left' = left - 1 /\ stop' = FALSE

----------------------------------------------------------------------------
\* basic_optimization

\* Forward, backward and forward again, then backward and forward with CZs
\* minimized as long as something is gained.
IsBackward(pass) == pass % 2 = 0
Minimizes(pass)  == pass > 3

OptimizeBasic ==
    /\ Command
    /\ \E do_swap \in BOOLEAN :
          task' = [name |-> "basic", pass |-> 1, gates |-> Gates, do_swap |-> do_swap,
                   orig |-> StatsOf(Gates), prev |-> StatsOf(Gates), stats |-> StatsOf(Gates),
                   built |-> TRUE]
    /\ UNCHANGED <<circuit, ref, exact>>

\* A pass whose lines do not come apart never ends (_build_from_storage).
InBasic == task.name = "basic" /\ task.built

\* The loop is left after a forward pass.
GoesOn ==
    \/ task.pass <= 5
    \/ IsBackward(task.pass) => (~stop /\ task.pass - 1 < MaxIter /\ Improved(task.prev, task.stats))

HasRZ(gates) == \E i \in DOMAIN gates : gates[i].op = "rz"

\* get_underlying<PZGate> throws for an RZ gate.
BasicCrash ==
    /\ InBasic /\ task.pass = 1 /\ HasRZ(task.gates)
    /\ task' = Crashed /\ left' = 0
    /\ UNCHANGED <<circuit, ref, stop, exact>>

\* prev_stats are those of the circuit itself, as the first pass left it.
BasicPass ==
    /\ InBasic /\ GoesOn
    /\ task.pass = 1 => ~HasRZ(task.gates)
    /\ LET With(out) ==
             /\ circuit' = IF task.pass = 1 THEN out.own ELSE circuit
             /\ task' = [task EXCEPT
                          !.pass = @ + 1,
                          !.gates = out.gates,
                          !.built = out.built,
                          !.prev = IF task.pass = 3 THEN StatsOf(circuit)
                                   ELSE IF task.pass > 5 /\ IsBackward(task.pass) THEN task.stats ELSE @,
                          !.stats = IF task.pass > 3 /\ IsBackward(task.pass) THEN StatsOf(out.gates) ELSE @]
       IN With(ParseOnce(InGateOrder(task.gates), IsBackward(task.pass), Minimizes(task.pass), task.do_swap))
    /\ exact' = (exact /\ \A i \in DOMAIN task.gates : IsParsed(task.gates[i]))
    /\ UNCHANGED <<ref, stop, left>>

\* With --copy too the focus goes to the new circuit; the one it was called for stays as
\* it is now, with the gates that the passes have worked on, and is not followed.
BasicEnd ==
    /\ InBasic /\ ~GoesOn /\ ~stop
    /\ circuit' = task.gates
    /\ task' = Idle
    /\ UNCHANGED <<ref, stop, exact, left>>

\* "Fail to optimize circuit": the circuit is what the first pass made of it.  Its
\* gates are still linked as before, so the session is not followed any further.
BasicInterrupted ==
    /\ InBasic /\ ~GoesOn /\ stop
    /\ task' = Idle /\ left' = 0
    /\ ref' = circuit
    /\ UNCHANGED <<circuit, stop, exact>>

----------------------------------------------------------------------------
\* The other strategies, and translate

\* trivial_optimization looks at the flag before every gate.
OptimizeTech ==
    /\ Command
    /\ circuit' = Iterate(TrivialGate, <<>>, Gates)
    /\ LET Next2(c, g) == [out |-> TrivialGate(c.out, g), exact |-> c.exact /\ IsNextTo(c.out, g)]
       IN exact' = (exact /\ Iterate(Next2, [out |-> <<>>, exact |-> TRUE], Gates).exact)
    /\ UNCHANGED <<ref, task>>

\* A circuit without a rotation has no list of rotations: std::get throws.
OptimizeTeleport ==
    /\ Command
    /\ IF ~CanTeleport(Gates) THEN UNCHANGED <<circuit, task>>
       ELSE IF \E i \in DOMAIN circuit : HasRotation(circuit[i])
            THEN circuit' = Teleported(Gates) /\ UNCHANGED task
       ELSE task' = Crashed /\ UNCHANGED circuit
    /\ UNCHANGED <<ref, exact>>

\* Bound: what is translated is not optimized any further.
TranslateCmd ==
    /\ task = Idle /\ left > 0 /\ left' = 0
    /\ \E gate_set \in DOMAIN Equivalences : circuit' = Translate(Gates, gate_set)
    /\ UNCHANGED <<ref, task, stop, exact>>

Interrupt ==
    /\ InBasic /\ ~stop
    /\ stop' = TRUE
    /\ UNCHANGED <<circuit, ref, task, exact, left>>

OptimizeStep == BasicCrash \/ BasicPass \/ BasicEnd \/ BasicInterrupted

OptimizeNext ==
    \/ OptimizeBasic \/ OptimizeTech \/ OptimizeTeleport \/ TranslateCmd
    \/ OptimizeStep \/ Interrupt

\* A command that is under way goes on.  This is WF_vars(OptimizeStep): a step of it
\* is enabled whenever InBasic, and no other action changes the task then.
PassesGoOn == []<>~InBasic \/ []<><<task' # task>>_vars

OptimizeSpec == OptimizeInit /\ [][OptimizeNext]_vars /\ PassesGoOn

----------------------------------------------------------------------------
\* What is at hand, the circuit or what a pass has made of it, means what the session
\* began with, whatever order of strategies led here: basic_optimization, in every
\* pass, trivial_optimization, phase_teleport and translate all keep the meaning.  A
\* gate that parse_gate does not know, and a pair that is removed from around other
\* gates, are not held against it.
SameMeaning(gates) == exact => Proportional(CircuitMeaning(gates), CircuitMeaning(ref))

MeaningKept ==
    /\ InBasic /\ task.pass > 1 => SameMeaning(task.gates)
    /\ task = Idle => SameMeaning(circuit)

\* The loop of basic_optimization is left because there is nothing more to gain, and
\* never because of maxIter: what a pass gains is not lost again by the next.
SettlesEarly == InBasic => task.pass < MaxIter

\* With --physical, basic_optimization never gives back more two-qubit gates than it
\* was given, though it turns CZs into CXs and back.  (Without it, a permutation of
\* the qubits is paid for with three CXs a swap.)
BasicNeverCosts ==
    [][(InBasic /\ ~task.do_swap /\ task' = Idle /\ ~stop) =>
          StatsOf(circuit').two_qubit <= task.orig.two_qubit]_vars

\* `optimize` ends: the lines of every pass come apart in _build_from_storage, and
\* the passes do not go on for ever.
OptimizeEnds == task.name = "basic" ~> task.name # "basic"
=============================================================================
