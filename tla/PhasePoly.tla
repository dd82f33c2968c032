------------------------------ MODULE PhasePoly ------------------------------
(***************************************************************************)
(* Phase polynomials (tableau/phasepoly): a block of CX gates and Z        *)
(* rotations is a problem [n, cols, out], and a search turns a problem     *)
(* back into gates.                                                        *)
(*                                                                         *)
(* A column is [z, angle], the rows where it is one and its angle; out is  *)
(* a function from the rows 0 .. n - 1 to the columns where they are one.  *)
(* A gate is <<"cx", control, target>> or <<"rz", row, angle>>.            *)
(***************************************************************************)
EXTENDS TableauToQCir

Elimination == INSTANCE BooleanMatrix

RowsOf(n) == 0 .. n - 1
CxOp(c, t) == <<"cx", c, t>>
RzOp(q, angle) == <<"rz", q, angle>>
IsCx(op) == op[1] = "cx"
NumCx(ops) == Cardinality({i \in DOMAIN ops : IsCx(ops[i])})

IdentityOut(n) == [r \in RowsOf(n) |-> {r}]

----------------------------------------------------------------------------
\* phase_block_to_problem: `values` has for every qubit the inputs it is the
\* parity of (SymbolicState).  Equal parities become one column.

AddAngle(cols, z, angle) ==
    LET at == {i \in DOMAIN cols : cols[i].z = z}
    IN IF z = {} THEN cols
       ELSE IF at = {} THEN Append(cols, [z |-> z, angle |-> angle])
       ELSE [cols EXCEPT ![Min(at)].angle = Plus(@, angle)]

LiveColumns(cols) == SelectSeq(cols, LAMBDA c : c.angle # 0)

SymbolicStep(s, op) ==
    IF ~IsCx(op) THEN [s EXCEPT !.cols = AddAngle(@, s.values[op[2]], op[3])]
    ELSE IF op[2] = op[3] THEN s
    ELSE [s EXCEPT !.values[op[3]] = SymmetricDifference(@, s.values[op[2]])]

Simulated(n, ops) == Iterate(SymbolicStep, [values |-> IdentityOut(n), cols |-> <<>>], ops)

\* to_output_matrix: column q is what qubit q holds.
OutputMatrix(n, values) == [r \in RowsOf(n) |-> {q \in RowsOf(n) : r \in values[q]}]

BlockToProblem(n, ops) ==
    LET Of(s) == [n |-> n, cols |-> LiveColumns(s.cols), out |-> OutputMatrix(n, s.values)]
    IN Of(Simulated(n, ops))

\* rotations_to_problem
RotationsToProblem(rs, n, out) ==
    [n |-> n, out |-> out,
     cols |-> LiveColumns(Iterate(LAMBDA cols, r : AddAngle(cols, r.pauli.z, r.phase), <<>>, rs))]

IsTrivial(p) == p.cols = <<>> /\ p.out = IdentityOut(p.n)

----------------------------------------------------------------------------
\* A CX is a row operation on both matrices: the control's row takes in the
\* target's.

\* Mutant: the rows exchanged in one of the matrices
ApplyCnotTurned(s, c, t) ==
    [s EXCEPT !.cols = [i \in DOMAIN @ |-> IF c \in @[i].z THEN [@[i] EXCEPT !.z = Toggle(@, t)]
                                           ELSE @[i]] \o <<>>,
              !.out  = [@ EXCEPT ![c] = SymmetricDifference(@, s.out[t])]]

ApplyCnot(s, c, t) ==
    [s EXCEPT !.cols = [i \in DOMAIN @ |-> IF t \in @[i].z THEN [@[i] EXCEPT !.z = Toggle(@, c)]
                                           ELSE @[i]] \o <<>>,
              !.out  = [@ EXCEPT ![c] = SymmetricDifference(@, s.out[t])]]

\* gauss_jordan_reduce: a row without its diagonal one gets it from the lightest
\* row below.
JordanColumn(s, k) ==
    LET below   == {r \in RowsOf(s.n) : r > k /\ k \in s.out[r]}
        weight(r) == Cardinality(s.out[r])
        pivot   == Min({r \in below : \A q \in below : weight(r) <= weight(q)})
        Add2(r, c, t) == [ApplyCnot(r, c, t) EXCEPT !.gates = Append(@, CxOp(c, t))]
        ready   == IF k \in s.out[k] THEN s ELSE Add2(s, k, pivot)
    IN Iterate(LAMBDA r, q : IF q # k /\ k \in r.out[q] THEN Add2(r, q, k) ELSE r,
                ready, FromUpto(0, s.n - 1))

GaussJordan(n, out) ==
    Iterate(JordanColumn, [n |-> n, cols |-> <<>>, out |-> out, gates |-> <<>>],
             FromUpto(0, n - 1)).gates

\* patel_markov_hayes_reduce: the block size with the fewest operations.  An
\* operation of the matrix adds the first row to the second, so its gate is the
\* other way round.
PatelMarkovHayes(n, out) ==
    LET base == Elimination!Matrix([i \in 1 .. n |-> {q + 1 : q \in out[i - 1]}])
        runs == [b \in 1 .. n |-> Elimination!GaussianEliminationSkip(base, n, b, TRUE).ops] @@ <<>>
        Best(rs) == rs[Min({b \in 1 .. n : \A d \in 1 .. n : Len(rs[b]) <= Len(rs[d])})]
        Gates(ops) == [i \in DOMAIN ops |-> CxOp(ops[i][2] - 1, ops[i][1] - 1)]
    IN Gates(Best(runs))

----------------------------------------------------------------------------
\* The states of the search: the matrices that are left and the gates so far

\* remove_ready_phase_columns: the first column of weight one goes, again and again.
RemoveReady(s) ==
    LET ready(r) == {i \in DOMAIN r.cols : Cardinality(r.cols[i].z) = 1}
        Emit(r, i) == [r EXCEPT !.cols  = RemoveAt(@, i),
                                !.gates = Append(@, RzOp(Min(r.cols[i].z), r.cols[i].angle))]
    IN Iterate(LAMBDA r, k : IF ready(r) = {} THEN r ELSE Emit(r, Min(ready(r))),
                s, FromUpto(1, Len(s.cols)))

Root(p) == RemoveReady([n |-> p.n, cols |-> p.cols, out |-> p.out, gates |-> <<>>])

CnotsOf(s) == NumCx(s.gates)
Cnot(s, c, t) == [ApplyCnot(s, c, t) EXCEPT !.gates = Append(@, CxOp(c, t))]

\* active_row_pairs, by their first row and then by their second
ActivePairs(s) ==
    SelectSeq([i \in 1 .. s.n * s.n |-> <<(i - 1) \div s.n, (i - 1) % s.n>>],
              LAMBDA p : p[1] # p[2] /\ \E i \in DOMAIN s.cols : {p[1], p[2]} \subseteq s.cols[i].z)

\* finish_output
FinishOutput(s) ==
    Iterate(LAMBDA r, op : Cnot(r, op[2], op[3]), s, PatelMarkovHayes(s.n, s.out))

\* greedy_synthesize: the first column's first two rows are folded.
GreedyStep(s) ==
    LET rows == s.cols[1].z
        a    == Min(rows)
        next == Cnot(s, a, Min(rows \ {a}))
    IN IF s.cols = <<>> THEN s
       ELSE IF Cardinality(next.cols[1].z) = 1 THEN RemoveReady(next) ELSE next

GreedySynthesize(p) ==
    FinishOutput(Iterate(LAMBDA s, i : GreedyStep(s), Root(p), FromUpto(1, p.n * Len(p.cols))))

----------------------------------------------------------------------------
\* synthesize_phasepoly: the open states in the order of their priority, which is
\* f, then h1, then h2, then the most gates, then the oldest.  An open state is
\* [s, rank]; best has the fewest gates every seen state was reached with.

CONSTANTS MaxSolutions,    \* PhasePolyConfig
          DefaultConfig    \* [queue, expansions]: its max_queue_size, max_expansions

Phase1Cost(s) == Iterate(LAMBDA sum, c : sum + Cardinality(c.z), 0, s.cols)
Rank(s) ==
    LET h1 == Phase1Cost(s)
        h2 == Len(GaussJordan(s.n, s.out))
    IN <<CnotsOf(s) + h1 + h2, h1, h2, 0 - CnotsOf(s)>>

RankBefore(a, b) ==
    \E k \in 1 .. 4 : a[k] < b[k] /\ \A j \in 1 .. k - 1 : a[j] = b[j]

Key(s) == <<s.cols, s.out>>

\* Behind the states of the same rank
Insert(open, node) ==
    LET n == Cardinality({i \in DOMAIN open : ~RankBefore(node.rank, open[i].rank)})
    IN SubSeq(open, 1, n) \o <<node>> \o SubSeq(open, n + 1, Len(open))

Push(search, s) ==
    IF Key(s) \in DOMAIN search.best /\ search.best[Key(s)] <= CnotsOf(s) THEN search
    ELSE [search EXCEPT !.best = (Key(s) :> CnotsOf(s)) @@ @,
                        !.open = Insert(@, [s |-> s, rank |-> Rank(s)])]

NewSearch(p, config) ==
    Push([problem |-> p, config |-> config, open |-> <<>>, best |-> <<>>, solutions |-> <<>>,
          expansions |-> 0], Root(p))

SearchGoesOn(search) ==
    /\ search.open # <<>>
    /\ search.expansions < search.config.expansions
    /\ Len(search.solutions) < MaxSolutions

Truncated(open, most) == IF Len(open) > most THEN SubSeq(open, 1, most) ELSE open

\* One round of the loop
Solve(search, s) ==
    [search EXCEPT !.solutions = Append(@, IF s.out = IdentityOut(s.n) THEN s ELSE FinishOutput(s))]

ExpandState(search, s) ==
    LET Next1(r, p) == Push(r, RemoveReady(Cnot(s, p[1], p[2])))
    IN [Iterate(Next1, search, ActivePairs(s)) EXCEPT !.open = Truncated(@, search.config.queue)]

ExpandFirst(search) ==
    LET s    == Head(search.open).s
        rest == [search EXCEPT !.open = Tail(@), !.expansions = @ + 1]
    IN IF s.cols = <<>> THEN Solve(rest, s) ELSE ExpandState(rest, s)

\* The first of the solutions with the fewest gates, or the greedy one
SearchResult(search) ==
    LET sols == search.solutions
        best == {i \in DOMAIN sols : \A j \in DOMAIN sols : CnotsOf(sols[i]) <= CnotsOf(sols[j])}
    IN IF sols = <<>> THEN GreedySynthesize(search.problem) ELSE sols[Min(best)]

\* verify_synthesis: the gates, read as a block, give the problem back.
Verified(p, gates) ==
    LET Same(q) == q.out = p.out /\ ToSet(q.cols) = ToSet(p.cols)
    IN Same(BlockToProblem(p.n, gates))

----------------------------------------------------------------------------
\* build_qcir
GateOf(op) == IF IsCx(op) THEN CXGate(op[2], op[3]) ELSE PZGate(op[3], op[2])
BuildQCir(ops) ==
    LET kept == SelectSeq(ops, LAMBDA op : ~IsCx(op) \/ op[2] # op[3])
    IN [i \in DOMAIN kept |-> GateOf(kept[i])]

\* What the strategy for a list of diagonal rotations searches for
RotationsProblem(rs) == RotationsToProblem(rs, Logical, IdentityOut(Logical))

----------------------------------------------------------------------------
\* Todd on the terms of a problem, in a tableau with a qubit for every row
\* (todd_preprocess.cpp).  A Clifford operator that is made of CX gates alone takes
\* the place of the output matrix, and any other is left out.

ProblemToRotations(p) ==
    [i \in DOMAIN p.cols |-> ZRotation(p.cols[i].z, p.cols[i].angle)]

OutputOfOperators(n, ops) ==
    OutputMatrix(n, Simulated(n, [i \in DOMAIN ops |-> CxOp(ops[i][2], ops[i][3])]).values)

ToddProblem(p, looks) ==
    LET rs == ProblemToRotations(p)
        From(pair, ops) ==
          RotationsToProblem(pair.rs, p.n,
            IF \A i \in DOMAIN ops : ops[i][1] = "cx" THEN OutputOfOperators(p.n, ops) ELSE p.out)
        Fewer(pair) == IF Len(pair.rs) >= Len(rs) THEN p
                       ELSE From(pair, AGOperators(pair.c, looks <= 0))
    IN IF Len(rs) < 2 THEN p ELSE Fewer(ToddReduced([c |-> IdentityTableau, rs |-> rs], looks))

-----------------------------------------------------------------------------
(***************************************************************************)
(* The phase polynomials of a circuit, block by block                      *)
(* (tableau/phasepoly/multiblock.cpp).                                     *)
(*                                                                         *)
(* A segment is [ops, trailing]: a block of CX gates and Z rotations and   *)
(* the other gates that follow it.  Segments with only Hadamard gates      *)
(* between them may be merged: a Hadamard gate starts a new row for its    *)
(* qubit.                                                                  *)
(***************************************************************************)

CONSTANT GroupSizes   \* the list of group sizes to try

IsCxGate(g) == g.op = "control" /\ g.of = "px" /\ g.phase = Pi /\ Len(g.qubits) = 2
IsPhaseOp(g) == IsCxGate(g) \/ g.op \in {"pz", "rz"}
PhaseOpOf(g) == IF IsCxGate(g) THEN CxOp(g.qubits[1], g.qubits[2]) ELSE RzOp(g.qubits[1], g.phase)
IsSSABoundary(g) == g.op = "h"

----------------------------------------------------------------------------
\* segment_phase_poly_regions

Segment(ops, trailing) == [ops |-> ops, trailing |-> trailing]

FlushBlock(s) ==
    IF s.current = <<>> THEN s
    ELSE [segments |-> Append(s.segments, Segment(s.current, <<>>)), current |-> <<>>]

AddBoundary(s, g) ==
    IF s.segments = <<>> THEN [s EXCEPT !.segments = <<Segment(<<>>, <<g>>)>>]
    ELSE [s EXCEPT !.segments[Len(s.segments)].trailing = Append(@, g)]

SegmentGate(s, g) ==
    IF IsPhaseOp(g) THEN [s EXCEPT !.current = Append(@, PhaseOpOf(g))]
    ELSE AddBoundary(FlushBlock(s), g)

SegmentRegions(gates) ==
    FlushBlock(Iterate(SegmentGate, [segments |-> <<>>, current |-> <<>>], gates)).segments

----------------------------------------------------------------------------
\* merge_segments_ssa: `row` is the row a qubit is in, `logical` the qubit that
\* every row is of.

NewContext == [row |-> [q \in Register |-> q], logical |-> FromUpto(0, Logical - 1)]

Remapped(ctx, op) ==
    IF IsCx(op) THEN CxOp(ctx.row[op[2]], ctx.row[op[3]]) ELSE RzOp(ctx.row[op[2]], op[3])

HGateRow(ctx, g) ==
    [logical |-> Append(ctx.logical, g.qubits[1]),
     row     |-> [ctx.row EXCEPT ![g.qubits[1]] = Len(ctx.logical)]]

CanMerge(segments, first, k) ==
    /\ k > 0 /\ first + k - 1 <= Len(segments)
    /\ \A j \in first .. first + k - 1 : segments[j].ops # <<>>
    /\ \A j \in first .. first + k - 2 : \A i \in DOMAIN segments[j].trailing :
          IsSSABoundary(segments[j].trailing[i])

MergeSegments(segments, first, k) ==
    LET AppendOps(s, j) ==
          [s EXCEPT !.ops = @ \o [i \in DOMAIN segments[j].ops |-> Remapped(s.ctx, segments[j].ops[i])]]
        Fork(s, j) == [s EXCEPT !.ctx = Iterate(HGateRow, @, segments[j].trailing)]
    IN Iterate(LAMBDA s, j : AppendOps(Fork(s, j - 1), j),
                AppendOps([ctx |-> NewContext, ops |-> <<>>], first),
                FromUpto(first + 1, first + k - 1))

\* Bound: no group has more rows than a tableau here has qubits.
RowsFit(segments) ==
    \A first \in DOMAIN segments, k \in ToSet(GroupSizes) :
       CanMerge(segments, first, k) =>
          Len(MergeSegments(segments, first, k).ctx.logical) <= Qubits

\* build_qcir_mapped
BuildMapped(ops, logical) ==
    BuildQCir([i \in DOMAIN ops |->
                 IF IsCx(ops[i]) THEN CxOp(logical[ops[i][2] + 1], logical[ops[i][3] + 1])
                 ELSE RzOp(logical[ops[i][2] + 1], ops[i][3])])

CountCx(gates) == Cardinality({i \in DOMAIN gates : gates[i].op = "control"})
BlockCx(segments, first, k) ==
    Iterate(LAMBDA n, j : n + NumCx(segments[j].ops), 0, FromUpto(first, first + k - 1))

----------------------------------------------------------------------------
\* optimize_qcir_phasepoly_multiblock, segment by segment.  While groups are tried,
\* `sizes` has the group sizes to come, `chosen` the best circuit so far, how many
\* segments it is for and its CX gates, and `group` the merged group a search is
\* under way for.  `exact` says that neither Todd nor a Hadamard gate stands
\* between a group and what its circuit means.

NoCandidate(segments, at) ==
    [gates |-> <<>>, span |-> 1, cx |-> BlockCx(segments, at, 1), exact |-> TRUE]

StartBlocks(gates) ==
    [segments |-> SegmentRegions(gates), at |-> 1, gates |-> <<>>, exact |-> TRUE]

\* A segment without a block of its own
SkipSegment(b) == [b EXCEPT !.gates = @ \o b.segments[b.at].trailing, !.at = @ + 1]

TryGroups(b) == [sizes |-> GroupSizes, chosen |-> NoCandidate(b.segments, b.at)] @@ b

\* synthesize_segment_group, up to the search and after it
GroupOf(b, k, looks) ==
    LET merged == MergeSegments(b.segments, b.at, k)
        plain  == BlockToProblem(Len(merged.ctx.logical), merged.ops)
        With(p) == [k |-> k, problem |-> p, exact |-> k = 1 /\ p = plain,
                    ops |-> merged.ops, logical |-> merged.ctx.logical]
    IN With(ToddProblem(plain, looks))

GroupKept(group) == BuildMapped(group.ops, group.logical)

GroupGates(b, group, s) ==
    IF Verified(group.problem, s.gates) /\ CnotsOf(s) < BlockCx(b.segments, b.at, group.k)
    THEN BuildMapped(s.gates, group.logical) ELSE GroupKept(group)

\* try_group; a candidate without gates does not last.
Propose(b, group, gates) ==
    LET candidate == [gates |-> gates, span |-> group.k, cx |-> CountCx(gates), exact |-> group.exact]
    IN [b EXCEPT !.sizes = Tail(@),
                 !.chosen = IF @.gates = <<>> \/ candidate.cx < @.cx THEN candidate ELSE @]

\* The chosen group, and the gates that were between its segments and behind it
CloseGroups(b) ==
    LET original == [NoCandidate(b.segments, b.at)
                       EXCEPT !.gates = BuildMapped(b.segments[b.at].ops, NewContext.logical)]
        Between(span) == FlattenSeq([j \in 1 .. span |-> b.segments[b.at + j - 1].trailing])
        Put(c) == [segments |-> b.segments, at |-> b.at + c.span, exact |-> b.exact /\ c.exact,
                   gates |-> b.gates \o c.gates \o Between(c.span)]
    IN Put(IF b.chosen.gates = <<>> THEN original ELSE b.chosen)
=============================================================================
