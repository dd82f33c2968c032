---------------------------- MODULE BooleanMatrix ----------------------------
(***************************************************************************)
(* Elimination over GF(2) (util/boolean_matrix.cpp).                       *)
(*                                                                         *)
(* A matrix is [rows, ops]: its rows, each the set of the columns where it *)
(* is one, and the row operations done so far.  Columns are 1 .. n.        *)
(***************************************************************************)
EXTENDS Integers, Sequences, FiniteSets, SequencesExt, FiniteSetsExt

Upto(n)        == [i \in 1 .. n |-> i]
Indices(a, b)  == [i \in 1 .. b - a + 1 |-> a + i - 1]
Sum2Rows(r, s) == (r \ s) \cup (s \ r)

Matrix(rows) == [rows |-> rows, ops |-> <<>>]

\* row_operation, tracked
RowOperation(m, ctrl, targ) ==
    [m EXCEPT !.rows = [@ EXCEPT ![targ] = Sum2Rows(@, m.rows[ctrl])],
              !.ops  = Append(@, <<ctrl, targ>>)]

\* The operations of another's list, one after the other
Replay(m, ops) == FoldLeft(LAMBDA r, op : RowOperation(r, op[1], op[2]), m, ops)

----------------------------------------------------------------------------
\* gaussian_elimination_skip: section by section of block columns.  m.pivots has
\* the columns of the pivots of the first rows.

SectionColumns(block, n, k) == ((k - 1) * block + 1) .. Min({n, k * block})

\* A row whose part in the section is that of an earlier one takes that one in.
ClearDuplicates(m, columns, order) ==
    LET Part(r, i) == r.rows[i] \cap columns
        Same(r, k) == SelectSeq(SubSeq(order, 1, k - 1), LAMBDA j : Part(r, j) = Part(r, order[k]))
        Clear(r, k) == IF Part(r, order[k]) = {} \/ Same(r, k) = <<>> THEN r
                       ELSE RowOperation(r, Same(r, k)[1], order[k])
    IN FoldLeft(Clear, m, Upto(Len(order)))

ClearColumn(m, pivot, column, order) ==
    FoldLeft(LAMBDA r, i : IF column \in r.rows[i] THEN RowOperation(r, pivot, i) ELSE r, m, order)

FindPivot(m, column) ==
    LET next == Len(m.pivots) + 1
        with == {i \in next .. Len(m.rows) : column \in m.rows[i]}
        Ready(i) == IF i = next THEN m ELSE RowOperation(m, i, next)
    IN IF with = {} THEN m
       ELSE [ClearColumn(Ready(Min(with)), next, column, Indices(next + 1, Len(m.rows)))
               EXCEPT !.pivots = Append(@, column)]

EchelonSection(m, columns, first, last) ==
    FoldLeft(FindPivot, ClearDuplicates(m, columns, Indices(Len(m.pivots) + 1, Len(m.rows))),
             Indices(first, last))

\* Back substitution: the pivots of a section, last to first
ReducePivot(m, columns) ==
    LET k == Len(m.pivots)
    IN IF k = 0 \/ m.pivots[k] \notin columns THEN m
       ELSE [ClearColumn(m, k, m.pivots[k], Upto(k - 1)) EXCEPT !.pivots = Front(@)]

ReduceSection(m, columns) ==
    FoldLeft(LAMBDA r, i : ReducePivot(r, columns),
             ClearDuplicates(m, columns, Reverse(Upto(Len(m.pivots)))),
             Upto(Len(m.pivots)))

GaussianEliminationSkip(m, n, block, full) ==
    LET sections == Upto((n + block - 1) \div block)
        Down(r, k) == EchelonSection(r, SectionColumns(block, n, k),
                                     (k - 1) * block + 1, Min({n, k * block}))
        Up(r, k) == IF r.pivots = <<>> THEN r ELSE ReduceSection(r, SectionColumns(block, n, k))
        Back(r) == IF full THEN FoldLeft(Up, r, Reverse(sections)) ELSE r
        Done(r) == [rows |-> r.rows, ops |-> r.ops]
    IN Done(Back(FoldLeft(Down, m @@ [pivots |-> <<>>], sections)))

----------------------------------------------------------------------------
\* filter_duplicate_row_operations: an operation goes together with the same one
\* before it if neither row was in an operation in between.  last[r] is the last
\* operation on row r, 0 if it has been dropped.

FilterStep(s, k) ==
    LET a == s.ops[k][1]
        b == s.ops[k][2]
        before == s.last[a]
    IN IF before # 0 /\ before = s.last[b] /\ s.ops[before] = <<a, b>>
       THEN [s EXCEPT !.last = [@ EXCEPT ![a] = 0, ![b] = 0], !.dups = @ \cup {before, k}]
       ELSE [s EXCEPT !.last = [@ EXCEPT ![a] = k, ![b] = k]]

FilterDuplicates(ops) ==
    LET rows == UNION {{ops[k][1], ops[k][2]} : k \in DOMAIN ops}
        done == FoldLeft(FilterStep, [ops |-> ops, last |-> [r \in rows |-> 0], dups |-> {}],
                         Upto(Len(ops)))
        kept == SelectSeq(Upto(Len(ops)), LAMBDA k : k \notin done.dups)
    IN [i \in DOMAIN kept |-> ops[kept[i]]]

----------------------------------------------------------------------------
\* gaussian_elimination_augmented: the last column, n, is the right-hand side.

AugmentedColumn(m, column) ==
    LET all  == {i \in DOMAIN m.rows : column \in m.rows[i]}
        with == {i \in all : i >= m.row}
        Ready(r) == IF m.row \in all THEN r ELSE RowOperation(r, Min(with), m.row)
        others(r) == SelectSeq(Upto(Len(r.rows)), LAMBDA i : i # m.row)
    IN IF m.row > Len(m.rows) \/ with = {} THEN m
       ELSE LET r == Ready(m)
            IN [ClearColumn(r, m.row, column, others(r)) EXCEPT !.row = @ + 1]

GaussianEliminationAugmented(m, n) ==
    LET done == FoldLeft(AugmentedColumn, Matrix(m.rows) @@ [row |-> 1], Upto(n - 1))
    IN [rows |-> done.rows, ops |-> done.ops,
        solved |-> \A i \in DOMAIN done.rows : i >= done.row => n \notin done.rows[i]]

----------------------------------------------------------------------------
IsOneHot(row) == Cardinality(row) = 1

\* row_operation_depth
RowOperationDepth(numRows, ops) ==
    LET Longer(d, op) == LET n == Max({d[op[1]], d[op[2]]}) + 1
                         IN [d EXCEPT ![op[1]] = n, ![op[2]] = n]
        depth == FoldLeft(Longer, [r \in 1 .. numRows |-> 0], ops)
    IN Max({depth[r] : r \in 1 .. numRows})
=============================================================================
