------------------------- MODULE MCCircuitOptimize -------------------------
\* All circuits of one or two gates on two qubits, and longer ones that reach what
\* those do not.
EXTENDS CircuitOptimize

T(q)    == ZTurn(1, q)
S1(q)   == ZTurn(2, q)
Had(q)  == HadamardGate(q)
Swap(q, r) == [op |-> "swap", phase |-> 0, qubits |-> <<q, r>>]
Ecr(q, r)  == [op |-> "ecr", phase |-> 0, qubits |-> <<q, r>>]

Alphabet ==
  {Had(0), Had(1), XGate(0), S1(0), T(1), ZTurn(4, 1), Cx(0, 1), Cx(1, 0), Cz(0, 1)}

Longer ==
  {\* merged when the parities are the same, and when a half turn went by
   <<T(0), Cx(0, 1), T(1), Cx(1, 0), T(0), Cx(0, 1), ZTurn(3, 1)>>,
   <<Cx(0, 1), T(1), Cx(0, 1), T(0), XGate(0), Cx(0, 1), T(1), Cx(0, 1)>>,
   <<T(0), T(1), Had(0), OneQubit("rx", 1, 1), Had(0), ZTurn(3, 0), Had(1), T(0)>>,
   <<T(0), Had(0), T(0), ZTurn(3, 0), Had(0), T(0)>>,
   \* CX and CZ, in either order, with Hadamards before and after
   <<Cz(0, 1), Cx(0, 1), Had(1), Cz(0, 1), Cx(1, 0), Had(0), Cz(0, 1)>>,
   <<Cx(0, 1), Cz(0, 1), Had(0), S1(0), Had(0), Cz(0, 1), S1(1), Had(1)>>,
   <<Cx(0, 1), Cx(1, 0), Had(1), T(0), Cx(0, 1), Cz(0, 1), ZTurn(6, 0)>>,
   <<Had(0), Cx(0, 1), Had(0), Had(1), Cz(0, 1), Had(1), Cx(1, 0), Cz(0, 1)>>,
   \* kinds that only the other strategies know
   <<Ecr(0, 1), OneQubit("px", 2, 0), OneQubit("rx", 6, 0), Swap(0, 1), Swap(1, 0), Ecr(0, 1)>>,
   <<TwoQubit("py", 0, 1), TwoQubit("py", 0, 1), OneQubit("rz", 1, 0), T(0), Cx(0, 1)>>,
   <<Ecr(0, 1), OneQubit("ry", 1, 1), Ecr(0, 1), Ecr(0, 1)>>}

MCCircuits == UNION {[1 .. k -> Alphabet] : k \in 1 .. 2} \cup Longer
=============================================================================
