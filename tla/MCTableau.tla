----------------------------- MODULE MCTableau -----------------------------
\* Circuits of up to four qubits.  The first has ten rotations by pi/4, of which
\* Todd can save some; it needs four qubits.
EXTENDS TableauSession

One(op, p, q) == Gate(op, p, <<q>>)
T(q) == PZGate(1, q)
Had(q) == One("h", Pi, q)

Parities ==
  <<T(3), CXGate(0, 3), T(3), CXGate(1, 3), T(3), CXGate(0, 3), T(3), CXGate(2, 3), T(3),
    CXGate(0, 3), T(3), CXGate(1, 3), T(3), CXGate(0, 3), T(3), CXGate(2, 3), T(0), T(1)>>

MCCircuits ==
  {Parities,
   <<T(0), CXGate(0, 1), T(1), CXGate(1, 0), T(0), CXGate(0, 1), PZGate(3, 1)>>,
   <<T(0), Had(0), T(0), Had(0), T(0), CXGate(0, 1), T(1), One("px", 2, 1)>>,
   <<CXGate(0, 1), PZGate(2, 1), CXGate(0, 1), T(0), Had(1), T(1)>>,
   <<Controlled("py", 1, 0), One("ry", 3, 1), Gate("swap", 0, <<0, 1>>), PZGate(7, 0)>>}

MCDefault == [queue |-> 10000, expansions |-> 500000]
MCConfigs == {MCDefault, [queue |-> 2, expansions |-> 500000], [queue |-> 10000, expansions |-> 2]}
MCGroupSizes == <<1, 2>>
MCAppendable == {<<"v", 0, 0>>, <<"ecr", 0, 1>>}
MCOrders == {[q \in QubitSet |-> q], [q \in QubitSet |-> Qubits - q]}
=============================================================================
