------------------------------- MODULE MCQCir -------------------------------
(* Two operations of one qubit that are adjoint to each other, and cx.      *)
EXTENDS QCir

MCAdjoint == [op \in {"t", "tdg", "cx"} |->
                 CASE op = "t" -> "tdg" [] op = "tdg" -> "t" [] OTHER -> op]
MCArity == [op \in {"t", "tdg", "cx"} |-> IF op = "cx" THEN 2 ELSE 1]

\* A circuit whose gates meet on one line, as the other one of a composition
MCOthers == {[numQubits |-> 2,
              gates |-> <<[op |-> "cx", qubits |-> <<1, 0>>],
                          [op |-> "t", qubits |-> <<0>>]>>]}
=============================================================================
