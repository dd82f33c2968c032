------------------------------- MODULE Circuit -------------------------------
(***************************************************************************)
(* A quantum circuit as the mapper reads it: what QCir::get_gate,          *)
(* get_predecessors and get_successors (qcir/qcir.cpp) answer.             *)
(*                                                                         *)
(* A circuit is the sequence of its gates in program order; a gate is a    *)
(* record of an id, an operation and its qubits, one entry for each pin.   *)
(* Ids need not follow the order: a gate that was prepended has a larger   *)
(* id than the gates behind it.                                            *)
(***************************************************************************)
EXTENDS Integers, Sequences, SequencesExt, FiniteSetsExt

\* No gate at a pin: the empty optional
NoGate == -1

GateIds(c) == {c[i].id : i \in DOMAIN c}

\* The members of s that are in the set S, in their order (SelectSeq, as a recursive
\* function, for the proofs)
KeepOnly(s, S) ==
    LET kept[n \in 0 .. Len(s)] ==
            IF n = 0 THEN <<>>
            ELSE IF s[n] \in S THEN Append(kept[n - 1], s[n])
            ELSE kept[n - 1]
    IN  kept[Len(s)]

\* A circuit on the given qubits: ids are unique, and every gate has a qubit.  Which
\* operations there are is left open.
IsCircuit(c, qubits) ==
    /\ c \in Seq([id : Nat, op : {c[i].op : i \in DOMAIN c}, qubits : Seq(qubits) \ {<<>>}])
    /\ \A i, j \in DOMAIN c : c[i].id = c[j].id => i = j

Position(c, id) == CHOOSE i \in DOMAIN c : c[i].id = id

GetGate(c, id) == c[Position(c, id)]

\* The positions of the gates on qubit q
OnQubit(c, q) == {i \in DOMAIN c : q \in ToSet(c[i].qubits)}

\* One entry for each pin of the gate: the gate before it on that qubit
GetPredecessors(c, id) ==
    [pin \in DOMAIN GetGate(c, id).qubits |->
        LET before == {i \in OnQubit(c, GetGate(c, id).qubits[pin]) :
                          i < Position(c, id)}
        IN  IF before = {} THEN NoGate ELSE c[Max(before)].id]

\* ... and the gate after it
GetSuccessors(c, id) ==
    [pin \in DOMAIN GetGate(c, id).qubits |->
        LET after == {i \in OnQubit(c, GetGate(c, id).qubits[pin]) :
                         i > Position(c, id)}
        IN  IF after = {} THEN NoGate ELSE c[Min(after)].id]

\* The gates that share a qubit with the gate id and precede it
Requires(c, id) ==
    {c[i].id : i \in {j \in DOMAIN c :
        /\ j < Position(c, id)
        /\ ToSet(c[j].qubits) \cap ToSet(GetGate(c, id).qubits) # {}}}

-----------------------------------------------------------------------------
(* QCir::get_gates (dfs in qcir/qcir_action.cpp): the reversed post-order  *)
(* of a depth-first search that starts with the last qubit's first gate.   *)

\* What is pushed for gates not yet visited
DfsFrames(ids) == [i \in DOMAIN ids |-> [id |-> ids[i], post |-> FALSE]]

\* One iteration of the loop of dfs.  A pin with nothing behind it, or with a gate that
\* was visited, is passed over when it is popped.
DfsStep(succ, s) ==
    LET top == Last(s.stack)
        rest == Front(s.stack)
    IN  CASE s.stack = <<>> -> s
          [] s.stack # <<>> /\ top.post ->
                [s EXCEPT !.stack = rest, !.order = <<top.id>> \o @]
          [] s.stack # <<>> /\ ~top.post /\ (top.id = NoGate \/ top.id \in s.visited) ->
                [s EXCEPT !.stack = rest]
          [] OTHER ->
                [s EXCEPT !.visited = @ \cup {top.id},
                          !.stack = Append(rest, [id |-> top.id, post |-> TRUE])
                                    \o DfsFrames(succ[top.id])]

\* succ maps the id of each of the n gates to what follows on its pins; roots are what
\* the qubits begin with.
DfsOrder(roots, succ, n) ==
    LET pops == Len(roots) + n * (1 + Len(roots))
        after[k \in 0 .. pops] ==
            IF k = 0
            THEN [stack |-> DfsFrames(roots), visited |-> {}, order |-> <<>>]
            ELSE DfsStep(succ, after[k - 1])
    IN  after[pops].order

FirstGate(c, q) == IF OnQubit(c, q) = {} THEN NoGate ELSE c[Min(OnQubit(c, q))].id
LastGate(c, q) == IF OnQubit(c, q) = {} THEN NoGate ELSE c[Max(OnQubit(c, q))].id

\* get_gates of a circuit of n qubits
GetGates(c, n) == DfsOrder([q \in 1 .. n |-> FirstGate(c, q - 1)],
                           [id \in GateIds(c) |-> GetSuccessors(c, id)], Len(c))
=============================================================================
