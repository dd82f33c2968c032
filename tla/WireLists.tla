------------------------------ MODULE WireLists ------------------------------
(***************************************************************************)
(* What a QCir is to its callers: a line of gates for every qubit.  A gate *)
(* on several qubits is on each of their lines.                            *)
(***************************************************************************)
EXTENDS Integers, Sequences, SequencesExt

CONSTANTS Adjoint   \* the adjoint of every operation

VARIABLES numQubits, \* the qubits are 0 .. numQubits - 1
          gates,     \* id |-> [op, qubits]
          lines      \* the ids on every qubit, in order

wireVars == <<numQubits, gates, lines>>

QubitIds == 0 .. numQubits - 1

WireInit == /\ numQubits = 0
            /\ gates = <<>>
            /\ lines = <<>>

\* The lines of the qubits bits changed by to
OnLines(bits, to(_)) ==
    [q \in QubitIds |-> IF q \in ToSet(bits) THEN to(lines[q]) ELSE lines[q]]

\* A new gate g, as it is in gates'
NewGate(g) == /\ g \notin DOMAIN gates
              /\ DOMAIN gates' = DOMAIN gates \cup {g}
              /\ UNCHANGED numQubits
              /\ \A h \in DOMAIN gates : gates'[h] = gates[h]

AppendWire(g) == /\ NewGate(g)
                 /\ lines' = OnLines(gates'[g].qubits, LAMBDA line : Append(line, g))

PrependWire(g) == /\ NewGate(g)
                  /\ lines' = OnLines(gates'[g].qubits, LAMBDA line : <<g>> \o line)

RemoveWire(g) ==
    /\ UNCHANGED numQubits
    /\ gates' = [h \in DOMAIN gates \ {g} |-> gates[h]]
    /\ lines' = OnLines(gates[g].qubits,
                        LAMBDA line : RemoveAt(line, CHOOSE i \in DOMAIN line : line[i] = g))

AdjointWires ==
    /\ UNCHANGED numQubits
    /\ gates' = [g \in DOMAIN gates |-> [gates[g] EXCEPT !.op = Adjoint[@]]]
    /\ lines' = [q \in QubitIds |-> Reverse(lines[q])]

\* The qubits of every gate renamed
Rename(to(_)) == [g \in DOMAIN gates |->
    [gates[g] EXCEPT !.qubits = [pin \in DOMAIN @ |-> to(@[pin])]]]

\* num empty lines before line id
InsertWires(id, num) ==
    /\ num > 0
    /\ numQubits' = numQubits + num
    /\ gates' = Rename(LAMBDA q : IF q >= id THEN q + num ELSE q)
    /\ lines' = [q \in 0 .. numQubits + num - 1 |->
                    IF q < id THEN lines[q]
                    ELSE IF q < id + num THEN <<>> ELSE lines[q - num]]

\* Only an empty line can go.
RemoveEmptyWire(id) ==
    /\ numQubits' = numQubits - 1
    /\ lines[id] = <<>>
    /\ lines' = [q \in 0 .. numQubits - 2 |-> IF q < id THEN lines[q] ELSE lines[q + 1]]
    /\ gates' = Rename(LAMBDA q : IF q > id THEN q - 1 ELSE q)

WireNext ==
    \/ \E g \in DOMAIN gates' : AppendWire(g) \/ PrependWire(g)
    \/ \E g \in DOMAIN gates : RemoveWire(g)
    \/ AdjointWires
    \/ \E id \in 0 .. numQubits : InsertWires(id, numQubits' - numQubits)
    \/ \E id \in QubitIds : RemoveEmptyWire(id)

WireSpec == WireInit /\ [][WireNext]_wireVars
=============================================================================
