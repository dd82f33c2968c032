-------------------------------- MODULE QCir --------------------------------
(***************************************************************************)
(* qcir/qcir.cpp, qcir/qcir_action.cpp: a QCir keeps its gates in a map by *)
(* id, and links every pin of a gate to the gates before and after it on   *)
(* that qubit; a qubit has its first and last gate.  A topological order   *)
(* of the gates is cached and recomputed when it is asked for after a      *)
(* change (_dirty).                                                        *)
(*                                                                         *)
(* compose, tensor_product and concat append the gates of another circuit  *)
(* one by one; here they leave them in todo, and nothing else happens      *)
(* until they are all appended.                                            *)
(***************************************************************************)
EXTENDS Circuit

CONSTANTS Adjoint,    \* the adjoint of every operation
          Arity,      \* the number of qubits of every operation
          Others,     \* other circuits: [numQubits, gates]
          MaxQubits,  \* bounds
          MaxGates,
          MaxId

ASSUME QCirAssumption ==
    /\ DOMAIN Arity = DOMAIN Adjoint
    /\ \A op \in DOMAIN Adjoint : /\ Adjoint[op] \in DOMAIN Adjoint
                                  /\ Arity[Adjoint[op]] = Arity[op]
                                  /\ Arity[op] \in Nat \ {0}
    /\ \A other \in Others :
           /\ other.numQubits \in Nat
           /\ other.gates \in Seq([op : DOMAIN Adjoint, qubits : Seq(0 .. other.numQubits - 1)])
           /\ \A i \in DOMAIN other.gates :
                  /\ Len(other.gates[i].qubits) = Arity[other.gates[i].op]
                  /\ IsInjective(other.gates[i].qubits)

VARIABLES
    numQubits,  \* the size of _qubits
    gates,      \* _id_to_gates: id |-> [op, qubits]
    first,      \* the first gate of every qubit
    last,       \* the last gate of every qubit
    preds,      \* _predecessors, one for each pin
    succs,      \* _successors
    gateId,     \* _gate_id
    gateList,   \* _gate_list
    dirty,      \* _dirty
    todo        \* what compose still has to append

qubitVars == <<numQubits, first, last>>
linkVars == <<preds, succs>>
cacheVars == <<gateList, dirty>>
qcirVars == <<qubitVars, gates, linkVars, gateId, cacheVars, todo>>

QubitIds == 0 .. numQubits - 1

\* A map with an entry more
WithEntry(f, x, y) == [z \in DOMAIN f \cup {x} |-> IF z = x THEN y ELSE f[z]]

\* Different qubits for an operation (QCirGate::qubit_id_is_unique)
BitsFor(op) == {bits \in [1 .. Arity[op] -> QubitIds] : IsInjective(bits)}

QCirInit == /\ numQubits = 0
            /\ gates = <<>>
            /\ first = <<>>
            /\ last = <<>>
            /\ preds = <<>>
            /\ succs = <<>>
            /\ gateId = 0
            /\ gateList = <<>>
            /\ dirty = TRUE
            /\ todo = <<>>

-----------------------------------------------------------------------------
(* The topological order                                                   *)

TopologicalOrder ==
    DfsOrder([q \in 1 .. numQubits |-> first[q - 1]], succs, Cardinality(DOMAIN succs))

\* What get_gates returns
CurrentGates == IF dirty THEN TopologicalOrder ELSE gateList

\* _update_topological_order
UpdateTopologicalOrder == /\ gateList' = CurrentGates
                          /\ dirty' = FALSE

\* calculate_gate_times, along the list of get_gates
GateTimes ==
    LET list == CurrentGates
        after[n \in 0 .. Len(list)] ==
            IF n = 0 THEN <<>>
            ELSE LET times == after[n - 1]
                     before == ToSet(preds[list[n]])
                 IN  WithEntry(times, list[n],
                               1 + Max({IF g = NoGate THEN 0 ELSE times[g] : g \in before}))
    IN  after[Len(list)]

CalculateDepth == IF gates = <<>> THEN 0 ELSE Max(Range(GateTimes))

-----------------------------------------------------------------------------
(* Gates                                                                   *)

\* The pin of a gate on qubit q (QCirGate::get_pin_by_qubit)
PinByQubit(gs, g, q) == CHOOSE pin \in DOMAIN gs[g].qubits : gs[g].qubits[pin] = q

\* A gate links at the end (append) or at the start (prepend) of its lines:
\* ends is last or first, and there the links inward of the old end gates
\* lead to g.
LinkInward(gs, ends, inward, g, bits) ==
    [h \in DOMAIN gs \cup {g} |->
        IF h = g THEN [pin \in DOMAIN bits |-> NoGate]
        ELSE [pin \in DOMAIN gs[h].qubits |->
                 LET q == gs[h].qubits[pin]
                 IN  IF q \in ToSet(bits) /\ ends[q] = h THEN g ELSE inward[h][pin]]]

\* ... and those of g lead to the old end gates.
\* (mutant: only the first pin is linked)
LinkFirstOutward(ends, outward, g, bits) ==
    WithEntry(outward, g, [pin \in DOMAIN bits |-> IF pin = 1 THEN ends[bits[pin]] ELSE NoGate])
LinkOutward(ends, outward, g, bits) ==
    WithEntry(outward, g, [pin \in DOMAIN bits |-> ends[bits[pin]]])

\* The end of every line of g
AtEnd(ends, g, bits) ==
    [q \in DOMAIN ends |-> IF q \in ToSet(bits) THEN g ELSE ends[q]]

\* The other end of a line that was empty
AtEmpty(ends, g, bits) ==
    [q \in DOMAIN ends |-> IF q \in ToSet(bits) /\ ends[q] = NoGate THEN g ELSE ends[q]]

AddGate(op, bits) ==
    /\ Cardinality(DOMAIN gates) < MaxGates
    /\ gateId < MaxId
    /\ gates' = WithEntry(gates, gateId, [op |-> op, qubits |-> bits])
    /\ gateId' = gateId + 1
    /\ dirty' = TRUE
    /\ UNCHANGED <<numQubits, gateList>>

\* QCir::prepend (mutant of append: the gate goes to the wrong side)
PrependGate(op, bits) ==
    /\ AddGate(op, bits)
    /\ preds' = LinkInward(gates, first, preds, gateId, bits)
    /\ succs' = LinkOutward(first, succs, gateId, bits)
    /\ first' = AtEnd(first, gateId, bits)
    /\ last' = AtEmpty(last, gateId, bits)

\* QCir::append
AppendGate(op, bits) ==
    /\ AddGate(op, bits)
    /\ succs' = LinkInward(gates, last, succs, gateId, bits)
    /\ preds' = LinkOutward(last, preds, gateId, bits)
    /\ last' = AtEnd(last, gateId, bits)
    /\ first' = AtEmpty(first, gateId, bits)

\* The links of the gates that stay when g goes: where from leads to a
\* neighbour of g, the neighbour is linked to what is on the other side of g.
Bridge(gs, g, from, links) ==
    [h \in DOMAIN gs \ {g} |-> [pin \in DOMAIN gs[h].qubits |->
        IF \E i \in DOMAIN from[g] : /\ from[g][i] = h
                                     /\ gs[g].qubits[i] = gs[h].qubits[pin]
        THEN links[g][PinByQubit(gs, g, gs[h].qubits[pin])]
        ELSE links[h][pin]]]

\* The ends of the lines when g goes
EndsWithout(gs, g, ends, outward, inward) ==
    [q \in DOMAIN ends |->
        IF /\ q \in ToSet(gs[g].qubits)
           /\ outward[g][PinByQubit(gs, g, q)] = NoGate
        THEN inward[g][PinByQubit(gs, g, q)]
        ELSE ends[q]]

\* QCir::remove_gate (mutant: the cached order is kept).  The entries of the
\* gate in _predecessors and _successors stay in the code, but nothing can ask
\* for them: its id is not given again as long as they are there.
RemoveGateKeepsOrder(g) ==
    /\ gates' = [h \in DOMAIN gates \ {g} |-> gates[h]]
    /\ succs' = Bridge(gates, g, preds, succs)
    /\ preds' = Bridge(gates, g, succs, preds)
    /\ first' = EndsWithout(gates, g, first, preds, succs)
    /\ last' = EndsWithout(gates, g, last, succs, preds)
    /\ UNCHANGED <<numQubits, gateId, gateList, dirty>>
RemoveGate(g) ==
    /\ gates' = [h \in DOMAIN gates \ {g} |-> gates[h]]
    /\ succs' = Bridge(gates, g, preds, succs)
    /\ preds' = Bridge(gates, g, succs, preds)
    /\ first' = EndsWithout(gates, g, first, preds, succs)
    /\ last' = EndsWithout(gates, g, last, succs, preds)
    /\ dirty' = TRUE
    /\ UNCHANGED <<numQubits, gateId, gateList>>

\* QCir::adjoint_inplace
AdjointInplace ==
    /\ gates' = [g \in DOMAIN gates |-> [gates[g] EXCEPT !.op = Adjoint[@]]]
    /\ succs' = preds
    /\ preds' = succs
    /\ first' = last
    /\ last' = first
    /\ dirty' = TRUE
    /\ UNCHANGED <<numQubits, gateId, gateList>>

-----------------------------------------------------------------------------
(* Qubits                                                                  *)

\* The gates of the list with the qubits renamed
Renamed(list, to(_)) ==
    [g \in DOMAIN gates |->
        IF g \in ToSet(list)
        THEN [gates[g] EXCEPT !.qubits = [pin \in DOMAIN @ |-> to(@[pin])]]
        ELSE gates[g]]

\* A map over the qubits with a new line id, where it is NoGate
WithLine(ends, id) ==
    [q \in 0 .. numQubits |-> IF q < id THEN ends[q]
                              ELSE IF q = id THEN NoGate ELSE ends[q - 1]]

\* QCir::insert_qubit.  The gates to rename are those of get_gates, which
\* already sees the new line.
InsertQubit(id) ==
    /\ numQubits < MaxQubits
    /\ numQubits' = numQubits + 1
    /\ first' = WithLine(first, id)
    /\ last' = WithLine(last, id)
    /\ gates' = Renamed(CurrentGates, LAMBDA q : IF q >= id THEN q + 1 ELSE q)
    /\ UpdateTopologicalOrder
    /\ UNCHANGED <<linkVars, gateId>>

\* QCir::add_qubits
AddQubits(num) ==
    /\ numQubits + num <= MaxQubits
    /\ numQubits' = numQubits + num
    /\ first' = [q \in 0 .. numQubits + num - 1 |-> IF q < numQubits THEN first[q] ELSE NoGate]
    /\ last' = [q \in 0 .. numQubits + num - 1 |-> IF q < numQubits THEN last[q] ELSE NoGate]
    /\ UNCHANGED <<gates, linkVars, gateId, cacheVars>>

\* QCir::remove_qubit of an empty line
RemoveQubit(id) ==
    /\ first[id] = NoGate /\ last[id] = NoGate
    /\ numQubits' = numQubits - 1
    /\ first' = [q \in 0 .. numQubits - 2 |-> IF q < id THEN first[q] ELSE first[q + 1]]
    /\ last' = [q \in 0 .. numQubits - 2 |-> IF q < id THEN last[q] ELSE last[q + 1]]
    /\ gates' = Renamed(CurrentGates, LAMBDA q : IF q > id THEN q - 1 ELSE q)
    /\ UpdateTopologicalOrder
    /\ UNCHANGED <<linkVars, gateId>>

-----------------------------------------------------------------------------
(* Copies and compositions                                                 *)

\* The gate before (step = -1) or after (step = 1) every pin, when the gates
\* of order are linked one by one
Neighbours(order, step) ==
    [g \in ToSet(order) |-> [pin \in DOMAIN gates[g].qubits |->
        LET at == CHOOSE i \in DOMAIN order : order[i] = g
            beyond == {i \in DOMAIN order : /\ gates[g].qubits[pin] \in ToSet(gates[order[i]].qubits)
                                            /\ (i - at) * step > 0}
        IN  IF beyond = {} THEN NoGate
            ELSE order[IF step > 0 THEN Min(beyond) ELSE Max(beyond)]]]

\* The copy constructor, and the assignment that swaps the copy in: the gates
\* keep their ids and are linked anew in the order of get_gates; the ids start
\* again behind the largest one.
NextId(list) == IF list = <<>> THEN 0 ELSE 1 + Max(ToSet(list))

CopyAssign ==
    LET list == CurrentGates
        of(q) == {i \in DOMAIN list : q \in ToSet(gates[list[i]].qubits)}
    IN  /\ gates' = [g \in ToSet(list) |-> gates[g]]
        /\ first' = [q \in QubitIds |-> IF of(q) = {} THEN NoGate ELSE list[Min(of(q))]]
        /\ last' = [q \in QubitIds |-> IF of(q) = {} THEN NoGate ELSE list[Max(of(q))]]
        /\ preds' = Neighbours(list, -1)
        /\ succs' = Neighbours(list, 1)
        /\ gateId' = NextId(list)
        /\ gateList' = <<>>
        /\ dirty' = TRUE
        /\ UNCHANGED numQubits

\* What is left to append of a list of gates that sit shift lines further down
Shifted(list, shift) ==
    [i \in DOMAIN list |-> [list[i] EXCEPT !.qubits = [pin \in DOMAIN @ |-> @[pin] + shift]]]

\* QCir::compose and QCir::tensor_product with another circuit: lines are
\* added, then the gates
Compose(other) ==
    /\ AddQubits(IF other.numQubits > numQubits THEN other.numQubits - numQubits ELSE 0)
    /\ todo' = other.gates

TensorProduct(other) ==
    /\ AddQubits(other.numQubits)
    /\ todo' = Shifted(other.gates, numQubits)

\* ... and with itself: the list of get_gates is the cached one, which the
\* appended gates only mark as dirty.
ComposeSelf ==
    /\ UpdateTopologicalOrder
    /\ todo' = [i \in DOMAIN CurrentGates |-> gates[CurrentGates[i]]]
    /\ UNCHANGED <<qubitVars, gates, linkVars, gateId>>

\* One iteration of their loop
AppendNext == /\ todo # <<>>
              /\ AppendGate(Head(todo).op, Head(todo).qubits)
              /\ todo' = Tail(todo)

-----------------------------------------------------------------------------
\* get_gates, from any caller
GetGatesOrder == /\ UpdateTopologicalOrder
                 /\ UNCHANGED <<qubitVars, gates, linkVars, gateId>>

Edit == \/ \E num \in 1 .. MaxQubits : AddQubits(num)
        \/ \E id \in 0 .. numQubits : InsertQubit(id)
        \/ \E id \in QubitIds : RemoveQubit(id)
        \/ \E op \in DOMAIN Adjoint : \E bits \in BitsFor(op) :
              AppendGate(op, bits) \/ PrependGate(op, bits)
        \/ \E g \in DOMAIN gates : RemoveGate(g)
        \/ AdjointInplace
        \/ CopyAssign
        \/ GetGatesOrder

\* A list that fits the bounds
Fits(list) == /\ Cardinality(DOMAIN gates) + Len(list) <= MaxGates
              /\ gateId + Len(list) <= MaxId

QCirNext ==
    \/ /\ todo = <<>>
       /\ Edit
       /\ UNCHANGED todo
    \/ /\ todo = <<>>
       /\ \E other \in Others : /\ Fits(other.gates)
                                /\ Compose(other) \/ TensorProduct(other)
    \/ /\ todo = <<>>
       /\ Fits(CurrentGates)
       /\ ComposeSelf
    \/ AppendNext

QCirSpec == QCirInit /\ [][QCirNext]_qcirVars

-----------------------------------------------------------------------------
\* The line of qubit q as the links show it: from the end gate along links
Follow(gs, ends, links, q) ==
    LET at[i \in 1 .. Cardinality(DOMAIN gs) + 1] ==
            IF i = 1 THEN ends[q]
            ELSE IF at[i - 1] = NoGate THEN NoGate
            ELSE links[at[i - 1]][PinByQubit(gs, at[i - 1], q)]
    IN  SubSeq(at, 1, Cardinality({i \in DOMAIN at : at[i] # NoGate}))

Lines == [q \in QubitIds |-> Follow(gates, first, succs, q)]

\* The same line is read from both sides, and it holds exactly the gates on
\* the qubit: append, prepend, remove_gate and adjoint_inplace change four
\* maps that must agree.
LinesAgree ==
    \A q \in QubitIds :
        /\ Follow(gates, last, preds, q) = Reverse(Lines[q])
        /\ IsInjective(Lines[q])
        /\ ToSet(Lines[q]) = {g \in DOMAIN gates : q \in ToSet(gates[g].qubits)}

\* A cached order that is handed out without a new search is still an order of
\* exactly the gates of the circuit, in which every line goes forward.
CacheIsTopological ==
    ~dirty => /\ IsInjective(gateList)
              /\ ToSet(gateList) = DOMAIN gates
              /\ \A g, h \in DOMAIN gates :
                    h \in ToSet(succs[g]) =>
                        (CHOOSE i \in DOMAIN gateList : gateList[i] = g)
                            < (CHOOSE i \in DOMAIN gateList : gateList[i] = h)

\* g comes before h on a line
Precedes(g, h) == \E q \in QubitIds : \E i, j \in DOMAIN Lines[q] :
                      i < j /\ Lines[q][i] = g /\ Lines[q][j] = h

\* A set of gates that have to run one after the other
IsChain(S) == \E order \in SetToSeqs(S) :
                 \A i \in 2 .. Len(order) : Precedes(order[i - 1], order[i])

\* The depth is the length of the longest chain of gates that wait for each
\* other, however the cached order came about.
DepthIsLongestChain ==
    CalculateDepth = Max({Cardinality(S) : S \in {T \in SUBSET DOMAIN gates : IsChain(T)}})

\* What the circuit answers from what it has cached is what a new search would say.
CachesAgree == CacheIsTopological /\ DepthIsLongestChain

Wires == INSTANCE WireLists WITH lines <- Lines

\* The new gate is what was asked for.
NewGateIs(op, bits) == gates'[gateId] = [op |-> op, qubits |-> bits]

\* What each operation is on the lines
OperationsAsNamed ==
    /\ \A num \in 1 .. MaxQubits : AddQubits(num) => Wires!InsertWires(numQubits, num)
    /\ \A id \in 0 .. numQubits : InsertQubit(id) => Wires!InsertWires(id, 1)
    /\ \A id \in QubitIds : RemoveQubit(id) => Wires!RemoveEmptyWire(id)
    /\ \A op \in DOMAIN Adjoint : \A bits \in BitsFor(op) :
          /\ AppendGate(op, bits) => Wires!AppendWire(gateId) /\ NewGateIs(op, bits)
          /\ PrependGate(op, bits) => Wires!PrependWire(gateId) /\ NewGateIs(op, bits)
    /\ \A g \in DOMAIN gates : RemoveGate(g) => Wires!RemoveWire(g)
    /\ AdjointInplace => Wires!AdjointWires
    /\ CopyAssign \/ GetGatesOrder => UNCHANGED <<numQubits, gates, Lines>>

\* To its callers a QCir is one line of gates for every qubit, and every
\* operation changes the lines as its name says, after any others: append
\* puts the gate behind all that are there and prepend before them, while a
\* copy changes nothing and neither does the search for an order.
KeepsTheLines == Wires!WireSpec /\ [][OperationsAsNamed]_qcirVars
=============================================================================
