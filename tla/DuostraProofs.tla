---------------------------- MODULE DuostraProofs -----------------------------
(***************************************************************************)
(* Proofs about Duostra::map: whatever the device, the logical circuit, the *)
(* placement, the scheduler and the router, the waiting list of the         *)
(* scheduler is exact, the physical circuit is a run of the logical one     *)
(* (MappedRun), and the check of the mapping (--check) accepts it whenever  *)
(* the placer, asked once more, answers the same.                           *)
(***************************************************************************)
EXTENDS Duostra, RouterCalls

-----------------------------------------------------------------------------
(* The inductive invariant                                                 *)

\* What the call was given
JobOK ==
    /\ job \in Jobs
    /\ circuit = job.circuit

\* The gates that were routed before the one that the router works on
Before == Routed \ routingGate

Applied == {i \in DOMAIN operations : ~operations[i].routing}

\* Where the call is, seen from the gate that the router works on
RoutingOK ==
    /\ routingGate = {} => Idle
    /\ stage # "assign" => routingGate = {}
    /\ \/ routingGate = {}
       \/ \E id \in Ready(circuit, Before) : /\ routingGate = {id}
                                             /\ gate = GetGate(circuit, id)
                                             /\ id \in Routed <=> Finished

\* The gates that were routed, each of them once and after all that it requires
OrderOK ==
    /\ Closed(circuit, Before)
    /\ \A i, j \in Applied : operations[i].id = operations[j].id => i = j
    /\ \A i \in Applied : \A x \in Requires(circuit, operations[i].id) :
          \E j \in Applied : j < i /\ operations[j].id = x

\* How many pins of a gate lead to a gate that was routed
SuccessorsRouted(id) == {pin \in DOMAIN GetSuccessors(circuit, id) :
                            GetSuccessors(circuit, id)[pin] \in Before}

\* The waiting list, and the map of executed gates from which a gate is only dropped when
\* all its successors were routed
WaitingOK ==
    /\ ToSet(availableGates) = Ready(circuit, Before)
    /\ availableGates \in Seq(GateIds(circuit))
    /\ DOMAIN executedGates \subseteq Before
    /\ \A p \in DOMAIN executedGates :
          executedGates[p] \in Nat /\ executedGates[p] <= Cardinality(SuccessorsRouted(p))
    /\ \A j, k \in DOMAIN circuit, l \in Qubits :
          /\ circuit[j].id \in Before \ DOMAIN executedGates
          /\ Follows(circuit, l, j, k)
          => circuit[k].id \in Before

\* The base scheduler takes the ids in their order, and all count them.
CountOK ==
    /\ nextGate \in Nat
    /\ IsFiniteSet(Before \cup routingGate)
    /\ nextGate = Cardinality(Before \cup routingGate)
    /\ scheduler.type = "base" => Before \cup routingGate = 0 .. nextGate - 1

-----------------------------------------------------------------------------
(* The labels of the physical qubits before each operation, and after the   *)
(* last one: held[i] before operations[i].                                  *)

\* Every logical qubit is at one place.  The labels change where an operation exchanges them,
\* and nowhere else; a gate is on the qubits that hold its own.
LabelsOK(held) ==
    /\ held \in Seq([Qubits -> Qubits])
    /\ Len(held) = Len(operations) + 1
    /\ held[Len(held)] = logicalQubit
    /\ \A i \in DOMAIN held, p, q \in Qubits : held[i][p] = held[i][q] => p = q
    /\ \A q \in Qubits, i, j \in DOMAIN held :
          (i <= j /\ \A k \in i .. j - 1 : q \notin On(operations[k])) => held[i][q] = held[j][q]
    /\ \A i \in DOMAIN operations \ Applied :
          LET qs == operations[i].qubits
          IN  /\ IsRouting(operations[i])
              /\ held[i + 1][qs[1]] = held[i][qs[2]] /\ held[i + 1][qs[2]] = held[i][qs[1]]
    /\ \A i \in Applied :
          LET qs == operations[i].qubits
          IN  \E k \in DOMAIN circuit :
                 /\ operations[i].id = circuit[k].id /\ operations[i].op = circuit[k].op
                 /\ Len(qs) = Len(circuit[k].qubits)
                 /\ \A pin \in DOMAIN qs : /\ held[i][qs[pin]] = circuit[k].qubits[pin]
                                           /\ held[i + 1][qs[pin]] = circuit[k].qubits[pin]

\* A SWAP that the router adds moves a qubit of the gate that it works on, which is listed
\* later, behind all that it requires, and no other one of that gate.
SwapsOK(held) ==
    \A i \in DOMAIN operations \ Applied : \E k \in DOMAIN circuit :
        /\ \A j \in Applied : j < i => operations[j].id # circuit[k].id
        /\ \A x \in Requires(circuit, circuit[k].id) :
              \E j \in Applied : j < i /\ operations[j].id = x
        /\ \E p, q \in On(operations[i]) : /\ held[i][p] \in ToSet(circuit[k].qubits)
                                           /\ held[i][q] \notin ToSet(circuit[k].qubits)

\* The operations were followed, in an order that on each physical qubit is that of the list,
\* up to those in rest: they have brought the logical qubits to where, and ran are the gates.
Progress(held, rest, where, ran) ==
    /\ rest \subseteq DOMAIN operations
    /\ where \in [Qubits -> Qubits]
    /\ \A q \in Qubits : \E k \in DOMAIN held :
          /\ \A i \in DOMAIN operations : q \in On(operations[i]) => (i \in rest <=> k <= i)
          /\ where[held[k][q]] = q
    /\ ran = {operations[i].id : i \in Applied \ rest}

\* An operation that may be followed next: none in rest comes before it on its qubits.
MayFollow(rest, i) ==
    /\ i \in rest
    /\ \A j \in rest : On(operations[j]) \cap On(operations[i]) # {} => i <= j

\* The operations that are not yet in the physical circuit
Unbuilt == IF stage = "assign" THEN DOMAIN operations ELSE unbuilt

BuiltOK(held) == Progress(held, Unbuilt, at, done)

\* The labels before the first operation are those that the placer has given.
PlacedOK(held) == \E assignment \in Assignments(job.placer, device) :
    /\ assignment \in Bijection(Qubits, Qubits)
    /\ \A q \in Qubits : assignment[held[1][q]] = q

HistoryOK == \E held : LabelsOK(held) /\ SwapsOK(held) /\ BuiltOK(held) /\ PlacedOK(held)

-----------------------------------------------------------------------------
(* The physical circuit: starts[i] is where the gates written for operations[i] begin. *)

PhysicalOps == [op : GateTypes, qubits : Seq(Qubits) \ {<<>>}]

Written == DOMAIN operations \ Unbuilt

\* How many gates are written for an operation, and the one at place c of them
Width(i) == IF operations[i].op = "swap" THEN 3 ELSE 1

Entry(i, c) ==
    LET o == operations[i]
    IN  [op |-> IF o.op = "swap" THEN "cx" ELSE o.op,
         qubits |-> IF o.op = "swap" /\ c = 2 THEN <<o.qubits[2], o.qubits[1]>> ELSE o.qubits]

\* The gates of an operation are written one behind the other, and those of operations that
\* share a qubit in the order of the list.
LayoutOK(starts) ==
    /\ physical \in Seq(PhysicalOps)
    /\ starts \in [Written -> Nat \ {0}]
    /\ \A i \in Written : \A c \in 1 .. Width(i) :
          /\ starts[i] + c - 1 \in DOMAIN physical
          /\ physical[starts[i] + c - 1] = Entry(i, c)
    /\ \A x \in DOMAIN physical :
          \E i \in Written : \E c \in 1 .. Width(i) : x = starts[i] + c - 1
    /\ \A i, j \in Written : i # j => \/ starts[i] + Width(i) <= starts[j]
                                      \/ starts[j] + Width(j) <= starts[i]
    /\ \A i, j \in Written :
          i < j /\ On(operations[i]) \cap On(operations[j]) # {} => starts[i] < starts[j]

PhysicalOK == \E starts : LayoutOK(starts)

-----------------------------------------------------------------------------

\* After the assignment every gate was routed.
AllRouted == stage \in {"build", "mapped"} => Routed = GateIds(circuit)

MapInv ==
    /\ RouterInv
    /\ JobOK
    /\ stage \in {"assign", "build", "mapped", "interrupted"}
    /\ RoutingOK
    /\ OrderOK
    /\ WaitingOK
    /\ CountOK
    /\ AllRouted
    /\ stage = "mapped" => unbuilt = {}
    /\ stage \in {"assign", "interrupted"} => physical = <<>>
    /\ stage # "interrupted" => HistoryOK
    /\ stage \in {"build", "mapped"} => PhysicalOK

-----------------------------------------------------------------------------
(* What the call was given, and the state of the router                    *)

\* The logical circuit is a circuit on the qubits of the device, of gates on different
\* qubits.
LEMMA CircuitGiven ==
    ASSUME JobOK
    PROVE  /\ IsCircuit(circuit, Qubits)
           /\ GateIds(circuit) = 0 .. NumGates - 1 /\ NumGates \in Nat
           /\ \A i \in DOMAIN circuit : IsGate(circuit[i]) /\ circuit[i].op # "swap"
           /\ \A i \in DOMAIN circuit : \A p, q \in DOMAIN circuit[i].qubits :
                 circuit[i].qubits[p] = circuit[i].qubits[q] => p = q
           /\ IsFiniteSet(GateIds(circuit)) /\ Cardinality(GateIds(circuit)) = NumGates
<1>1. /\ IsCircuit(circuit, Qubits) /\ GateIds(circuit) = 0 .. NumGates - 1
      /\ \A i \in DOMAIN circuit : IsGate(circuit[i]) /\ circuit[i].op # "swap"
  BY JobsAssumption DEF JobOK, NumGates
<1>2. NumGates \in Nat
  BY <1>1, Positions DEF NumGates
<1>3. ASSUME NEW i \in DOMAIN circuit, NEW p \in DOMAIN circuit[i].qubits,
             NEW q \in DOMAIN circuit[i].qubits, circuit[i].qubits[p] = circuit[i].qubits[q]
      PROVE  p = q
  BY <1>1, <1>3 DEF IsGate
<1>4. IsFiniteSet(GateIds(circuit)) /\ Cardinality(GateIds(circuit)) = NumGates
  BY <1>1, <1>2, FS_Interval
<1>. QED
  BY <1>1, <1>2, <1>3, <1>4

\* The state of the router
LEMMA RouterState ==
    ASSUME RouterInv
    PROVE  /\ device \in Devices /\ occupiedTime \in [Qubits -> Nat]
           /\ logicalQubit \in [Qubits -> Qubits] /\ operations \in Seq(TimedOps)
           /\ \A p, q \in Qubits : logicalQubit[p] = logicalQubit[q] => p = q
           /\ DOMAIN operations = 1 .. Len(operations) /\ Len(operations) \in Nat
           /\ \A i \in DOMAIN operations : operations[i] \in TimedOps
<1>1. RouterTypeOK /\ PlacementConsistent
  BY DEF RouterInv, TimesInv
<1>2. /\ device \in Devices /\ occupiedTime \in [Qubits -> Nat]
      /\ logicalQubit \in [Qubits -> Qubits] /\ operations \in Seq(TimedOps)
      /\ \A p, q \in Qubits : logicalQubit[p] = logicalQubit[q] => p = q
  BY <1>1 DEF RouterTypeOK, PlacementConsistent
<1>. HIDE DEF TimedOps
<1>3. /\ DOMAIN operations = 1 .. Len(operations) /\ Len(operations) \in Nat
      /\ \A i \in DOMAIN operations : operations[i] \in TimedOps
  BY <1>2
<1>. QED
  BY <1>2, <1>3

\* What is in the list after another operation is appended
LEMMA OperationAppended ==
    ASSUME operations \in Seq(TimedOps), NEW o \in TimedOps,
           operations' = Append(operations, o)
    PROVE  /\ DOMAIN operations = 1 .. Len(operations) /\ Len(operations) \in Nat
           /\ DOMAIN operations' = 1 .. Len(operations) + 1
           /\ Len(operations') = Len(operations) + 1
           /\ operations'[Len(operations) + 1] = o
           /\ \A i \in DOMAIN operations : operations'[i] = operations[i]
           /\ Applied' = IF o.routing THEN Applied ELSE Applied \cup {Len(operations) + 1}
           /\ Routed' = IF o.routing THEN Routed ELSE Routed \cup {o.id}
<1>1. PICK n \in Nat : n = Len(operations) /\ DOMAIN operations = 1 .. n
  OBVIOUS
<1>2. /\ DOMAIN operations' = 1 .. n + 1 /\ Len(operations') = n + 1
      /\ operations'[n + 1] = o
      /\ \A i \in DOMAIN operations : operations'[i] = operations[i]
  BY <1>1
<1>3. \A i : i \in 1 .. n + 1 <=> i \in 1 .. n \/ i = n + 1
  BY <1>1
<1>4. Applied' = IF o.routing THEN Applied ELSE Applied \cup {n + 1}
  BY <1>1, <1>2, <1>3 DEF Applied
<1>5. /\ \A x : x \in Routed <=> \E i \in Applied : x = operations[i].id
      /\ \A x : x \in Routed' <=> \E i \in Applied' : x = operations'[i].id
  BY DEF Routed, Applied
<1>6. Applied \subseteq DOMAIN operations
  BY DEF Applied
<1>7. \A i \in Applied : operations'[i].id = operations[i].id
  BY <1>2, <1>6
<1>8. Routed' = IF o.routing THEN Routed ELSE Routed \cup {o.id}
  <2>1. CASE o.routing
    <3>1. Applied' = Applied
      BY <2>1, <1>4
    <3>2. \A x : x \in Routed' <=> x \in Routed
      <4>1. ASSUME NEW x, x \in Routed PROVE x \in Routed'
        <5>1. PICK i \in Applied : x = operations[i].id
          BY <4>1, <1>5
        <5>2. i \in Applied'
          BY <3>1
        <5>3. x = operations'[i].id
          BY <5>1, <1>7
        <5>. QED
          BY <5>2, <5>3, <1>5
      <4>2. ASSUME NEW x, x \in Routed' PROVE x \in Routed
        <5>1. PICK i \in Applied' : x = operations'[i].id
          BY <4>2, <1>5
        <5>2. i \in Applied
          BY <3>1
        <5>3. x = operations[i].id
          BY <5>1, <5>2, <1>7
        <5>. QED
          BY <5>2, <5>3, <1>5
      <4>. QED BY <4>1, <4>2
    <3>. QED
      BY <2>1, <3>2
  <2>2. CASE ~o.routing
    <3>1. Applied' = Applied \cup {n + 1} /\ operations'[n + 1].id = o.id
      BY <2>2, <1>2, <1>4
    <3>2. \A x : x \in Routed' <=> x \in Routed \/ x = o.id
      <4>1. ASSUME NEW x, x \in Routed PROVE x \in Routed'
        <5>1. PICK i \in Applied : x = operations[i].id
          BY <4>1, <1>5
        <5>2. i \in Applied' /\ x = operations'[i].id
          BY <3>1, <5>1, <1>7
        <5>. QED
          BY <5>2, <1>5
      <4>2. o.id \in Routed'
        <5>1. n + 1 \in Applied' /\ o.id = operations'[n + 1].id
          BY <3>1
        <5>. QED
          BY <5>1, <1>5
      <4>3. ASSUME NEW x, x \in Routed', x # o.id PROVE x \in Routed
        <5>1. PICK i \in Applied' : x = operations'[i].id
          BY <4>3, <1>5
        <5>2. i \in Applied
          BY <3>1, <4>3, <5>1
        <5>3. x = operations[i].id
          BY <5>1, <5>2, <1>7
        <5>. QED
          BY <5>2, <5>3, <1>5
      <4>. QED BY <4>1, <4>2, <4>3
    <3>. QED
      BY <2>2, <3>2
  <2>. QED
    BY <2>1, <2>2
<1>. QED
  BY <1>1, <1>2, <1>4, <1>8

-----------------------------------------------------------------------------
(* The choice of the next gate                                             *)

\* Whatever the scheduler prefers, it takes a gate from the waiting list; the base
\* scheduler, which does not look, takes one that is ready all the same.
LEMMA NextIsReady ==
    ASSUME JobOK, WaitingOK, CountOK, routingGate = {},
           NEW id \in NextGates, id \in GateIds(circuit)
    PROVE  id \in Ready(circuit, Before)
<1>1. availableGates \in Seq(GateIds(circuit)) /\ ToSet(availableGates) = Ready(circuit, Before)
  BY DEF WaitingOK
<1>2. \A i \in 1 .. Len(availableGates) : availableGates[i] \in ToSet(availableGates)
  BY <1>1 DEF ToSet
<1>3. ExecutableGate \subseteq ToSet(availableGates)
  <2>1. PICK found : found = {i \in 1 .. Len(availableGates) : IsExecutable(availableGates[i])}
    OBVIOUS
  <2>2. ExecutableGate = IF (IF found # {} THEN Min(found) ELSE 0) = 0 THEN {}
                         ELSE {availableGates[IF found # {} THEN Min(found) ELSE 0]}
    BY <2>1 DEF ExecutableGate, SelectInSeq
  <2>3. CASE found = {}
    BY <2>2, <2>3
  <2>4. CASE found # {}
    <3>1. found \subseteq Nat /\ found \subseteq 1 .. Len(availableGates)
      BY <2>1
    <3>2. Min(found) \in 1 .. Len(availableGates)
      BY <2>4, <3>1, MinOfNaturals
    <3>. QED
      BY <1>2, <2>2, <2>4, <3>2
  <2>. QED
    BY <2>3, <2>4
<1>4. FirstAvailable \subseteq ToSet(availableGates)
  BY <1>1 DEF FirstAvailable, ToSet
<1>5. GreedyFallback \subseteq ToSet(availableGates)
  <2>1. PICK n : n = Min({Len(availableGates), scheduler.candidates})
    OBVIOUS
  <2>2. n \in Nat /\ n <= Len(availableGates)
    <3>1. scheduler.candidates \in Nat /\ Len(availableGates) \in Nat
      BY <1>1, JobsAssumption DEF JobOK, scheduler
    <3>2. /\ {Len(availableGates), scheduler.candidates} \subseteq Nat
          /\ {Len(availableGates), scheduler.candidates} # {}
      BY <3>1
    <3>. QED
      BY <2>1, <3>1, <3>2, MinOfNaturals
  <2>3. Waitlist = SubSeq(availableGates, 1, n)
    BY <2>1 DEF Waitlist
  <2>4. \A i \in DOMAIN Waitlist : Waitlist[i] \in ToSet(availableGates)
    BY <1>1, <1>2, <2>2, <2>3
  <2>5. \A x \in GreedyFallback : \E i \in DOMAIN Waitlist : x = Waitlist[i]
    BY DEF GreedyFallback
  <2>. QED
    BY <2>4, <2>5
<1>6. CASE scheduler.type = "base"
  <2>1. id = nextGate /\ Before = 0 .. nextGate - 1 /\ nextGate \in Nat
    BY <1>6 DEF NextGates, CountOK
  <2>2. \A i \in DOMAIN circuit : circuit[i].id = i - 1
    BY <1>6, JobsAssumption DEF JobOK, scheduler
  <2>3. PICK i \in DOMAIN circuit : id = circuit[i].id
    BY DEF GateIds
  <2>4. ASSUME NEW x \in Requires(circuit, id) PROVE x \in 0 .. nextGate - 1
    <3>1. PICK j \in DOMAIN circuit : x = circuit[j].id /\ j < i
      BY <2>3, CircuitGiven, RequiresAt
    <3>2. j \in Nat /\ i \in Nat /\ circuit[j].id \in Nat
      BY CircuitGiven, GateAt
    <3>3. x = j - 1 /\ id = i - 1
      BY <2>2, <2>3, <3>1
    <3>. QED
      BY <2>1, <3>1, <3>2, <3>3
  <2>. QED
    BY <2>1, <2>4 DEF Ready
<1>7. CASE scheduler.type \in {"naive", "random", "greedy", "search"}
  <2>1. ImmediateNext \subseteq ToSet(availableGates)
    BY <1>3, <1>4 DEF ImmediateNext
  <2>2. NextGates \subseteq ToSet(availableGates)
    BY <1>3, <1>4, <1>5, <1>7, <2>1 DEF NextGates
  <2>. QED
    BY <1>1, <2>2
<1>. QED
  BY <1>6, <1>7, JobsAssumption DEF JobOK, scheduler

-----------------------------------------------------------------------------
(* The order of the gates while the router works on one of them            *)

\* The gate that the router works on is ready, so it may be listed behind all that is
\* there; what was routed before it stays the same until the router returns.
LEMMA ListingKeepsOrder ==
    ASSUME OrderOK, operations \in Seq(TimedOps), NEW id \in Ready(circuit, Before),
           routingGate \subseteq {id}, routingGate' = {id}, id \notin Routed,
           NEW o \in TimedOps, operations' = Append(operations, o),
           o.routing \/ o.id = id, UNCHANGED circuit
    PROVE  OrderOK' /\ Before' = Before /\ (id \in Routed' <=> ~o.routing)
<1>1. PICK n \in Nat : n = Len(operations)
  OBVIOUS
<1>2. /\ DOMAIN operations = 1 .. n
      /\ operations'[n + 1] = o
      /\ \A i \in DOMAIN operations : operations'[i] = operations[i]
      /\ Applied' = IF o.routing THEN Applied ELSE Applied \cup {n + 1}
      /\ Routed' = IF o.routing THEN Routed ELSE Routed \cup {o.id}
  BY <1>1, OperationAppended
<1>3. Before' = Before /\ (id \in Routed' <=> ~o.routing)
  BY <1>2 DEF Before
<1>4. Applied \subseteq 1 .. n /\ \A i \in Applied : operations'[i] = operations[i]
  BY <1>2 DEF Applied
<1>5. \A x : x \in Routed <=> \E i \in Applied : x = operations[i].id
  BY DEF Routed, Applied
<1>6. Closed(circuit, Before)'
  BY <1>3 DEF OrderOK
<1>7. ASSUME NEW i \in Applied', NEW j \in Applied', operations'[i].id = operations'[j].id
      PROVE  i = j
  <2>1. ASSUME NEW k \in Applied PROVE operations'[k].id # id
    BY <1>4, <1>5
  <2>. QED
    BY <1>2, <1>4, <1>7, <2>1 DEF OrderOK
<1>8. ASSUME NEW i \in Applied', NEW x \in Requires(circuit, operations'[i].id)
      PROVE  \E j \in Applied' : j < i /\ operations'[j].id = x
  <2>1. CASE i \in Applied
    <3>1. PICK j \in Applied : j < i /\ operations[j].id = x
      BY <1>4, <1>8, <2>1 DEF OrderOK
    <3>. QED
      BY <1>2, <1>4, <3>1
  <2>2. CASE i \notin Applied
    <3>1. i = n + 1 /\ operations'[i].id = id /\ ~o.routing
      BY <1>2, <2>2
    <3>2. x \in Routed
      BY <1>8, <3>1 DEF Ready, Before
    <3>3. PICK j \in Applied : x = operations[j].id
      BY <1>5, <3>2
    <3>4. j < n + 1 /\ j \in Applied' /\ operations'[j].id = x
      BY <1>2, <1>4, <3>1, <3>3
    <3>. QED
      BY <3>1, <3>4
  <2>. QED
    BY <2>1, <2>2
<1>. QED
  BY <1>3, <1>6, <1>7, <1>8 DEF OrderOK

\* When nothing is listed nothing changes.
LEMMA NoListingKeepsOrder ==
    ASSUME OrderOK, UNCHANGED <<operations, circuit>>, Before' = Before
    PROVE  OrderOK' /\ Routed' = Routed
<1>1. Routed' = Routed /\ Applied' = Applied
  BY DEF Routed, Applied
<1>. QED
  BY <1>1 DEF OrderOK

\* The waiting list rests while the router works.
LEMMA WaitingRests ==
    ASSUME WaitingOK, Before' = Before, UNCHANGED topologyVars
    PROVE  WaitingOK'
<1>1. circuit' = circuit /\ availableGates' = availableGates /\ executedGates' = executedGates
  BY DEF topologyVars
<1>2. \A p : SuccessorsRouted(p)' = SuccessorsRouted(p)
  BY <1>1 DEF SuccessorsRouted
<1>. QED
  BY <1>1, <1>2 DEF WaitingOK

\* The scheduler counts the gate that it hands to the router.
LEMMA CountsUp ==
    ASSUME JobOK, WaitingOK, CountOK, routingGate = {}, UNCHANGED job,
           NEW id \in NextGates, id \in Ready(circuit, Before),
           nextGate' = nextGate + 1, routingGate' = {id}, Before' = Before
    PROVE  CountOK'
<1>1. /\ nextGate \in Nat /\ IsFiniteSet(Before) /\ nextGate = Cardinality(Before)
      /\ scheduler.type = "base" => Before = 0 .. nextGate - 1
  BY DEF CountOK
<1>2. id \notin Before
  BY DEF Ready
<1>3. IsFiniteSet(Before \cup {id}) /\ Cardinality(Before \cup {id}) = nextGate + 1
  BY <1>1, <1>2, FS_AddElement
<1>4. scheduler.type = "base" => Before \cup {id} = 0 .. nextGate
  BY <1>1 DEF NextGates
<1>5. Before' \cup routingGate' = Before \cup {id} /\ scheduler' = scheduler
  BY DEF scheduler
<1>6. nextGate' \in Nat /\ nextGate' - 1 = nextGate
  BY <1>1
<1>. QED
  BY <1>3, <1>4, <1>5, <1>6 DEF CountOK

LEMMA CountRests ==
    ASSUME CountOK, UNCHANGED <<job, nextGate>>,
           Before' \cup routingGate' = Before \cup routingGate
    PROVE  CountOK'
  BY DEF CountOK, scheduler

-----------------------------------------------------------------------------
(* The waiting list after a gate was routed                                *)

\* When the router returns, its gate is among those that were routed.
LEMMA RouterReturns ==
    ASSUME RoutingOK, Idle, NEW id \in routingGate, routingGate' = {}, UNCHANGED operations
    PROVE  /\ routingGate = {id} /\ id \in Ready(circuit, Before)
           /\ Routed' = Routed /\ Routed = Before \cup {id} /\ Before' = Before \cup {id}
<1>1. /\ routingGate = {id} /\ id \in Ready(circuit, Before) /\ id \in Routed
  BY DEF RoutingOK, Finished
<1>2. Routed' = Routed
  BY DEF Routed
<1>. QED
  BY <1>1, <1>2 DEF Before

\* The pins of a gate
LEMMA PinsOfGate ==
    ASSUME JobOK, NEW i \in DOMAIN circuit
    PROVE  /\ DOMAIN GetPredecessors(circuit, circuit[i].id) = DOMAIN circuit[i].qubits
           /\ DOMAIN GetSuccessors(circuit, circuit[i].id) = DOMAIN circuit[i].qubits
           /\ GetSuccessors(circuit, circuit[i].id) \in Seq(GateIds(circuit) \cup {NoGate})
           /\ IsFiniteSet(DOMAIN circuit[i].qubits)
<1>1. GetGate(circuit, circuit[i].id) = circuit[i] /\ circuit[i].qubits \in Seq(Qubits)
  BY CircuitGiven, GateAt
<1>2. PICK n \in Nat : DOMAIN circuit[i].qubits = 1 .. n
  BY <1>1
<1>3. /\ DOMAIN GetPredecessors(circuit, circuit[i].id) = DOMAIN circuit[i].qubits
      /\ DOMAIN GetSuccessors(circuit, circuit[i].id) = DOMAIN circuit[i].qubits
  BY <1>1 DEF GetPredecessors, GetSuccessors
<1>4. ASSUME NEW pin \in DOMAIN circuit[i].qubits
      PROVE  GetSuccessors(circuit, circuit[i].id)[pin] \in GateIds(circuit) \cup {NoGate}
  BY CircuitGiven, SuccessorFollows DEF GateIds
<1>5. GetSuccessors(circuit, circuit[i].id) \in Seq(GateIds(circuit) \cup {NoGate})
  <2>1. PICK succ : succ = GetSuccessors(circuit, circuit[i].id)
    OBVIOUS
  <2>2. succ = [pin \in 1 .. n |-> succ[pin]]
    BY <1>1, <1>2, <2>1 DEF GetSuccessors
  <2>. QED
    BY <1>2, <1>4, <2>1, <2>2
<1>6. IsFiniteSet(DOMAIN circuit[i].qubits)
  BY <1>2, FS_Interval
<1>. QED
  BY <1>3, <1>5, <1>6

\* The number of routed successors that update_available_gates sees for a gate is at most
\* what there are.
LEMMA SeenSuccessors ==
    ASSUME JobOK, OrderOK, WaitingOK, NEW id \in Ready(circuit, Before),
           Before' = Before \cup {id}, UNCHANGED circuit,
           NEW p \in GateIds(circuit), NEW more, NEW seen,
           more = {pin \in Present(GetPredecessors(circuit, id)) :
                      GetPredecessors(circuit, id)[pin] = p},
           seen = (IF p \in DOMAIN executedGates THEN executedGates[p] ELSE 0)
                  + Cardinality(more)
    PROVE  /\ seen \in Nat /\ seen <= Cardinality(SuccessorsRouted(p)')
           /\ SuccessorsRouted(p)' \subseteq Present(GetSuccessors(circuit, p))
           /\ IsFiniteSet(Present(GetSuccessors(circuit, p)))
<1>1. PICK i \in DOMAIN circuit, j \in DOMAIN circuit : id = circuit[i].id /\ p = circuit[j].id
  BY DEF Ready, GateIds
<1>2. PICK succ : succ = GetSuccessors(circuit, p)
  OBVIOUS
<1>3. /\ DOMAIN succ = DOMAIN circuit[j].qubits /\ IsFiniteSet(DOMAIN succ)
      /\ DOMAIN GetPredecessors(circuit, id) = DOMAIN circuit[i].qubits
  BY <1>1, <1>2, PinsOfGate
<1>4. PICK old : old = {pin \in DOMAIN succ : succ[pin] \in Before}
  OBVIOUS
<1>5. PICK new : new = {pin \in DOMAIN succ : succ[pin] = id}
  OBVIOUS
<1>6. SuccessorsRouted(p) = old /\ SuccessorsRouted(p)' = old \cup new
  BY <1>2, <1>4, <1>5 DEF SuccessorsRouted
<1>7. old \cap new = {} /\ Before \subseteq GateIds(circuit) /\ id \in GateIds(circuit)
  BY <1>4, <1>5 DEF Ready, OrderOK, Closed
<1>8. NoGate \notin GateIds(circuit)
  BY CircuitGiven, GateAt DEF GateIds
<1>9. old \cup new \subseteq Present(succ)
  BY <1>4, <1>5, <1>7, <1>8 DEF Present
<1>10. IsFiniteSet(Present(succ)) /\ IsFiniteSet(old) /\ IsFiniteSet(new)
  <2>1. Present(succ) \in SUBSET DOMAIN succ /\ old \in SUBSET DOMAIN succ
        /\ new \in SUBSET DOMAIN succ
    BY <1>4, <1>5 DEF Present
  <2>. QED
    BY <1>3, <2>1, FS_Subset
<1>11. Cardinality(more) = Cardinality(new)
  <2>1. more = {pin \in DOMAIN circuit[i].qubits :
                   GetPredecessors(circuit, circuit[i].id)[pin] = circuit[j].id}
    <3>1. p # NoGate
      BY <1>8
    <3>. QED
      BY <1>1, <1>3, <3>1 DEF Present
  <2>2. new = {pin \in DOMAIN circuit[j].qubits :
                  GetSuccessors(circuit, circuit[j].id)[pin] = circuit[i].id}
    BY <1>1, <1>2, <1>3, <1>5
  <2>. QED
    BY <2>1, <2>2, CircuitGiven, CountsAgree
<1>12. /\ Cardinality(old) \in Nat /\ Cardinality(new) \in Nat
       /\ Cardinality(old \cup new) = Cardinality(old) + Cardinality(new)
  <2>1. Cardinality(old \cap new) = 0
    BY <1>7, FS_EmptySet
  <2>2. Cardinality(old) \in Nat /\ Cardinality(new) \in Nat
    BY <1>10, FS_CardinalityType
  <2>3. Cardinality(old \cup new)
        = Cardinality(old) + Cardinality(new) - Cardinality(old \cap new)
    BY <1>10, FS_Union
  <2>. QED
    BY <2>1, <2>2, <2>3
<1>13. p \in DOMAIN executedGates =>
          executedGates[p] \in Nat /\ executedGates[p] <= Cardinality(old)
  BY <1>6 DEF WaitingOK
<1>14. seen \in Nat /\ seen <= Cardinality(old \cup new)
  BY <1>11, <1>12, <1>13
<1>. QED
  BY <1>2, <1>6, <1>9, <1>10, <1>14

\* update_available_gates leaves the waiting list exact.
LEMMA UpdateKeepsWaiting ==
    ASSUME JobOK, OrderOK, WaitingOK, NEW id \in Ready(circuit, Before),
           Before' = Before \cup {id}, UpdateAvailableGates(id)
    PROVE  WaitingOK' /\ circuit' = circuit
<1>1. circuit' = circuit
  BY DEF UpdateAvailableGates
<1>2. PICK i \in DOMAIN circuit : id = circuit[i].id
  BY DEF Ready, GateIds
<1>3. PICK kept : kept = DOMAIN executedGates \cup {id}
  OBVIOUS
<1>4. PICK preds : preds = GetPredecessors(circuit, id)
  OBVIOUS
<1>5. PICK prevs : prevs = {preds[pin] : pin \in Present(preds)}
  OBVIOUS
<1>6. PICK succs : succs = GetSuccessors(circuit, id)
  OBVIOUS
<1>7. PICK next : next = KeepOnly(succs, {g \in GateIds(circuit) : IsAvailable(kept, g)})
  OBVIOUS
<1>. DEFINE more(p) == {pin \in Present(preds) : preds[pin] = p}
            seen(p) == (IF p \in DOMAIN executedGates THEN executedGates[p] ELSE 0)
                       + Cardinality(more(p))
<1>8. id \notin Before /\ id \in GateIds(circuit) /\ Before \subseteq GateIds(circuit)
      /\ Closed(circuit, Before) /\ DOMAIN executedGates \subseteq Before
  BY DEF Ready, OrderOK, Closed, WaitingOK
<1>9. kept \ {id} = DOMAIN executedGates
  BY <1>3, <1>8
<1>10. PICK trimmed : trimmed = {p \in prevs : Trim(p, seen(p))}
  OBVIOUS
<1>11. /\ availableGates' = Erase(availableGates, id) \o next
       /\ executedGates' = [p \in (kept \cup prevs) \ trimmed |-> seen(p)]
  BY <1>3, <1>4, <1>5, <1>6, <1>7, <1>9, <1>10 DEF UpdateAvailableGates
<1>12. ASSUME NEW p \in GateIds(circuit)
       PROVE  /\ seen(p) \in Nat /\ seen(p) <= Cardinality(SuccessorsRouted(p)')
              /\ SuccessorsRouted(p)' \subseteq Present(GetSuccessors(circuit, p))
              /\ IsFiniteSet(Present(GetSuccessors(circuit, p)))
  <2>1. PICK m, n : m = more(p) /\ n = seen(p)
    OBVIOUS
  <2>2. /\ m = {pin \in Present(GetPredecessors(circuit, id)) :
                   GetPredecessors(circuit, id)[pin] = p}
        /\ n = (IF p \in DOMAIN executedGates THEN executedGates[p] ELSE 0) + Cardinality(m)
    BY <1>4, <2>1
  <2>3. /\ n \in Nat /\ n <= Cardinality(SuccessorsRouted(p)')
        /\ SuccessorsRouted(p)' \subseteq Present(GetSuccessors(circuit, p))
        /\ IsFiniteSet(Present(GetSuccessors(circuit, p)))
    BY <1>1, <2>2, SeenSuccessors
  <2>. QED
    BY <2>1, <2>3
<1>. HIDE DEF more, seen
<1>13. prevs \subseteq Before
  <2>1. SUFFICES ASSUME NEW pin \in Present(preds) PROVE preds[pin] \in Before
    BY <1>5
  <2>2. pin \in DOMAIN circuit[i].qubits /\ preds[pin] # NoGate
    BY <1>2, <1>4, PinsOfGate DEF Present
  <2>3. PICK j \in DOMAIN circuit : preds[pin] = circuit[j].id
                                    /\ Follows(circuit, circuit[i].qubits[pin], j, i)
    BY <1>2, <1>4, <2>2, CircuitGiven, PredecessorFollows
  <2>4. preds[pin] \in Requires(circuit, id)
    BY <1>2, <2>3, CircuitGiven, RequiresAt DEF Follows
  <2>. QED
    BY <2>4 DEF Ready
<1>14. \A j, k \in DOMAIN circuit : \A l :
          circuit[j].id \in (Before \cup {id}) \ kept /\ Follows(circuit, l, j, k)
          => circuit[k].id \in Before
  <2>1. SUFFICES ASSUME NEW j \in DOMAIN circuit, NEW k \in DOMAIN circuit, NEW l,
                        circuit[j].id \in (Before \cup {id}) \ kept,
                        Follows(circuit, l, j, k)
                 PROVE  circuit[k].id \in Before
    OBVIOUS
  <2>2. circuit[j].id \in Before \ DOMAIN executedGates
    BY <1>3, <2>1
  <2>3. l \in Qubits
    <3>1. circuit[j].qubits \in Seq(Qubits)
      BY CircuitGiven, GateAt
    <3>. QED
      BY <2>1, <3>1 DEF Follows, OnQubit, ToSet
  <2>. QED
    BY <2>1, <2>2, <2>3 DEF WaitingOK
<1>15. Closed(circuit, Before \cup {id})
  BY CircuitGiven, <1>8, ReadyAfter
<1>16. /\ ToSet(availableGates') = Ready(circuit, Before \cup {id})
       /\ availableGates' \in Seq(GateIds(circuit))
  <2>1. /\ ToSet(availableGates) = Ready(circuit, Before)
        /\ availableGates \in Seq(GateIds(circuit))
    BY DEF WaitingOK
  <2>2. PICK ids : ids = GateIds(circuit) \cup {NoGate}
    OBVIOUS
  <2>3. succs \in Seq(ids) /\ availableGates \in Seq(ids)
    BY <1>2, <1>6, <2>1, <2>2, PinsOfGate
  <2>4. /\ next \in Seq(ids)
        /\ ToSet(next) = ToSet(succs) \cap {g \in GateIds(circuit) : IsAvailable(kept, g)}
    BY <1>7, <2>3, KeptMembers
  <2>5. /\ Erase(availableGates, id) \in Seq(ids)
        /\ ToSet(Erase(availableGates, id)) = Ready(circuit, Before) \ {id}
    <3>1. PICK rest : rest = ToSet(availableGates) \ {id}
      OBVIOUS
    <3>2. /\ KeepOnly(availableGates, rest) \in Seq(ids)
          /\ ToSet(KeepOnly(availableGates, rest)) = ToSet(availableGates) \cap rest
      BY <2>3, KeptMembers
    <3>. QED
      BY <2>1, <3>1, <3>2 DEF Erase
  <2>6. /\ availableGates' \in Seq(ids)
        /\ ToSet(availableGates') = ToSet(Erase(availableGates, id)) \cup ToSet(next)
    BY <1>11, <2>4, <2>5, JoinedMembers
  <2>7. ASSUME NEW x \in ToSet(succs), x \in GateIds(circuit)
        PROVE  IsAvailable(kept, x) <=> Requires(circuit, x) \subseteq Before \cup {id}
    <3>1. x \notin Before \cup {id}
      BY <1>6, <1>8, <2>7, CircuitGiven, SuccessorsWait
    <3>2. PICK k \in DOMAIN circuit : x = circuit[k].id
      BY <2>7 DEF GateIds
    <3>3. kept \in SUBSET (Before \cup {id})
      BY <1>3, <1>8
    <3>4. (\A pin \in DOMAIN circuit[k].qubits :
              GetPredecessors(circuit, circuit[k].id)[pin] # NoGate =>
                  GetPredecessors(circuit, circuit[k].id)[pin] \in kept)
          <=> Requires(circuit, circuit[k].id) \subseteq Before \cup {id}
      <4>1. PICK ran : ran = Before \cup {id}
        OBVIOUS
      <4>2. /\ Closed(circuit, ran) /\ kept \in SUBSET ran /\ circuit[k].id \notin ran
            /\ \A j, m \in DOMAIN circuit : \A l :
                  circuit[j].id \in ran \ kept /\ Follows(circuit, l, j, m)
                  => circuit[m].id \in ran
        BY <1>14, <1>15, <3>1, <3>2, <3>3, <4>1
      <4>3. (\A pin \in DOMAIN circuit[k].qubits :
                GetPredecessors(circuit, circuit[k].id)[pin] # NoGate =>
                    GetPredecessors(circuit, circuit[k].id)[pin] \in kept)
            <=> Requires(circuit, circuit[k].id) \subseteq ran
        BY <4>2, CircuitGiven, PredecessorsSuffice
      <4>. QED
        BY <4>1, <4>3
    <3>5. DOMAIN GetPredecessors(circuit, circuit[k].id) = DOMAIN circuit[k].qubits
      BY PinsOfGate
    <3>. QED
      BY <3>2, <3>4, <3>5 DEF IsAvailable, Present
  <2>8. ToSet(availableGates') = Ready(circuit, Before \cup {id})
    <3>1. \A x : x \in Ready(circuit, Before \cup {id}) <=>
                    \/ x \in Ready(circuit, Before) /\ x # id
                    \/ /\ x \in ToSet(succs) /\ x \in GateIds(circuit)
                       /\ Requires(circuit, x) \subseteq Before \cup {id}
      BY <1>6, <1>8, CircuitGiven, ReadyAfter
    <3>. QED
      BY <2>4, <2>5, <2>6, <2>7, <3>1
  <2>9. ToSet(availableGates') \subseteq GateIds(circuit)
    BY <2>8 DEF Ready
  <2>. QED
    BY <2>6, <2>8, <2>9, SequenceOfMembers
<1>17. DOMAIN executedGates' = (kept \cup prevs) \ trimmed
       /\ \A p \in DOMAIN executedGates' : executedGates'[p] = seen(p)
  BY <1>11
<1>18. DOMAIN executedGates' \subseteq Before \cup {id}
  BY <1>3, <1>8, <1>13, <1>17
<1>19. \A p \in DOMAIN executedGates' :
          executedGates'[p] \in Nat /\ executedGates'[p] <= Cardinality(SuccessorsRouted(p)')
  BY <1>8, <1>12, <1>17, <1>18
<1>20. ASSUME NEW j \in DOMAIN circuit, NEW k \in DOMAIN circuit, NEW l \in Qubits,
              circuit[j].id \in (Before \cup {id}) \ DOMAIN executedGates',
              Follows(circuit, l, j, k)
       PROVE  circuit[k].id \in Before \cup {id}
  <2>1. CASE circuit[j].id \notin kept
    BY <1>14, <1>20, <2>1
  <2>2. CASE circuit[j].id \in kept
    <3>1. circuit[j].id \in trimmed
      BY <1>17, <1>20, <2>2
    <3>2. PICK p \in GateIds(circuit) : p = circuit[j].id
      BY DEF GateIds
    <3>3. PICK present : present = Present(GetSuccessors(circuit, p))
      OBVIOUS
    <3>4. PICK routed : routed = SuccessorsRouted(p)'
      OBVIOUS
    <3>5. seen(p) >= Cardinality(present)
      BY <1>10, <3>1, <3>2, <3>3 DEF Trim
    <3>6. seen(p) \in Nat /\ seen(p) <= Cardinality(routed) /\ routed \in SUBSET present
          /\ IsFiniteSet(present)
      BY <1>12, <3>3, <3>4
    <3>7. Cardinality(routed) <= Cardinality(present) /\ Cardinality(routed) \in Nat
          /\ Cardinality(present) \in Nat
          /\ (Cardinality(present) = Cardinality(routed) => present = routed)
      BY <3>6, FS_Subset, FS_CardinalityType
    <3>8. present = routed
      BY <3>5, <3>6, <3>7
    <3>9. PICK pin \in DOMAIN circuit[j].qubits : circuit[j].qubits[pin] = l
      BY <1>20 DEF Follows, OnQubit, ToSet
    <3>10. GetSuccessors(circuit, p)[pin] = circuit[k].id /\ circuit[k].id # NoGate
      BY <1>20, <3>2, <3>9, CircuitGiven, SuccessorFollows, GateAt
    <3>11. pin \in present
      BY <3>2, <3>3, <3>9, <3>10, PinsOfGate DEF Present
    <3>12. GetSuccessors(circuit, p)[pin] \in Before'
      BY <1>1, <3>4, <3>8, <3>11 DEF SuccessorsRouted
    <3>. QED
      BY <3>10, <3>12
  <2>. QED
    BY <2>1, <2>2
<1>. QED
  BY <1>1, <1>16, <1>18, <1>19, <1>20 DEF WaitingOK

-----------------------------------------------------------------------------
(* The labels while operations are listed                                  *)

\* The shape of the labels before each operation
LEMMA HeldShape ==
    ASSUME NEW held, LabelsOK(held), operations \in Seq(TimedOps)
    PROVE  /\ held \in Seq([Qubits -> Qubits]) /\ Len(operations) \in Nat
           /\ DOMAIN operations = 1 .. Len(operations)
           /\ DOMAIN held = 1 .. Len(operations) + 1
           /\ held[Len(operations) + 1] = logicalQubit
           /\ \A i \in DOMAIN held : held[i] \in [Qubits -> Qubits]
<1>1. /\ held \in Seq([Qubits -> Qubits]) /\ Len(held) = Len(operations) + 1
      /\ held[Len(held)] = logicalQubit
  BY DEF LabelsOK
<1>2. /\ Len(operations) \in Nat /\ DOMAIN operations = 1 .. Len(operations)
      /\ DOMAIN held = 1 .. Len(held)
      /\ \A i \in 1 .. Len(held) : held[i] \in [Qubits -> Qubits]
  BY <1>1
<1>. QED
  BY <1>1, <1>2

\* What an operation that is listed makes of the labels: a SWAP exchanges the two of its
\* qubits, a gate none; where a label goes the qubit is not free before it was where the
\* label came from.
LEMMA LabelsMove ==
    ASSUME RouterInv, NEW o, Lists(o), IsRouting(o) \/ o.op # "swap"
    PROVE  /\ o \in TimedOps /\ On(o) \subseteq Qubits
           /\ o.start \in Nat /\ o.end \in Nat /\ o.start < o.end
           /\ IsRouting(o) =>
                 /\ o.qubits[1] \in Qubits /\ o.qubits[2] \in Qubits
                 /\ On(o) = {o.qubits[1], o.qubits[2]}
                 /\ logicalQubit'[o.qubits[1]] = logicalQubit[o.qubits[2]]
                 /\ logicalQubit'[o.qubits[2]] = logicalQubit[o.qubits[1]]
           /\ ~IsRouting(o) => logicalQubit' = logicalQubit
           /\ \A q \in Qubits \ On(o) : logicalQubit'[q] = logicalQubit[q]
           /\ \A q \in Qubits : \E p \in Qubits : /\ logicalQubit'[q] = logicalQubit[p]
                                                  /\ occupiedTime[p] <= occupiedTime'[q]
<1>1. o \in TimedOps /\ logicalQubit' = LabelsAfter(o)
      /\ occupiedTime' = [q \in Qubits |-> IF q \in On(o) THEN o.end ELSE occupiedTime[q]]
      /\ \A q \in On(o) : occupiedTime[q] <= o.start
  BY DEF Lists
<1>2. /\ On(o) \subseteq Qubits /\ o.start \in Nat /\ o.end \in Nat /\ o.start < o.end
      /\ o.qubits \in Seq(Qubits)
  BY <1>1, OnQubits DEF TimedOps
<1>3. logicalQubit \in [Qubits -> Qubits] /\ occupiedTime \in [Qubits -> Nat]
  BY RouterState
<1>4. ASSUME IsRouting(o)
      PROVE  /\ o.qubits[1] \in Qubits /\ o.qubits[2] \in Qubits
             /\ On(o) = {o.qubits[1], o.qubits[2]}
             /\ logicalQubit'[o.qubits[1]] = logicalQubit[o.qubits[2]]
             /\ logicalQubit'[o.qubits[2]] = logicalQubit[o.qubits[1]]
             /\ \A q \in Qubits \ On(o) : logicalQubit'[q] = logicalQubit[q]
  <2>1. Len(o.qubits) = 2 /\ o.op = "swap"
    BY <1>4 DEF IsRouting
  <2>2. /\ o.qubits[1] \in Qubits /\ o.qubits[2] \in Qubits
        /\ On(o) = {o.qubits[1], o.qubits[2]}
    BY <1>2, <2>1 DEF On, ToSet
  <2>. QED
    BY <1>1, <1>3, <2>1, <2>2, SwapLabels
<1>5. ~IsRouting(o) => logicalQubit' = logicalQubit
  BY <1>1 DEF LabelsAfter
<1>6. ASSUME NEW q \in Qubits
      PROVE  \E p \in Qubits : /\ logicalQubit'[q] = logicalQubit[p]
                               /\ occupiedTime[p] <= occupiedTime'[q]
  <2>1. CASE q \notin On(o)
    <3>1. logicalQubit'[q] = logicalQubit[q] /\ occupiedTime'[q] = occupiedTime[q]
      BY <1>1, <1>4, <1>5, <2>1
    <3>. QED
      BY <1>3, <3>1
  <2>2. CASE q \in On(o)
    <3>1. PICK p \in On(o) : logicalQubit'[q] = logicalQubit[p]
      BY <1>4, <1>5, <2>2
    <3>2. occupiedTime[p] <= o.start /\ occupiedTime'[q] = o.end /\ occupiedTime[p] \in Nat
      BY <1>1, <1>2, <1>3, <2>2
    <3>3. occupiedTime[p] <= occupiedTime'[q] /\ p \in Qubits
      BY <1>2, <3>2
    <3>. QED
      BY <3>1, <3>3
  <2>. QED
    BY <2>1, <2>2
<1>. QED
  BY <1>1, <1>2, <1>4, <1>5, <1>6

\* A gate of the circuit, on the qubits that hold its own
OnItsQubits(o) ==
    \E k \in DOMAIN circuit :
        /\ o.id = circuit[k].id /\ o.op = circuit[k].op
        /\ Len(o.qubits) = Len(circuit[k].qubits)
        /\ \A pin \in DOMAIN o.qubits : logicalQubit[o.qubits[pin]] = circuit[k].qubits[pin]

\* The labels after the operation that is listed are added to those before it.
LEMMA ListingKeepsLabels ==
    ASSUME RouterInv, RouterInv', NEW held, LabelsOK(held), NEW o, Lists(o),
           IsRouting(o) \/ (~o.routing /\ o.op # "swap" /\ OnItsQubits(o)),
           UNCHANGED circuit
    PROVE  \A longer : longer = Append(held, logicalQubit') => LabelsOK(longer)'
<1>0. SUFFICES ASSUME NEW longer, longer = Append(held, logicalQubit') PROVE LabelsOK(longer)'
  OBVIOUS
<1>1. /\ operations \in Seq(TimedOps)
      /\ logicalQubit \in [Qubits -> Qubits] /\ logicalQubit' \in [Qubits -> Qubits]
  BY RouterState DEF RouterInv, TimesInv, RouterTypeOK
<1>2. PICK n \in Nat : n = Len(operations)
  BY <1>1
<1>3. /\ held \in Seq([Qubits -> Qubits]) /\ DOMAIN operations = 1 .. n
      /\ DOMAIN held = 1 .. n + 1 /\ held[n + 1] = logicalQubit
  BY <1>1, <1>2, HeldShape
<1>4. \A q \in Qubits, i, j \in DOMAIN held :
          (i <= j /\ \A k \in i .. j - 1 : q \notin On(operations[k])) => held[i][q] = held[j][q]
  BY DEF LabelsOK
<1>5. /\ longer \in Seq([Qubits -> Qubits]) /\ Len(longer) = n + 2
      /\ DOMAIN longer = 1 .. n + 2 /\ longer[n + 2] = logicalQubit'
      /\ \A i \in 1 .. n + 1 : longer[i] = held[i]
  BY <1>0, <1>1, <1>3
<1>6. /\ DOMAIN operations' = 1 .. n + 1 /\ Len(operations') = n + 1
      /\ operations'[n + 1] = o
      /\ \A i \in 1 .. n : operations'[i] = operations[i]
      /\ Applied' = IF o.routing THEN Applied ELSE Applied \cup {n + 1}
  BY <1>1, <1>2, OperationAppended DEF Lists
<1>7. Applied \subseteq 1 .. n
  BY <1>3 DEF Applied
<1>8. ASSUME NEW q \in Qubits, NEW i \in 1 .. n + 2, NEW j \in 1 .. n + 2, i <= j,
             \A k \in i .. j - 1 : q \notin On(operations'[k])
      PROVE  longer[i][q] = longer[j][q]
  <2>1. CASE j <= n + 1
    <3>1. i \in 1 .. n + 1 /\ j \in 1 .. n + 1 /\ i .. j - 1 \subseteq 1 .. n
      BY <1>8, <2>1
    <3>2. \A k \in i .. j - 1 : q \notin On(operations[k])
      BY <1>6, <1>8, <3>1
    <3>3. held[i][q] = held[j][q]
      BY <1>3, <1>4, <1>8, <3>1, <3>2
    <3>. QED
      BY <1>5, <3>1, <3>3
  <2>2. CASE i = n + 2
    BY <1>8, <2>2
  <2>3. CASE j = n + 2 /\ i <= n + 1
    <3>1. i \in 1 .. n + 1 /\ n + 1 \in i .. j - 1 /\ i .. (n + 1) - 1 \subseteq i .. j - 1
          /\ i .. (n + 1) - 1 \subseteq 1 .. n /\ i <= n + 1 /\ n + 1 \in 1 .. n + 1
      BY <2>3
    <3>2. q \notin On(o)
      BY <1>6, <1>8, <3>1
    <3>3. \A k \in i .. (n + 1) - 1 : q \notin On(operations[k])
      BY <1>6, <1>8, <3>1
    <3>4. held[i][q] = held[n + 1][q]
      BY <1>3, <1>4, <3>1, <3>3
    <3>5. logicalQubit'[q] = logicalQubit[q]
      BY <3>2, LabelsMove
    <3>. QED
      BY <1>3, <1>5, <2>3, <3>1, <3>4, <3>5
  <2>. QED
    BY <2>1, <2>2, <2>3
<1>9. ASSUME NEW i \in (1 .. n + 1) \ Applied'
      PROVE  LET qs == operations'[i].qubits
             IN  /\ IsRouting(operations'[i])
                 /\ longer[i + 1][qs[1]] = longer[i][qs[2]]
                 /\ longer[i + 1][qs[2]] = longer[i][qs[1]]
  <2>1. CASE i \in 1 .. n
    <3>1. i \in DOMAIN operations \ Applied
      BY <1>3, <1>6, <1>9, <2>1
    <3>2. LET qs == operations[i].qubits
          IN  /\ IsRouting(operations[i])
              /\ held[i + 1][qs[1]] = held[i][qs[2]] /\ held[i + 1][qs[2]] = held[i][qs[1]]
      BY <3>1 DEF LabelsOK
    <3>3. longer[i + 1] = held[i + 1] /\ longer[i] = held[i] /\ operations'[i] = operations[i]
      BY <1>5, <1>6, <2>1
    <3>. QED
      BY <3>2, <3>3
  <2>2. CASE i = n + 1
    <3>1. o.routing /\ operations'[i] = o /\ longer[i + 1] = logicalQubit'
          /\ longer[i] = logicalQubit
      BY <1>3, <1>5, <1>6, <1>9, <2>2
    <3>2. IsRouting(o)
      BY <3>1
    <3>. QED
      BY <3>1, <3>2, LabelsMove
  <2>. QED
    BY <1>9, <2>1, <2>2
<1>10. ASSUME NEW i \in Applied'
       PROVE  LET qs == operations'[i].qubits
              IN  \E k \in DOMAIN circuit :
                     /\ operations'[i].id = circuit[k].id /\ operations'[i].op = circuit[k].op
                     /\ Len(qs) = Len(circuit[k].qubits)
                     /\ \A pin \in DOMAIN qs : /\ longer[i][qs[pin]] = circuit[k].qubits[pin]
                                               /\ longer[i + 1][qs[pin]] = circuit[k].qubits[pin]
  <2>1. CASE i \in Applied
    <3>1. LET qs == operations[i].qubits
          IN  \E k \in DOMAIN circuit :
                 /\ operations[i].id = circuit[k].id /\ operations[i].op = circuit[k].op
                 /\ Len(qs) = Len(circuit[k].qubits)
                 /\ \A pin \in DOMAIN qs : /\ held[i][qs[pin]] = circuit[k].qubits[pin]
                                           /\ held[i + 1][qs[pin]] = circuit[k].qubits[pin]
      BY <2>1 DEF LabelsOK
    <3>2. longer[i + 1] = held[i + 1] /\ longer[i] = held[i] /\ operations'[i] = operations[i]
      <4>1. i \in 1 .. n /\ i \in 1 .. n + 1 /\ i + 1 \in 1 .. n + 1
        BY <1>7, <2>1
      <4>. QED
        BY <1>5, <1>6, <4>1
    <3>. QED
      BY <3>1, <3>2
  <2>2. CASE i \notin Applied
    <3>1. i = n + 1 /\ ~o.routing
      BY <1>6, <1>10, <2>2
    <3>2. operations'[i] = o /\ longer[i + 1] = logicalQubit' /\ longer[i] = logicalQubit
      BY <1>3, <1>5, <1>6, <3>1
    <3>3. o.op # "swap" /\ OnItsQubits(o) /\ ~IsRouting(o)
      BY <3>1 DEF IsRouting
    <3>4. logicalQubit' = logicalQubit
      BY <3>3, LabelsMove
    <3>. QED
      BY <3>2, <3>3, <3>4 DEF OnItsQubits
  <2>. QED
    BY <2>1, <2>2
<1>11. /\ longer \in Seq([Qubits -> Qubits]) /\ Len(longer) = Len(operations') + 1
       /\ longer[Len(longer)] = logicalQubit'
  BY <1>5, <1>6
<1>12. \A q \in Qubits, i, j \in DOMAIN longer :
          (i <= j /\ \A k \in i .. j - 1 : q \notin On(operations'[k]))
          => longer[i][q] = longer[j][q]
  BY <1>5, <1>8
<1>13. \A i \in DOMAIN operations' \ Applied' :
          LET qs == operations'[i].qubits
          IN  /\ IsRouting(operations'[i])
              /\ longer[i + 1][qs[1]] = longer[i][qs[2]]
              /\ longer[i + 1][qs[2]] = longer[i][qs[1]]
  BY <1>6, <1>9
<1>14. ASSUME NEW i \in DOMAIN longer, NEW p \in Qubits, NEW q \in Qubits,
              longer[i][p] = longer[i][q]
       PROVE  p = q
  <2>1. CASE i = n + 2
    <3>1. \A x, y \in Qubits : logicalQubit'[x] = logicalQubit'[y] => x = y
      BY DEF RouterInv, TimesInv, PlacementConsistent
    <3>. QED
      BY <1>5, <1>14, <2>1, <3>1
  <2>2. CASE i \in 1 .. n + 1
    BY <1>3, <1>5, <1>14, <2>2 DEF LabelsOK
  <2>. QED
    BY <1>5, <2>1, <2>2
<1>. QED
  BY <1>10, <1>11, <1>12, <1>13, <1>14 DEF LabelsOK

\* Nothing is built meanwhile.
LEMMA ListingKeepsBuilt ==
    ASSUME RouterInv, NEW held, LabelsOK(held), BuiltOK(held), stage = "assign",
           NEW o, Lists(o), UNCHANGED <<at, done, stage>>
    PROVE  \A longer : longer = Append(held, logicalQubit') => BuiltOK(longer)'
<1>0. SUFFICES ASSUME NEW longer, longer = Append(held, logicalQubit')
               PROVE  BuiltOK(longer)'
  OBVIOUS
<1>1. operations \in Seq(TimedOps)
  BY RouterState
<1>2. PICK n \in Nat : n = Len(operations)
  BY <1>1
<1>3. /\ held \in Seq([Qubits -> Qubits]) /\ DOMAIN operations = 1 .. n
      /\ DOMAIN held = 1 .. n + 1
  BY <1>1, <1>2, HeldShape
<1>4. /\ DOMAIN longer = 1 .. n + 2 /\ \A i \in 1 .. n + 1 : longer[i] = held[i]
  BY <1>0, <1>3
<1>5. /\ DOMAIN operations' = 1 .. n + 1
      /\ \A i \in 1 .. n : operations'[i] = operations[i]
  BY <1>1, <1>2, <1>3, OperationAppended DEF Lists
<1>6. Unbuilt = DOMAIN operations /\ Unbuilt' = DOMAIN operations'
  BY DEF Unbuilt
<1>7. Applied \ Unbuilt = {} /\ Applied' \ Unbuilt' = {}
  BY <1>6 DEF Applied
<1>8. done' = {operations'[i].id : i \in Applied' \ Unbuilt'}
  <2>1. done = {}
    BY <1>7 DEF BuiltOK, Progress
  <2>. QED
    BY <1>7, <2>1
<1>9. ASSUME NEW q \in Qubits
      PROVE  \E k \in DOMAIN longer :
                /\ \A i \in DOMAIN operations' :
                      q \in On(operations'[i]) => (i \in Unbuilt' <=> k <= i)
                /\ at'[longer[k][q]] = q
  <2>1. PICK k \in DOMAIN held :
           /\ \A i \in DOMAIN operations : q \in On(operations[i]) => (i \in Unbuilt <=> k <= i)
           /\ at[held[k][q]] = q
    BY DEF BuiltOK, Progress
  <2>2. k \in 1 .. n + 1 /\ k \in 1 .. n + 2 /\ longer[k] = held[k]
    BY <1>3, <1>4
  <2>3. ASSUME NEW i \in 1 .. n + 1, q \in On(operations'[i]) PROVE k <= i
    <3>1. CASE i = n + 1
      BY <2>2, <3>1
    <3>2. CASE i # n + 1
      <4>1. i \in 1 .. n
        BY <3>2
      <4>. QED
        BY <1>3, <1>5, <1>6, <2>1, <2>3, <4>1
    <3>. QED
      BY <3>1, <3>2
  <2>. QED
    BY <1>4, <1>5, <1>6, <2>1, <2>2, <2>3
<1>10. at' \in [Qubits -> Qubits]
  BY DEF BuiltOK, Progress
<1>. QED
  BY <1>6, <1>8, <1>9, <1>10 DEF BuiltOK, Progress

\* A SWAP that is listed serves a gate that is not: it moves one qubit of that gate.
LEMMA ListingKeepsSwaps ==
    ASSUME RouterInv, NEW held, LabelsOK(held), SwapsOK(held), NEW o, Lists(o),
           o.routing => \E k \in DOMAIN circuit :
               /\ circuit[k].id \notin Routed /\ Requires(circuit, circuit[k].id) \subseteq Routed
               /\ MovesOneOf(o, circuit[k]),
           UNCHANGED circuit
    PROVE  \A longer : longer = Append(held, logicalQubit') => SwapsOK(longer)'
<1>0. SUFFICES ASSUME NEW longer, longer = Append(held, logicalQubit') PROVE SwapsOK(longer)'
  OBVIOUS
<1>1. operations \in Seq(TimedOps)
  BY RouterState
<1>2. PICK n \in Nat : n = Len(operations)
  BY <1>1
<1>3. /\ held \in Seq([Qubits -> Qubits]) /\ DOMAIN operations = 1 .. n
      /\ DOMAIN held = 1 .. n + 1 /\ held[n + 1] = logicalQubit
  BY <1>1, <1>2, HeldShape
<1>4. \A i \in 1 .. n + 1 : longer[i] = held[i]
  BY <1>0, <1>3
<1>5. /\ DOMAIN operations' = 1 .. n + 1 /\ operations'[n + 1] = o
      /\ \A i \in 1 .. n : operations'[i] = operations[i]
      /\ Applied' = IF o.routing THEN Applied ELSE Applied \cup {n + 1}
  BY <1>1, <1>2, <1>3, OperationAppended DEF Lists
<1>6. Applied \subseteq 1 .. n /\ \A x : x \in Routed <=> \E i \in Applied : operations[i].id = x
  BY <1>3 DEF Applied, Routed
<1>7. /\ Applied \subseteq Applied' /\ \A j \in Applied : operations'[j].id = operations[j].id
      /\ \A i \in 1 .. n : \A j \in Applied' : j < i => j \in Applied
  BY <1>5, <1>6
<1>8. SUFFICES ASSUME NEW i \in 1 .. n + 1, i \notin Applied'
               PROVE  \E k \in DOMAIN circuit :
                  /\ \A j \in Applied' : j < i => operations'[j].id # circuit[k].id
                  /\ \A x \in Requires(circuit, circuit[k].id) :
                        \E j \in Applied' : j < i /\ operations'[j].id = x
                  /\ \E p, q \in On(operations'[i]) : /\ longer[i][p] \in ToSet(circuit[k].qubits)
                                                      /\ longer[i][q] \notin ToSet(circuit[k].qubits)
  BY <1>5 DEF SwapsOK
<1>9. CASE i \in 1 .. n
  <2>1. i \in DOMAIN operations \ Applied
    BY <1>3, <1>5, <1>8, <1>9
  <2>2. PICK k \in DOMAIN circuit :
        /\ \A j \in Applied : j < i => operations[j].id # circuit[k].id
        /\ \A x \in Requires(circuit, circuit[k].id) :
              \E j \in Applied : j < i /\ operations[j].id = x
        /\ \E p, q \in On(operations[i]) : /\ held[i][p] \in ToSet(circuit[k].qubits)
                                           /\ held[i][q] \notin ToSet(circuit[k].qubits)
    BY <2>1 DEF SwapsOK
  <2>3. longer[i] = held[i] /\ operations'[i] = operations[i]
    BY <1>4, <1>5, <1>9
  <2>4. \A j \in Applied' : j < i => operations'[j].id # circuit[k].id
    BY <1>7, <1>9, <2>2
  <2>5. \A x \in Requires(circuit, circuit[k].id) :
           \E j \in Applied' : j < i /\ operations'[j].id = x
    BY <1>7, <2>2
  <2>. QED
    BY <2>2, <2>3, <2>4, <2>5
<1>10. CASE i = n + 1
  <2>1. o.routing /\ Applied' = Applied
    BY <1>5, <1>8, <1>10
  <2>2. PICK k \in DOMAIN circuit :
           /\ circuit[k].id \notin Routed /\ Requires(circuit, circuit[k].id) \subseteq Routed
           /\ MovesOneOf(o, circuit[k])
    BY <2>1
  <2>3. operations'[i] = o /\ longer[i] = logicalQubit
    BY <1>3, <1>4, <1>5, <1>10
  <2>4. \A j \in Applied' : j < i /\ j \in Applied
    BY <1>6, <1>10, <2>1
  <2>5. \A j \in Applied' : operations'[j].id # circuit[k].id
    BY <1>6, <1>7, <2>1, <2>2
  <2>6. \A x \in Requires(circuit, circuit[k].id) :
           \E j \in Applied' : j < i /\ operations'[j].id = x
    BY <1>6, <1>7, <2>1, <2>2, <2>4
  <2>. QED
    BY <2>2, <2>3, <2>5, <2>6 DEF MovesOneOf
<1>. QED
  BY <1>8, <1>9, <1>10

\* While the router works nothing but the list changes.
LEMMA HistoryRests ==
    ASSUME HistoryOK, Unbuilt' = Unbuilt,
           UNCHANGED <<device, job, circuit, operations, logicalQubit, at, done>>
    PROVE  HistoryOK'
<1>1. PICK held : LabelsOK(held) /\ SwapsOK(held) /\ BuiltOK(held) /\ PlacedOK(held)
  BY DEF HistoryOK
<1>2. Applied' = Applied
  BY DEF Applied
<1>3. LabelsOK(held)'
  BY <1>1, <1>2 DEF LabelsOK
<1>4. SwapsOK(held)'
  BY <1>1, <1>2 DEF SwapsOK
<1>5. BuiltOK(held)'
  BY <1>1, <1>2 DEF BuiltOK, Progress
<1>6. PlacedOK(held)'
  BY <1>1 DEF PlacedOK
<1>. QED
  BY <1>3, <1>4, <1>5, <1>6 DEF HistoryOK

\* One operation more: the history of the labels grows by one.
LEMMA ListingKeepsHistory ==
    ASSUME RouterInv, RouterInv', HistoryOK, stage = "assign",
           NEW o, Lists(o),
           IsRouting(o) \/ (~o.routing /\ o.op # "swap" /\ OnItsQubits(o)),
           o.routing => \E k \in DOMAIN circuit :
               /\ circuit[k].id \notin Routed /\ Requires(circuit, circuit[k].id) \subseteq Routed
               /\ MovesOneOf(o, circuit[k]),
           UNCHANGED <<device, job, circuit, at, done, stage>>
    PROVE  HistoryOK'
<1>1. PICK held : LabelsOK(held) /\ SwapsOK(held) /\ BuiltOK(held) /\ PlacedOK(held)
  BY DEF HistoryOK
<1>2. PICK longer : longer = Append(held, logicalQubit')
  OBVIOUS
<1>3. LabelsOK(longer)'
  BY <1>1, <1>2, ListingKeepsLabels
<1>4. SwapsOK(longer)'
  BY <1>1, <1>2, ListingKeepsSwaps
<1>5. BuiltOK(longer)'
  BY <1>1, <1>2, ListingKeepsBuilt
<1>6. PlacedOK(longer)'
  <2>1. longer[1] = held[1]
    <3>1. operations \in Seq(TimedOps)
      BY RouterState
    <3>2. held \in Seq([Qubits -> Qubits]) /\ 1 \in DOMAIN held
      BY <1>1, <3>1, HeldShape
    <3>. QED
      BY <1>2, <3>2
  <2>. QED
    BY <1>1, <2>1 DEF PlacedOK
<1>. QED
  BY <1>3, <1>4, <1>5, <1>6 DEF HistoryOK

-----------------------------------------------------------------------------
(* The steps of the assignment                                             *)

\* An operation is listed for the gate that the router works on.
LEMMA WorkKeeps ==
    ASSUME MapInv, RouterInv', AppliedWhereItIs, stage = "assign",
           NEW id \in Ready(circuit, Before), routingGate \subseteq {id}, routingGate' = {id},
           id \notin Routed, gate' = GetGate(circuit, id),
           NEW o, Lists(o), (IsRouting(o) /\ MovesOneOf(o, gate')) \/ IsFor(o, gate'),
           UNCHANGED <<device, job, topologyVars, at, done, stage>>
    PROVE  /\ OrderOK' /\ WaitingOK' /\ HistoryOK'
           /\ Before' = Before /\ (id \in Routed' <=> ~o.routing)
<1>1. RouterInv /\ JobOK /\ OrderOK /\ WaitingOK /\ HistoryOK
  BY DEF MapInv
<1>2. PICK k \in DOMAIN circuit : id = circuit[k].id
  BY DEF Ready, GateIds
<1>3. gate' = circuit[k]
  BY <1>1, <1>2, CircuitGiven, GateAt
<1>4. o \in TimedOps /\ operations \in Seq(TimedOps) /\ operations' = Append(operations, o)
  BY <1>1, RouterState DEF Lists
<1>5. circuit' = circuit
  BY DEF topologyVars
<1>6. o.routing \/ o.id = id
  BY <1>2, <1>3 DEF IsRouting, IsFor
<1>7. OrderOK' /\ Before' = Before /\ (id \in Routed' <=> ~o.routing)
  BY <1>1, <1>4, <1>5, <1>6, ListingKeepsOrder
<1>8. WaitingOK'
  BY <1>1, <1>7, WaitingRests
<1>9. ~o.routing => o.op # "swap" /\ OnItsQubits(o)
  <2>1. SUFFICES ASSUME ~o.routing PROVE o.op # "swap" /\ OnItsQubits(o)
    OBVIOUS
  <2>2. IsFor(o, circuit[k])
    BY <1>3, <2>1 DEF IsRouting
  <2>3. \A pin \in DOMAIN o.qubits : logicalQubit[o.qubits[pin]] = circuit[k].qubits[pin]
    <3>1. Last(operations') = o
      BY <1>4, LastListed
    <3>2. Len(operations') > Len(operations)
      <4>1. Len(operations) \in Nat /\ Len(operations') = Len(operations) + 1
        BY <1>4, OperationAppended
      <4>. QED
        BY <4>1
    <3>. QED
      BY <1>3, <2>1, <3>1, <3>2 DEF AppliedWhereItIs
  <2>4. circuit[k].op # "swap"
    BY <1>1, CircuitGiven
  <2>. QED
    BY <2>2, <2>3, <2>4 DEF IsFor, OnItsQubits
<1>10. o.routing => \E m \in DOMAIN circuit :
          /\ circuit[m].id \notin Routed /\ Requires(circuit, circuit[m].id) \subseteq Routed
          /\ MovesOneOf(o, circuit[m])
  <2>1. Requires(circuit, id) \subseteq Routed
    BY DEF Ready, Before
  <2>. QED
    BY <1>2, <1>3, <2>1 DEF IsFor
<1>11. HistoryOK'
  BY <1>1, <1>5, <1>9, <1>10, ListingKeepsHistory DEF IsFor
<1>. QED
  BY <1>7, <1>8, <1>11

\* A gate is given to the router.
LEMMA RouteOneGateKeeps ==
    ASSUME MapInv, NEW id \in GateIds(circuit), RouteOneGate(id)
    PROVE  MapInv' /\ device' = device
<1>1. /\ RouterInv /\ JobOK /\ RoutingOK /\ OrderOK /\ WaitingOK /\ CountOK /\ HistoryOK
      /\ stage = "assign" /\ physical = <<>>
  BY DEF MapInv, RouteOneGate
<1>2. PICK g : g = GetGate(circuit, id)
  OBVIOUS
<1>3. /\ routingGate = {} /\ routingGate' = {id} /\ id \in NextGates
      /\ AssignGate(g) /\ nextGate' = nextGate + 1
      /\ UNCHANGED <<topologyVars, job, stage, unbuilt, physical, at, done>>
  BY <1>2 DEF RouteOneGate, buildVars
<1>4. circuit' = circuit
  BY <1>3 DEF topologyVars
<1>5. Before = Routed
  BY <1>3 DEF Before
<1>6. id \in Ready(circuit, Before) /\ id \notin Routed
  BY <1>1, <1>3, <1>5, NextIsReady DEF Ready
<1>7. IsGate(g)
  BY <1>1, <1>2, CircuitGiven, GateAt DEF GateIds
<1>8. RouterInv' /\ AppliedWhereItIs
  BY <1>1, <1>3, <1>7, AssignGateKeeps
<1>9. /\ UNCHANGED <<device, tables, config>> /\ gate' = g
      /\ \/ ListsNothing /\ ~Finished'
         \/ \E o : Lists(o) /\ IsFor(o, g) /\ Finished'
  BY <1>1, <1>3, <1>7, AssignGateLists
<1>10. /\ OrderOK' /\ WaitingOK' /\ HistoryOK'
       /\ Before' = Before /\ (id \in Routed' <=> Finished')
  <2>1. CASE ListsNothing /\ ~Finished'
    <3>1. UNCHANGED <<operations, logicalQubit, occupiedTime>>
      BY <2>1 DEF ListsNothing
    <3>2. Routed' = Routed
      BY <3>1 DEF Routed
    <3>3. Before' = Before
      BY <1>3, <1>5, <1>6, <3>2 DEF Before
    <3>4. OrderOK' /\ WaitingOK'
      BY <1>1, <1>3, <1>4, <3>1, <3>3, NoListingKeepsOrder, WaitingRests
    <3>5. Unbuilt' = Unbuilt
      BY <1>3, <3>1 DEF Unbuilt
    <3>6. HistoryOK'
      BY <1>1, <1>3, <1>4, <1>9, <3>1, <3>5, HistoryRests
    <3>. QED
      BY <1>6, <2>1, <3>2, <3>3, <3>4, <3>6
  <2>2. CASE \E o : Lists(o) /\ IsFor(o, g) /\ Finished'
    <3>1. PICK o : Lists(o) /\ IsFor(o, g) /\ Finished'
      BY <2>2
    <3>2. /\ OrderOK' /\ WaitingOK' /\ HistoryOK'
          /\ Before' = Before /\ (id \in Routed' <=> ~o.routing)
      BY <1>1, <1>2, <1>3, <1>6, <1>8, <1>9, <3>1, WorkKeeps
    <3>. QED
      BY <3>1, <3>2 DEF IsFor
  <2>. QED
    BY <1>9, <2>1, <2>2
<1>11. CountOK'
  BY <1>1, <1>3, <1>6, <1>10, CountsUp
<1>12. RoutingOK'
  BY <1>1, <1>2, <1>3, <1>4, <1>6, <1>9, <1>10 DEF RoutingOK
<1>13. JobOK'
  BY <1>1, <1>3, <1>4 DEF JobOK
<1>. QED
  BY <1>1, <1>3, <1>8, <1>9, <1>10, <1>11, <1>12, <1>13 DEF MapInv, AllRouted

\* The router works.
LEMMA RoutingKeeps ==
    ASSUME MapInv, Routing
    PROVE  MapInv' /\ device' = device
<1>1. /\ RouterInv /\ JobOK /\ RoutingOK /\ OrderOK /\ WaitingOK /\ CountOK
      /\ RouteStep
      /\ UNCHANGED <<topologyVars, job, nextGate, routingGate, stage, unbuilt, physical, at,
                     done>>
  BY DEF MapInv, Routing, scheduleVars, buildVars
<1>2. circuit' = circuit
  BY <1>1 DEF topologyVars
<1>3. RouterInv' /\ AppliedWhereItIs
  BY <1>1, RouteStepKeeps
<1>4. /\ UNCHANGED <<device, tables, config, gate>> /\ ~Idle
      /\ \/ ListsNothing /\ (Finished <=> Finished')
         \/ /\ ~Finished
            /\ \E o : Lists(o) /\ \/ IsRouting(o) /\ MovesOneOf(o, gate) /\ ~Finished'
                                  \/ IsFor(o, gate) /\ Finished'
  BY <1>1, RouteStepLists
<1>5. PICK id \in Ready(circuit, Before) : /\ routingGate = {id}
                                           /\ gate = GetGate(circuit, id)
                                           /\ id \in Routed <=> Finished
  BY <1>1, <1>4 DEF RoutingOK
<1>6. stage = "assign" /\ HistoryOK /\ physical = <<>>
  BY <1>1, <1>5 DEF RoutingOK, MapInv
<1>7. /\ OrderOK' /\ WaitingOK' /\ HistoryOK'
      /\ Before' = Before /\ (id \in Routed' <=> Finished')
  <2>1. CASE ListsNothing /\ (Finished <=> Finished')
    <3>1. UNCHANGED <<operations, logicalQubit, occupiedTime>>
      BY <2>1 DEF ListsNothing
    <3>2. Routed' = Routed
      BY <3>1 DEF Routed
    <3>3. Before' = Before
      BY <1>1, <3>2 DEF Before
    <3>4. OrderOK' /\ WaitingOK'
      BY <1>1, <1>2, <3>1, <3>3, NoListingKeepsOrder, WaitingRests
    <3>5. Unbuilt' = Unbuilt
      BY <1>1, <3>1 DEF Unbuilt
    <3>6. HistoryOK'
      BY <1>1, <1>2, <1>4, <1>6, <3>1, <3>5, HistoryRests
    <3>. QED
      BY <1>5, <2>1, <3>2, <3>3, <3>4, <3>6
  <2>2. CASE ~Finished /\ \E o : Lists(o) /\ \/ IsRouting(o) /\ MovesOneOf(o, gate) /\ ~Finished'
                                             \/ IsFor(o, gate) /\ Finished'
    <3>1. PICK o : Lists(o) /\ \/ IsRouting(o) /\ MovesOneOf(o, gate) /\ ~Finished'
                               \/ IsFor(o, gate) /\ Finished'
      BY <2>2
    <3>2. id \notin Routed /\ gate' = GetGate(circuit, id) /\ routingGate' = {id}
      BY <1>1, <1>4, <1>5, <2>2
    <3>3. (IsRouting(o) /\ MovesOneOf(o, gate')) \/ IsFor(o, gate')
      BY <1>4, <3>1
    <3>4. /\ OrderOK' /\ WaitingOK' /\ HistoryOK'
          /\ Before' = Before /\ (id \in Routed' <=> ~o.routing)
      BY <1>1, <1>3, <1>4, <1>5, <1>6, <3>1, <3>2, <3>3, WorkKeeps
    <3>. QED
      BY <3>1, <3>4 DEF IsFor, IsRouting
  <2>. QED
    BY <1>4, <2>1, <2>2
<1>8. CountOK'
  BY <1>1, <1>7, CountRests
<1>9. RoutingOK'
  BY <1>1, <1>2, <1>4, <1>5, <1>6, <1>7 DEF RoutingOK
<1>10. JobOK'
  BY <1>1, <1>2 DEF JobOK
<1>. QED
  BY <1>1, <1>3, <1>4, <1>6, <1>7, <1>8, <1>9, <1>10 DEF MapInv, AllRouted

\* The router has returned.
LEMMA GateRoutedKeeps ==
    ASSUME MapInv, GateRouted
    PROVE  MapInv' /\ device' = device
<1>1. /\ RouterInv /\ JobOK /\ RoutingOK /\ OrderOK /\ WaitingOK /\ CountOK
      /\ Idle /\ routingGate' = {}
      /\ UNCHANGED <<routerVars, job, nextGate, stage, unbuilt, physical, at, done>>
  BY DEF MapInv, GateRouted, buildVars
<1>2. PICK id \in routingGate : UpdateAvailableGates(id)
  BY DEF GateRouted
<1>3. UNCHANGED <<device, operations, logicalQubit, occupiedTime, phase, pending>>
  BY <1>1 DEF routerVars, deviceVars
<1>4. /\ routingGate = {id} /\ id \in Ready(circuit, Before)
      /\ Routed' = Routed /\ Routed = Before \cup {id} /\ Before' = Before \cup {id}
  BY <1>1, <1>2, <1>3, RouterReturns
<1>5. WaitingOK' /\ circuit' = circuit
  BY <1>1, <1>2, <1>4, UpdateKeepsWaiting
<1>6. OrderOK'
  <2>1. Closed(circuit, Before)'
    <3>1. Closed(circuit, Before \cup {id})
      BY <1>1, <1>4, CircuitGiven, ReadyAfter DEF OrderOK
    <3>. QED
      BY <1>4, <1>5, <3>1
  <2>2. Applied' = Applied
    BY <1>3 DEF Applied
  <2>. QED
    BY <1>1, <1>3, <1>5, <2>1, <2>2 DEF OrderOK
<1>7. stage = "assign" /\ HistoryOK /\ physical = <<>>
  BY <1>1, <1>4 DEF RoutingOK, MapInv
<1>8. HistoryOK'
  <2>1. Unbuilt' = Unbuilt
    BY <1>1, <1>3 DEF Unbuilt
  <2>. QED
    BY <1>1, <1>3, <1>5, <1>7, <2>1, HistoryRests
<1>9. CountOK'
  <2>1. Before' \cup routingGate' = Before \cup routingGate
    BY <1>1, <1>4
  <2>. QED
    BY <1>1, <2>1, CountRests
<1>10. RoutingOK' /\ JobOK'
  BY <1>1, <1>3, <1>5 DEF RoutingOK, JobOK, Idle
<1>11. RouterInv'
  BY <1>1, RestKeeps
<1>. QED
  BY <1>1, <1>3, <1>5, <1>6, <1>7, <1>8, <1>9, <1>10, <1>11 DEF MapInv, AllRouted

\* The scheduler has no more gates, or was asked to stop.
LEMMA AssignmentEndsKeeps ==
    ASSUME MapInv, AssignmentEnds
    PROVE  MapInv' /\ device' = device
<1>1. /\ RouterInv /\ JobOK /\ RoutingOK /\ OrderOK /\ WaitingOK /\ CountOK /\ HistoryOK
      /\ stage = "assign" /\ routingGate = {} /\ physical = <<>>
      /\ ~MoreGates \/ stopRequested
      /\ stage' = (IF stopRequested THEN "interrupted" ELSE "build")
      /\ unbuilt' = (IF stopRequested THEN {} ELSE DOMAIN operations)
      /\ UNCHANGED <<routerVars, topologyVars, job, nextGate, routingGate, physical, at, done>>
  BY DEF MapInv, AssignmentEnds, AssignmentOver, scheduleVars
<1>2. UNCHANGED <<device, operations, logicalQubit, occupiedTime, phase, circuit>>
  BY <1>1 DEF routerVars, deviceVars, topologyVars
<1>3. Routed' = Routed /\ Before' = Before /\ Before = Routed
  BY <1>1, <1>2 DEF Routed, Before
<1>4. OrderOK' /\ WaitingOK' /\ CountOK'
  BY <1>1, <1>2, <1>3, NoListingKeepsOrder, WaitingRests, CountRests
<1>5. RouterInv' /\ JobOK' /\ RoutingOK'
  BY <1>1, <1>2, RestKeeps DEF JobOK, RoutingOK, Idle
<1>6. ~stopRequested => Routed = GateIds(circuit)
  <2>1. SUFFICES ASSUME ~MoreGates PROVE Before = GateIds(circuit)
    BY <1>1, <1>3
  <2>2. CASE scheduler.type \in {"greedy", "search"}
    <3>1. availableGates = <<>>
      BY <2>1, <2>2 DEF MoreGates
    <3>2. Ready(circuit, Before) = {}
      BY <1>1, <3>1 DEF WaitingOK, ToSet
    <3>. QED
      BY <1>1, <3>2, CircuitGiven, NothingReady DEF OrderOK
  <2>3. CASE scheduler.type \notin {"greedy", "search"}
    <3>1. ~(nextGate < NumGates)
      BY <2>1, <2>3 DEF MoreGates
    <3>2. nextGate \in Nat /\ nextGate = Cardinality(Before)
      BY <1>1 DEF CountOK
    <3>3. /\ IsFiniteSet(GateIds(circuit)) /\ Cardinality(GateIds(circuit)) = NumGates
          /\ NumGates \in Nat
      BY <1>1, CircuitGiven
    <3>4. Before \in SUBSET GateIds(circuit)
      BY <1>1 DEF OrderOK, Closed
    <3>5. /\ Cardinality(Before) <= Cardinality(GateIds(circuit))
          /\ Cardinality(GateIds(circuit)) = Cardinality(Before) => GateIds(circuit) = Before
      BY <3>3, <3>4, FS_Subset
    <3>. QED
      BY <3>1, <3>2, <3>3, <3>5
  <2>. QED
    BY <2>2, <2>3
<1>7. stage' # "interrupted" => HistoryOK'
  <2>1. SUFFICES ASSUME ~stopRequested PROVE HistoryOK'
    BY <1>1
  <2>2. Unbuilt' = Unbuilt
    BY <1>1, <1>2, <2>1 DEF Unbuilt
  <2>. QED
    BY <1>1, <1>2, <2>2, HistoryRests
<1>8. stage' = "build" => PhysicalOK'
  <2>1. SUFFICES ASSUME stage' = "build" PROVE PhysicalOK'
    OBVIOUS
  <2>2. Written' = {}
    BY <1>1, <1>2, <2>1 DEF Written, Unbuilt
  <2>3. physical' = <<>>
    BY <1>1
  <2>4. \A x : x \notin DOMAIN physical'
    BY <2>3
  <2>5. physical' \in Seq(PhysicalOps)
    BY <2>3
  <2>6. PICK starts : starts = [i \in {} |-> 1]
    OBVIOUS
  <2>7. starts \in [{} -> Nat \ {0}]
    BY <2>6
  <2>8. LayoutOK(starts)'
    BY <2>2, <2>4, <2>5, <2>7 DEF LayoutOK
  <2>. QED
    BY <2>8 DEF PhysicalOK
<1>. QED
  BY <1>1, <1>2, <1>3, <1>4, <1>5, <1>6, <1>7, <1>8 DEF MapInv, AllRouted

\* What the assignment has left is not touched by the steps that follow it, nor by the
\* request to stop or by the check.
LEMMA AfterwardsKeeps ==
    ASSUME MapInv,
           UNCHANGED <<routerVars, topologyVars, job, nextGate, routingGate, physical, at, done>>,
           \/ UNCHANGED <<stage, unbuilt>>
           \/ stage = "build" /\ stage' = "mapped" /\ unbuilt = {} /\ unbuilt' = {}
    PROVE  MapInv' /\ UNCHANGED <<device, circuit, at, done, physical>>
<1>1. /\ RouterInv /\ JobOK /\ RoutingOK /\ OrderOK /\ WaitingOK /\ CountOK /\ AllRouted
      /\ stage = "mapped" => unbuilt = {}
      /\ stage \in {"assign", "interrupted"} => physical = <<>>
      /\ stage # "interrupted" => HistoryOK
      /\ stage \in {"assign", "build", "mapped", "interrupted"}
  BY DEF MapInv
<1>2. UNCHANGED <<device, operations, logicalQubit, occupiedTime, phase, pending, gate, circuit>>
  BY DEF routerVars, deviceVars, routeVars, topologyVars
<1>3. Routed' = Routed /\ Before' = Before
  BY <1>2 DEF Routed, Before
<1>4. OrderOK' /\ WaitingOK' /\ CountOK'
  BY <1>1, <1>2, <1>3, NoListingKeepsOrder, WaitingRests, CountRests
<1>5. RouterInv' /\ JobOK'
  BY <1>1, <1>2, RestKeeps DEF JobOK
<1>6. RoutingOK'
  <2>1. (Idle' <=> Idle) /\ (Finished' <=> Finished)
    BY <1>2 DEF Idle, Finished
  <2>. QED
    BY <1>1, <1>2, <1>3, <2>1 DEF RoutingOK
<1>7. stage' # "interrupted" => HistoryOK'
  <2>1. SUFFICES ASSUME stage' # "interrupted" PROVE HistoryOK'
    OBVIOUS
  <2>2. Unbuilt' = Unbuilt /\ stage # "interrupted"
    BY <1>2, <2>1 DEF Unbuilt
  <2>. QED
    BY <1>1, <1>2, <2>2, HistoryRests
<1>8. AllRouted'
  BY <1>1, <1>2, <1>3 DEF AllRouted
<1>9. stage' \in {"build", "mapped"} => PhysicalOK'
  <2>1. SUFFICES ASSUME stage' \in {"build", "mapped"} PROVE PhysicalOK'
    OBVIOUS
  <2>2. PICK starts : LayoutOK(starts)
    BY <2>1 DEF MapInv, PhysicalOK
  <2>3. Written' = Written
    BY <1>2, <2>1 DEF Written, Unbuilt
  <2>4. /\ \A i : Width(i)' = Width(i)
        /\ \A i, c : Entry(i, c)' = Entry(i, c)
    BY <1>2 DEF Width, Entry
  <2>5. LayoutOK(starts)'
    BY <1>2, <2>2, <2>3, <2>4 DEF LayoutOK
  <2>. QED
    BY <2>5 DEF PhysicalOK
<1>. QED
  BY <1>1, <1>2, <1>4, <1>5, <1>6, <1>7, <1>8, <1>9 DEF MapInv

-----------------------------------------------------------------------------
(* Following the operations in another order                               *)

\* There is one entry more for the labels than for the operations.
LEMMA ListShape ==
    ASSUME RouterInv, NEW held, LabelsOK(held)
    PROVE  \E n \in Nat : DOMAIN operations = 1 .. n /\ DOMAIN held = 1 .. n + 1
<1>1. operations \in Seq(TimedOps)
  BY RouterState
<1>2. PICK n \in Nat : n = Len(operations)
  BY <1>1
<1>3. DOMAIN operations = 1 .. n /\ DOMAIN held = 1 .. n + 1
  BY <1>1, <1>2, HeldShape
<1>. QED
  BY <1>3

\* The qubits of a SWAP of the router
LEMMA SwapOn ==
    ASSUME NEW o \in TimedOps, IsRouting(o)
    PROVE  /\ o.qubits[1] \in Qubits /\ o.qubits[2] \in Qubits
           /\ On(o) = {o.qubits[1], o.qubits[2]}
           /\ Len(o.qubits) = 2 /\ o.op = "swap"
<1>1. o.qubits \in Seq(Qubits) /\ Len(o.qubits) = 2 /\ o.op = "swap"
  BY DEF TimedOps, IsRouting
<1>. QED
  BY <1>1 DEF On, ToSet

\* The operation i is on the qubit that holds l.
IsOnHolder(held, i, l) == \E q \in On(operations[i]) : held[i][q] = l

\* What holds a label before an operation and what holds it afterwards are both among the
\* qubits of the operation, or neither is.
LEMMA LabelsStay ==
    ASSUME RouterInv, NEW held, LabelsOK(held), NEW i \in DOMAIN operations
    PROVE  /\ i \in Nat /\ i \in DOMAIN held /\ i + 1 \in DOMAIN held
           /\ On(operations[i]) \subseteq Qubits
           /\ \A q \in On(operations[i]) :
                 /\ \E p \in On(operations[i]) : held[i + 1][p] = held[i][q]
                 /\ \E p \in On(operations[i]) : held[i + 1][q] = held[i][p]
<1>1. operations \in Seq(TimedOps) /\ operations[i] \in TimedOps
  BY RouterState
<1>2. PICK n \in Nat : n = Len(operations)
  BY <1>1
<1>3. DOMAIN operations = 1 .. n /\ DOMAIN held = 1 .. n + 1
  BY <1>1, <1>2, HeldShape
<1>4. On(operations[i]) \subseteq Qubits
  BY <1>1, OnQubits
<1>5. CASE i \in Applied
  <2>1. PICK qs : qs = operations[i].qubits
    OBVIOUS
  <2>2. PICK k \in DOMAIN circuit :
           \A pin \in DOMAIN qs : /\ held[i][qs[pin]] = circuit[k].qubits[pin]
                                  /\ held[i + 1][qs[pin]] = circuit[k].qubits[pin]
    BY <1>5, <2>1 DEF LabelsOK
  <2>3. \A q \in On(operations[i]) : \E pin \in DOMAIN qs : q = qs[pin]
    BY <2>1 DEF On, ToSet
  <2>. QED
    BY <1>3, <1>4, <2>2, <2>3
<1>6. CASE i \notin Applied
  <2>1. PICK a, b : a = operations[i].qubits[1] /\ b = operations[i].qubits[2]
    OBVIOUS
  <2>2. IsRouting(operations[i]) /\ held[i + 1][a] = held[i][b] /\ held[i + 1][b] = held[i][a]
    BY <1>6, <2>1 DEF LabelsOK
  <2>3. On(operations[i]) = {a, b}
    BY <1>1, <2>1, <2>2, SwapOn
  <2>. QED
    BY <1>3, <1>4, <2>2, <2>3
<1>. QED
  BY <1>5, <1>6

\* A logical qubit that was moved or used is where the last operation on it that was
\* followed has left it ...
LEMMA PlaceAfter ==
    ASSUME RouterInv, NEW held, LabelsOK(held),
           NEW rest, NEW where, NEW ran, Progress(held, rest, where, ran),
           NEW l, NEW t \in DOMAIN operations \ rest, IsOnHolder(held, t, l),
           \A u \in DOMAIN operations \ rest : IsOnHolder(held, u, l) => u <= t
    PROVE  \E q \in On(operations[t]) : where[l] = q
<1>1. PICK q \in On(operations[t]) : held[t + 1][q] = l
  BY LabelsStay DEF IsOnHolder
<1>2. PICK n \in Nat : DOMAIN operations = 1 .. n /\ DOMAIN held = 1 .. n + 1
  BY ListShape
<1>3. q \in Qubits
  BY <1>1, LabelsStay
<1>4. PICK k \in DOMAIN held :
         /\ \A i \in DOMAIN operations : q \in On(operations[i]) => (i \in rest <=> k <= i)
         /\ where[held[k][q]] = q
  BY <1>3 DEF Progress
<1>5. t \in Nat /\ k \in Nat /\ t + 1 <= k /\ t + 1 \in DOMAIN held
  BY <1>1, <1>2, <1>4
<1>. DEFINE Later == {j \in t + 1 .. k - 1 : q \in On(operations[j])}
<1>6. Later = {}
  <2>1. SUFFICES ASSUME Later # {} PROVE FALSE
    OBVIOUS
  <2>2. PICK u : u = Min(Later)
    OBVIOUS
  <2>3. Later \subseteq Nat
    BY <1>5
  <2>4. u \in Later /\ \A j \in Later : u <= j
    BY <2>1, <2>2, <2>3, MinOfNaturals
  <2>5. u \in DOMAIN operations /\ u \in DOMAIN held /\ ~(k <= u) /\ t + 1 <= u
        /\ q \in On(operations[u]) /\ u \in Nat
    BY <1>2, <1>5, <2>4
  <2>6. \A j \in t + 1 .. u - 1 : q \notin On(operations[j])
    <3>1. \A j \in t + 1 .. u - 1 : j \in t + 1 .. k - 1 /\ ~(u <= j)
      BY <1>5, <2>5
    <3>. QED
      BY <2>4, <3>1
  <2>7. held[t + 1][q] = held[u][q]
    BY <1>3, <1>5, <2>5, <2>6 DEF LabelsOK
  <2>8. u \notin rest /\ IsOnHolder(held, u, l)
    BY <1>1, <1>4, <2>5, <2>7 DEF IsOnHolder
  <2>. QED
    BY <1>5, <2>5, <2>8
<1>7. \A j \in t + 1 .. k - 1 : q \notin On(operations[j])
  BY <1>6
<1>8. held[t + 1][q] = held[k][q]
  BY <1>3, <1>5, <1>7 DEF LabelsOK
<1>. QED
  BY <1>1, <1>4, <1>8

\* ... and where the first one that was not followed expects it.
LEMMA PlaceBefore ==
    ASSUME RouterInv, NEW held, LabelsOK(held),
           NEW rest, NEW where, NEW ran, Progress(held, rest, where, ran),
           NEW l, NEW u \in rest, IsOnHolder(held, u, l),
           \A t \in rest : IsOnHolder(held, t, l) => u <= t
    PROVE  \E q \in On(operations[u]) : where[l] = q
<1>1. PICK q \in On(operations[u]) : held[u][q] = l
  BY DEF IsOnHolder
<1>2. PICK n \in Nat : DOMAIN operations = 1 .. n /\ DOMAIN held = 1 .. n + 1
  BY ListShape
<1>3. u \in DOMAIN operations /\ u \in DOMAIN held /\ q \in Qubits
  <2>1. u \in DOMAIN operations
    BY DEF Progress
  <2>. QED
    BY <1>1, <2>1, LabelsStay
<1>4. PICK k \in DOMAIN held :
         /\ \A i \in DOMAIN operations : q \in On(operations[i]) => (i \in rest <=> k <= i)
         /\ where[held[k][q]] = q
  BY <1>3 DEF Progress
<1>5. u \in Nat /\ k \in Nat /\ k <= u /\ u <= n /\ 1 <= k
  BY <1>1, <1>2, <1>3, <1>4
<1>. DEFINE Earlier == {j \in k .. u - 1 : q \in On(operations[j])}
<1>6. Earlier = {}
  <2>1. SUFFICES ASSUME Earlier # {} PROVE FALSE
    OBVIOUS
  <2>2. PICK v : v = Max(Earlier)
    OBVIOUS
  <2>3. Earlier \subseteq Nat /\ \A j \in Earlier : j <= u
    BY <1>5
  <2>4. v \in Earlier /\ \A j \in Earlier : j <= v
    <3>. HIDE DEF Earlier
    <3>. QED
      BY <1>5, <2>1, <2>2, <2>3, MaxOfNaturals
  <2>5. v \in DOMAIN operations /\ v + 1 \in DOMAIN held /\ k <= v /\ v + 1 <= u
        /\ q \in On(operations[v]) /\ v \in Nat
    BY <1>2, <1>5, <2>4
  <2>6. \A j \in v + 1 .. u - 1 : q \notin On(operations[j])
    <3>1. \A j \in v + 1 .. u - 1 : j \in k .. u - 1 /\ ~(j <= v)
      BY <1>5, <2>5
    <3>. QED
      BY <2>4, <3>1
  <2>7. held[v + 1][q] = held[u][q]
    BY <1>3, <1>5, <2>5, <2>6 DEF LabelsOK
  <2>8. PICK p \in On(operations[v]) : held[v][p] = l
    BY <1>1, <2>5, <2>7, LabelsStay
  <2>9. v \in rest /\ IsOnHolder(held, v, l)
    BY <1>4, <2>5, <2>8 DEF IsOnHolder
  <2>. QED
    BY <1>5, <2>5, <2>9
<1>7. \A j \in k .. u - 1 : q \notin On(operations[j])
  BY <1>6
<1>8. held[k][q] = held[u][q]
  BY <1>3, <1>5, <1>7 DEF LabelsOK
<1>. QED
  BY <1>1, <1>4, <1>8

\* An order that is kept on the physical qubits is kept on the logical ones.
LEMMA RestAlong ==
    ASSUME RouterInv, NEW held, LabelsOK(held),
           NEW rest, NEW where, NEW ran, Progress(held, rest, where, ran),
           NEW l, NEW u \in rest, NEW t \in DOMAIN operations, u <= t,
           IsOnHolder(held, u, l), IsOnHolder(held, t, l)
    PROVE  t \in rest
<1>1. SUFFICES ASSUME t \notin rest PROVE FALSE
  OBVIOUS
<1>2. PICK n \in Nat : DOMAIN operations = 1 .. n /\ DOMAIN held = 1 .. n + 1
  BY ListShape
<1>3. rest \subseteq 1 .. n
  BY <1>2 DEF Progress
<1>4. PICK last \in DOMAIN operations \ rest :
         /\ IsOnHolder(held, last, l) /\ t <= last
         /\ \A x \in DOMAIN operations \ rest : IsOnHolder(held, x, l) => x <= last
  <2>1. PICK past : past = {x \in DOMAIN operations \ rest : IsOnHolder(held, x, l)}
    OBVIOUS
  <2>2. past \subseteq Nat /\ t \in past /\ \A x \in past : x <= n
    BY <1>1, <1>2, <2>1
  <2>3. Max(past) \in past /\ \A x \in past : x <= Max(past)
    BY <2>2, MaxOfNaturals
  <2>. QED
    BY <2>1, <2>2, <2>3
<1>5. PICK first \in rest :
         /\ IsOnHolder(held, first, l) /\ first <= u
         /\ \A x \in rest : IsOnHolder(held, x, l) => first <= x
  <2>1. PICK left : left = {x \in rest : IsOnHolder(held, x, l)}
    OBVIOUS
  <2>2. left \subseteq Nat /\ u \in left
    <3>1. \A x \in left : x \in Nat
      BY <1>3, <2>1
    <3>. QED
      BY <2>1, <3>1
  <2>3. Min(left) \in left /\ \A x \in left : Min(left) <= x
    BY <2>2, MinOfNaturals
  <2>. QED
    BY <2>1, <2>2, <2>3
<1>6. PICK q : q \in On(operations[last]) /\ where[l] = q
  BY <1>4, PlaceAfter
<1>7. q \in On(operations[first])
  BY <1>5, <1>6, PlaceBefore
<1>8. q \in Qubits /\ first \in DOMAIN operations
  BY <1>2, <1>3, <1>4, <1>6, LabelsStay
<1>9. PICK k \in DOMAIN held :
         \A i \in DOMAIN operations : q \in On(operations[i]) => (i \in rest <=> k <= i)
  BY <1>8 DEF Progress
<1>10. k <= first /\ ~(k <= last)
  BY <1>4, <1>5, <1>6, <1>7, <1>8, <1>9
<1>11. k \in Nat /\ first \in Nat /\ last \in Nat /\ u \in Nat /\ t \in Nat
  BY <1>2, <1>3, <1>4, <1>8, <1>9
<1>. QED
  BY <1>4, <1>5, <1>10, <1>11

\* An operation that may be followed finds the logical qubits where those before it in the
\* list have brought them.
LEMMA FollowedAt ==
    ASSUME RouterInv, NEW held, LabelsOK(held),
           NEW rest, NEW where, NEW ran, Progress(held, rest, where, ran),
           NEW i, MayFollow(rest, i), NEW q \in On(operations[i])
    PROVE  /\ where[held[i][q]] = q
           /\ \A j \in DOMAIN operations : q \in On(operations[j]) => (j \in rest <=> i <= j)
<1>1. PICK n \in Nat : DOMAIN operations = 1 .. n /\ DOMAIN held = 1 .. n + 1
  BY ListShape
<1>2. i \in rest /\ i \in 1 .. n /\ rest \subseteq 1 .. n
  BY <1>1 DEF MayFollow, Progress
<1>3. q \in Qubits
  BY <1>1, <1>2, LabelsStay
<1>4. PICK k \in 1 .. n + 1 :
         /\ \A j \in 1 .. n : q \in On(operations[j]) => (j \in rest <=> k <= j)
         /\ where[held[k][q]] = q
  BY <1>1, <1>3 DEF Progress
<1>5. k <= i
  BY <1>2, <1>4
<1>6. \A j \in rest : q \in On(operations[j]) => i <= j
  BY DEF MayFollow
<1>7. ASSUME NEW j \in k .. i - 1 PROVE q \notin On(operations[j])
  <2>1. j \in 1 .. n /\ k <= j /\ ~(i <= j)
    BY <1>2, <1>4
  <2>. QED
    BY <1>4, <1>6, <2>1
<1>8. held[k][q] = held[i][q]
  <2>1. k \in DOMAIN held /\ i \in DOMAIN held
    BY <1>1, <1>2
  <2>. QED
    BY <1>3, <1>5, <1>7, <2>1 DEF LabelsOK
<1>9. ASSUME NEW j \in 1 .. n, q \in On(operations[j]) PROVE j \in rest <=> i <= j
  <2>1. i <= j => k <= j
    BY <1>2, <1>4, <1>5
  <2>. QED
    BY <1>4, <1>6, <1>9, <2>1
<1>. QED
  BY <1>1, <1>4, <1>8, <1>9

\* Nothing that is left comes before it on its logical qubits either.
LEMMA FirstAlong ==
    ASSUME RouterInv, NEW held, LabelsOK(held),
           NEW rest, NEW where, NEW ran, Progress(held, rest, where, ran),
           NEW i, MayFollow(rest, i), NEW l, IsOnHolder(held, i, l),
           NEW j \in rest, IsOnHolder(held, j, l)
    PROVE  i <= j
<1>1. rest \subseteq Nat
  BY RouterState DEF Progress
<1>2. PICK first \in rest :
         /\ IsOnHolder(held, first, l) /\ first <= j
         /\ \A x \in rest : IsOnHolder(held, x, l) => first <= x
  <2>1. PICK left : left = {x \in rest : IsOnHolder(held, x, l)}
    OBVIOUS
  <2>2. left \subseteq Nat /\ j \in left
    BY <1>1, <2>1
  <2>3. Min(left) \in left /\ \A x \in left : Min(left) <= x
    BY <2>2, MinOfNaturals
  <2>. QED
    BY <2>1, <2>2, <2>3
<1>3. PICK q : q \in On(operations[first]) /\ where[l] = q
  BY <1>2, PlaceBefore
<1>4. PICK p \in On(operations[i]) : held[i][p] = l
  BY DEF IsOnHolder
<1>5. where[l] = p
  BY <1>4, FollowedAt
<1>6. i <= first /\ i \in rest
  BY <1>2, <1>3, <1>4, <1>5 DEF MayFollow
<1>. QED
  BY <1>1, <1>2, <1>6

\* The operation i is the gate at position m of the circuit, where its qubits are.
IsGateAt(held, i, m) ==
    LET qs == operations[i].qubits
    IN  /\ m \in DOMAIN circuit /\ operations[i].id = circuit[m].id
        /\ operations[i].op = circuit[m].op /\ circuit[m].op # "swap"
        /\ qs \in Seq(Qubits) /\ Len(qs) = Len(circuit[m].qubits) /\ Len(qs) \in {1, 2}
        /\ DOMAIN qs = DOMAIN circuit[m].qubits
        /\ \A pin \in DOMAIN qs : /\ qs[pin] \in On(operations[i])
                                  /\ held[i][qs[pin]] = circuit[m].qubits[pin]
                                  /\ held[i + 1][qs[pin]] = circuit[m].qubits[pin]
        /\ \A q \in On(operations[i]) : \E pin \in DOMAIN qs : q = qs[pin]
        /\ \A l : IsOnHolder(held, i, l) <=> m \in OnQubit(circuit, l)

LEMMA GateOf ==
    ASSUME RouterInv, JobOK, NEW held, LabelsOK(held), NEW i \in Applied
    PROVE  \E m \in DOMAIN circuit : IsGateAt(held, i, m)
<1>1. i \in DOMAIN operations /\ operations[i] \in TimedOps
  BY RouterState DEF Applied
<1>2. PICK qs : qs = operations[i].qubits
  OBVIOUS
<1>3. PICK m \in DOMAIN circuit :
         /\ operations[i].id = circuit[m].id /\ operations[i].op = circuit[m].op
         /\ Len(qs) = Len(circuit[m].qubits)
         /\ \A pin \in DOMAIN qs : /\ held[i][qs[pin]] = circuit[m].qubits[pin]
                                   /\ held[i + 1][qs[pin]] = circuit[m].qubits[pin]
  BY <1>2 DEF LabelsOK
<1>4. qs \in Seq(Qubits) /\ Len(qs) \in {1, 2}
  BY <1>1, <1>2 DEF TimedOps
<1>5. circuit[m].qubits \in Seq(Qubits) /\ circuit[m].op # "swap"
  BY CircuitGiven, GateAt
<1>6. DOMAIN qs = DOMAIN circuit[m].qubits
  BY <1>3, <1>4, <1>5
<1>7. /\ \A pin \in DOMAIN qs : qs[pin] \in On(operations[i])
      /\ \A q \in On(operations[i]) : \E pin \in DOMAIN qs : q = qs[pin]
  BY <1>2 DEF On, ToSet
<1>8. ASSUME NEW l PROVE IsOnHolder(held, i, l) <=> m \in OnQubit(circuit, l)
  <2>1. m \in OnQubit(circuit, l) <=> \E pin \in DOMAIN qs : circuit[m].qubits[pin] = l
    BY <1>6 DEF OnQubit, ToSet
  <2>. QED
    BY <1>3, <1>7, <2>1 DEF IsOnHolder
<1>. QED
  BY <1>2, <1>3, <1>4, <1>5, <1>6, <1>7, <1>8 DEF IsGateAt

\* A gate that may be followed has not run, and all that it requires has.
LEMMA GateMayRun ==
    ASSUME RouterInv, JobOK, OrderOK, NEW held, LabelsOK(held),
           NEW rest, NEW where, NEW ran, Progress(held, rest, where, ran),
           NEW i \in Applied, MayFollow(rest, i), NEW m, IsGateAt(held, i, m)
    PROVE  circuit[m].id \notin ran /\ Requires(circuit, circuit[m].id) \subseteq ran
<1>1. /\ m \in DOMAIN circuit /\ operations[i].id = circuit[m].id
      /\ \A l : IsOnHolder(held, i, l) <=> m \in OnQubit(circuit, l)
  BY DEF IsGateAt
<1>2. ran = {operations[j].id : j \in Applied \ rest} /\ i \in rest
  BY DEF Progress, MayFollow
<1>3. circuit[m].id \notin ran
  <2>1. SUFFICES ASSUME NEW j \in Applied \ rest, operations[j].id = circuit[m].id PROVE FALSE
    BY <1>2
  <2>2. j = i
    BY <1>1, <2>1 DEF OrderOK
  <2>. QED
    BY <1>2, <2>2
<1>4. ASSUME NEW x \in Requires(circuit, circuit[m].id) PROVE x \in ran
  <2>1. PICK j \in Applied : j < i /\ operations[j].id = x
    BY <1>1, <1>4 DEF OrderOK
  <2>2. PICK z, l : /\ z \in DOMAIN circuit /\ x = circuit[z].id
                    /\ m \in OnQubit(circuit, l) /\ z \in OnQubit(circuit, l)
    BY <1>1, <1>4, CircuitGiven, RequiresAt
  <2>3. PICK mj : IsGateAt(held, j, mj)
    BY <2>1, GateOf
  <2>4. mj = z
    BY <2>1, <2>2, <2>3, CircuitGiven, UniqueIds DEF IsGateAt
  <2>5. IsOnHolder(held, j, l) /\ IsOnHolder(held, i, l)
    BY <1>1, <2>2, <2>3, <2>4 DEF IsGateAt
  <2>6. j \notin rest
    <3>1. SUFFICES ASSUME j \in rest PROVE FALSE
      OBVIOUS
    <3>2. i <= j
      BY <2>5, <3>1, FirstAlong
    <3>3. i \in Nat /\ j \in Nat
      BY <2>1, LabelsStay DEF Applied
    <3>. QED
      BY <2>1, <3>2, <3>3
  <2>. QED
    BY <1>2, <2>1, <2>6
<1>. QED
  BY <1>3, <1>4

\* It is on the qubits where its logical qubits are.
InPlace(where, i, m) == \A pin \in DOMAIN circuit[m].qubits :
    operations[i].qubits[pin] = where[circuit[m].qubits[pin]]

LEMMA GateFollowed ==
    ASSUME RouterInv, JobOK, NEW held, LabelsOK(held),
           NEW rest, NEW where, NEW ran, Progress(held, rest, where, ran),
           NEW i \in Applied, MayFollow(rest, i), NEW m, IsGateAt(held, i, m)
    PROVE  /\ Progress(held, rest \ {i}, where, ran \cup {circuit[m].id})
           /\ InPlace(where, i, m)
<1>1. PICK n \in Nat : DOMAIN operations = 1 .. n /\ DOMAIN held = 1 .. n + 1
  BY ListShape
<1>2. i \in rest /\ rest \subseteq 1 .. n /\ where \in [Qubits -> Qubits]
      /\ ran = {operations[j].id : j \in Applied \ rest}
  BY <1>1 DEF MayFollow, Progress
<1>3. PICK o : o = operations[i]
  OBVIOUS
<1>4. /\ operations[i].id = circuit[m].id /\ DOMAIN o.qubits = DOMAIN circuit[m].qubits
      /\ \A pin \in DOMAIN o.qubits : /\ o.qubits[pin] \in On(o)
                                      /\ held[i][o.qubits[pin]] = circuit[m].qubits[pin]
                                      /\ held[i + 1][o.qubits[pin]] = circuit[m].qubits[pin]
      /\ \A q \in On(o) : \E pin \in DOMAIN o.qubits : q = o.qubits[pin]
  BY <1>3 DEF IsGateAt
<1>5. /\ \A q \in On(o) : where[held[i][q]] = q
      /\ \A q \in On(o), j \in 1 .. n : q \in On(operations[j]) => (j \in rest <=> i <= j)
  <2>1. ASSUME NEW q \in On(o)
        PROVE  /\ where[held[i][q]] = q
               /\ \A j \in DOMAIN operations : q \in On(operations[j]) => (j \in rest <=> i <= j)
    BY <1>3, FollowedAt
  <2>. QED
    BY <1>1, <2>1
<1>6. ASSUME NEW q \in Qubits
      PROVE  \E k \in DOMAIN held :
                /\ \A j \in DOMAIN operations :
                      q \in On(operations[j]) => (j \in rest \ {i} <=> k <= j)
                /\ where[held[k][q]] = q
  <2>1. CASE q \in On(o)
    <3>1. i + 1 \in DOMAIN held /\ \A j \in 1 .. n : i + 1 <= j <=> i <= j /\ j # i
      BY <1>1, <1>2
    <3>2. \A j \in 1 .. n : q \in On(operations[j]) => (j \in rest \ {i} <=> i + 1 <= j)
      BY <1>5, <2>1, <3>1
    <3>3. held[i + 1][q] = held[i][q]
      BY <1>4, <2>1
    <3>. QED
      BY <1>1, <1>5, <2>1, <3>1, <3>2, <3>3
  <2>2. CASE q \notin On(o)
    <3>1. PICK k \in DOMAIN held :
             /\ \A j \in DOMAIN operations : q \in On(operations[j]) => (j \in rest <=> k <= j)
             /\ where[held[k][q]] = q
      BY DEF Progress
    <3>2. \A j \in DOMAIN operations : q \in On(operations[j]) => j # i
      BY <1>3, <2>2
    <3>. QED
      BY <3>1, <3>2
  <2>. QED
    BY <2>1, <2>2
<1>7. ran \cup {circuit[m].id} = {operations[j].id : j \in Applied \ (rest \ {i})}
  <2>1. Applied \ (rest \ {i}) = (Applied \ rest) \cup {i}
    BY <1>2
  <2>. QED
    BY <1>2, <1>4, <2>1
<1>8. Progress(held, rest \ {i}, where, ran \cup {circuit[m].id})
  BY <1>1, <1>2, <1>6, <1>7 DEF Progress
<1>. QED
  BY <1>3, <1>4, <1>5, <1>8 DEF InPlace

\* A SWAP exchanges what its two qubits hold.
Exchanged(where, a, b) == [l \in Qubits |-> IF where[l] = a THEN b
                                            ELSE IF where[l] = b THEN a ELSE where[l]]

SwapAt(held, i, a, b) ==
    /\ a = operations[i].qubits[1] /\ b = operations[i].qubits[2]
    /\ a \in Qubits /\ b \in Qubits /\ a # b /\ IsAdjacency(device, a, b)
    /\ On(operations[i]) = {a, b}
    /\ operations[i].op = "swap" /\ Len(operations[i].qubits) = 2
    /\ held[i + 1][a] = held[i][b] /\ held[i + 1][b] = held[i][a]

LEMMA SwapOf ==
    ASSUME RouterInv, NEW held, LabelsOK(held), NEW i \in DOMAIN operations \ Applied
    PROVE  \E a, b : SwapAt(held, i, a, b)
<1>1. PICK a, b : a = operations[i].qubits[1] /\ b = operations[i].qubits[2]
  OBVIOUS
<1>2. operations[i] \in TimedOps /\ device \in Devices
  BY RouterState
<1>3. /\ IsRouting(operations[i]) /\ held[i + 1][a] = held[i][b] /\ held[i + 1][b] = held[i][a]
  BY <1>1 DEF LabelsOK
<1>4. /\ a \in Qubits /\ b \in Qubits /\ On(operations[i]) = {a, b}
      /\ Len(operations[i].qubits) = 2 /\ operations[i].op = "swap"
  BY <1>1, <1>2, <1>3, SwapOn
<1>5. IsAdjacency(device, a, b)
  BY <1>1, <1>4 DEF RouterInv, PlacesInv, OnCoupledPairs
<1>6. a # b
  BY <1>2, <1>4, <1>5, CoupledPair
<1>. QED
  BY <1>1, <1>3, <1>4, <1>5, <1>6 DEF SwapAt

LEMMA SwapFollowed ==
    ASSUME RouterInv, NEW held, LabelsOK(held),
           NEW rest, NEW where, NEW ran, Progress(held, rest, where, ran),
           NEW i \in DOMAIN operations \ Applied, MayFollow(rest, i),
           NEW a, NEW b, SwapAt(held, i, a, b)
    PROVE  Progress(held, rest \ {i}, Exchanged(where, a, b), ran)
<1>1. PICK n \in Nat : DOMAIN operations = 1 .. n /\ DOMAIN held = 1 .. n + 1
  BY ListShape
<1>2. i \in rest /\ rest \subseteq 1 .. n /\ where \in [Qubits -> Qubits] /\ i \in 1 .. n
      /\ ran = {operations[j].id : j \in Applied \ rest}
  BY <1>1 DEF MayFollow, Progress
<1>3. \A j \in DOMAIN held : held[j] \in [Qubits -> Qubits]
  BY RouterState, HeldShape
<1>4. held[i + 1][a] = held[i][b] /\ held[i + 1][b] = held[i][a]
  BY DEF SwapAt
<1>5. a \in Qubits /\ b \in Qubits /\ On(operations[i]) = {a, b} /\ a # b
  BY DEF SwapAt
<1>6. PICK moved : moved = Exchanged(where, a, b)
  OBVIOUS
<1>7. /\ \A q \in {a, b} : where[held[i][q]] = q
      /\ \A q \in {a, b}, j \in 1 .. n : q \in On(operations[j]) => (j \in rest <=> i <= j)
  <2>1. ASSUME NEW q \in {a, b}
        PROVE  /\ where[held[i][q]] = q
               /\ \A j \in DOMAIN operations : q \in On(operations[j]) => (j \in rest <=> i <= j)
    BY <1>5, FollowedAt
  <2>. QED
    BY <1>1, <2>1
<1>9. /\ moved \in [Qubits -> Qubits]
      /\ \A l \in Qubits : moved[l] = IF where[l] = a THEN b
                                      ELSE IF where[l] = b THEN a ELSE where[l]
  BY <1>2, <1>5, <1>6 DEF Exchanged
<1>10. ASSUME NEW q \in Qubits
       PROVE  \E k \in DOMAIN held :
                 /\ \A j \in DOMAIN operations :
                       q \in On(operations[j]) => (j \in rest \ {i} <=> k <= j)
                 /\ moved[held[k][q]] = q
  <2>1. CASE q \in {a, b}
    <3>1. /\ i + 1 \in DOMAIN held /\ i \in DOMAIN held
          /\ \A j \in 1 .. n : i + 1 <= j <=> i <= j /\ j # i
      BY <1>1, <1>2
    <3>2. \A j \in 1 .. n : q \in On(operations[j]) => (j \in rest \ {i} <=> i + 1 <= j)
      BY <1>7, <2>1, <3>1
    <3>3. moved[held[i + 1][q]] = q
      <4>1. /\ held[i][a] \in Qubits /\ held[i][b] \in Qubits
            /\ where[held[i][a]] = a /\ where[held[i][b]] = b
        BY <1>3, <1>5, <1>7, <3>1
      <4>2. moved[held[i][a]] = b /\ moved[held[i][b]] = a
        BY <1>5, <1>9, <4>1
      <4>. QED
        BY <1>4, <2>1, <4>2
    <3>. QED
      BY <1>1, <3>1, <3>2, <3>3
  <2>2. CASE q \notin {a, b}
    <3>1. PICK k \in DOMAIN held :
             /\ \A j \in DOMAIN operations : q \in On(operations[j]) => (j \in rest <=> k <= j)
             /\ where[held[k][q]] = q
      BY DEF Progress
    <3>2. \A j \in DOMAIN operations : q \in On(operations[j]) => j # i
      BY <1>5, <2>2
    <3>3. held[k][q] \in Qubits
      BY <1>3, <3>1
    <3>4. moved[held[k][q]] = q
      BY <1>9, <2>2, <3>1, <3>3
    <3>. QED
      BY <3>1, <3>2, <3>4
  <2>. QED
    BY <2>1, <2>2
<1>11. ran = {operations[j].id : j \in Applied \ (rest \ {i})}
  <2>1. Applied \ (rest \ {i}) = Applied \ rest
    OBVIOUS
  <2>. QED
    BY <1>2, <2>1
<1>12. Progress(held, rest \ {i}, moved, ran)
  BY <1>1, <1>2, <1>9, <1>10, <1>11 DEF Progress
<1>. QED
  BY <1>6, <1>12

-----------------------------------------------------------------------------
(* The physical circuit                                                    *)

\* Of the operations that are left, the one that starts first may be followed.
LEMMA FirstMayFollow ==
    ASSUME RouterInv, NEW rest, rest \subseteq DOMAIN operations, NEW i \in rest,
           \A j \in rest : operations[i].start <= operations[j].start
    PROVE  MayFollow(rest, i)
<1>1. SUFFICES ASSUME NEW j \in rest, On(operations[j]) \cap On(operations[i]) # {}
               PROVE  i <= j
  BY DEF MayFollow
<1>2. /\ i \in Nat /\ j \in Nat /\ i \in DOMAIN operations /\ j \in DOMAIN operations
      /\ operations[j] \in TimedOps /\ operations[i] \in TimedOps
  BY RouterState
<1>3. /\ operations[j].start \in Nat /\ operations[j].end \in Nat
      /\ operations[j].start < operations[j].end /\ operations[i].start \in Nat
      /\ operations[i].start <= operations[j].start
  BY <1>2 DEF TimedOps
<1>4. ~(operations[j].end <= operations[i].start)
  BY <1>3
<1>5. ~(j < i)
  BY <1>1, <1>2, <1>4 DEF RouterInv, TimesInv, NoOverlap
<1>. QED
  BY <1>2, <1>5

\* What is written for an operation comes behind all that was written.
LEMMA WritingKeepsLayout ==
    ASSUME RouterInv, NEW held, LabelsOK(held), BuiltOK(held),
           NEW i, MayFollow(Unbuilt, i), Unbuilt' = Unbuilt \ {i}, UNCHANGED operations,
           IF operations[i].op = "swap" THEN Len(operations[i].qubits) = 2
                                        ELSE operations[i].op \in GateTypes,
           physical' = physical \o Run!PhysicalGate(operations[i].op, operations[i].qubits),
           PhysicalOK
    PROVE  PhysicalOK'
<1>1. PICK starts : LayoutOK(starts)
  BY DEF PhysicalOK
<1>2. PICK n \in Nat : DOMAIN operations = 1 .. n /\ DOMAIN held = 1 .. n + 1
  BY ListShape
<1>3. Unbuilt \subseteq 1 .. n /\ i \in Unbuilt /\ i \in 1 .. n
  BY <1>2 DEF BuiltOK, Progress, MayFollow
<1>4. Written' = Written \cup {i} /\ i \notin Written /\ Written \subseteq 1 .. n
  BY <1>2, <1>3 DEF Written
<1>5. PICK o : o = operations[i]
  OBVIOUS
<1>6. PICK w : w = Width(i)
  OBVIOUS
<1>7. w \in {1, 3} /\ (o.op = "swap" => w = 3) /\ (o.op # "swap" => w = 1)
  BY <1>5, <1>6 DEF Width
<1>8. PICK m \in Nat : m = Len(physical) /\ DOMAIN physical = 1 .. m
  <2>1. physical \in Seq(PhysicalOps)
    BY <1>1 DEF LayoutOK
  <2>2. PICK m : m = Len(physical)
    OBVIOUS
  <2>3. m \in Nat /\ DOMAIN physical = 1 .. m
    BY <2>1, <2>2
  <2>. QED
    BY <2>2, <2>3
<1>9. o.qubits \in Seq(Qubits) /\ Len(o.qubits) \in {1, 2}
  <2>1. o \in TimedOps
    BY <1>2, <1>3, <1>5, RouterState
  <2>. QED
    BY <2>1 DEF TimedOps
<1>10. PICK more : more = Run!PhysicalGate(o.op, o.qubits)
  OBVIOUS
<1>11. /\ more \in Seq(PhysicalOps) /\ Len(more) = w
       /\ \A c \in 1 .. w : more[c] = Entry(i, c)
  <2>1. CASE o.op = "swap"
    <3>1. PICK a, b : a = o.qubits[1] /\ b = o.qubits[2]
      OBVIOUS
    <3>2. a \in Qubits /\ b \in Qubits /\ o.qubits = <<a, b>>
      BY <1>5, <1>9, <2>1, <3>1
    <3>3. more = <<[op |-> "cx", qubits |-> <<a, b>>], [op |-> "cx", qubits |-> <<b, a>>],
                   [op |-> "cx", qubits |-> <<a, b>>]>>
      BY <1>10, <2>1, <3>1 DEF Run!PhysicalGate, Run!ThreeCX
    <3>4. /\ [op |-> "cx", qubits |-> <<a, b>>] \in PhysicalOps
          /\ [op |-> "cx", qubits |-> <<b, a>>] \in PhysicalOps
      BY <3>2 DEF PhysicalOps, GateTypes
    <3>5. /\ Entry(i, 1) = [op |-> "cx", qubits |-> <<a, b>>]
          /\ Entry(i, 2) = [op |-> "cx", qubits |-> <<b, a>>]
          /\ Entry(i, 3) = [op |-> "cx", qubits |-> <<a, b>>]
      BY <1>5, <2>1, <3>1, <3>2 DEF Entry
    <3>6. more[1] = Entry(i, 1) /\ more[2] = Entry(i, 2) /\ more[3] = Entry(i, 3)
          /\ Len(more) = 3 /\ more \in Seq(PhysicalOps)
      BY <3>3, <3>4, <3>5
    <3>7. \A c \in 1 .. w : c = 1 \/ c = 2 \/ c = 3
      BY <1>7, <2>1
    <3>. QED
      BY <1>7, <2>1, <3>6, <3>7
  <2>2. CASE o.op # "swap"
    <3>1. more = <<[op |-> o.op, qubits |-> o.qubits]>>
      BY <1>10, <2>2 DEF Run!PhysicalGate
    <3>2. [op |-> o.op, qubits |-> o.qubits] \in PhysicalOps
      <4>1. o.op \in GateTypes
        BY <1>5, <2>2
      <4>2. ASSUME NEW qs \in Seq(Qubits), Len(qs) \in {1, 2} PROVE qs # <<>>
        <5>1. SUFFICES ASSUME qs = <<>> PROVE FALSE
          OBVIOUS
        <5>2. Len(qs) = 0
          BY <5>1
        <5>. QED
          BY <4>2, <5>2
      <4>. QED
        BY <1>9, <4>1, <4>2 DEF PhysicalOps
    <3>3. Entry(i, 1) = [op |-> o.op, qubits |-> o.qubits]
      BY <1>5, <2>2 DEF Entry
    <3>4. \A c \in 1 .. w : c = 1
      BY <1>7, <2>2
    <3>. QED
      BY <1>7, <2>2, <3>1, <3>2, <3>3, <3>4
  <2>. QED
    BY <2>1, <2>2
<1>12. /\ physical' \in Seq(PhysicalOps) /\ DOMAIN physical' = 1 .. m + w
       /\ \A x \in 1 .. m : physical'[x] = physical[x]
       /\ \A c \in 1 .. w : physical'[m + c] = Entry(i, c)
  <2>1. physical \in Seq(PhysicalOps)
    BY <1>1 DEF LayoutOK
  <2>2. physical' = physical \o more
    BY <1>5, <1>10
  <2>3. w \in Nat
    BY <1>7
  <2>4. physical' \in Seq(PhysicalOps)
    BY <1>11, <2>1, <2>2
  <2>5. Len(physical') = m + w
    <3>1. ASSUME NEW S, NEW s \in Seq(S), NEW t \in Seq(S) PROVE Len(s \o t) = Len(s) + Len(t)
      OBVIOUS
    <3>. QED
      BY <1>8, <1>11, <2>1, <2>2, <3>1
  <2>6. DOMAIN physical' = 1 .. m + w
    BY <2>4, <2>5
  <2>7. \A x \in 1 .. m : physical'[x] = physical[x]
    BY <1>8, <1>11, <2>1, <2>2, <2>3
  <2>8. \A c \in 1 .. w : physical'[m + c] = more[c]
    BY <1>8, <1>11, <2>1, <2>2, <2>3
  <2>. QED
    BY <1>11, <2>4, <2>6, <2>7, <2>8
<1>13. PICK new : new = [j \in Written \cup {i} |-> IF j = i THEN m + 1 ELSE starts[j]]
  OBVIOUS
<1>14. /\ starts \in [Written -> Nat \ {0}]
       /\ \A j \in Written : \A c \in 1 .. Width(j) :
             /\ starts[j] + c - 1 \in 1 .. m
             /\ physical[starts[j] + c - 1] = Entry(j, c)
       /\ \A x \in 1 .. m : \E j \in Written : \E c \in 1 .. Width(j) : x = starts[j] + c - 1
       /\ \A j, k \in Written : j # k => \/ starts[j] + Width(j) <= starts[k]
                                         \/ starts[k] + Width(k) <= starts[j]
       /\ \A j, k \in Written :
             j < k /\ On(operations[j]) \cap On(operations[k]) # {} => starts[j] < starts[k]
  BY <1>1, <1>8 DEF LayoutOK
<1>15. \A j : Width(j)' = Width(j) /\ Width(j) \in {1, 3}
  BY DEF Width
<1>16. \A j, c : Entry(j, c)' = Entry(j, c)
  BY DEF Entry
<1>17. /\ new \in [Written' -> Nat \ {0}]
       /\ new[i] = m + 1 /\ \A j \in Written : new[j] = starts[j]
  <2>1. m + 1 \in Nat \ {0}
    BY <1>8
  <2>2. \A j \in Written : starts[j] \in Nat \ {0}
    BY <1>14
  <2>3. new \in [Written \cup {i} -> Nat \ {0}]
    BY <1>13, <2>1, <2>2
  <2>4. new[i] = m + 1 /\ \A j \in Written : new[j] = starts[j]
    BY <1>4, <1>13
  <2>. QED
    BY <1>4, <2>3, <2>4
<1>18. ASSUME NEW j \in Written', NEW c \in 1 .. Width(j)
       PROVE  new[j] + c - 1 \in 1 .. m + w /\ physical'[new[j] + c - 1] = Entry(j, c)
  <2>1. CASE j = i
    <3>1. c \in 1 .. w /\ c \in Nat /\ w \in Nat
      BY <1>6, <1>7, <1>18, <2>1
    <3>2. new[j] + c - 1 = m + c
      BY <1>17, <2>1, <3>1
    <3>3. m + c \in 1 .. m + w
      BY <3>1
    <3>. QED
      BY <1>12, <2>1, <3>1, <3>2, <3>3
  <2>2. CASE j # i
    <3>1. j \in Written
      BY <1>4, <2>2
    <3>2. starts[j] + c - 1 \in 1 .. m /\ physical[starts[j] + c - 1] = Entry(j, c)
      BY <1>14, <3>1
    <3>3. 1 .. m \subseteq 1 .. m + w
      BY <1>7
    <3>. QED
      BY <1>12, <1>17, <3>1, <3>2, <3>3
  <2>. QED
    BY <2>1, <2>2
<1>19. ASSUME NEW x \in 1 .. m + w
       PROVE  \E j \in Written' : \E c \in 1 .. Width(j) : x = new[j] + c - 1
  <2>1. CASE x \in 1 .. m
    <3>1. PICK j \in Written : \E c \in 1 .. Width(j) : x = starts[j] + c - 1
      BY <1>14, <2>1
    <3>. QED
      BY <1>4, <1>17, <3>1
  <2>2. CASE x \notin 1 .. m
    <3>1. x - m \in 1 .. w /\ x = (m + 1) + (x - m) - 1
      BY <1>7, <2>2
    <3>2. i \in Written' /\ x - m \in 1 .. Width(i) /\ x = new[i] + (x - m) - 1
      BY <1>4, <1>6, <1>17, <3>1
    <3>. QED
      BY <3>2
  <2>. QED
    BY <2>1, <2>2
<1>20. ASSUME NEW j \in Written PROVE starts[j] \in Nat /\ starts[j] + Width(j) <= m + 1
  <2>1. PICK s, v : s = starts[j] /\ v = Width(j)
    OBVIOUS
  <2>2. s \in Nat /\ v \in {1, 3}
    BY <1>14, <1>15, <2>1
  <2>3. v \in 1 .. v
    BY <2>2
  <2>4. s + v - 1 \in 1 .. m
    BY <1>14, <2>1, <2>3
  <2>. QED
    BY <1>8, <2>1, <2>2, <2>4
<1>21. \A j, k \in Written' : j # k => \/ new[j] + Width(j) <= new[k]
                                       \/ new[k] + Width(k) <= new[j]
  <2>1. SUFFICES ASSUME NEW j \in Written', NEW k \in Written', j # k
                 PROVE  new[j] + Width(j) <= new[k] \/ new[k] + Width(k) <= new[j]
    OBVIOUS
  <2>2. CASE j # i /\ k # i
    <3>1. j \in Written /\ k \in Written
      BY <1>4, <2>2
    <3>. QED
      BY <1>14, <1>17, <2>1, <3>1
  <2>3. CASE j = i
    <3>1. k \in Written
      BY <1>4, <2>1, <2>3
    <3>. QED
      BY <1>17, <1>20, <2>3, <3>1
  <2>4. CASE k = i
    <3>1. j \in Written
      BY <1>4, <2>1, <2>4
    <3>. QED
      BY <1>17, <1>20, <2>4, <3>1
  <2>. QED
    BY <2>2, <2>3, <2>4
<1>22. ASSUME NEW j \in Written', NEW k \in Written', j < k,
              On(operations[j]) \cap On(operations[k]) # {}
       PROVE  new[j] < new[k]
  <2>1. CASE j # i /\ k # i
    <3>1. j \in Written /\ k \in Written
      BY <1>4, <2>1
    <3>. QED
      BY <1>14, <1>17, <1>22, <3>1
  <2>2. CASE k = i
    <3>1. j \in Written
      <4>1. j # i
        BY <1>3, <1>22, <2>2
      <4>. QED
        BY <1>4, <4>1
    <3>3. starts[j] \in Nat /\ Width(j) \in {1, 3}
      BY <1>15, <1>20, <3>1
    <3>2. starts[j] < m + 1
      BY <1>20, <3>1, <3>3
    <3>. QED
      BY <1>17, <2>2, <3>1, <3>2
  <2>3. CASE j = i
    <3>0. k # i
      BY <1>3, <1>22, <2>3
    <3>1. k \in Written /\ k \in Nat /\ i \in Nat
      BY <1>3, <1>4, <3>0
    <3>2. PICK q : q \in On(operations[i]) /\ q \in On(operations[k])
      BY <1>22, <2>3
    <3>3. k \in DOMAIN operations /\ k \notin Unbuilt
      BY <3>1 DEF Written
    <3>4. k \in Unbuilt <=> i <= k
      BY <3>2, <3>3, FollowedAt DEF BuiltOK
    <3>. QED
      BY <1>22, <2>3, <3>1, <3>3, <3>4
  <2>. QED
    BY <2>1, <2>2, <2>3
<1>23. LayoutOK(new)'
  <2>1. \A j \in Written' : \A c \in 1 .. Width(j)' :
           /\ new[j] + c - 1 \in DOMAIN physical'
           /\ physical'[new[j] + c - 1] = Entry(j, c)'
    BY <1>12, <1>15, <1>16, <1>18
  <2>2. \A x \in DOMAIN physical' :
           \E j \in Written' : \E c \in 1 .. Width(j)' : x = new[j] + c - 1
    BY <1>12, <1>15, <1>19
  <2>3. \A j, k \in Written' : j # k => \/ new[j] + Width(j)' <= new[k]
                                        \/ new[k] + Width(k)' <= new[j]
    BY <1>15, <1>21
  <2>4. \A j, k \in Written' :
           j < k /\ On(operations'[j]) \cap On(operations'[k]) # {} => new[j] < new[k]
    <3>1. operations' = operations
      OBVIOUS
    <3>. QED
      BY <1>22, <3>1
  <2>. QED
    BY <1>12, <1>17, <2>1, <2>2, <2>3, <2>4 DEF LayoutOK
<1>. QED
  BY <1>23 DEF PhysicalOK

\* How far the list was followed does not depend on what is written.
LEMMA ProgressRests ==
    ASSUME UNCHANGED operations, NEW held, NEW rest, NEW where, NEW ran,
           Progress(held, rest, where, ran),
           rest = Unbuilt', where = at', ran = done'
    PROVE  Progress(held, Unbuilt, at, done)'
<1>1. operations' = operations /\ Applied' = Applied
  BY DEF Applied
<1>2. /\ rest \subseteq DOMAIN operations'
      /\ where \in [Qubits -> Qubits]
      /\ \A q \in Qubits : \E k \in DOMAIN held :
            /\ \A i \in DOMAIN operations' : q \in On(operations'[i]) => (i \in rest <=> k <= i)
            /\ where[held[k][q]] = q
      /\ ran = {operations'[i].id : i \in Applied' \ rest}
  BY <1>1 DEF Progress
<1>. QED
  BY <1>2 DEF Progress

\* A SWAP that is written exchanges what its two qubits hold.
LEMMA SwapIsBuilt ==
    ASSUME RouterInv, NEW held, LabelsOK(held), BuiltOK(held), NEW i, MayFollow(Unbuilt, i),
           operations[i].routing, Unbuilt' = Unbuilt \ {i},
           at' = [l \in Qubits |-> IF at[l] = operations[i].qubits[1] THEN operations[i].qubits[2]
                                   ELSE IF at[l] = operations[i].qubits[2]
                                   THEN operations[i].qubits[1] ELSE at[l]],
           physical' = physical \o Run!PhysicalGate(operations[i].op, operations[i].qubits),
           UNCHANGED <<device, circuit, operations, done>>
    PROVE  /\ BuiltOK(held)' /\ \E p, q \in Qubits : Run!Exchange(p, q)
           /\ operations[i].op = "swap" /\ Len(operations[i].qubits) = 2
<1>1. Progress(held, Unbuilt, at, done)
  BY DEF BuiltOK
<1>2. i \in DOMAIN operations \ Applied
  BY <1>1 DEF Progress, MayFollow, Applied
<1>3. PICK a, b : SwapAt(held, i, a, b)
  BY <1>2, SwapOf
<1>4. /\ a = operations[i].qubits[1] /\ b = operations[i].qubits[2]
      /\ a \in Qubits /\ b \in Qubits /\ a # b /\ IsAdjacency(device, a, b)
      /\ operations[i].op = "swap" /\ Len(operations[i].qubits) = 2
      /\ Progress(held, Unbuilt \ {i}, Exchanged(at, a, b), done)
  <2>1. PICK rest, where, ran : rest = Unbuilt /\ where = at /\ ran = done
    OBVIOUS
  <2>2. Progress(held, rest, where, ran) /\ MayFollow(rest, i)
    BY <1>1, <2>1
  <2>3. Progress(held, rest \ {i}, Exchanged(where, a, b), ran)
    BY <1>2, <1>3, <2>2, SwapFollowed
  <2>. QED
    BY <1>3, <2>1, <2>3 DEF SwapAt
<1>5. at' = Exchanged(at, a, b)
  BY <1>4 DEF Exchanged
<1>6. Run!Exchange(a, b)
  <2>1. physical' = physical \o Run!ThreeCX(a, b)
    BY <1>4 DEF Run!PhysicalGate
  <2>2. Run!IsAdjacency(device, a, b) /\ Run!Qubits = Qubits
    BY <1>4 DEF Run!IsAdjacency, IsAdjacency, Run!ToSet, ToSet, Run!Qubits, Qubits
  <2>. QED
    BY <1>4, <1>5, <2>1, <2>2 DEF Run!Exchange, Exchanged
<1>7. BuiltOK(held)'
  <2>1. PICK rest, where, ran : rest = Unbuilt' /\ where = at' /\ ran = done'
    OBVIOUS
  <2>2. Progress(held, rest, where, ran)
    BY <1>4, <1>5, <2>1
  <2>. QED
    BY <2>1, <2>2, ProgressRests DEF BuiltOK
<1>. QED
  BY <1>4, <1>6, <1>7

\* A gate is on the qubits where its logical qubits are, and all that it requires is built.
LEMMA GateIsBuilt ==
    ASSUME RouterInv, JobOK, OrderOK, NEW held, LabelsOK(held), BuiltOK(held),
           NEW i, MayFollow(Unbuilt, i), ~operations[i].routing, Unbuilt' = Unbuilt \ {i},
           done' = done \cup {operations[i].id},
           physical' = physical \o Run!PhysicalGate(operations[i].op, operations[i].qubits),
           UNCHANGED <<device, circuit, operations, at>>
    PROVE  /\ BuiltOK(held)' /\ \E k \in DOMAIN circuit : Run!Execute(circuit[k])
           /\ operations[i].op # "swap"
<1>1. Progress(held, Unbuilt, at, done)
  BY DEF BuiltOK
<1>2. i \in DOMAIN operations /\ i \in Applied
  BY <1>1 DEF Progress, MayFollow, Applied
<1>3. PICK m : IsGateAt(held, i, m)
  BY <1>2, GateOf
<1>4. /\ circuit[m].id \notin done /\ Requires(circuit, circuit[m].id) \subseteq done
      /\ Progress(held, Unbuilt \ {i}, at, done \cup {circuit[m].id})
      /\ \A pin \in DOMAIN circuit[m].qubits :
            operations[i].qubits[pin] = at[circuit[m].qubits[pin]]
  <2>1. PICK rest, where, ran : rest = Unbuilt /\ where = at /\ ran = done
    OBVIOUS
  <2>2. Progress(held, rest, where, ran) /\ MayFollow(rest, i)
    BY <1>1, <2>1
  <2>3. circuit[m].id \notin ran /\ Requires(circuit, circuit[m].id) \subseteq ran
    BY <1>2, <1>3, <2>2, GateMayRun
  <2>4. /\ Progress(held, rest \ {i}, where, ran \cup {circuit[m].id})
        /\ \A pin \in DOMAIN circuit[m].qubits :
              operations[i].qubits[pin] = where[circuit[m].qubits[pin]]
    <3>1. Progress(held, rest \ {i}, where, ran \cup {circuit[m].id})
      BY <1>2, <1>3, <2>2, GateFollowed
    <3>2. InPlace(where, i, m)
      BY <1>2, <1>3, <2>2, GateFollowed
    <3>. QED
      BY <3>1, <3>2 DEF InPlace
  <2>. QED
    BY <2>1, <2>3, <2>4
<1>5. PICK qs : qs = operations[i].qubits
  OBVIOUS
<1>6. /\ m \in DOMAIN circuit /\ operations[i].id = circuit[m].id
      /\ operations[i].op = circuit[m].op /\ circuit[m].op # "swap"
      /\ qs \in Seq(Qubits) /\ Len(qs) = Len(circuit[m].qubits)
      /\ DOMAIN qs = DOMAIN circuit[m].qubits
  BY <1>3, <1>5 DEF IsGateAt
<1>7. qs = [pin \in DOMAIN circuit[m].qubits |-> at[circuit[m].qubits[pin]]]
  <2>1. qs = [pin \in DOMAIN qs |-> qs[pin]]
    BY <1>6
  <2>. QED
    BY <1>4, <1>5, <1>6, <2>1
<1>8. Run!Execute(circuit[m])
  <2>1. Run!Requires(circuit, circuit[m].id) = Requires(circuit, circuit[m].id)
    BY DEF Run!Requires, Requires, Run!Position, Position, Run!GetGate, GetGate,
           Run!ToSet, ToSet
  <2>2. Len(circuit[m].qubits) = 2 => Run!IsAdjacency(device, qs[1], qs[2])
    <3>1. Len(qs) = 2 => IsAdjacency(device, qs[1], qs[2])
      BY <1>2, <1>5 DEF RouterInv, PlacesInv, OnCoupledPairs
    <3>. QED
      BY <1>6, <3>1 DEF Run!IsAdjacency, IsAdjacency, Run!ToSet, ToSet
  <2>3. done' = done \cup {circuit[m].id}
        /\ physical' = physical \o Run!PhysicalGate(circuit[m].op, qs)
    BY <1>5, <1>6
  <2>. QED
    BY <1>4, <1>7, <2>1, <2>2, <2>3 DEF Run!Execute
<1>9. BuiltOK(held)'
  <2>1. PICK rest, where, ran : rest = Unbuilt' /\ where = at' /\ ran = done'
    OBVIOUS
  <2>2. Progress(held, rest, where, ran)
    BY <1>4, <1>6, <2>1
  <2>. QED
    BY <2>1, <2>2, ProgressRests DEF BuiltOK
<1>. QED
  BY <1>6, <1>8, <1>9

\* The operation that is built next is a step of a run of the logical circuit.
LEMMA BuildOperationKeeps ==
    ASSUME MapInv, BuildOperation
    PROVE  MapInv' /\ Run!RunNext
<1>1. PICK i \in unbuilt :
         LET o == operations[i]
         IN  /\ stage = "build"
             /\ \A j \in unbuilt : o.start <= operations[j].start
             /\ unbuilt' = unbuilt \ {i}
             /\ physical' = physical \o Run!PhysicalGate(o.op, o.qubits)
             /\ IF o.routing
                THEN /\ at' = [l \in Qubits |-> IF at[l] = o.qubits[1] THEN o.qubits[2]
                                                ELSE IF at[l] = o.qubits[2] THEN o.qubits[1]
                                                ELSE at[l]]
                     /\ done' = done
                ELSE /\ done' = done \cup {o.id}
                     /\ at' = at
             /\ UNCHANGED <<routerVars, topologyVars, scheduleVars, stopRequested, stage>>
  BY DEF BuildOperation
<1>2. /\ RouterInv /\ JobOK /\ RoutingOK /\ OrderOK /\ WaitingOK /\ CountOK /\ AllRouted
      /\ stage = "build" /\ HistoryOK
  BY <1>1 DEF MapInv
<1>3. UNCHANGED <<routerVars, topologyVars, job, nextGate, routingGate, stage>>
  BY <1>1 DEF scheduleVars
<1>4. UNCHANGED <<device, operations, logicalQubit, occupiedTime, phase, circuit>>
  BY <1>3 DEF routerVars, deviceVars, topologyVars
<1>5. Routed' = Routed /\ Before' = Before /\ Applied' = Applied
  BY <1>3, <1>4 DEF Routed, Before, Applied
<1>6. OrderOK' /\ WaitingOK' /\ CountOK'
  BY <1>2, <1>3, <1>4, <1>5, NoListingKeepsOrder, WaitingRests, CountRests
<1>7. RouterInv' /\ JobOK' /\ RoutingOK' /\ AllRouted'
  BY <1>2, <1>3, <1>4, <1>5, RestKeeps DEF JobOK, RoutingOK, Idle, AllRouted
<1>8. PICK held : LabelsOK(held) /\ SwapsOK(held) /\ BuiltOK(held) /\ PlacedOK(held)
  BY <1>2 DEF HistoryOK
<1>9. LabelsOK(held)' /\ SwapsOK(held)' /\ PlacedOK(held)'
  BY <1>3, <1>4, <1>5, <1>8 DEF LabelsOK, SwapsOK, PlacedOK
<1>10. Unbuilt' = Unbuilt \ {i} /\ MayFollow(Unbuilt, i)
  <2>1. Unbuilt = unbuilt /\ Unbuilt' = unbuilt'
    BY <1>2, <1>3 DEF Unbuilt
  <2>2. Unbuilt \subseteq DOMAIN operations
    BY <1>8 DEF BuiltOK, Progress
  <2>. QED
    BY <1>1, <1>2, <2>1, <2>2, FirstMayFollow
<1>11. /\ BuiltOK(held)' /\ Run!RunNext
       /\ operations[i].op = "swap" => Len(operations[i].qubits) = 2
  <2>1. CASE operations[i].routing
    <3>1. /\ BuiltOK(held)' /\ \E p, q \in Qubits : Run!Exchange(p, q)
          /\ Len(operations[i].qubits) = 2
      BY <1>1, <1>2, <1>4, <1>8, <1>10, <2>1, SwapIsBuilt
    <3>2. Run!Qubits = Qubits
      BY DEF Run!Qubits, Qubits
    <3>. QED
      BY <3>1, <3>2 DEF Run!RunNext
  <2>2. CASE ~operations[i].routing
    <3>1. /\ BuiltOK(held)' /\ \E k \in DOMAIN circuit : Run!Execute(circuit[k])
          /\ operations[i].op # "swap"
      BY <1>1, <1>2, <1>4, <1>8, <1>10, <2>2, GateIsBuilt
    <3>. QED
      BY <3>1 DEF Run!RunNext
  <2>. QED
    BY <2>1, <2>2
<1>12. HistoryOK'
  BY <1>9, <1>11 DEF HistoryOK
<1>13. PhysicalOK'
  <2>1. PhysicalOK
    BY <1>2 DEF MapInv
  <2>2. i \in DOMAIN operations
    BY <1>8, <1>10 DEF BuiltOK, Progress, MayFollow
  <2>3. operations[i].op \in GateTypes
    BY <1>2, <2>2, RouterState DEF TimedOps
  <2>. QED
    BY <1>1, <1>2, <1>4, <1>8, <1>10, <1>11, <2>1, <2>3, WritingKeepsLayout
<1>. QED
  BY <1>2, <1>3, <1>6, <1>7, <1>11, <1>12, <1>13 DEF MapInv

-----------------------------------------------------------------------------
(* The call of Duostra::map                                                *)

\* Every step keeps the invariant, and is a step of a run of the logical circuit, or none.
LEMMA MapStepKeeps ==
    ASSUME MapInv, [DuostraNext]_duostraVars
    PROVE  MapInv' /\ [Run!RunNext]_(Run!runVars)
<1>1. CASE Map
  <2>1. CASE \E id \in GateIds(circuit) : RouteOneGate(id)
    <3>1. UNCHANGED <<circuit, at, done, physical>>
      BY <2>1 DEF RouteOneGate, buildVars, topologyVars
    <3>. QED
      BY <2>1, <3>1, RouteOneGateKeeps DEF Run!runVars
  <2>2. CASE Routing
    <3>1. UNCHANGED <<circuit, at, done, physical>>
      BY <2>2 DEF Routing, buildVars, topologyVars
    <3>. QED
      BY <2>2, <3>1, RoutingKeeps DEF Run!runVars
  <2>3. CASE GateRouted
    <3>1. UNCHANGED <<circuit, at, done, physical>>
      BY <2>3 DEF GateRouted, buildVars, UpdateAvailableGates
    <3>. QED
      BY <2>3, <3>1, GateRoutedKeeps DEF Run!runVars
  <2>4. CASE AssignmentEnds
    <3>1. UNCHANGED <<circuit, at, done, physical>>
      BY <2>4 DEF AssignmentEnds, topologyVars
    <3>. QED
      BY <2>4, <3>1, AssignmentEndsKeeps DEF Run!runVars
  <2>5. CASE BuildOperation
    BY <2>5, BuildOperationKeeps
  <2>6. CASE BuildEnds
    <3>1. /\ UNCHANGED <<routerVars, topologyVars, job, nextGate, routingGate, physical, at, done>>
          /\ stage = "build" /\ stage' = "mapped" /\ unbuilt = {} /\ unbuilt' = {}
      BY <2>6 DEF BuildEnds, scheduleVars, buildVars
    <3>. QED
      BY <3>1, AfterwardsKeeps DEF Run!runVars
  <2>. QED
    BY <1>1, <2>1, <2>2, <2>3, <2>4, <2>5, <2>6 DEF Map, MapStep
<1>2. CASE Interrupt
  <2>1. /\ UNCHANGED <<routerVars, topologyVars, job, nextGate, routingGate, physical, at, done>>
        /\ UNCHANGED <<stage, unbuilt>>
    BY <1>2 DEF Interrupt, RequestStop, scheduleVars, buildVars
  <2>. QED
    BY <2>1, AfterwardsKeeps DEF Run!runVars
<1>3. CASE UNCHANGED mapVars
  <2>1. /\ UNCHANGED <<routerVars, topologyVars, job, nextGate, routingGate, physical, at, done>>
        /\ UNCHANGED <<stage, unbuilt>>
    BY <1>3 DEF mapVars, scheduleVars, buildVars
  <2>. QED
    BY <2>1, AfterwardsKeeps DEF Run!runVars
<1>. QED
  BY <1>1, <1>2, <1>3 DEF DuostraNext, CheckBegins, CheckRuns, duostraVars

\* A call begins with nothing routed and nothing built, and the logical qubits where the
\* placer has put them.
LEMMA MapInitKeeps ==
    ASSUME DuostraInit
    PROVE  MapInv /\ Run!RunInit
<1>1. /\ RouterInit /\ job \in Jobs /\ circuit = job.circuit /\ TopologyInit
      /\ nextGate = 0 /\ routingGate = {} /\ stage = "assign" /\ unbuilt = {}
      /\ physical = <<>> /\ at = logicalToPhysical /\ done = {}
  BY DEF DuostraInit, MapInit
<1>2. RouterInv /\ JobOK
  BY <1>1, InitKeeps DEF JobOK
<1>3. operations = <<>> /\ Idle /\ DOMAIN operations = {} /\ logicalToPhysical \in Placements
  BY <1>1 DEF RouterInit, Idle
<1>4. Applied = {} /\ Routed = {} /\ Before = {}
  BY <1>3 DEF Applied, Routed, Before
<1>5. RoutingOK /\ OrderOK
  BY <1>1, <1>3, <1>4 DEF RoutingOK, OrderOK, Closed
<1>6. CountOK
  <2>1. IsFiniteSet({}) /\ Cardinality({}) = 0
    BY FS_EmptySet
  <2>2. 0 .. nextGate - 1 = {}
    BY <1>1
  <2>. QED
    BY <1>1, <1>4, <2>1, <2>2 DEF CountOK
<1>7. WaitingOK
  <2>1. availableGates = InitialGates(circuit) /\ executedGates = <<>>
    BY <1>1 DEF TopologyInit
  <2>2. DOMAIN executedGates = {}
    BY <2>1
  <2>3. PICK ids : ids = [i \in 1 .. NumGates |-> i - 1]
    OBVIOUS
  <2>4. /\ GateIds(circuit) = 0 .. NumGates - 1 /\ NumGates \in Nat
    BY <1>2, CircuitGiven
  <2>5. ids \in Seq(GateIds(circuit)) /\ ToSet(ids) = GateIds(circuit)
    <3>1. \A i \in 1 .. NumGates : i - 1 \in GateIds(circuit)
      BY <2>4
    <3>2. \A x \in GateIds(circuit) : x + 1 \in 1 .. NumGates /\ (x + 1) - 1 = x
      BY <2>4
    <3>3. ids \in Seq(GateIds(circuit))
      BY <2>3, <2>4, <3>1
    <3>. QED
      BY <2>3, <3>1, <3>2, <3>3 DEF ToSet
  <2>. DEFINE first == {id \in GateIds(circuit) : Present(GetPredecessors(circuit, id)) = {}}
  <2>6. /\ InitialGates(circuit) = KeepOnly([i \in 1 .. NumGates |-> i - 1], first)
        /\ \A x \in GateIds(circuit) : x \in first <=> Present(GetPredecessors(circuit, x)) = {}
    BY DEF InitialGates, NumGates
  <2>. HIDE DEF first
  <2>7. availableGates = KeepOnly(ids, first)
    BY <2>1, <2>3, <2>6
  <2>8. /\ availableGates \in Seq(GateIds(circuit))
        /\ ToSet(availableGates) = GateIds(circuit) \cap first
    BY <2>5, <2>7, KeptMembers
  <2>9. ASSUME NEW x \in GateIds(circuit) PROVE x \in first <=> Requires(circuit, x) \subseteq {}
    <3>1. PICK k \in DOMAIN circuit : x = circuit[k].id
      BY DEF GateIds
    <3>2. (\A pin \in DOMAIN circuit[k].qubits :
              GetPredecessors(circuit, circuit[k].id)[pin] # NoGate =>
                  GetPredecessors(circuit, circuit[k].id)[pin] \in {})
          <=> Requires(circuit, circuit[k].id) \subseteq {}
      <4>1. PICK ran : ran = {}
        OBVIOUS
      <4>2. /\ Closed(circuit, ran) /\ ran \in SUBSET ran /\ circuit[k].id \notin ran
            /\ \A j, m \in DOMAIN circuit : \A l :
                  circuit[j].id \in ran \ ran /\ Follows(circuit, l, j, m)
                  => circuit[m].id \in ran
        BY <4>1 DEF Closed
      <4>3. (\A pin \in DOMAIN circuit[k].qubits :
                GetPredecessors(circuit, circuit[k].id)[pin] # NoGate =>
                    GetPredecessors(circuit, circuit[k].id)[pin] \in ran)
            <=> Requires(circuit, circuit[k].id) \subseteq ran
        BY <1>2, <4>2, CircuitGiven, PredecessorsSuffice
      <4>. QED
        BY <4>1, <4>3
    <3>3. DOMAIN GetPredecessors(circuit, circuit[k].id) = DOMAIN circuit[k].qubits
      BY <1>2, PinsOfGate
    <3>. QED
      BY <2>6, <3>1, <3>2, <3>3 DEF Present
  <2>10. ToSet(availableGates) = Ready(circuit, Before)
    BY <1>4, <2>8, <2>9 DEF Ready
  <2>. QED
    BY <1>4, <2>2, <2>8, <2>10 DEF WaitingOK
<1>8. /\ at \in [Qubits -> Qubits] /\ \A a, b \in Qubits : at[a] = at[b] => a = b
      /\ \A q \in Qubits : \E l \in Qubits : at[l] = q
  <2>1. at \in Bijection(Qubits, Qubits)
    BY <1>1, <1>3, RouterAssumption
  <2>. QED
    BY <2>1 DEF Bijection, Injection, Surjection, IsInjective
<1>9. /\ logicalQubit \in [Qubits -> Qubits]
      /\ \A q \in Qubits : at[logicalQubit[q]] = q
  <2>1. logicalQubit = [q \in Qubits |-> CHOOSE l \in Qubits : at[l] = q]
    BY <1>1 DEF RouterInit
  <2>. QED
    BY <1>8, <2>1
<1>10. HistoryOK
  <2>1. PICK held : held = <<logicalQubit>>
    OBVIOUS
  <2>2. /\ held \in Seq([Qubits -> Qubits]) /\ Len(held) = 1 /\ DOMAIN held = {1}
        /\ held[1] = logicalQubit /\ Len(operations) = 0
    BY <1>3, <1>9, <2>1
  <2>3. LabelsOK(held)
    <3>1. \A i \in DOMAIN held : held[i] = logicalQubit
      BY <2>2
    <3>2. \A p, q \in Qubits : logicalQubit[p] = logicalQubit[q] => p = q
      BY <1>9
    <3>. QED
      BY <1>3, <1>4, <2>2, <3>1, <3>2 DEF LabelsOK
  <2>4. SwapsOK(held) /\ PlacedOK(held)
    <3>1. SwapsOK(held)
      BY <1>3 DEF SwapsOK
    <3>2. at \in Assignments(job.placer, device) /\ at \in Bijection(Qubits, Qubits)
      BY <1>1, <1>3, RouterAssumption DEF DuostraInit
    <3>. QED
      BY <1>9, <2>2, <3>1, <3>2 DEF PlacedOK
  <2>5. Unbuilt = {}
    BY <1>1, <1>3 DEF Unbuilt
  <2>6. BuiltOK(held)
    BY <1>1, <1>3, <1>4, <1>8, <1>9, <2>2, <2>5 DEF BuiltOK, Progress
  <2>. QED
    BY <2>3, <2>4, <2>6 DEF HistoryOK
<1>11. MapInv
  BY <1>1, <1>2, <1>5, <1>6, <1>7, <1>10 DEF MapInv, AllRouted
<1>12. Run!RunInit
  <2>1. Run!Qubits = Qubits
    BY DEF Run!Qubits, Qubits
  <2>. QED
    BY <1>1, <1>8, <2>1 DEF Run!RunInit
<1>. QED
  BY <1>11, <1>12

\* The loop of every scheduler keeps the invariant, for every device, circuit, placement,
\* choice of the scheduler and router, and whenever the user interrupts.
THEOREM MapInvHolds == DuostraSpec => []MapInv
<1>1. DuostraInit => MapInv
  BY MapInitKeeps
<1>2. MapInv /\ [DuostraNext]_duostraVars => MapInv'
  BY MapStepKeeps
<1>. QED
  BY <1>1, <1>2, PTL DEF DuostraSpec

\* Between two gates the waiting list of CircuitTopology holds exactly the gates that may
\* be routed next, although update_available_gates looks at one successor or predecessor
\* for each pin only, and drops the entries of gates that it takes for finished.
THEOREM WaitlistStaysExact == DuostraSpec => []WaitlistExact
<1>1. MapInv => WaitlistExact
  <2>. SUFFICES ASSUME MapInv, stage = "assign", routingGate = {}
                PROVE  ToSet(availableGates) =
                          {id \in GateIds(circuit) \ Routed : Requires(circuit, id) \subseteq Routed}
    BY DEF WaitlistExact
  <2>1. ToSet(availableGates) = Ready(circuit, Before)
    BY DEF MapInv, WaitingOK
  <2>2. Before = Routed
    BY DEF Before
  <2>. QED
    BY <2>1, <2>2 DEF Ready
<1>. QED
  BY <1>1, MapInvHolds, PTL

\* The physical circuit is a run of the logical circuit on the device: every SWAP exchanges
\* two coupled qubits, every gate is on the coupled qubits where its logical qubits are, and
\* after all the gates that it requires, although build_circuit_by_result takes the
\* operations in the order of their start times and not in the order in which the scheduler
\* and the router decided on them.
THEOREM MappingIsARun == DuostraSpec => MapsTheCircuit
<1>1. DuostraInit => Run!RunInit
  BY MapInitKeeps
<1>2. MapInv /\ [DuostraNext]_duostraVars => [Run!RunNext]_(Run!runVars)
  BY MapStepKeeps
<1>. QED
  BY <1>1, <1>2, MapInvHolds, PTL DEF DuostraSpec, MapsTheCircuit, Run!RunSpec

\* A call that is not interrupted runs every gate, each one once; an interrupted one leaves
\* no physical circuit.
THEOREM MappingIsComplete == DuostraSpec => []MappedIsComplete
<1>1. MapInv => MappedIsComplete
  <2>. SUFFICES ASSUME MapInv PROVE MappedIsComplete
    OBVIOUS
  <2>1. stage = "interrupted" => physical = <<>>
    BY DEF MapInv
  <2>2. ASSUME stage = "mapped"
        PROVE  done = GateIds(circuit) /\ Cardinality(Applied) = NumGates
    <3>1. /\ RouterInv /\ JobOK /\ OrderOK /\ unbuilt = {} /\ HistoryOK
          /\ Routed = GateIds(circuit)
      BY <2>2 DEF MapInv, AllRouted
    <3>2. Unbuilt = {}
      BY <2>2, <3>1 DEF Unbuilt
    <3>3. done = {operations[i].id : i \in Applied}
      BY <3>1, <3>2 DEF HistoryOK, BuiltOK, Progress
    <3>4. Routed = {operations[i].id : i \in Applied}
      BY DEF Routed, Applied
    <3>5. ExistsBijection(Applied, GateIds(circuit))
      <4>. DEFINE f == [i \in Applied |-> operations[i].id]
      <4>1. /\ f = [i \in Applied |-> f[i]] /\ DOMAIN f = Applied
            /\ \A i \in Applied : f[i] = operations[i].id
        OBVIOUS
      <4>. HIDE DEF f
      <4>2. f \in [Applied -> GateIds(circuit)]
        BY <3>1, <3>4, <4>1
      <4>3. \A i, j \in Applied : f[i] = f[j] => i = j
        BY <3>1, <4>1 DEF OrderOK
      <4>4. \A x \in GateIds(circuit) : \E i \in Applied : f[i] = x
        BY <3>1, <3>4, <4>1
      <4>. QED
        BY <4>2, <4>3, <4>4, Fun_IsBij DEF ExistsBijection
    <3>6. IsFiniteSet(Applied)
      <4>1. Applied \in SUBSET DOMAIN operations
        BY DEF Applied
      <4>2. DOMAIN operations = 1 .. Len(operations) /\ Len(operations) \in Nat
        BY <3>1, RouterState
      <4>3. IsFiniteSet(DOMAIN operations)
        BY <4>2, FS_Interval
      <4>. QED
        BY <4>1, <4>3, FS_Subset
    <3>7. Cardinality(GateIds(circuit)) = Cardinality(Applied)
      BY <3>5, <3>6, FS_Bijection
    <3>. QED
      BY <3>1, <3>3, <3>4, <3>7, CircuitGiven
  <2>. QED
    BY <2>1, <2>2 DEF MappedIsComplete, Applied
<1>. QED
  BY <1>1, MapInvHolds, PTL

\* The operations that the router lists for a whole circuit never overlap.
THEOREM MappedOperationsNeverOverlap == DuostraSpec => [](NoOverlap /\ OnCoupledPairs)
<1>1. MapInv => NoOverlap /\ OnCoupledPairs
  BY DEF MapInv, RouterInv, TimesInv, PlacesInv
<1>. QED
  BY <1>1, MapInvHolds, PTL
-----------------------------------------------------------------------------
(* The physical circuit as the check reads it                              *)

\* Where the gates of operation i begin in the circuit that was mapped
Laid(starts) == MapInv /\ stage = "mapped" /\ LayoutOK(starts)

\* It is a circuit on the qubits of the device, of gates with the ids 0, 1, ...
LEMMA MappedCircuit ==
    ASSUME NEW starts, Laid(starts)
    PROVE  /\ IsCircuit(PhysicalCircuit, Qubits)
           /\ DOMAIN PhysicalCircuit = DOMAIN physical
           /\ \A x \in DOMAIN physical :
                 /\ x \in Nat /\ PhysicalCircuit[x].id = x - 1
                 /\ GetGate(PhysicalCircuit, x - 1) = PhysicalCircuit[x]
                 /\ Position(PhysicalCircuit, x - 1) = x
                 /\ PhysicalCircuit[x].op = physical[x].op
                 /\ PhysicalCircuit[x].qubits = physical[x].qubits
           /\ GateIds(PhysicalCircuit) = {x - 1 : x \in DOMAIN physical}
<1>1. physical \in Seq(PhysicalOps)
  BY DEF Laid, LayoutOK
<1>2. PICK m \in Nat : DOMAIN physical = 1 .. m
  BY <1>1
<1>3. ASSUME NEW x \in DOMAIN physical
      PROVE  /\ x \in Nat /\ x - 1 \in Nat
             /\ physical[x].qubits \in Seq(Qubits) \ {<<>>}
  <2>1. x \in Nat /\ x - 1 \in Nat
    BY <1>2
  <2>2. physical[x] \in PhysicalOps
    BY <1>1
  <2>3. physical[x].op \in GateTypes /\ physical[x].qubits \in Seq(Qubits) \ {<<>>}
    BY <2>2 DEF PhysicalOps
  <2>. QED
    BY <2>1, <2>3
<1>4. PICK c : c = PhysicalCircuit
  OBVIOUS
<1>5. /\ c = [x \in 1 .. m |-> c[x]] /\ DOMAIN c = 1 .. m
      /\ \A x \in 1 .. m : c[x] = [id |-> x - 1, op |-> physical[x].op,
                                   qubits |-> physical[x].qubits]
  BY <1>2, <1>4 DEF PhysicalCircuit
<1>6. IsCircuit(c, Qubits)
  <2>1. PICK lists : lists = Seq(Qubits) \ {<<>>}
    OBVIOUS
  <2>2. PICK kinds : kinds = [id : Nat, op : {c[y].op : y \in DOMAIN c}, qubits : lists]
    OBVIOUS
  <2>3. \A x \in 1 .. m : c[x] \in kinds
    BY <1>2, <1>3, <1>5, <2>1, <2>2
  <2>4. c \in Seq(kinds)
    BY <1>5, <2>3
  <2>5. \A x, y \in 1 .. m : c[x].id = c[y].id => x = y
    BY <1>5
  <2>. QED
    BY <1>5, <2>1, <2>2, <2>4, <2>5 DEF IsCircuit
<1>7. ASSUME NEW x \in DOMAIN physical
      PROVE  /\ x \in Nat /\ c[x].id = x - 1
             /\ GetGate(c, x - 1) = c[x] /\ Position(c, x - 1) = x
             /\ c[x].op = physical[x].op /\ c[x].qubits = physical[x].qubits
  <2>1. x \in DOMAIN c /\ c[x].id = x - 1
    BY <1>2, <1>5
  <2>2. GetGate(c, x - 1) = c[x] /\ Position(c, x - 1) = x
    BY <1>6, <2>1, GateAt
  <2>. QED
    BY <1>2, <1>3, <1>5, <2>1, <2>2
<1>8. GateIds(c) = {x - 1 : x \in DOMAIN physical}
  BY <1>2, <1>5 DEF GateIds
<1>. QED
  BY <1>2, <1>4, <1>5, <1>6, <1>7, <1>8

\* Every gate of it was written for an operation, and which one is on the same qubits.
LEMMA BlockOf ==
    ASSUME NEW starts, Laid(starts), NEW g \in GateIds(PhysicalCircuit)
    PROVE  \E i \in DOMAIN operations : \E c \in 1 .. Width(i) : g = starts[i] + c - 2
<1>1. Written = DOMAIN operations
  BY DEF Laid, MapInv, Written, Unbuilt
<1>2. PICK x \in DOMAIN physical : g = x - 1
  BY MappedCircuit
<1>3. PICK i \in Written : \E c \in 1 .. Width(i) : x = starts[i] + c - 1
  BY DEF Laid, LayoutOK
<1>4. PICK c \in 1 .. Width(i) : x = starts[i] + c - 1
  BY <1>3
<1>5. starts[i] \in Nat /\ c \in Int
  BY <1>3 DEF Laid, LayoutOK
<1>. QED
  BY <1>1, <1>2, <1>4, <1>5

LEMMA InBlock ==
    ASSUME NEW starts, Laid(starts), NEW i \in DOMAIN operations, NEW c \in 1 .. Width(i)
    PROVE  /\ starts[i] \in Nat \ {0} /\ c \in Nat /\ starts[i] + c - 1 \in DOMAIN physical
           /\ starts[i] + c - 2 \in GateIds(PhysicalCircuit)
           /\ Position(PhysicalCircuit, starts[i] + c - 2) = starts[i] + c - 1
           /\ GetGate(PhysicalCircuit, starts[i] + c - 2) = PhysicalCircuit[starts[i] + c - 1]
           /\ PhysicalCircuit[starts[i] + c - 1].id = starts[i] + c - 2
           /\ PhysicalCircuit[starts[i] + c - 1].op = Entry(i, c).op
           /\ PhysicalCircuit[starts[i] + c - 1].qubits = Entry(i, c).qubits
           /\ ToSet(Entry(i, c).qubits) = On(operations[i])
<1>1. Written = DOMAIN operations
  BY DEF Laid, MapInv, Written, Unbuilt
<1>2. PICK s, x : s = starts[i] /\ x = starts[i] + c - 1
  OBVIOUS
<1>3. /\ s \in Nat \ {0} /\ c \in Nat /\ x \in DOMAIN physical
      /\ physical[x] = Entry(i, c)
  BY <1>1, <1>2 DEF Laid, LayoutOK
<1>4. s + c - 2 = x - 1 /\ s + c - 1 = x
  BY <1>2, <1>3
<1>5. /\ PhysicalCircuit[x].id = x - 1
      /\ GetGate(PhysicalCircuit, x - 1) = PhysicalCircuit[x]
      /\ Position(PhysicalCircuit, x - 1) = x
      /\ PhysicalCircuit[x].op = Entry(i, c).op
      /\ PhysicalCircuit[x].qubits = Entry(i, c).qubits
      /\ x - 1 \in GateIds(PhysicalCircuit)
  BY <1>3, MappedCircuit
<1>6. ToSet(Entry(i, c).qubits) = On(operations[i])
  <2>1. operations[i] \in TimedOps
    BY RouterState DEF Laid, MapInv
  <2>2. PICK o : o = operations[i]
    OBVIOUS
  <2>3. o.op = "swap" => o.qubits \in Seq(Qubits) /\ Len(o.qubits) = 2
    BY <2>1, <2>2 DEF TimedOps
  <2>4. CASE o.op = "swap" /\ c = 2
    <3>1. Entry(i, c).qubits = <<o.qubits[2], o.qubits[1]>>
      BY <2>2, <2>4 DEF Entry
    <3>2. On(o) = {o.qubits[1], o.qubits[2]}
      BY <2>3, <2>4 DEF On, ToSet
    <3>3. ToSet(<<o.qubits[2], o.qubits[1]>>) = {o.qubits[1], o.qubits[2]}
      BY DEF ToSet
    <3>. QED
      BY <2>2, <3>1, <3>2, <3>3
  <2>5. CASE ~(o.op = "swap" /\ c = 2)
    BY <2>2, <2>5 DEF Entry, On
  <2>. QED
    BY <2>4, <2>5
<1>. QED
  BY <1>2, <1>3, <1>4, <1>5, <1>6

\* The gates of different operations are different ones.
LEMMA BlocksApart ==
    ASSUME NEW starts, Laid(starts), NEW i \in DOMAIN operations, NEW c \in 1 .. Width(i),
           NEW j \in DOMAIN operations, NEW d \in 1 .. Width(j),
           starts[i] + c = starts[j] + d
    PROVE  i = j /\ c = d
<1>1. Written = DOMAIN operations
  BY DEF Laid, MapInv, Written, Unbuilt
<1>2. /\ starts[i] \in Nat /\ starts[j] \in Nat /\ c \in Nat /\ d \in Nat
      /\ Width(i) \in Nat /\ Width(j) \in Nat
      /\ c <= Width(i) /\ d <= Width(j) /\ 1 <= c /\ 1 <= d
  BY InBlock DEF Width
<1>3. i # j => \/ starts[i] + Width(i) <= starts[j]
               \/ starts[j] + Width(j) <= starts[i]
  BY <1>1 DEF Laid, LayoutOK
<1>4. i = j
  BY <1>2, <1>3
<1>. QED
  BY <1>2, <1>4

\* The first gate of an operation precedes its others, and the first ones of the operations
\* that follow on a qubit.
LEMMA MustPrecede ==
    ASSUME NEW starts, Laid(starts), NEW i \in DOMAIN operations
    PROVE  /\ \A c \in 1 .. Width(i) : c # 1 =>
                 starts[i] - 1 \in Requires(PhysicalCircuit, starts[i] + c - 2)
           /\ \A j \in DOMAIN operations :
                 i < j /\ On(operations[i]) \cap On(operations[j]) # {} =>
                    starts[i] - 1 \in Requires(PhysicalCircuit, starts[j] - 1)
<1>1. Written = DOMAIN operations /\ IsCircuit(PhysicalCircuit, Qubits)
      /\ DOMAIN PhysicalCircuit = DOMAIN physical
  BY MappedCircuit DEF Laid, MapInv, Written, Unbuilt
<1>2. ASSUME NEW x \in DOMAIN physical, NEW y \in DOMAIN physical, x < y,
             ToSet(PhysicalCircuit[x].qubits) \cap ToSet(PhysicalCircuit[y].qubits) # {}
      PROVE  x - 1 \in Requires(PhysicalCircuit, y - 1)
  <2>1. PICK l : l \in ToSet(PhysicalCircuit[x].qubits) /\ l \in ToSet(PhysicalCircuit[y].qubits)
    BY <1>2
  <2>2. x \in OnQubit(PhysicalCircuit, l) /\ y \in OnQubit(PhysicalCircuit, l)
    BY <1>1, <2>1 DEF OnQubit
  <2>3. PhysicalCircuit[x].id = x - 1 /\ PhysicalCircuit[y].id = y - 1
    BY MappedCircuit
  <2>. QED
    BY <1>1, <1>2, <2>2, <2>3, RequiresAt
<1>3. \A j \in DOMAIN operations : 1 \in 1 .. Width(j) /\ starts[j] \in Nat \ {0}
  <2>1. \A j \in DOMAIN operations : 1 \in 1 .. Width(j)
    BY DEF Width
  <2>. QED
    BY <2>1, InBlock
<1>4. \A j \in DOMAIN operations :
         /\ starts[j] \in DOMAIN physical
         /\ ToSet(PhysicalCircuit[starts[j]].qubits) = On(operations[j])
  <2>1. ASSUME NEW j \in DOMAIN operations
        PROVE  /\ starts[j] \in DOMAIN physical
               /\ ToSet(PhysicalCircuit[starts[j]].qubits) = On(operations[j])
    <3>1. starts[j] + 1 - 1 = starts[j] /\ 1 \in 1 .. Width(j)
      BY <1>3
    <3>. QED
      BY <3>1, InBlock
  <2>. QED
    BY <2>1
<1>5. On(operations[i]) # {}
  <2>1. operations[i] \in TimedOps
    BY RouterState DEF Laid, MapInv
  <2>2. operations[i].qubits \in Seq(Qubits) /\ Len(operations[i].qubits) \in {1, 2}
    BY <2>1 DEF TimedOps
  <2>3. 1 \in DOMAIN operations[i].qubits
    BY <2>2
  <2>. QED
    BY <2>3 DEF On, ToSet
<1>6. ASSUME NEW c \in 1 .. Width(i), c # 1
      PROVE  starts[i] - 1 \in Requires(PhysicalCircuit, starts[i] + c - 2)
  <2>1. PICK x, y : x = starts[i] /\ y = starts[i] + c - 1
    OBVIOUS
  <2>2. /\ x \in DOMAIN physical /\ y \in DOMAIN physical
        /\ ToSet(PhysicalCircuit[x].qubits) = On(operations[i])
        /\ ToSet(PhysicalCircuit[y].qubits) = On(operations[i])
    BY <1>4, <2>1, InBlock
  <2>3. x < y /\ y - 1 = starts[i] + c - 2
    BY <1>3, <1>6, <2>1
  <2>. QED
    BY <1>2, <1>5, <2>1, <2>2, <2>3
<1>7. ASSUME NEW j \in DOMAIN operations, i < j, On(operations[i]) \cap On(operations[j]) # {}
      PROVE  starts[i] - 1 \in Requires(PhysicalCircuit, starts[j] - 1)
  <2>1. starts[i] < starts[j]
    BY <1>1, <1>7 DEF Laid, LayoutOK
  <2>. QED
    BY <1>2, <1>4, <1>7, <2>1
<1>. QED
  BY <1>6, <1>7
-----------------------------------------------------------------------------
(* What the checker asks the two circuits                                  *)

\* The checker reads circuits and devices as the mapper does.
LEMMA SameGetGate == \A c, x : Checker!GetGate(c, x) = GetGate(c, x)
  BY DEF Checker!GetGate, GetGate, Checker!Position, Position

LEMMA SameAnswers ==
    ASSUME NEW c, NEW x
    PROVE  /\ Checker!GetSuccessors(c, x) = GetSuccessors(c, x)
           /\ Checker!FirstGate(c, x) = FirstGate(c, x)
           /\ Checker!GateIds(c) = GateIds(c)
           /\ Checker!NoGate = NoGate /\ Checker!Qubits = Qubits
           /\ Checker!ToSet(c) = ToSet(c) /\ Checker!Reverse(c) = Reverse(c)
           /\ Checker!IsAdjacency(device, c, x) = IsAdjacency(device, c, x)
<1>1. Checker!GateIds(c) = GateIds(c)
  BY DEF Checker!GateIds, GateIds
<1>2. Checker!NoGate = NoGate /\ Checker!Qubits = Qubits
  BY DEF Checker!NoGate, NoGate, Checker!Qubits, Qubits
<1>3. Checker!ToSet(c) = ToSet(c) /\ Checker!Reverse(c) = Reverse(c)
  BY DEF Checker!ToSet, ToSet, Checker!Reverse, Reverse
<1>4. Checker!IsAdjacency(device, c, x) = IsAdjacency(device, c, x)
  BY DEF Checker!IsAdjacency, IsAdjacency, ToSet, Checker!ToSet
<1>5. Checker!FirstGate(c, x) = FirstGate(c, x)
  BY DEF Checker!FirstGate, FirstGate, Checker!OnQubit, OnQubit, ToSet, Checker!ToSet,
         Checker!NoGate, NoGate, Checker!Min, Min
<1>6. Checker!GetSuccessors(c, x) = GetSuccessors(c, x)
  <2>1. \A q : Checker!OnQubit(c, q) = OnQubit(c, q)
    BY DEF Checker!OnQubit, OnQubit, ToSet, Checker!ToSet
  <2>2. \A S : Checker!Min(S) = Min(S)
    BY DEF Checker!Min, Min
  <2>3. Checker!Position(c, x) = Position(c, x) /\ Checker!NoGate = NoGate
    BY DEF Checker!Position, Position, Checker!NoGate, NoGate
  <2>4. Checker!GetGate(c, x) = GetGate(c, x)
    BY SameGetGate
  <2>. QED
    BY <2>1, <2>2, <2>3, <2>4 DEF Checker!GetSuccessors, GetSuccessors
<1>. QED
  BY <1>1, <1>2, <1>3, <1>4, <1>5, <1>6

LEMMA SameGates ==
    ASSUME NEW c
    PROVE  Checker!GetGates(c, NumQubits) = GetGates(c, NumQubits)
<1>1. Checker!GateIds(c) = GateIds(c)
  BY SameAnswers
<1>2. [q \in 1 .. NumQubits |-> Checker!FirstGate(c, q - 1)]
      = [q \in 1 .. NumQubits |-> FirstGate(c, q - 1)]
  BY SameAnswers
<1>3. [id \in Checker!GateIds(c) |-> Checker!GetSuccessors(c, id)]
      = [id \in GateIds(c) |-> GetSuccessors(c, id)]
  BY <1>1, SameAnswers
<1>4. \A ids : Checker!DfsFrames(ids) = DfsFrames(ids)
  BY DEF Checker!DfsFrames, DfsFrames
<1>5. \A succ, s : Checker!DfsStep(succ, s) = DfsStep(succ, s)
  BY DEF Checker!DfsStep, DfsStep, Checker!NoGate, NoGate, Checker!Last, Last,
         Checker!Front, Front, Checker!DfsFrames, DfsFrames
<1>6. ASSUME NEW roots, NEW succ, NEW n
      PROVE  Checker!DfsOrder(roots, succ, n) = DfsOrder(roots, succ, n)
  BY <1>4, <1>5, Zenon DEF Checker!DfsOrder, DfsOrder
<1>. QED
  BY <1>2, <1>3, <1>6 DEF Checker!GetGates, GetGates

\* The gates that are written one behind the other follow each other on their qubits.
LEMMA NextWritten ==
    ASSUME NEW starts, Laid(starts), NEW x, x \in DOMAIN physical, x + 1 \in DOMAIN physical,
           NEW pin \in DOMAIN PhysicalCircuit[x].qubits,
           PhysicalCircuit[x].qubits[pin] \in ToSet(PhysicalCircuit[x + 1].qubits)
    PROVE  Checker!GetNext(PhysicalCircuit, x - 1, pin) = x
<1>1. PICK c : c = PhysicalCircuit
  OBVIOUS
<1>2. /\ IsCircuit(c, Qubits) /\ x \in DOMAIN c /\ x + 1 \in DOMAIN c /\ x \in Nat
      /\ c[x].id = x - 1 /\ c[x + 1].id = x
  <2>1. /\ IsCircuit(c, Qubits) /\ DOMAIN c = DOMAIN physical
        /\ \A y \in DOMAIN physical : y \in Nat /\ c[y].id = y - 1
    BY <1>1, MappedCircuit
  <2>2. x \in Nat /\ c[x + 1].id = (x + 1) - 1
    BY <2>1
  <2>. QED
    BY <2>1, <2>2
<1>3. PICK l : l = c[x].qubits[pin]
  OBVIOUS
<1>4. x \in OnQubit(c, l) /\ x + 1 \in OnQubit(c, l)
  BY <1>1, <1>2, <1>3 DEF OnQubit, ToSet
<1>5. Follows(c, l, x, x + 1)
  <2>1. OnQubit(c, l) \subseteq Nat
    BY <1>2, Positions
  <2>. QED
    BY <1>2, <1>4, <2>1 DEF Follows
<1>6. GetSuccessors(c, x - 1)[pin] = x
  <2>1. PICK succ : succ = GetSuccessors(c, c[x].id)[pin]
    OBVIOUS
  <2>2. succ = c[x + 1].id
    BY <1>1, <1>2, <1>3, <1>5, <2>1, SuccessorFollows
  <2>. QED
    BY <1>2, <2>1, <2>2
<1>7. x - 1 # NoGate
  BY <1>2, GateAt
<1>. QED
  BY <1>1, <1>6, <1>7, SameAnswers DEF Checker!GetNext

\* The three gates of a SWAP turn into each other.
LEMMA SwapTurns ==
    ASSUME NEW starts, Laid(starts), NEW held, LabelsOK(held),
           NEW i \in DOMAIN operations \ Applied, NEW a, NEW b, SwapAt(held, i, a, b)
    PROVE  LET first == starts[i] - 1
           IN  /\ GetGate(PhysicalCircuit, first).qubits = <<a, b>>
               /\ Checker!GetNext(PhysicalCircuit, first, 1) = first + 1
               /\ Checker!GetNext(PhysicalCircuit, first + 1, 1) = first + 2
               /\ Checker!TurnsInto(first, first + 1)
               /\ Checker!TurnsInto(first + 1, first + 2)
<1>1. PICK s, c : s = starts[i] /\ c = PhysicalCircuit
  OBVIOUS
<1>2. /\ operations[i].op = "swap" /\ operations[i].qubits = <<a, b>>
      /\ a \in Qubits /\ b \in Qubits
  <2>1. operations[i] \in TimedOps
    BY RouterState DEF Laid, MapInv
  <2>2. PICK qs : qs = operations[i].qubits
    OBVIOUS
  <2>3. qs \in Seq(Qubits) /\ Len(qs) = 2 /\ a = qs[1] /\ b = qs[2]
    BY <2>1, <2>2 DEF TimedOps, SwapAt
  <2>4. qs = <<a, b>>
    BY <2>3
  <2>. QED
    BY <2>2, <2>4 DEF SwapAt
<1>3. Width(i) = 3
  BY <1>2 DEF Width
<1>4. /\ s \in Nat \ {0} /\ s \in DOMAIN physical
      /\ s + 1 \in DOMAIN physical /\ s + 2 \in DOMAIN physical
      /\ c[s].op = "cx" /\ c[s].qubits = <<a, b>>
      /\ c[s + 1].op = "cx" /\ c[s + 1].qubits = <<b, a>>
      /\ c[s + 2].op = "cx" /\ c[s + 2].qubits = <<a, b>>
  <2>1. /\ Entry(i, 1).op = "cx" /\ Entry(i, 1).qubits = <<a, b>>
        /\ Entry(i, 2).op = "cx" /\ Entry(i, 2).qubits = <<b, a>>
        /\ Entry(i, 3).op = "cx" /\ Entry(i, 3).qubits = <<a, b>>
    BY <1>2 DEF Entry
  <2>2. 1 \in 1 .. Width(i) /\ 2 \in 1 .. Width(i) /\ 3 \in 1 .. Width(i)
    BY <1>3
  <2>3. s \in Nat \ {0}
    BY <1>1, <2>2, InBlock
  <2>4. /\ s + 1 - 1 \in DOMAIN physical /\ c[s + 1 - 1].op = Entry(i, 1).op
        /\ c[s + 1 - 1].qubits = Entry(i, 1).qubits
    BY <1>1, <2>2, InBlock
  <2>5. /\ s + 2 - 1 \in DOMAIN physical /\ c[s + 2 - 1].op = Entry(i, 2).op
        /\ c[s + 2 - 1].qubits = Entry(i, 2).qubits
    BY <1>1, <2>2, InBlock
  <2>6. /\ s + 3 - 1 \in DOMAIN physical /\ c[s + 3 - 1].op = Entry(i, 3).op
        /\ c[s + 3 - 1].qubits = Entry(i, 3).qubits
    BY <1>1, <2>2, InBlock
  <2>7. s + 1 - 1 = s /\ s + 2 - 1 = s + 1 /\ s + 3 - 1 = s + 2
    BY <2>3
  <2>. QED
    BY <2>1, <2>3, <2>4, <2>5, <2>6, <2>7
<1>5. /\ ToSet(<<a, b>>) = {a, b} /\ ToSet(<<b, a>>) = {a, b}
      /\ Reverse(<<a, b>>) = <<b, a>> /\ Reverse(<<b, a>>) = <<a, b>>
      /\ DOMAIN <<a, b>> = 1 .. 2 /\ DOMAIN <<b, a>> = 1 .. 2
  <2>1. ToSet(<<a, b>>) = {a, b} /\ ToSet(<<b, a>>) = {a, b}
    BY DEF ToSet
  <2>2. Reverse(<<a, b>>) = <<b, a>> /\ Reverse(<<b, a>>) = <<a, b>>
    BY DEF Reverse
  <2>. QED
    BY <2>1, <2>2
<1>6. /\ Checker!GetNext(c, s - 1, 1) = s /\ Checker!GetNext(c, s - 1, 2) = s
      /\ Checker!GetNext(c, s, 1) = s + 1 /\ Checker!GetNext(c, s, 2) = s + 1
  <2>1. \A pin \in 1 .. 2 : Checker!GetNext(c, s - 1, pin) = s
    <3>1. \A pin \in DOMAIN c[s].qubits : c[s].qubits[pin] \in ToSet(c[s + 1].qubits)
      BY <1>4, <1>5
    <3>. QED
      BY <1>1, <1>4, <1>5, <3>1, NextWritten
  <2>2. \A pin \in 1 .. 2 : Checker!GetNext(c, s, pin) = s + 1
    <3>1. PICK y : y = s + 1
      OBVIOUS
    <3>2. y + 1 = s + 2 /\ y - 1 = s
      BY <1>4, <3>1
    <3>3. \A pin \in DOMAIN c[y].qubits : c[y].qubits[pin] \in ToSet(c[y + 1].qubits)
      BY <1>4, <1>5, <3>1, <3>2
    <3>4. y \in DOMAIN physical /\ y + 1 \in DOMAIN physical /\ DOMAIN c[y].qubits = 1 .. 2
      BY <1>4, <1>5, <3>1, <3>2
    <3>5. \A pin \in 1 .. 2 : Checker!GetNext(c, y - 1, pin) = y
      BY <1>1, <3>3, <3>4, NextWritten
    <3>. QED
      BY <3>1, <3>2, <3>5
  <2>. QED
    BY <2>1, <2>2
<1>7. /\ Checker!GetGate(c, s - 1) = c[s] /\ Checker!GetGate(c, s) = c[s + 1]
      /\ Checker!GetGate(c, s + 1) = c[s + 2]
  <2>1. \A y \in DOMAIN physical : Checker!GetGate(c, y - 1) = c[y]
    BY <1>1, MappedCircuit, SameGetGate
  <2>2. (s + 1) - 1 = s /\ (s + 2) - 1 = s + 1
    BY <1>4
  <2>3. Checker!GetGate(c, (s + 1) - 1) = c[s + 1]
    BY <1>4, <2>1
  <2>4. Checker!GetGate(c, (s + 2) - 1) = c[s + 2]
    BY <1>4, <2>1
  <2>. QED
    BY <1>4, <2>1, <2>2, <2>3, <2>4
<1>8. Checker!TurnsInto(s - 1, s) /\ Checker!TurnsInto(s, s + 1)
  <2>1. s # Checker!NoGate /\ s + 1 # Checker!NoGate
    BY <1>4, SameAnswers DEF NoGate
  <2>. QED
    BY <1>1, <1>4, <1>5, <1>6, <1>7, <2>1, SameAnswers DEF Checker!TurnsInto
<1>9. (s - 1) + 1 = s /\ (s - 1) + 2 = s + 1
  BY <1>4
<1>. QED
  BY <1>1, <1>4, <1>6, <1>7, <1>8, <1>9, SameGetGate
-----------------------------------------------------------------------------
(* The check on its way through the physical circuit                       *)

\* What is not yet visited: no gate twice, and each one behind those that it requires
Unvisited(left) ==
    /\ left \in Seq(GateIds(PhysicalCircuit))
    /\ \A a, b \in DOMAIN left : left[a] = left[b] => a = b
    /\ \A a, b \in DOMAIN left : left[a] \in Requires(PhysicalCircuit, left[b]) => a < b

\* The operations whose first gate is among it
ToGo(starts, left) == {i \in DOMAIN operations : starts[i] - 1 \in ToSet(left)}

\* The gates that were found to be of a SWAP are those of the SWAPs that were followed.
FoundOK(starts, rest, found) ==
    \A g : g \in found <=> \E i \in (DOMAIN operations \ Applied) \ rest : \E c \in 1 .. 3 :
                               g = starts[i] + c - 2

\* The gate that is visited next requires none of those that are left.
LEMMA NextVisited ==
    ASSUME NEW left, Unvisited(left), left # <<>>, NEW g, g = Head(left)
    PROVE  /\ g \in ToSet(left) /\ g \in GateIds(PhysicalCircuit)
           /\ \A x \in ToSet(left) : x \notin Requires(PhysicalCircuit, g)
           /\ Unvisited(Tail(left))
           /\ ToSet(Tail(left)) = ToSet(left) \ {g}
<1>1. PICK ids : ids = GateIds(PhysicalCircuit)
  OBVIOUS
<1>2. /\ left \in Seq(ids)
      /\ \A a, b \in DOMAIN left : left[a] = left[b] => a = b
      /\ \A a, b \in DOMAIN left : left[a] \in Requires(PhysicalCircuit, left[b]) => a < b
  BY <1>1 DEF Unvisited
<1>3. PICK m \in Nat : m = Len(left)
  BY <1>2
<1>4. m # 0
  BY <1>2, <1>3
<1>5. PICK n \in Nat : m = n + 1
  <2>1. m - 1 \in Nat /\ m = (m - 1) + 1
    BY <1>4
  <2>. QED
    BY <2>1
<1>6. DOMAIN left = 1 .. n + 1 /\ g = left[1] /\ \A a \in 1 .. n + 1 : left[a] \in ids
  <2>1. left \in Seq(ids) /\ Len(left) = n + 1
    BY <1>2, <1>3, <1>5
  <2>. QED
    BY <2>1
<1>7. PICK t : t = Tail(left)
  OBVIOUS
<1>8. t \in Seq(ids) /\ DOMAIN t = 1 .. n /\ \A a \in 1 .. n : t[a] = left[a + 1]
  <2>1. left \in Seq(ids) /\ Len(left) = n + 1
    BY <1>2, <1>3, <1>5
  <2>. QED
    BY <1>7, <2>1
<1>9. g \in ToSet(left) /\ g \in ids
  BY <1>6 DEF ToSet
<1>10. ASSUME NEW x \in ToSet(left) PROVE x \notin Requires(PhysicalCircuit, g)
  <2>1. PICK a \in 1 .. n + 1 : x = left[a]
    BY <1>6 DEF ToSet
  <2>2. 1 \in 1 .. n + 1 /\ ~(a < 1)
    BY <2>1
  <2>. QED
    BY <1>2, <1>6, <2>1, <2>2
<1>11. \A a \in 1 .. n : a + 1 \in 1 .. n + 1 /\ a + 1 # 1
  OBVIOUS
<1>12. Unvisited(t)
  <2>1. ASSUME NEW a \in 1 .. n, NEW b \in 1 .. n, t[a] = t[b] PROVE a = b
    <3>1. a + 1 = b + 1
      BY <1>2, <1>6, <1>8, <1>11, <2>1
    <3>. QED
      BY <3>1
  <2>2. ASSUME NEW a \in 1 .. n, NEW b \in 1 .. n, t[a] \in Requires(PhysicalCircuit, t[b])
        PROVE  a < b
    <3>1. a + 1 < b + 1
      BY <1>2, <1>6, <1>8, <1>11, <2>2
    <3>. QED
      BY <3>1
  <2>. QED
    BY <1>1, <1>8, <2>1, <2>2 DEF Unvisited
<1>13. ToSet(t) = ToSet(left) \ {g}
  <2>1. ASSUME NEW x \in ToSet(t) PROVE x \in ToSet(left) \ {g}
    <3>1. PICK a \in 1 .. n : x = left[a + 1]
      BY <1>8, <2>1 DEF ToSet
    <3>2. a + 1 \in DOMAIN left /\ 1 \in DOMAIN left /\ a + 1 # 1
      BY <1>6, <1>11
    <3>. QED
      BY <1>2, <1>6, <3>1, <3>2 DEF ToSet
  <2>2. ASSUME NEW x \in ToSet(left), x # g PROVE x \in ToSet(t)
    <3>1. PICK a \in 1 .. n + 1 : x = left[a]
      BY <1>6 DEF ToSet
    <3>2. a - 1 \in 1 .. n /\ (a - 1) + 1 = a
      BY <1>6, <2>2, <3>1
    <3>. QED
      BY <1>8, <3>1, <3>2 DEF ToSet
  <2>. QED
    BY <2>1, <2>2
<1>. QED
  BY <1>1, <1>7, <1>9, <1>10, <1>12, <1>13

\* When it is the second or third gate of a SWAP, that SWAP was followed.
LEMMA BehindFirst ==
    ASSUME NEW starts, Laid(starts), NEW left, Unvisited(left), left # <<>>,
           NEW i \in DOMAIN operations, NEW c \in 1 .. Width(i), c # 1,
           Head(left) = starts[i] + c - 2
    PROVE  /\ c \in 1 .. 3 /\ i \notin ToGo(starts, left) /\ operations[i].op = "swap"
           /\ ToGo(starts, Tail(left)) = ToGo(starts, left)
<1>1. PICK g : g = Head(left)
  OBVIOUS
<1>2. c \in 1 .. 3 /\ operations[i].op = "swap"
  BY DEF Width
<1>3. starts[i] - 1 \in Requires(PhysicalCircuit, g)
  BY <1>1, MustPrecede
<1>4. i \notin ToGo(starts, left)
  BY <1>1, <1>3, NextVisited DEF ToGo
<1>5. ASSUME NEW j \in DOMAIN operations, starts[j] - 1 = g PROVE FALSE
  <2>1. 1 \in 1 .. Width(j)
    BY DEF Width
  <2>2. PICK s, t : s = starts[i] /\ t = starts[j]
    OBVIOUS
  <2>3. s \in Nat /\ t \in Nat /\ c \in Nat
    BY <2>1, <2>2, InBlock
  <2>4. s + c - 2 = t - 1
    BY <1>1, <1>5, <2>2
  <2>5. s + c = t + 1
    BY <2>3, <2>4
  <2>. QED
    BY <2>1, <2>2, <2>5, BlocksApart
<1>6. ToSet(Tail(left)) = ToSet(left) \ {g}
  BY <1>1, NextVisited
<1>7. ToGo(starts, Tail(left)) = ToGo(starts, left)
  BY <1>5, <1>6 DEF ToGo
<1>. QED
  BY <1>2, <1>4, <1>7

\* When it is the first one of an operation, that operation may be followed.
LEMMA FirstOfBlock ==
    ASSUME NEW starts, Laid(starts), NEW left, Unvisited(left), left # <<>>,
           NEW i \in DOMAIN operations, Head(left) = starts[i] - 1
    PROVE  /\ MayFollow(ToGo(starts, left), i)
           /\ ToGo(starts, Tail(left)) = ToGo(starts, left) \ {i}
           /\ \A found : FoundOK(starts, ToGo(starts, left), found) => Head(left) \notin found
<1>1. PICK g : g = Head(left)
  OBVIOUS
<1>2. /\ g \in ToSet(left) /\ \A x \in ToSet(left) : x \notin Requires(PhysicalCircuit, g)
      /\ ToSet(Tail(left)) = ToSet(left) \ {g}
  BY <1>1, NextVisited
<1>3. i \in ToGo(starts, left)
  BY <1>1, <1>2 DEF ToGo
<1>4. 1 \in 1 .. Width(i) /\ i \in Nat
  BY RouterState DEF Width, Laid, MapInv
<1>5. ASSUME NEW j \in ToGo(starts, left), On(operations[j]) \cap On(operations[i]) # {}
      PROVE  i <= j
  <2>1. j \in DOMAIN operations /\ starts[j] - 1 \in ToSet(left)
    BY DEF ToGo
  <2>2. ~(j < i)
    <3>1. SUFFICES ASSUME j < i PROVE FALSE
      OBVIOUS
    <3>2. starts[j] - 1 \in Requires(PhysicalCircuit, starts[i] - 1)
      BY <1>5, <2>1, <3>1, MustPrecede
    <3>. QED
      BY <1>1, <1>2, <2>1, <3>2
  <2>3. j \in Nat
    BY <2>1, RouterState DEF Laid, MapInv
  <2>. QED
    BY <1>4, <2>2, <2>3
<1>6. ASSUME NEW j \in DOMAIN operations, NEW d \in 1 .. Width(j), starts[j] + d - 2 = g
      PROVE  j = i
  <2>1. starts[j] \in Nat /\ starts[i] \in Nat /\ d \in Nat
    BY <1>4, InBlock
  <2>2. starts[i] + 1 = starts[j] + d
    BY <1>1, <1>6, <2>1
  <2>. QED
    BY <1>4, <2>2, BlocksApart
<1>7. ASSUME NEW j \in DOMAIN operations, starts[j] - 1 = g PROVE j = i
  <2>1. 1 \in 1 .. Width(j)
    BY DEF Width
  <2>2. starts[j] \in Nat
    BY <2>1, InBlock
  <2>3. starts[j] + 1 - 2 = g
    BY <1>7, <2>2
  <2>. QED
    BY <1>6, <2>1, <2>3
<1>8. ToGo(starts, Tail(left)) = ToGo(starts, left) \ {i}
  BY <1>1, <1>2, <1>7 DEF ToGo
<1>9. ASSUME NEW found, FoundOK(starts, ToGo(starts, left), found), g \in found PROVE FALSE
  <2>1. PICK j \in (DOMAIN operations \ Applied) \ ToGo(starts, left), d \in 1 .. 3 :
           g = starts[j] + d - 2
    BY <1>9 DEF FoundOK
  <2>2. Width(j) = 3
    <3>1. PICK held : LabelsOK(held)
      BY DEF Laid, MapInv, HistoryOK
    <3>2. PICK a, b : SwapAt(held, j, a, b)
      BY <2>1, <3>1, SwapOf DEF Laid, MapInv
    <3>. QED
      BY <3>2 DEF SwapAt, Width
  <2>3. j = i
    BY <1>6, <2>1, <2>2
  <2>. QED
    BY <1>3, <2>1, <2>3
<1>. QED
  BY <1>1, <1>3, <1>5, <1>8, <1>9 DEF MayFollow
\* The labels of the qubits say where the logical ones are.
LabelsAt(lab, where) ==
    /\ lab \in [Qubits -> Qubits]
    /\ \A q \in Qubits : where[lab[q]] = q
    /\ \A l \in Qubits : lab[where[l]] = l

\* Every logical qubit waits for the first gate on it that has not run.
Awaits(dep, ran) == \A l \in Qubits : IsNextOn(circuit, ran, l, dep[l])

\* All qubits of operation i wait for the gate at position m, and have its qubits.
AwaitedAt(lab, dep, i, m) ==
    \A pin \in DOMAIN operations[i].qubits :
        /\ lab[operations[i].qubits[pin]] = circuit[m].qubits[pin]
        /\ dep[circuit[m].qubits[pin]] = circuit[m].id

\* What a gate requires lies before it, on one of its qubits.
LEMMA EarlierRequired ==
    ASSUME JobOK, NEW k \in DOMAIN circuit, NEW l, k \in OnQubit(circuit, l),
           NEW m \in OnQubit(circuit, l), m < k
    PROVE  circuit[m].id \in Requires(circuit, circuit[k].id)
<1>1. IsCircuit(circuit, Qubits)
  BY CircuitGiven
<1>2. m \in DOMAIN circuit
  BY <1>1, Positions
<1>. QED
  BY <1>1, <1>2, RequiresAt

\* When a gate may be followed, all its qubits wait for it.
LEMMA GateAwaited ==
    ASSUME RouterInv, JobOK, OrderOK, NEW held, LabelsOK(held),
           NEW rest, NEW where, NEW ran, Progress(held, rest, where, ran),
           NEW i \in Applied, MayFollow(rest, i), NEW m, IsGateAt(held, i, m),
           NEW lab, LabelsAt(lab, where), NEW dep, Awaits(dep, ran)
    PROVE  AwaitedAt(lab, dep, i, m)
<1>1. PICK qs : qs = operations[i].qubits
  OBVIOUS
<1>2. /\ m \in DOMAIN circuit /\ DOMAIN qs = DOMAIN circuit[m].qubits
  BY <1>1 DEF IsGateAt
<1>3. IsCircuit(circuit, Qubits) /\ circuit[m].qubits \in Seq(Qubits)
  BY <1>2, CircuitGiven, GateAt
<1>4. circuit[m].id \notin ran /\ Requires(circuit, circuit[m].id) \subseteq ran
  BY GateMayRun
<1>5. InPlace(where, i, m)
  BY GateFollowed
<1>6. ASSUME NEW pin \in DOMAIN qs
      PROVE  /\ lab[qs[pin]] = circuit[m].qubits[pin]
             /\ dep[circuit[m].qubits[pin]] = circuit[m].id
  <2>1. PICK l : l = circuit[m].qubits[pin]
    OBVIOUS
  <2>2. l \in Qubits /\ m \in OnQubit(circuit, l)
    BY <1>2, <1>3, <2>1 DEF OnQubit, ToSet
  <2>3. qs[pin] = where[l]
    BY <1>1, <1>2, <1>5, <2>1 DEF InPlace
  <2>4. \A k \in OnQubit(circuit, l) : k < m => circuit[k].id \in ran
    BY <1>2, <1>4, <2>2, EarlierRequired
  <2>5. PICK d : d = dep[l]
    OBVIOUS
  <2>6. IsNextOn(circuit, ran, l, d)
    BY <2>2, <2>5 DEF Awaits
  <2>7. d = circuit[m].id
    BY <1>3, <1>4, <2>2, <2>4, <2>6, NextOnIs
  <2>. QED
    BY <2>1, <2>2, <2>3, <2>5, <2>7 DEF LabelsAt
<1>. QED
  BY <1>1, <1>6 DEF AwaitedAt

\* What the qubits wait for once the gate at position m was found
Onwards(dep, m) ==
    LET pins == circuit[m].qubits
    IN  [l \in Qubits |-> IF l \in ToSet(pins)
                          THEN GetSuccessors(circuit, circuit[m].id)
                                   [CHOOSE pin \in DOMAIN pins : pins[pin] = l]
                          ELSE dep[l]]

LEMMA GateFound ==
    ASSUME JobOK, NEW ran, Closed(circuit, ran), NEW m \in DOMAIN circuit,
           circuit[m].id \notin ran, Requires(circuit, circuit[m].id) \subseteq ran,
           NEW dep, Awaits(dep, ran)
    PROVE  /\ Closed(circuit, ran \cup {circuit[m].id})
           /\ Awaits(Onwards(dep, m), ran \cup {circuit[m].id})
<1>1. IsCircuit(circuit, Qubits)
  BY CircuitGiven
<1>2. PICK id, ran2 : id = circuit[m].id /\ ran2 = ran \cup {circuit[m].id}
  OBVIOUS
<1>3. id \in Ready(circuit, ran)
  BY <1>2 DEF Ready, GateIds
<1>4. Closed(circuit, ran2)
  BY <1>1, <1>2, <1>3, ReadyAfter
<1>5. PICK pins : pins = circuit[m].qubits
  OBVIOUS
<1>6. PICK now : now = Onwards(dep, m)
  OBVIOUS
<1>7. ASSUME NEW l \in Qubits PROVE IsNextOn(circuit, ran2, l, now[l])
  <2>1. PICK d : d = dep[l]
    OBVIOUS
  <2>2. IsNextOn(circuit, ran, l, d)
    BY <2>1 DEF Awaits
  <2>3. /\ m \notin OnQubit(circuit, l) => IsNextOn(circuit, ran2, l, d)
        /\ \A pin \in DOMAIN circuit[m].qubits : circuit[m].qubits[pin] = l =>
              IsNextOn(circuit, ran2, l, GetSuccessors(circuit, circuit[m].id)[pin])
    BY <1>1, <1>2, <1>3, <2>2, NextOnAdvances
  <2>4. m \in OnQubit(circuit, l) <=> l \in ToSet(pins)
    BY <1>5 DEF OnQubit
  <2>5. CASE l \notin ToSet(pins)
    <3>1. now[l] = d
      BY <1>5, <1>6, <2>1, <2>5 DEF Onwards
    <3>. QED
      BY <2>3, <2>4, <2>5, <3>1
  <2>6. CASE l \in ToSet(pins)
    <3>1. PICK pin : pin = CHOOSE x \in DOMAIN pins : pins[x] = l
      OBVIOUS
    <3>2. \E x \in DOMAIN pins : pins[x] = l
      BY <2>6 DEF ToSet
    <3>3. pin \in DOMAIN pins /\ pins[pin] = l
      BY <3>1, <3>2
    <3>4. now[l] = GetSuccessors(circuit, circuit[m].id)[pin]
      BY <1>5, <1>6, <2>6, <3>1 DEF Onwards
    <3>. QED
      BY <1>5, <2>3, <3>3, <3>4
  <2>. QED
    BY <2>5, <2>6
<1>8. Awaits(now, ran2)
  BY <1>7 DEF Awaits
<1>. QED
  BY <1>2, <1>4, <1>6, <1>8

\* When a SWAP may be followed, its two qubits do not wait for the same gate.
LEMMA SwapIsNoGate ==
    ASSUME RouterInv, JobOK, NEW held, LabelsOK(held), SwapsOK(held),
           NEW rest, NEW where, NEW ran, Progress(held, rest, where, ran),
           NEW i \in DOMAIN operations \ Applied, MayFollow(rest, i),
           NEW a, NEW b, SwapAt(held, i, a, b),
           NEW lab, LabelsAt(lab, where), NEW dep, Awaits(dep, ran)
    PROVE  dep[lab[a]] # dep[lab[b]]
<1>1. PICK k \in DOMAIN circuit :
         /\ \A j \in Applied : j < i => operations[j].id # circuit[k].id
         /\ \A x \in Requires(circuit, circuit[k].id) :
               \E j \in Applied : j < i /\ operations[j].id = x
         /\ \E p, q \in On(operations[i]) : /\ held[i][p] \in ToSet(circuit[k].qubits)
                                            /\ held[i][q] \notin ToSet(circuit[k].qubits)
  BY DEF SwapsOK
<1>2. PICK p \in {a, b}, q \in {a, b} :
         held[i][p] \in ToSet(circuit[k].qubits) /\ held[i][q] \notin ToSet(circuit[k].qubits)
  <2>1. On(operations[i]) = {a, b}
    BY DEF SwapAt
  <2>. QED
    BY <1>1, <2>1
<1>3. PICK l, other : l = held[i][p] /\ other = held[i][q]
  OBVIOUS
<1>4. /\ IsCircuit(circuit, Qubits) /\ i \in Nat /\ i \in rest /\ On(operations[i]) = {a, b}
      /\ ran = {operations[j].id : j \in Applied \ rest}
  BY CircuitGiven, LabelsStay DEF SwapAt, MayFollow, Progress
<1>5. /\ \A c \in {a, b} : held[i][c] \in Qubits /\ where[held[i][c]] = c
  <2>1. \A c \in {a, b} : where[held[i][c]] = c
    BY <1>4, FollowedAt
  <2>2. held[i] \in [Qubits -> Qubits]
    BY RouterState, HeldShape, LabelsStay
  <2>. QED
    BY <2>1, <2>2 DEF SwapAt
<1>6. lab[p] = l /\ lab[q] = other /\ l \in Qubits /\ other \in Qubits
  BY <1>3, <1>5 DEF LabelsAt
<1>7. k \in OnQubit(circuit, l) /\ k \notin OnQubit(circuit, other)
  BY <1>2, <1>3 DEF OnQubit
<1>8. IsOnHolder(held, i, l)
  BY <1>3, <1>4 DEF IsOnHolder
<1>9. circuit[k].id \notin ran
  <2>1. SUFFICES ASSUME NEW j \in Applied \ rest, operations[j].id = circuit[k].id PROVE FALSE
    BY <1>4
  <2>2. j \in DOMAIN operations /\ j \in Nat
    BY RouterState DEF Applied
  <2>3. i <= j
    BY <1>1, <1>4, <2>1, <2>2
  <2>4. PICK mj : IsGateAt(held, j, mj)
    BY <2>1, GateOf
  <2>5. mj = k
    BY <1>4, <2>1, <2>4, UniqueIds DEF IsGateAt
  <2>6. IsOnHolder(held, j, l)
    BY <1>7, <2>4, <2>5 DEF IsGateAt
  <2>7. j \in rest
    BY <1>4, <1>8, <2>2, <2>3, <2>6, RestAlong
  <2>. QED
    BY <2>1, <2>7
<1>10. ASSUME NEW m \in OnQubit(circuit, l), m < k PROVE circuit[m].id \in ran
  <2>1. circuit[m].id \in Requires(circuit, circuit[k].id)
    BY <1>7, <1>10, EarlierRequired
  <2>2. PICK j \in Applied : j < i /\ operations[j].id = circuit[m].id
    BY <1>1, <2>1
  <2>3. m \in DOMAIN circuit
    BY <1>4, Positions
  <2>4. PICK mj : IsGateAt(held, j, mj)
    BY <2>2, GateOf
  <2>5. mj = m
    <3>1. mj \in DOMAIN circuit /\ circuit[mj].id = circuit[m].id
      BY <2>2, <2>4 DEF IsGateAt
    <3>. QED
      BY <1>4, <2>3, <3>1, UniqueIds
  <2>6. IsOnHolder(held, j, l)
    BY <2>4, <2>5 DEF IsGateAt
  <2>7. j \in Nat
    BY RouterState DEF Applied
  <2>8. j \notin rest
    <3>1. SUFFICES ASSUME j \in rest PROVE FALSE
      OBVIOUS
    <3>2. i <= j
      BY <1>8, <2>6, <3>1, FirstAlong
    <3>. QED
      BY <1>4, <2>2, <2>7, <3>2
  <2>. QED
    BY <1>4, <2>2, <2>8
<1>11. PICK d, e : d = dep[l] /\ e = dep[other]
  OBVIOUS
<1>12. IsNextOn(circuit, ran, l, d) /\ IsNextOn(circuit, ran, other, e)
  BY <1>6, <1>11 DEF Awaits
<1>13. d = circuit[k].id
  BY <1>4, <1>7, <1>9, <1>10, <1>12, NextOnIs
<1>14. e # circuit[k].id
  BY <1>4, <1>7, <1>12, NextOnIsOn
<1>. QED
  BY <1>2, <1>6, <1>11, <1>13, <1>14
\* The check takes a gate that may be followed for what it is, and not for a SWAP.
LEMMA GateIsMatched ==
    ASSUME NEW starts, Laid(starts), NEW held, NEW i \in Applied, NEW m, IsGateAt(held, i, m),
           AwaitedAt(labels, dependency, i, m), NEW g, g = starts[i] - 1
    PROVE  /\ Checker!GetGate(PhysicalCircuit, g).qubits = operations[i].qubits
           /\ Checker!Waiting(labels[operations[i].qubits[1]]) = circuit[m].id
           /\ Checker!GetGate(circuit, circuit[m].id) = circuit[m]
           /\ Checker!Matches(g)
           /\ Len(operations[i].qubits) = 2 => ~Checker!IsSwap(g)
<1>1. /\ RouterInv /\ JobOK /\ i \in DOMAIN operations
  BY DEF Laid, MapInv, Applied
<1>2. PICK qs, id : qs = operations[i].qubits /\ id = circuit[m].id
  OBVIOUS
<1>3. /\ m \in DOMAIN circuit /\ operations[i].op = circuit[m].op /\ circuit[m].op # "swap"
      /\ qs \in Seq(Qubits) /\ Len(qs) = Len(circuit[m].qubits) /\ Len(qs) \in {1, 2}
      /\ DOMAIN qs = DOMAIN circuit[m].qubits
  BY <1>2 DEF IsGateAt
<1>4. 1 \in DOMAIN qs /\ (Len(qs) = 2 => 2 \in DOMAIN qs)
  BY <1>3
<1>5. /\ Checker!GetGate(circuit, id) = circuit[m] /\ id # Checker!NoGate
  <2>1. IsCircuit(circuit, Qubits)
    BY <1>1, CircuitGiven
  <2>2. GetGate(circuit, id) = circuit[m] /\ id # NoGate
    BY <1>2, <1>3, <2>1, GateAt
  <2>3. Checker!NoGate = NoGate
    BY SameAnswers
  <2>. QED
    BY <2>2, <2>3, SameGetGate
<1>6. PICK mapped : mapped = Checker!GetGate(PhysicalCircuit, g)
  OBVIOUS
<1>7. mapped.op = circuit[m].op /\ mapped.qubits = qs
  <2>1. 1 \in 1 .. Width(i)
    BY DEF Width
  <2>2. PICK x : x = starts[i]
    OBVIOUS
  <2>3. /\ x \in Nat
        /\ GetGate(PhysicalCircuit, x + 1 - 2) = PhysicalCircuit[x + 1 - 1]
        /\ PhysicalCircuit[x + 1 - 1].op = Entry(i, 1).op
        /\ PhysicalCircuit[x + 1 - 1].qubits = Entry(i, 1).qubits
    BY <1>1, <2>1, <2>2, InBlock
  <2>4. x + 1 - 2 = g
    BY <2>2, <2>3
  <2>5. mapped.op = Entry(i, 1).op /\ mapped.qubits = Entry(i, 1).qubits
    BY <1>6, <2>3, <2>4, SameGetGate
  <2>6. Entry(i, 1).op = circuit[m].op /\ Entry(i, 1).qubits = qs
    BY <1>2, <1>3 DEF Entry
  <2>. QED
    BY <2>5, <2>6
<1>8. \A pin \in DOMAIN qs : /\ labels[qs[pin]] = circuit[m].qubits[pin]
                             /\ Checker!Waiting(labels[qs[pin]]) = id
  BY <1>2 DEF AwaitedAt, Checker!Waiting
<1>9. Len(qs) = 2 => Checker!IsAdjacency(device, qs[1], qs[2])
  <2>1. Len(qs) = 2 => IsAdjacency(device, qs[1], qs[2])
    BY <1>1, <1>2 DEF RouterInv, PlacesInv, OnCoupledPairs
  <2>. QED
    BY <2>1, SameAnswers
<1>10. Checker!Matches(g)
  <2>1. PICK wanted : wanted = Checker!Waiting(labels[mapped.qubits[1]])
    OBVIOUS
  <2>2. wanted = id
    BY <1>4, <1>7, <1>8, <2>1
  <2>3. Len(mapped.qubits) <= 2
    <3>1. PICK n : n = Len(mapped.qubits)
      OBVIOUS
    <3>2. n \in {1, 2}
      BY <1>3, <1>7, <3>1
    <3>3. n <= 2
      BY <3>2
    <3>. QED
      BY <3>1, <3>3
  <2>4. /\ \A pin \in DOMAIN mapped.qubits : Checker!Waiting(labels[mapped.qubits[pin]]) = wanted
        /\ wanted # Checker!NoGate
        /\ Checker!GetGate(circuit, wanted).op = mapped.op
        /\ \A pin \in DOMAIN mapped.qubits :
              Checker!GetGate(circuit, wanted).qubits[pin] = labels[mapped.qubits[pin]]
        /\ Len(mapped.qubits) = 2 => Checker!IsAdjacency(device, mapped.qubits[1], mapped.qubits[2])
    BY <1>5, <1>7, <1>8, <1>9, <2>2
  <2>. QED
    BY <1>6, <2>1, <2>3, <2>4 DEF Checker!Matches
<1>11. ASSUME Len(qs) = 2 PROVE ~Checker!IsSwap(g)
  <2>1. SUFFICES ASSUME Checker!IsSwap(g) PROVE FALSE
    OBVIOUS
  <2>2. mapped.op = "cx"
    BY <1>6, <2>1 DEF Checker!IsSwap, Checker!TurnsInto
  <2>3. /\ Checker!Waiting(labels[mapped.qubits[1]]) = id
        /\ Checker!Waiting(labels[mapped.qubits[2]]) = id
        /\ Checker!GetGate(circuit, id).op = "cx"
    BY <1>4, <1>5, <1>7, <1>8, <1>11, <2>2
  <2>. QED
    BY <1>5, <1>6, <2>1, <2>3 DEF Checker!IsSwap
<1>. QED
  BY <1>2, <1>4, <1>5, <1>6, <1>7, <1>8, <1>10, <1>11

\* It takes a SWAP that may be followed for a SWAP.
LEMMA SwapIsRecognized ==
    ASSUME NEW starts, Laid(starts), NEW held, LabelsOK(held),
           NEW i \in DOMAIN operations \ Applied, NEW a, NEW b, SwapAt(held, i, a, b),
           dependency[labels[a]] # dependency[labels[b]], NEW g, g = starts[i] - 1
    PROVE  /\ Checker!GetGate(PhysicalCircuit, g).qubits = <<a, b>>
           /\ Checker!GetNext(PhysicalCircuit, g, 1) = g + 1
           /\ Checker!GetNext(PhysicalCircuit, g + 1, 1) = g + 2
           /\ Checker!IsSwap(g)
           /\ Checker!IsAdjacency(device, a, b)
<1>1. /\ GetGate(PhysicalCircuit, g).qubits = <<a, b>>
      /\ Checker!GetNext(PhysicalCircuit, g, 1) = g + 1
      /\ Checker!GetNext(PhysicalCircuit, g + 1, 1) = g + 2
      /\ Checker!TurnsInto(g, g + 1)
      /\ Checker!TurnsInto(g + 1, g + 2)
  BY SwapTurns
<1>2. PICK qs : qs = Checker!GetGate(PhysicalCircuit, g).qubits
  OBVIOUS
<1>3. qs = <<a, b>> /\ qs[1] = a /\ qs[2] = b
  BY <1>1, <1>2, SameGetGate
<1>4. Checker!Waiting(labels[qs[1]]) # Checker!Waiting(labels[qs[2]])
  BY <1>3 DEF Checker!Waiting
<1>5. Checker!IsSwap(g)
  BY <1>1, <1>2, <1>4 DEF Checker!IsSwap
<1>6. Checker!IsAdjacency(device, a, b)
  BY SameAnswers DEF SwapAt
<1>. QED
  BY <1>1, <1>2, <1>3, <1>5, <1>6

-----------------------------------------------------------------------------
(* The invariant of the check                                              *)

\* The gates that were visited are operations that were followed, one behind the other.
FollowedSoFar(held, starts) ==
    /\ Unvisited(order)
    /\ Progress(held, ToGo(starts, order), placed, executed)
    /\ FoundOK(starts, ToGo(starts, order), swaps)
    /\ Closed(circuit, executed)
    /\ LabelsAt(labels, placed)
    /\ Awaits(dependency, executed)
CheckOK ==
    /\ verdict \in {"none", "checking", "accepted"}
    /\ verdict = "none" => swaps = {} /\ executed = {}
    /\ verdict = "accepted" => order = <<>>
    /\ verdict # "none" =>
          /\ stage = "mapped"
          /\ \E held, starts : /\ LabelsOK(held) /\ SwapsOK(held) /\ LayoutOK(starts)
                               /\ FollowedSoFar(held, starts)

\* What the check goes through does not change under it.
LEMMA GivenRests ==
    ASSUME UNCHANGED <<device, circuit, operations, logicalQubit, physical, stage, unbuilt>>,
           NEW held, NEW starts, LabelsOK(held), SwapsOK(held), LayoutOK(starts)
    PROVE  /\ LabelsOK(held)' /\ SwapsOK(held)' /\ LayoutOK(starts)'
           /\ Applied' = Applied /\ PhysicalCircuit' = PhysicalCircuit
<1>1. Applied' = Applied /\ PhysicalCircuit' = PhysicalCircuit
  BY DEF Applied, PhysicalCircuit
<1>2. LabelsOK(held)' /\ SwapsOK(held)'
  BY <1>1 DEF LabelsOK, SwapsOK
<1>3. Written' = Written
  BY DEF Written, Unbuilt
<1>4. /\ \A i : Width(i)' = Width(i)
      /\ \A i, c : Entry(i, c)' = Entry(i, c)
  BY DEF Width, Entry
<1>5. LayoutOK(starts)'
  BY <1>3, <1>4 DEF LayoutOK
<1>. QED
  BY <1>1, <1>2, <1>5

LEMMA FollowedNext ==
    ASSUME UNCHANGED <<device, circuit, operations, logicalQubit, physical, stage, unbuilt>>,
           NEW held, NEW starts, NEW left, NEW rest, NEW where, NEW ran, NEW found,
           NEW lab, NEW dep,
           Unvisited(left), rest = ToGo(starts, left), Progress(held, rest, where, ran),
           FoundOK(starts, rest, found), Closed(circuit, ran), LabelsAt(lab, where),
           Awaits(dep, ran),
           order' = left, placed' = where, executed' = ran, swaps' = found, labels' = lab,
           dependency' = dep
    PROVE  FollowedSoFar(held, starts)'
<1>1. Applied' = Applied /\ PhysicalCircuit' = PhysicalCircuit /\ operations' = operations
      /\ circuit' = circuit
  BY DEF Applied, PhysicalCircuit
<1>2. Unvisited(order)'
  BY <1>1 DEF Unvisited
<1>3. rest = ToGo(starts, order)'
  BY <1>1 DEF ToGo
<1>4. Progress(held, ToGo(starts, order), placed, executed)'
  <2>1. /\ rest \subseteq DOMAIN operations'
        /\ where \in [Qubits -> Qubits]
        /\ \A q \in Qubits : \E k \in DOMAIN held :
              /\ \A i \in DOMAIN operations' : q \in On(operations'[i]) => (i \in rest <=> k <= i)
              /\ where[held[k][q]] = q
        /\ ran = {operations'[i].id : i \in Applied' \ rest}
    BY <1>1 DEF Progress
  <2>. QED
    BY <1>3, <2>1 DEF Progress
<1>5. FoundOK(starts, ToGo(starts, order), swaps)'
  <2>1. \A g : g \in found <=> \E i \in (DOMAIN operations' \ Applied') \ rest : \E c \in 1 .. 3 :
                                   g = starts[i] + c - 2
    BY <1>1 DEF FoundOK
  <2>. QED
    BY <1>3, <2>1 DEF FoundOK
<1>6. Closed(circuit, executed)'
  <2>1. Closed(circuit', ran)
    BY <1>1
  <2>. QED
    BY <2>1 DEF Closed
<1>7. LabelsAt(labels, placed)'
  BY DEF LabelsAt
<1>8. Awaits(dependency, executed)'
  BY <1>1 DEF Awaits
<1>. QED
  BY <1>2, <1>4, <1>5, <1>6, <1>7, <1>8 DEF FollowedSoFar
\* The check is at work on the circuit that was mapped.
CheckAt(held, starts) ==
    /\ MapInv /\ stage = "mapped" /\ LayoutOK(starts)
    /\ LabelsOK(held) /\ SwapsOK(held)
    /\ FollowedSoFar(held, starts)

\* The gate that it visits is of a SWAP that was followed, or the first one of an operation
\* that may be followed.
LEMMA GateVisited ==
    ASSUME NEW held, NEW starts, CheckAt(held, starts), order # <<>>
    PROVE  \/ /\ Head(order) \in swaps
              /\ ToGo(starts, Tail(order)) = ToGo(starts, order)
           \/ /\ Head(order) \notin swaps
              /\ \E i \in DOMAIN operations :
                    /\ Head(order) = starts[i] - 1
                    /\ MayFollow(ToGo(starts, order), i)
                    /\ ToGo(starts, Tail(order)) = ToGo(starts, order) \ {i}
<1>1. /\ Laid(starts) /\ Unvisited(order) /\ FoundOK(starts, ToGo(starts, order), swaps)
      /\ RouterInv /\ JobOK /\ LabelsOK(held)
  BY DEF CheckAt, Laid, FollowedSoFar, MapInv
<1>2. PICK left, found : left = order /\ found = swaps
  OBVIOUS
<1>3. Unvisited(left) /\ FoundOK(starts, ToGo(starts, left), found) /\ left # <<>>
  BY <1>1, <1>2
<1>4. PICK g : g = Head(left)
  OBVIOUS
<1>5. g \in GateIds(PhysicalCircuit)
  BY <1>3, <1>4, NextVisited
<1>6. PICK i \in DOMAIN operations : \E c \in 1 .. Width(i) : g = starts[i] + c - 2
  BY <1>1, <1>5, BlockOf
<1>7. PICK c \in 1 .. Width(i) : g = starts[i] + c - 2
  BY <1>6
<1>8. CASE c = 1
  <2>1. PICK s : s = starts[i]
    OBVIOUS
  <2>2. s \in Nat
    BY <1>1, <2>1, InBlock
  <2>3. g = s - 1
    BY <1>7, <1>8, <2>1, <2>2
  <2>4. Head(left) = starts[i] - 1
    BY <1>4, <2>1, <2>3
  <2>5. /\ MayFollow(ToGo(starts, left), i)
        /\ ToGo(starts, Tail(left)) = ToGo(starts, left) \ {i}
        /\ Head(left) \notin found
    BY <1>1, <1>3, <2>4, FirstOfBlock
  <2>. QED
    BY <1>2, <2>4, <2>5
<1>9. CASE c # 1
  <2>1. Head(left) = starts[i] + c - 2
    BY <1>4, <1>7
  <2>2. /\ c \in 1 .. 3 /\ i \notin ToGo(starts, left) /\ operations[i].op = "swap"
        /\ ToGo(starts, Tail(left)) = ToGo(starts, left)
    BY <1>1, <1>3, <1>9, <2>1, BehindFirst
  <2>3. i \notin Applied
    <3>1. SUFFICES ASSUME i \in Applied PROVE FALSE
      OBVIOUS
    <3>2. PICK m : IsGateAt(held, i, m)
      BY <1>1, <3>1, GateOf
    <3>. QED
      BY <2>2, <3>2 DEF IsGateAt
  <2>4. Head(left) \in found
    BY <1>3, <2>1, <2>2, <2>3 DEF FoundOK
  <2>. QED
    BY <1>2, <2>2, <2>4
<1>. QED
  BY <1>8, <1>9

\* Where the labels are once two qubits have exchanged them
LabelsSwapped(lab, a, b) == [lab EXCEPT ![a] = lab[b], ![b] = lab[a]]
PlacesSwapped(where, lab, a, b) == [where EXCEPT ![lab[a]] = b, ![lab[b]] = a]

LEMMA LabelsExchanged ==
    ASSUME NEW lab, NEW where, where \in [Qubits -> Qubits], LabelsAt(lab, where),
           NEW a, NEW b, a \in Qubits, b \in Qubits, a # b
    PROVE  /\ PlacesSwapped(where, lab, a, b) = Exchanged(where, a, b)
           /\ LabelsAt(LabelsSwapped(lab, a, b), Exchanged(where, a, b))
<1>1. /\ lab \in [Qubits -> Qubits]
      /\ \A q \in Qubits : where[lab[q]] = q
      /\ \A l \in Qubits : lab[where[l]] = l
  BY DEF LabelsAt
<1>2. PICK x, y : x = lab[a] /\ y = lab[b]
  OBVIOUS
<1>3. /\ x \in Qubits /\ y \in Qubits /\ x # y /\ where[x] = a /\ where[y] = b
      /\ \A l \in Qubits : (where[l] = a <=> l = x) /\ (where[l] = b <=> l = y)
  BY <1>1, <1>2
<1>4. PICK moved : moved = [where EXCEPT ![x] = b, ![y] = a]
  OBVIOUS
<1>5. /\ moved \in [Qubits -> Qubits] /\ moved[x] = b /\ moved[y] = a
      /\ \A l \in Qubits \ {x, y} : moved[l] = where[l]
  BY <1>3, <1>4
<1>6. moved = Exchanged(where, a, b)
  <2>1. \A l \in Qubits : moved[l] = IF where[l] = a THEN b
                                     ELSE IF where[l] = b THEN a ELSE where[l]
    BY <1>3, <1>5
  <2>2. moved = [l \in Qubits |-> moved[l]]
    BY <1>5
  <2>. QED
    BY <2>1, <2>2 DEF Exchanged
<1>7. PICK now : now = [lab EXCEPT ![a] = y, ![b] = x]
  OBVIOUS
<1>8. /\ now \in [Qubits -> Qubits] /\ now[a] = y /\ now[b] = x
      /\ \A q \in Qubits \ {a, b} : now[q] = lab[q]
  BY <1>1, <1>3, <1>7
<1>9. ASSUME NEW q \in Qubits PROVE moved[now[q]] = q
  <2>1. CASE q = a
    BY <1>5, <1>8, <2>1
  <2>2. CASE q = b
    BY <1>5, <1>8, <2>2
  <2>3. CASE q # a /\ q # b
    <3>1. now[q] = lab[q] /\ lab[q] \in Qubits /\ where[lab[q]] = q
      BY <1>1, <1>8, <2>3
    <3>2. lab[q] # x /\ lab[q] # y
      BY <1>3, <2>3, <3>1
    <3>. QED
      BY <1>5, <3>1, <3>2
  <2>. QED
    BY <2>1, <2>2, <2>3
<1>10. ASSUME NEW l \in Qubits PROVE now[moved[l]] = l
  <2>1. CASE l = x
    BY <1>5, <1>8, <2>1
  <2>2. CASE l = y
    BY <1>5, <1>8, <2>2
  <2>3. CASE l # x /\ l # y
    <3>1. moved[l] = where[l] /\ where[l] \in Qubits /\ where[l] # a /\ where[l] # b
      BY <1>3, <1>5, <2>3
    <3>. QED
      BY <1>1, <1>8, <3>1
  <2>. QED
    BY <2>1, <2>2, <2>3
<1>11. LabelsAt(now, moved)
  BY <1>8, <1>9, <1>10 DEF LabelsAt
<1>. QED
  BY <1>2, <1>4, <1>6, <1>7, <1>11 DEF LabelsSwapped, PlacesSwapped

LEMMA SwapNoted ==
    ASSUME NEW starts, NEW rest, NEW found, FoundOK(starts, rest, found),
           NEW i \in (DOMAIN operations \ Applied) \cap rest, starts[i] \in Nat,
           NEW g, g = starts[i] - 1
    PROVE  FoundOK(starts, rest \ {i}, found \cup {g, g + 1, g + 2})
<1>1. PICK s : s = starts[i]
  OBVIOUS
<1>2. \A x : x \in {g, g + 1, g + 2} <=> \E c \in 1 .. 3 : x = starts[i] + c - 2
  <2>1. s \in Nat /\ g = s - 1
    BY <1>1
  <2>2. s + 1 - 2 = g /\ s + 2 - 2 = g + 1 /\ s + 3 - 2 = g + 2
    BY <2>1
  <2>3. \A c : c \in 1 .. 3 <=> c = 1 \/ c = 2 \/ c = 3
    OBVIOUS
  <2>. QED
    BY <1>1, <2>2, <2>3
<1>3. (DOMAIN operations \ Applied) \ (rest \ {i})
      = ((DOMAIN operations \ Applied) \ rest) \cup {i}
  OBVIOUS
<1>. QED
  BY <1>2, <1>3 DEF FoundOK

LEMMA GateNotNoted ==
    ASSUME NEW starts, NEW rest, NEW found, FoundOK(starts, rest, found), NEW i \in Applied
    PROVE  FoundOK(starts, rest \ {i}, found)
<1>1. (DOMAIN operations \ Applied) \ (rest \ {i}) = (DOMAIN operations \ Applied) \ rest
  OBVIOUS
<1>. QED
  BY <1>1 DEF FoundOK
\* What every step of the check leaves alone
LEMMA MappedRests ==
    ASSUME UNCHANGED mapVars
    PROVE  UNCHANGED <<device, circuit, operations, logicalQubit, physical, stage, unbuilt>>
  BY DEF mapVars, routerVars, deviceVars, routeVars, topologyVars, buildVars

\* The second and third gates of a SWAP are passed over.
LEMMA SkipFollows ==
    ASSUME NEW held, NEW starts, CheckAt(held, starts), UNCHANGED mapVars, Checker!Skip
    PROVE  FollowedSoFar(held, starts)' /\ UNCHANGED verdict
<1>1. /\ order # <<>> /\ Head(order) \in swaps /\ order' = Tail(order)
      /\ UNCHANGED <<swaps, labels, dependency, verdict, placed, executed>>
  BY DEF Checker!Skip, Checker!Checking, Checker!Current, Checker!Advance, Checker!historyVars
<1>2. ToGo(starts, Tail(order)) = ToGo(starts, order)
  BY <1>1, GateVisited
<1>3. PICK left, rest, where, ran, found, lab, dep :
         /\ left = Tail(order) /\ rest = ToGo(starts, order) /\ where = placed
         /\ ran = executed /\ found = swaps /\ lab = labels /\ dep = dependency
  OBVIOUS
<1>4. /\ Progress(held, rest, where, ran) /\ FoundOK(starts, rest, found)
      /\ Closed(circuit, ran) /\ LabelsAt(lab, where) /\ Awaits(dep, ran)
  BY <1>3 DEF CheckAt, FollowedSoFar
<1>5. Unvisited(left)
  <2>1. PICK all, g : all = order /\ g = Head(all)
    OBVIOUS
  <2>2. Unvisited(all) /\ all # <<>>
    BY <1>1, <2>1 DEF CheckAt, FollowedSoFar
  <2>3. Unvisited(Tail(all))
    BY <2>1, <2>2, NextVisited
  <2>. QED
    BY <1>3, <2>1, <2>3
<1>6. rest = ToGo(starts, left)
  BY <1>2, <1>3
<1>. QED
  BY <1>1, <1>3, <1>4, <1>5, <1>6, MappedRests, FollowedNext

\* What it is that the check visits: the operation, and the state of the check
LEMMA OperationVisited ==
    ASSUME NEW held, NEW starts, CheckAt(held, starts), order # <<>>, Head(order) \notin swaps
    PROVE  \E i \in DOMAIN operations :
              \E left, rest, where, ran, found, lab, dep :
                 /\ left = Tail(order) /\ rest = ToGo(starts, order) /\ where = placed
                 /\ ran = executed /\ found = swaps /\ lab = labels /\ dep = dependency
                 /\ Head(order) = starts[i] - 1 /\ starts[i] \in Nat
                 /\ Unvisited(left) /\ rest \ {i} = ToGo(starts, left)
                 /\ MayFollow(rest, i) /\ i \in rest
                 /\ Progress(held, rest, where, ran) /\ FoundOK(starts, rest, found)
                 /\ Closed(circuit, ran) /\ LabelsAt(lab, where) /\ Awaits(dep, ran)
                 /\ where \in [Qubits -> Qubits]
<1>1. PICK i \in DOMAIN operations :
         /\ Head(order) = starts[i] - 1
         /\ MayFollow(ToGo(starts, order), i)
         /\ ToGo(starts, Tail(order)) = ToGo(starts, order) \ {i}
  BY GateVisited
<1>2. PICK left, rest, where, ran, found, lab, dep :
         /\ left = Tail(order) /\ rest = ToGo(starts, order) /\ where = placed
         /\ ran = executed /\ found = swaps /\ lab = labels /\ dep = dependency
  OBVIOUS
<1>3. /\ Progress(held, rest, where, ran) /\ FoundOK(starts, rest, found)
      /\ Closed(circuit, ran) /\ LabelsAt(lab, where) /\ Awaits(dep, ran)
  BY <1>2 DEF CheckAt, FollowedSoFar
<1>4. Unvisited(left)
  <2>1. PICK all, g : all = order /\ g = Head(all)
    OBVIOUS
  <2>2. Unvisited(all) /\ all # <<>>
    BY <2>1 DEF CheckAt, FollowedSoFar
  <2>3. Unvisited(Tail(all))
    BY <2>1, <2>2, NextVisited
  <2>. QED
    BY <1>2, <2>1, <2>3
<1>5. starts[i] \in Nat
  <2>1. Laid(starts) /\ 1 \in 1 .. Width(i)
    BY DEF CheckAt, Laid, Width
  <2>. QED
    BY <2>1, InBlock
<1>6. where \in [Qubits -> Qubits] /\ MayFollow(rest, i) /\ i \in rest
  BY <1>1, <1>2, <1>3 DEF Progress, MayFollow
<1>. QED
  BY <1>1, <1>2, <1>3, <1>4, <1>5, <1>6

\* A SWAP of the router is found to be one, and the labels follow it.
LEMMA SwapFollows ==
    ASSUME NEW held, NEW starts, CheckAt(held, starts), UNCHANGED mapVars, Checker!ExecuteSwap
    PROVE  FollowedSoFar(held, starts)' /\ UNCHANGED verdict
<1>1. PICK g : g = Head(order)
  OBVIOUS
<1>2. PICK second, third, p, q :
         /\ second = Checker!GetNext(PhysicalCircuit, g, 1)
         /\ third = Checker!GetNext(PhysicalCircuit, second, 1)
         /\ p = Checker!GetGate(PhysicalCircuit, g).qubits[1]
         /\ q = Checker!GetGate(PhysicalCircuit, g).qubits[2]
  OBVIOUS
<1>3. /\ order # <<>> /\ g \notin swaps
      /\ Len(Checker!GetGate(PhysicalCircuit, g).qubits) = 2 /\ Checker!IsSwap(g)
      /\ \/ ~Checker!IsAdjacency(device, p, q)
         \/ /\ swaps' = swaps \cup {g, second, third}
            /\ labels' = [labels EXCEPT ![p] = labels[q], ![q] = labels[p]]
            /\ placed' = [placed EXCEPT ![labels[p]] = q, ![labels[q]] = p]
            /\ order' = Tail(order)
            /\ UNCHANGED <<dependency, verdict, executed>>
  BY <1>1, <1>2 DEF Checker!ExecuteSwap, Checker!Checking, Checker!Current, Checker!Arity,
                    Checker!Advance, Checker!SwapLabels
<1>4. /\ Laid(starts) /\ RouterInv /\ JobOK /\ OrderOK /\ LabelsOK(held) /\ SwapsOK(held)
  BY DEF CheckAt, Laid, MapInv
<1>5. PICK i \in DOMAIN operations :
         \E left, rest, where, ran, found, lab, dep :
            /\ left = Tail(order) /\ rest = ToGo(starts, order) /\ where = placed
            /\ ran = executed /\ found = swaps /\ lab = labels /\ dep = dependency
            /\ Head(order) = starts[i] - 1 /\ starts[i] \in Nat
            /\ Unvisited(left) /\ rest \ {i} = ToGo(starts, left)
            /\ MayFollow(rest, i) /\ i \in rest
            /\ Progress(held, rest, where, ran) /\ FoundOK(starts, rest, found)
            /\ Closed(circuit, ran) /\ LabelsAt(lab, where) /\ Awaits(dep, ran)
            /\ where \in [Qubits -> Qubits]
  BY <1>1, <1>3, OperationVisited
<1>6. PICK left, rest, where, ran, found, lab, dep :
         /\ left = Tail(order) /\ rest = ToGo(starts, order) /\ where = placed
         /\ ran = executed /\ found = swaps /\ lab = labels /\ dep = dependency
         /\ Head(order) = starts[i] - 1 /\ starts[i] \in Nat
         /\ Unvisited(left) /\ rest \ {i} = ToGo(starts, left)
         /\ MayFollow(rest, i) /\ i \in rest
         /\ Progress(held, rest, where, ran) /\ FoundOK(starts, rest, found)
         /\ Closed(circuit, ran) /\ LabelsAt(lab, where) /\ Awaits(dep, ran)
         /\ where \in [Qubits -> Qubits]
  BY <1>5
<1>7. g = starts[i] - 1
  BY <1>1, <1>6
<1>8. i \notin Applied
  <2>1. SUFFICES ASSUME i \in Applied PROVE FALSE
    OBVIOUS
  <2>2. PICK m : IsGateAt(held, i, m)
    BY <1>4, <2>1, GateOf
  <2>3. AwaitedAt(lab, dep, i, m)
    BY <1>4, <1>6, <2>1, <2>2, GateAwaited
  <2>4. AwaitedAt(labels, dependency, i, m)
    BY <1>6, <2>3
  <2>. QED
    BY <1>3, <1>4, <1>7, <2>1, <2>2, <2>4, GateIsMatched
<1>9. PICK a, b : SwapAt(held, i, a, b)
  BY <1>4, <1>8, SwapOf
<1>10. dependency[labels[a]] # dependency[labels[b]]
  <2>1. dep[lab[a]] # dep[lab[b]]
    BY <1>4, <1>6, <1>8, <1>9, SwapIsNoGate
  <2>. QED
    BY <1>6, <2>1
<1>11. /\ Checker!GetGate(PhysicalCircuit, g).qubits = <<a, b>>
       /\ Checker!GetNext(PhysicalCircuit, g, 1) = g + 1
       /\ Checker!GetNext(PhysicalCircuit, g + 1, 1) = g + 2
       /\ Checker!IsAdjacency(device, a, b)
  BY <1>4, <1>7, <1>8, <1>9, <1>10, SwapIsRecognized
<1>12. second = g + 1 /\ third = g + 2 /\ p = a /\ q = b
  BY <1>2, <1>11
<1>13. /\ swaps' = found \cup {g, g + 1, g + 2}
       /\ labels' = [lab EXCEPT ![a] = lab[b], ![b] = lab[a]]
       /\ placed' = [where EXCEPT ![lab[a]] = b, ![lab[b]] = a]
       /\ order' = left /\ dependency' = dep /\ executed' = ran /\ verdict' = verdict
  BY <1>3, <1>6, <1>11, <1>12
<1>14. a \in Qubits /\ b \in Qubits /\ a # b
  BY <1>9 DEF SwapAt
<1>15. PICK now, moved, noted :
          /\ now = [lab EXCEPT ![a] = lab[b], ![b] = lab[a]]
          /\ moved = Exchanged(where, a, b) /\ noted = found \cup {g, g + 1, g + 2}
  OBVIOUS
<1>16. placed' = moved /\ LabelsAt(now, moved)
  <2>1. /\ PlacesSwapped(where, lab, a, b) = Exchanged(where, a, b)
        /\ LabelsAt(LabelsSwapped(lab, a, b), Exchanged(where, a, b))
    BY <1>6, <1>14, LabelsExchanged
  <2>. QED
    BY <1>13, <1>15, <2>1 DEF LabelsSwapped, PlacesSwapped
<1>17. Progress(held, rest \ {i}, moved, ran)
  BY <1>4, <1>6, <1>8, <1>9, <1>15, SwapFollowed
<1>18. FoundOK(starts, rest \ {i}, noted)
  BY <1>6, <1>7, <1>8, <1>15, SwapNoted
<1>19. PICK rest2 : rest2 = rest \ {i}
  OBVIOUS
<1>20. FollowedSoFar(held, starts)'
  <2>1. /\ order' = left /\ placed' = moved /\ executed' = ran /\ swaps' = noted
        /\ labels' = now /\ dependency' = dep
    BY <1>13, <1>15, <1>16
  <2>2. /\ Unvisited(left) /\ rest2 = ToGo(starts, left) /\ Progress(held, rest2, moved, ran)
        /\ FoundOK(starts, rest2, noted) /\ Closed(circuit, ran) /\ LabelsAt(now, moved)
        /\ Awaits(dep, ran)
    BY <1>6, <1>16, <1>17, <1>18, <1>19
  <2>. QED
    BY <2>1, <2>2, MappedRests, FollowedNext
<1>. QED
  BY <1>13, <1>20

\* A gate of the circuit is found where its logical qubits are, and what they wait for moves
\* on.
LEMMA GateFollows ==
    ASSUME NEW held, NEW starts, CheckAt(held, starts), UNCHANGED mapVars, Checker!ExecuteGate
    PROVE  FollowedSoFar(held, starts)' /\ UNCHANGED verdict
<1>1. PICK g : g = Head(order)
  OBVIOUS
<1>2. PICK qs, wanted, pins :
         /\ qs = Checker!GetGate(PhysicalCircuit, g).qubits
         /\ wanted = Checker!Waiting(labels[qs[1]])
         /\ pins = Checker!GetGate(circuit, wanted).qubits
  OBVIOUS
<1>3. /\ order # <<>> /\ g \notin swaps
      /\ Len(qs) = 2 => ~Checker!IsSwap(g)
      /\ \/ ~Checker!Matches(g)
         \/ /\ dependency' = [l \in Checker!Qubits |->
                  IF l \in Checker!ToSet(pins)
                  THEN Checker!GetNext(circuit, wanted,
                                       CHOOSE pin \in DOMAIN pins : pins[pin] = l)
                  ELSE dependency[l]]
            /\ executed' = executed \cup {wanted}
            /\ order' = Tail(order)
            /\ UNCHANGED <<swaps, labels, verdict, placed>>
  <2>1. g = Checker!Current
    BY <1>1 DEF Checker!Current
  <2>2. /\ order # <<>> /\ Checker!Current \notin swaps
        /\ Checker!Arity = 2 => ~Checker!IsSwap(Checker!Current)
    BY DEF Checker!ExecuteGate, Checker!Checking
  <2>3. Checker!Arity = Len(qs)
    BY <1>2, <2>1 DEF Checker!Arity
  <2>4. \/ ~Checker!Matches(Checker!Current)
        \/ /\ dependency' = [l \in Checker!Qubits |->
                 IF l \in Checker!ToSet(pins)
                 THEN Checker!GetNext(circuit, wanted,
                                      CHOOSE pin \in DOMAIN pins : pins[pin] = l)
                 ELSE dependency[l]]
           /\ executed' = executed \cup {wanted}
           /\ order' = Tail(order)
           /\ UNCHANGED <<swaps, labels, verdict, placed>>
    BY <1>2, <2>1, Zenon DEF Checker!ExecuteGate, Checker!Advance
  <2>. QED
    BY <2>1, <2>2, <2>3, <2>4
<1>4. /\ Laid(starts) /\ RouterInv /\ JobOK /\ OrderOK /\ LabelsOK(held) /\ SwapsOK(held)
  BY DEF CheckAt, Laid, MapInv
<1>5. PICK i \in DOMAIN operations :
         \E left, rest, where, ran, found, lab, dep :
            /\ left = Tail(order) /\ rest = ToGo(starts, order) /\ where = placed
            /\ ran = executed /\ found = swaps /\ lab = labels /\ dep = dependency
            /\ Head(order) = starts[i] - 1 /\ starts[i] \in Nat
            /\ Unvisited(left) /\ rest \ {i} = ToGo(starts, left)
            /\ MayFollow(rest, i) /\ i \in rest
            /\ Progress(held, rest, where, ran) /\ FoundOK(starts, rest, found)
            /\ Closed(circuit, ran) /\ LabelsAt(lab, where) /\ Awaits(dep, ran)
            /\ where \in [Qubits -> Qubits]
  BY <1>1, <1>3, OperationVisited
<1>6. PICK left, rest, where, ran, found, lab, dep :
         /\ left = Tail(order) /\ rest = ToGo(starts, order) /\ where = placed
         /\ ran = executed /\ found = swaps /\ lab = labels /\ dep = dependency
         /\ Head(order) = starts[i] - 1 /\ starts[i] \in Nat
         /\ Unvisited(left) /\ rest \ {i} = ToGo(starts, left)
         /\ MayFollow(rest, i) /\ i \in rest
         /\ Progress(held, rest, where, ran) /\ FoundOK(starts, rest, found)
         /\ Closed(circuit, ran) /\ LabelsAt(lab, where) /\ Awaits(dep, ran)
         /\ where \in [Qubits -> Qubits]
  BY <1>5
<1>7. g = starts[i] - 1
  BY <1>1, <1>6
<1>8. i \in Applied
  <2>1. SUFFICES ASSUME i \notin Applied PROVE FALSE
    OBVIOUS
  <2>2. PICK a, b : SwapAt(held, i, a, b)
    BY <1>4, <2>1, SwapOf
  <2>3. dep[lab[a]] # dep[lab[b]]
    BY <1>4, <1>6, <2>1, <2>2, SwapIsNoGate
  <2>4. dependency[labels[a]] # dependency[labels[b]]
    BY <1>6, <2>3
  <2>5. qs = <<a, b>> /\ Checker!IsSwap(g)
    BY <1>2, <1>4, <1>7, <2>1, <2>2, <2>4, SwapIsRecognized
  <2>. QED
    BY <1>3, <2>5
<1>9. PICK m : IsGateAt(held, i, m)
  BY <1>4, <1>8, GateOf
<1>10. AwaitedAt(lab, dep, i, m)
  BY <1>4, <1>6, <1>8, <1>9, GateAwaited
<1>11. /\ qs = operations[i].qubits /\ wanted = circuit[m].id
       /\ pins = circuit[m].qubits /\ Checker!Matches(g)
  <2>1. AwaitedAt(labels, dependency, i, m)
    BY <1>6, <1>10
  <2>2. /\ Checker!GetGate(PhysicalCircuit, g).qubits = operations[i].qubits
        /\ Checker!Waiting(labels[operations[i].qubits[1]]) = circuit[m].id
        /\ Checker!GetGate(circuit, circuit[m].id) = circuit[m]
        /\ Checker!Matches(g)
    BY <1>4, <1>7, <1>8, <1>9, <2>1, GateIsMatched
  <2>. QED
    BY <1>2, <2>2
<1>12. m \in DOMAIN circuit
  BY <1>9 DEF IsGateAt
<1>13. wanted # NoGate
  BY <1>4, <1>11, <1>12, CircuitGiven, GateAt
<1>14. dependency' = Onwards(dependency, m)
  <2>1. Checker!Qubits = Qubits /\ Checker!ToSet(pins) = ToSet(pins)
    BY SameAnswers
  <2>2. \A pin : Checker!GetNext(circuit, wanted, pin) = GetSuccessors(circuit, wanted)[pin]
    BY <1>13, SameAnswers DEF Checker!GetNext
  <2>3. dependency' = [l \in Qubits |->
                  IF l \in ToSet(pins)
                  THEN GetSuccessors(circuit, wanted)
                           [CHOOSE pin \in DOMAIN pins : pins[pin] = l]
                  ELSE dependency[l]]
    BY <1>3, <1>11, <2>1, <2>2, Zenon
  <2>. QED
    BY <1>11, <2>3 DEF Onwards
<1>15. /\ executed' = ran \cup {circuit[m].id} /\ order' = left /\ swaps' = found
       /\ labels' = lab /\ verdict' = verdict /\ placed' = where
  BY <1>3, <1>6, <1>11
<1>16. circuit[m].id \notin ran /\ Requires(circuit, circuit[m].id) \subseteq ran
  BY <1>4, <1>6, <1>8, <1>9, GateMayRun
<1>17. PICK now, ran2, rest2 : /\ now = Onwards(dep, m) /\ ran2 = ran \cup {circuit[m].id}
                               /\ rest2 = rest \ {i}
  OBVIOUS
<1>18. Closed(circuit, ran2) /\ Awaits(now, ran2)
  BY <1>4, <1>6, <1>12, <1>16, <1>17, GateFound
<1>19. Progress(held, rest2, where, ran2)
  BY <1>4, <1>6, <1>8, <1>9, <1>17, GateFollowed
<1>20. FoundOK(starts, rest2, found)
  BY <1>6, <1>8, <1>17, GateNotNoted
<1>21. dependency' = now /\ rest2 = ToGo(starts, left)
  BY <1>6, <1>14, <1>17
<1>22. FollowedSoFar(held, starts)'
  BY <1>6, <1>15, <1>17, <1>18, <1>19, <1>20, <1>21, MappedRests, FollowedNext
<1>. QED
  BY <1>15, <1>22
\* A gate of the mapped circuit has no more pins than there are qubits.
LEMMA PinsFit ==
    ASSUME NEW starts, Laid(starts), NEW x \in DOMAIN PhysicalCircuit
    PROVE  Len(PhysicalCircuit[x].qubits) <= NumQubits
<1>1. /\ RouterInv /\ x \in DOMAIN physical
      /\ x \in Nat /\ x - 1 \in GateIds(PhysicalCircuit)
      /\ NumQubits \in Nat
  <2>1. RouterInv /\ DOMAIN PhysicalCircuit = DOMAIN physical
    BY MappedCircuit DEF Laid, MapInv
  <2>. QED
    BY <2>1, MappedCircuit, NumQubitsAssumption
<1>2. PICK i \in DOMAIN operations : \E c \in 1 .. Width(i) : x - 1 = starts[i] + c - 2
  BY <1>1, BlockOf
<1>3. PICK c \in 1 .. Width(i) : x - 1 = starts[i] + c - 2
  BY <1>2
<1>4. PhysicalCircuit[x].qubits = Entry(i, c).qubits
  <2>1. PICK s : s = starts[i]
    OBVIOUS
  <2>2. s \in Nat /\ c \in Nat /\ PhysicalCircuit[s + c - 1].qubits = Entry(i, c).qubits
    BY <2>1, InBlock
  <2>3. x = s + c - 1
    BY <1>1, <1>3, <2>1, <2>2
  <2>. QED
    BY <2>2, <2>3
<1>5. PICK qs, n : qs = operations[i].qubits /\ n = Len(Entry(i, c).qubits)
  OBVIOUS
<1>6. /\ qs \in Seq(Qubits) /\ Len(qs) \in {1, 2}
      /\ operations[i].op = "swap" => Len(qs) = 2
      /\ Len(qs) = 2 => IsAdjacency(device, qs[1], qs[2])
      /\ device \in Devices
  <2>1. operations[i] \in TimedOps /\ device \in Devices
    BY <1>1, RouterState
  <2>2. Len(qs) = 2 => IsAdjacency(device, qs[1], qs[2])
    BY <1>1, <1>5 DEF RouterInv, PlacesInv, OnCoupledPairs
  <2>. QED
    BY <1>5, <2>1, <2>2 DEF TimedOps
<1>7. n = Len(qs)
  <2>1. CASE operations[i].op = "swap" /\ c = 2
    <3>1. Entry(i, c).qubits = <<qs[2], qs[1]>>
      BY <1>5, <2>1 DEF Entry
    <3>2. Len(<<qs[2], qs[1]>>) = 2
      OBVIOUS
    <3>. QED
      BY <1>5, <1>6, <2>1, <3>1, <3>2
  <2>2. CASE ~(operations[i].op = "swap" /\ c = 2)
    BY <1>5, <2>2 DEF Entry
  <2>. QED
    BY <2>1, <2>2
<1>8. CASE n = 1
  <2>1. 0 \in Qubits
    BY QubitsNat
  <2>. QED
    BY <1>1, <1>4, <1>5, <1>8, <2>1 DEF Qubits
<1>9. CASE n = 2
  <2>1. PICK p, q : p = qs[1] /\ q = qs[2]
    OBVIOUS
  <2>2. p \in Qubits /\ q \in Qubits /\ IsAdjacency(device, p, q)
    <3>1. qs \in Seq(Qubits) /\ Len(qs) = 2
      BY <1>6, <1>7, <1>9
    <3>2. p \in Qubits /\ q \in Qubits
      <4>1. 1 \in DOMAIN qs /\ 2 \in DOMAIN qs
        BY <3>1
      <4>2. \A k \in DOMAIN qs : qs[k] \in Qubits
        <5>1. qs \in Seq(Qubits)
          BY <3>1
        <5>. QED
          BY <5>1
      <4>. QED
        BY <2>1, <4>1, <4>2
    <3>. QED
      BY <1>6, <2>1, <3>1, <3>2
  <2>3. p # q
    BY <1>6, <2>2, CoupledPair
  <2>4. 2 <= NumQubits
    BY <1>1, <2>2, <2>3 DEF Qubits
  <2>. QED
    BY <1>4, <1>5, <1>9, <2>4
<1>. QED
  BY <1>6, <1>7, <1>8, <1>9

\* A check begins with all gates to visit, and the logical qubits where the placer has put
\* them for the mapping, when it puts them there once more.
LEMMA CheckStarts ==
    ASSUME MapInv, stage = "mapped", job.placer \in {"naive", "dfs"}, swaps = {}, executed = {},
           NEW assignment \in Assignments(job.placer, device), UNCHANGED mapVars,
           Checker!CheckBegins(assignment),
           NEW held, NEW starts, LayoutOK(starts), LabelsOK(held), PlacedOK(held)
    PROVE  FollowedSoFar(held, starts)'
<1>1. RouterInv /\ JobOK /\ Laid(starts)
  BY DEF MapInv, Laid
<1>2. /\ assignment \in Bijection(Qubits, Qubits)
      /\ \A q \in Qubits : assignment[held[1][q]] = q
  <2>1. PICK first \in Assignments(job.placer, device) :
           /\ first \in Bijection(Qubits, Qubits)
           /\ \A q \in Qubits : first[held[1][q]] = q
    BY DEF PlacedOK
  <2>2. assignment = first
    <3>1. CASE job.placer = "naive"
      BY <3>1 DEF Assignments
    <3>2. CASE job.placer = "dfs"
      BY <3>2 DEF Assignments
    <3>. QED
      BY <3>1, <3>2
  <2>. QED
    BY <2>1, <2>2
<1>3. /\ assignment \in [Qubits -> Qubits]
      /\ \A a, b \in Qubits : assignment[a] = assignment[b] => a = b
      /\ \A q \in Qubits : \E l \in Qubits : assignment[l] = q
  BY <1>2 DEF Bijection, Injection, Surjection, IsInjective
<1>4. PICK left, rest, where, ran, found, lab, dep :
         /\ left = GetGates(PhysicalCircuit, NumQubits) /\ rest = DOMAIN operations
         /\ where = assignment /\ ran = {} /\ found = {}
         /\ lab = [q \in Qubits |-> CHOOSE l \in Qubits : assignment[l] = q]
         /\ dep = [l \in Qubits |-> FirstGate(circuit, l)]
  OBVIOUS
<1>5. /\ order' = left /\ labels' = lab /\ dependency' = dep /\ placed' = where
      /\ swaps' = found /\ executed' = ran
  <2>1. /\ order' = Checker!GetGates(PhysicalCircuit, NumQubits)
        /\ labels' = [q \in Checker!Qubits |-> CHOOSE l \in Checker!Qubits : assignment[l] = q]
        /\ dependency' = [l \in Checker!Qubits |-> Checker!FirstGate(circuit, l)]
        /\ placed' = assignment /\ swaps' = swaps /\ executed' = executed
    BY DEF Checker!CheckBegins
  <2>2. Checker!Qubits = Qubits /\ \A l : Checker!FirstGate(circuit, l) = FirstGate(circuit, l)
    BY SameAnswers
  <2>. QED
    BY <1>4, <2>1, <2>2, SameGates
<1>6. Unvisited(left) /\ ToSet(left) = GateIds(PhysicalCircuit)
  <2>1. PICK c : c = PhysicalCircuit
    OBVIOUS
  <2>2. IsCircuit(c, 0 .. NumQubits - 1) /\ NumQubits \in Nat
    BY <1>1, <2>1, MappedCircuit, NumQubitsAssumption DEF Qubits
  <2>3. \A x \in DOMAIN c : Len(c[x].qubits) <= NumQubits
    BY <1>1, <2>1, PinsFit
  <2>4. /\ left \in Seq(GateIds(c)) /\ ToSet(left) = GateIds(c)
        /\ \A i, j \in DOMAIN left : left[i] = left[j] => i = j
        /\ \A i, j \in DOMAIN left : left[i] \in Requires(c, left[j]) => i < j
    BY <1>4, <2>1, <2>2, <2>3, GatesInOrder
  <2>. QED
    BY <2>1, <2>4 DEF Unvisited
<1>7. rest = ToGo(starts, left)
  <2>1. ASSUME NEW i \in DOMAIN operations PROVE starts[i] - 1 \in ToSet(left)
    <3>1. PICK s : s = starts[i]
      OBVIOUS
    <3>2. 1 \in 1 .. Width(i)
      BY DEF Width
    <3>3. s \in Nat /\ s + 1 - 2 \in GateIds(PhysicalCircuit)
      BY <1>1, <3>1, <3>2, InBlock
    <3>4. s + 1 - 2 = s - 1
      BY <3>3
    <3>. QED
      BY <1>6, <3>1, <3>3, <3>4
  <2>. QED
    BY <1>4, <2>1 DEF ToGo
<1>8. Progress(held, rest, where, ran)
  <2>1. PICK n \in Nat : DOMAIN operations = 1 .. n /\ DOMAIN held = 1 .. n + 1
    BY <1>1, ListShape
  <2>2. 1 \in DOMAIN held /\ \A i \in DOMAIN operations : i \in rest /\ 1 <= i
    BY <1>4, <2>1
  <2>3. \A q \in Qubits : where[held[1][q]] = q
    BY <1>2, <1>4
  <2>4. Applied \ rest = {}
    BY <1>4 DEF Applied
  <2>. QED
    BY <1>3, <1>4, <2>2, <2>3, <2>4 DEF Progress
<1>9. FoundOK(starts, rest, found) /\ Closed(circuit, ran)
  BY <1>4 DEF FoundOK, Closed
<1>10. LabelsAt(lab, where)
  <2>1. \A q \in Qubits : lab[q] \in Qubits /\ assignment[lab[q]] = q
    BY <1>3, <1>4
  <2>2. lab = [q \in Qubits |-> lab[q]]
    BY <1>4
  <2>3. lab \in [Qubits -> Qubits]
    BY <2>1, <2>2
  <2>4. \A l \in Qubits : lab[assignment[l]] = l
    BY <1>3, <2>1
  <2>. QED
    BY <1>4, <2>1, <2>3, <2>4 DEF LabelsAt
<1>11. Awaits(dep, ran)
  <2>1. IsCircuit(circuit, Qubits)
    BY <1>1, CircuitGiven
  <2>2. \A l : IsNextOn(circuit, {}, l, FirstGate(circuit, l))
    BY <2>1, FirstIsNext
  <2>. QED
    BY <1>4, <2>2 DEF Awaits
<1>. QED
  BY <1>5, <1>6, <1>7, <1>8, <1>9, <1>10, <1>11, MappedRests, FollowedNext
-----------------------------------------------------------------------------
(* The check of a call                                                     *)

\* A placer that is asked again gives the same answer: RandomPlacer takes another seed of
\* std::random_device, the others compute the placement from the device.
PlacerRepeats == \A j \in Jobs : j.check => j.placer \in {"naive", "dfs"}

\* Once the circuit is mapped, the mapping does nothing more.
LEMMA MappingIsOver ==
    ASSUME MapInv, stage = "mapped"
    PROVE  ~MapStep
<1>1. routingGate = {} /\ Idle /\ RouterInv
  BY DEF MapInv, RoutingOK
<1>2. ~Routing
  BY <1>1, RouteStepLists DEF Routing
<1>3. ~GateRouted
  BY <1>1 DEF GateRouted
<1>4. ~BuildOperation /\ ~BuildEnds /\ ~AssignmentEnds
  BY DEF BuildOperation, BuildEnds, AssignmentEnds, AssignmentOver
<1>5. \A id : ~RouteOneGate(id)
  BY DEF RouteOneGate
<1>. QED
  BY <1>2, <1>3, <1>4, <1>5 DEF MapStep

LEMMA CheckRests ==
    ASSUME CheckOK, UNCHANGED checkerVars,
           verdict # "none" =>
              UNCHANGED <<device, circuit, operations, logicalQubit, physical, stage, unbuilt>>
    PROVE  CheckOK'
<1>1. UNCHANGED <<order, swaps, labels, dependency, verdict, placed, executed>>
  BY DEF checkerVars
<1>2. CASE verdict = "none"
  BY <1>1, <1>2 DEF CheckOK
<1>3. CASE verdict # "none"
  <2>1. UNCHANGED <<device, circuit, operations, logicalQubit, physical, stage, unbuilt>>
    BY <1>3
  <2>2. PICK held, starts : /\ LabelsOK(held) /\ SwapsOK(held) /\ LayoutOK(starts)
                            /\ FollowedSoFar(held, starts)
    BY <1>3 DEF CheckOK
  <2>3. LabelsOK(held)' /\ SwapsOK(held)' /\ LayoutOK(starts)'
    BY <2>1, <2>2, GivenRests
  <2>4. PICK left, rest, where, ran, found, lab, dep :
           /\ left = order /\ rest = ToGo(starts, order) /\ where = placed
           /\ ran = executed /\ found = swaps /\ lab = labels /\ dep = dependency
    OBVIOUS
  <2>5. /\ Unvisited(left) /\ rest = ToGo(starts, left) /\ Progress(held, rest, where, ran)
        /\ FoundOK(starts, rest, found) /\ Closed(circuit, ran) /\ LabelsAt(lab, where)
        /\ Awaits(dep, ran)
    BY <2>2, <2>4 DEF FollowedSoFar
  <2>6. /\ order' = left /\ placed' = where /\ executed' = ran /\ swaps' = found
        /\ labels' = lab /\ dependency' = dep
    BY <1>1, <2>4
  <2>7. FollowedSoFar(held, starts)'
    BY <2>1, <2>5, <2>6, FollowedNext
  <2>8. /\ verdict' = verdict /\ order' = order /\ stage' = "mapped"
        /\ verdict \in {"none", "checking", "accepted"} /\ verdict = "accepted" => order = <<>>
    BY <1>1, <1>3, <2>1 DEF CheckOK
  <2>. QED
    BY <1>3, <2>3, <2>7, <2>8 DEF CheckOK
<1>. QED
  BY <1>2, <1>3

\* A step of the check goes on with an operation, or accepts when none is left.
LEMMA CheckStepFollows ==
    ASSUME MapInv, CheckOK, stage = "mapped", UNCHANGED mapVars, Checker!CheckStep
    PROVE  CheckOK'
<1>1. /\ UNCHANGED <<device, circuit, operations, logicalQubit, physical, stage, unbuilt>>
      /\ verdict \in {"none", "checking", "accepted"}
  BY MappedRests DEF CheckOK
<1>2. verdict = "checking"
  BY DEF Checker!CheckStep, Checker!Skip, Checker!ExecuteSwap, Checker!ExecuteGate,
         Checker!Accept, Checker!Checking
<1>3. PICK held, starts : /\ LabelsOK(held) /\ SwapsOK(held) /\ LayoutOK(starts)
                          /\ FollowedSoFar(held, starts)
  BY <1>2 DEF CheckOK
<1>4. LabelsOK(held)' /\ SwapsOK(held)' /\ LayoutOK(starts)' /\ stage' = "mapped"
  BY <1>1, <1>3, GivenRests
<1>5. CASE Checker!Accept
  <2>1. /\ verdict' = "accepted" /\ order' = <<>>
        /\ UNCHANGED <<order, swaps, labels, dependency, placed, executed>>
    BY <1>5 DEF Checker!Accept, Checker!historyVars
  <2>2. PICK left, rest, where, ran, found, lab, dep :
           /\ left = order /\ rest = ToGo(starts, order) /\ where = placed
           /\ ran = executed /\ found = swaps /\ lab = labels /\ dep = dependency
    OBVIOUS
  <2>3. /\ Unvisited(left) /\ rest = ToGo(starts, left) /\ Progress(held, rest, where, ran)
        /\ FoundOK(starts, rest, found) /\ Closed(circuit, ran) /\ LabelsAt(lab, where)
        /\ Awaits(dep, ran)
    BY <1>3, <2>2 DEF FollowedSoFar
  <2>4. /\ order' = left /\ placed' = where /\ executed' = ran /\ swaps' = found
        /\ labels' = lab /\ dependency' = dep
    BY <2>1, <2>2
  <2>5. FollowedSoFar(held, starts)'
    BY <1>1, <2>3, <2>4, FollowedNext
  <2>. QED
    BY <1>4, <2>1, <2>5 DEF CheckOK
<1>6. CASE ~Checker!Accept
  <2>1. CheckAt(held, starts)
    BY <1>3 DEF CheckAt
  <2>2. FollowedSoFar(held, starts)' /\ verdict' = verdict
    <3>1. CASE Checker!Skip
      BY <2>1, <3>1, SkipFollows
    <3>2. CASE Checker!ExecuteSwap
      BY <2>1, <3>2, SwapFollows
    <3>3. CASE Checker!ExecuteGate
      BY <2>1, <3>3, GateFollows
    <3>. QED
      BY <1>6, <3>1, <3>2, <3>3 DEF Checker!CheckStep
  <2>. QED
    BY <1>2, <1>4, <2>2 DEF CheckOK
<1>. QED
  BY <1>5, <1>6

LEMMA CheckBeginsRight ==
    ASSUME MapInv, CheckOK, PlacerRepeats, CheckBegins
    PROVE  CheckOK'
<1>1. stage = "mapped" /\ job.check /\ UNCHANGED mapVars
  BY DEF CheckBegins
<1>2. PICK assignment \in Assignments(job.placer, device) : Checker!CheckBegins(assignment)
  BY DEF CheckBegins
<1>3. verdict = "none" /\ verdict' = "checking"
  BY <1>2 DEF Checker!CheckBegins
<1>4. swaps = {} /\ executed = {}
  BY <1>3 DEF CheckOK
<1>5. job.placer \in {"naive", "dfs"}
  BY <1>1 DEF PlacerRepeats, MapInv, JobOK
<1>6. PICK held : LabelsOK(held) /\ SwapsOK(held) /\ PlacedOK(held)
  BY <1>1 DEF MapInv, HistoryOK
<1>7. PICK starts : LayoutOK(starts)
  BY <1>1 DEF MapInv, PhysicalOK
<1>8. FollowedSoFar(held, starts)'
  BY <1>1, <1>2, <1>4, <1>5, <1>6, <1>7, CheckStarts
<1>9. LabelsOK(held)' /\ SwapsOK(held)' /\ LayoutOK(starts)' /\ stage' = "mapped"
  BY <1>1, <1>6, <1>7, MappedRests, GivenRests
<1>. QED
  BY <1>3, <1>8, <1>9 DEF CheckOK

LEMMA CheckKeeps ==
    ASSUME MapInv, CheckOK, PlacerRepeats, [DuostraNext]_duostraVars
    PROVE  CheckOK'
<1>1. CASE Map
  <2>1. stage # "mapped"
    BY <1>1, MappingIsOver DEF Map
  <2>2. verdict = "none"
    BY <2>1 DEF CheckOK
  <2>. QED
    BY <1>1, <2>2, CheckRests DEF Map
<1>2. CASE CheckBegins
  BY <1>2, CheckBeginsRight
<1>3. CASE CheckRuns
  BY <1>3, CheckStepFollows DEF CheckRuns
<1>4. CASE Interrupt
  <2>1. stage # "mapped"
    BY <1>4 DEF Interrupt, RequestStop
  <2>2. verdict = "none"
    BY <2>1 DEF CheckOK
  <2>. QED
    BY <1>4, <2>2, CheckRests DEF Interrupt
<1>5. CASE UNCHANGED duostraVars
  <2>1. UNCHANGED mapVars /\ UNCHANGED checkerVars
    BY <1>5 DEF duostraVars
  <2>. QED
    BY <2>1, MappedRests, CheckRests
<1>. QED
  BY <1>1, <1>2, <1>3, <1>4, <1>5 DEF DuostraNext

\* When all operations were followed, the logical qubits are where the router has them.
LEMMA AllFollowed ==
    ASSUME RouterInv, NEW held, LabelsOK(held), NEW rest, rest = {}, NEW where, NEW ran,
           Progress(held, rest, where, ran)
    PROVE  /\ ran = Routed /\ where \in [Qubits -> Qubits]
           /\ \A q \in Qubits : where[logicalQubit[q]] = q
<1>1. PICK n \in Nat : DOMAIN operations = 1 .. n /\ DOMAIN held = 1 .. n + 1
  BY ListShape
<1>2. held[n + 1] = logicalQubit
  <2>1. PICK m : m = Len(operations)
    OBVIOUS
  <2>2. m \in Nat /\ DOMAIN operations = 1 .. m /\ held[m + 1] = logicalQubit
    BY <2>1, RouterState, HeldShape
  <2>3. m = n
    BY <1>1, <2>2
  <2>. QED
    BY <2>2, <2>3
<1>3. ASSUME NEW q \in Qubits PROVE where[logicalQubit[q]] = q
  <2>1. PICK k \in 1 .. n + 1 :
           /\ \A i \in 1 .. n : q \in On(operations[i]) => ~(k <= i)
           /\ where[held[k][q]] = q
    BY <1>1 DEF Progress
  <2>2. \A i \in k .. (n + 1) - 1 : q \notin On(operations[i])
    <3>1. \A i \in k .. (n + 1) - 1 : i \in 1 .. n /\ k <= i
      BY <2>1
    <3>. QED
      BY <2>1, <3>1
  <2>3. held[k][q] = held[n + 1][q]
    <3>1. k \in DOMAIN held /\ n + 1 \in DOMAIN held /\ k <= n + 1
      BY <1>1, <2>1
    <3>. QED
      BY <2>2, <3>1 DEF LabelsOK
  <2>. QED
    BY <1>2, <2>1, <2>3
<1>4. ran = Routed /\ where \in [Qubits -> Qubits]
  BY DEF Progress, Routed, Applied
<1>. QED
  BY <1>3, <1>4

\* What the check has found when it accepts
LEMMA AcceptedAgrees ==
    ASSUME MapInv, CheckOK
    PROVE  CheckAcceptsMapping /\ CheckFollowsMapping
<1>1. CheckAcceptsMapping
  BY DEF CheckOK, CheckAcceptsMapping
<1>2. ASSUME verdict = "accepted"
      PROVE  executed = done /\ placed = at /\ labels = logicalQubit
  <2>1. stage = "mapped" /\ order = <<>> /\ RouterInv
    BY <1>2 DEF CheckOK, MapInv
  <2>2. PICK held, starts : LabelsOK(held) /\ FollowedSoFar(held, starts)
    BY <1>2 DEF CheckOK
  <2>3. PICK first : LabelsOK(first) /\ BuiltOK(first)
    BY <2>1 DEF MapInv, HistoryOK
  <2>4. PICK rest, unwritten, where, ran, there, gone :
           /\ rest = ToGo(starts, order) /\ unwritten = Unbuilt
           /\ where = placed /\ ran = executed /\ there = at /\ gone = done
    OBVIOUS
  <2>5. rest = {} /\ unwritten = {}
    <3>1. ToSet(order) = {}
      BY <2>1 DEF ToSet
    <3>. QED
      BY <2>1, <2>4, <3>1 DEF ToGo, Unbuilt, MapInv
  <2>6. /\ Progress(held, rest, where, ran) /\ Progress(first, unwritten, there, gone)
        /\ LabelsAt(labels, where)
    BY <2>2, <2>3, <2>4 DEF FollowedSoFar, BuiltOK
  <2>7. /\ ran = Routed /\ where \in [Qubits -> Qubits]
        /\ \A q \in Qubits : where[logicalQubit[q]] = q
    BY <2>1, <2>2, <2>5, <2>6, AllFollowed
  <2>8. /\ gone = Routed /\ there \in [Qubits -> Qubits]
        /\ \A q \in Qubits : there[logicalQubit[q]] = q
    BY <2>1, <2>3, <2>5, <2>6, AllFollowed
  <2>9. /\ logicalQubit \in [Qubits -> Qubits]
        /\ \A l \in Qubits : \E q \in Qubits : logicalQubit[q] = l
    BY <2>1 DEF RouterInv, TimesInv, RouterTypeOK, PlacementConsistent
  <2>10. where = there
    <3>1. \A l \in Qubits : where[l] = there[l]
      BY <2>7, <2>8, <2>9
    <3>. QED
      BY <2>7, <2>8, <3>1
  <2>11. labels = logicalQubit
    <3>1. labels \in [Qubits -> Qubits] /\ \A l \in Qubits : labels[where[l]] = l
      BY <2>6 DEF LabelsAt
    <3>2. \A q \in Qubits : labels[q] = logicalQubit[q]
      BY <2>7, <2>9, <3>1
    <3>. QED
      BY <2>9, <3>1, <3>2
  <2>. QED
    BY <2>4, <2>7, <2>8, <2>10, <2>11
<1>. QED
  BY <1>1, <1>2 DEF CheckFollowsMapping

LEMMA CheckInit == DuostraInit => CheckOK
  BY DEF DuostraInit, Checker!NotChecked, CheckOK

\* What a call hands over is complete, and the check agrees with it: it never rejects the
\* circuit that was mapped, no SWAP of the router is mistaken for gates of the logical circuit
\* nor gates of it for a SWAP, and when it accepts, it has found every gate and has followed
\* the qubits to where they are.  This holds whatever the device, the circuit, the scheduler
\* and the router are, for the placers that give the same answer when Duostra::map asks them
\* once more for the check.
THEOREM MappingIsAlwaysChecked == PlacerRepeats => (DuostraSpec => []MappingIsChecked)
<1>1. SUFFICES ASSUME PlacerRepeats PROVE DuostraSpec => []MappingIsChecked
  OBVIOUS
<1>2. DuostraInit => MapInv /\ CheckOK
  BY MapInitKeeps, CheckInit
<1>3. MapInv /\ CheckOK /\ [DuostraNext]_duostraVars => MapInv' /\ CheckOK'
  BY <1>1, MapStepKeeps, CheckKeeps
<1>4. MapInv /\ CheckOK => CheckAcceptsMapping /\ CheckFollowsMapping
  BY AcceptedAgrees
<1>5. MappedIsComplete /\ CheckAcceptsMapping /\ CheckFollowsMapping => MappingIsChecked
  BY DEF MappingIsChecked
<1>. QED
  BY <1>2, <1>3, <1>4, <1>5, MappingIsComplete, PTL DEF DuostraSpec
=============================================================================
