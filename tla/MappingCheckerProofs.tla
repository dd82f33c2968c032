------------------------- MODULE MappingCheckerProofs -------------------------
(***************************************************************************)
(* Proofs about MappingEquivalenceChecker: for every device, placement,     *)
(* logical and physical circuit, what the checker has accepted so far is a  *)
(* run of the logical circuit on the device (MappedRun).                    *)
(***************************************************************************)
EXTENDS MappingChecker, CircuitProofs

-----------------------------------------------------------------------------
(* The inductive invariant                                                 *)

\* The logical gates on l that were not found yet, by position
Left(l) == {i \in OnQubit(logical, l) : logical[i].id \notin executed}

\* The inputs are circuits on the qubits of a device.
InputsOK ==
    /\ IsDevice(device)
    /\ IsCircuit(logical, Qubits) /\ IsCircuit(physical, Qubits)
    /\ \A i \in DOMAIN logical, j \in DOMAIN physical :
          logical[i].op = physical[j].op => Len(logical[i].qubits) = Len(physical[j].qubits)

\* The labels and the places of the logical qubits are inverse to each other.
PlacesFollowed ==
    /\ labels \in [Qubits -> Qubits]
    /\ \A q \in Qubits : placed[labels[q]] = q
    /\ \A l \in Qubits : labels[placed[l]] = l

\* Every qubit waits for its first gate that was not found; none behind it was.
DependencyFollowed ==
    /\ dependency = [l \in Qubits |->
                        IF Left(l) = {} THEN NoGate ELSE logical[Min(Left(l))].id]
    /\ \A l \in Qubits : \A i, j \in OnQubit(logical, l) :
          i < j /\ logical[j].id \in executed => logical[i].id \in executed

CheckInv ==
    /\ InputsOK
    /\ placed \in [Qubits -> Qubits]
    /\ verdict = "none" => executed = {} /\ placed \in Bijection(Qubits, Qubits)
    /\ verdict # "none" => /\ order \in Seq(GateIds(physical))
                           /\ PlacesFollowed
                           /\ DependencyFollowed

-----------------------------------------------------------------------------
(* The gate that a qubit waits for                                         *)

\* It is the first one left.
LEMMA WaitedFor ==
    ASSUME InputsOK, DependencyFollowed, NEW l \in Qubits, dependency[l] # NoGate
    PROVE  /\ Min(Left(l)) \in Left(l)
           /\ \A i \in Left(l) : Min(Left(l)) <= i
           /\ Min(Left(l)) \in DOMAIN logical
           /\ dependency[l] = logical[Min(Left(l))].id
<1>1. Left(l) \subseteq OnQubit(logical, l)
  BY DEF Left
<1>2. Left(l) \subseteq Nat /\ Left(l) \subseteq DOMAIN logical
  BY <1>1, Positions DEF InputsOK
<1>3. Left(l) # {} /\ dependency[l] = logical[Min(Left(l))].id
  BY DEF DependencyFollowed
<1>. QED
  BY <1>2, <1>3, MinOfNaturals

\* What the qubits wait for when the gate wanted is found, on the qubits pins
DependencyAfter(wanted, pins) ==
    [l \in Qubits |->
        IF l \in ToSet(pins)
        THEN GetNext(logical, wanted, CHOOSE pin \in DOMAIN pins : pins[pin] = l)
        ELSE dependency[l]]

\* When it is found, on every qubit of it, its successors are waited for.
LEMMA DependencyAdvances ==
    ASSUME InputsOK, DependencyFollowed, NEW k \in DOMAIN logical,
           \A l \in ToSet(logical[k].qubits) : k \in Left(l) /\ Min(Left(l)) = k,
           UNCHANGED logical,
           executed' = executed \cup {logical[k].id},
           dependency' = DependencyAfter(logical[k].id, logical[k].qubits)
    PROVE  DependencyFollowed'
<1>1. /\ Position(logical, logical[k].id) = k
      /\ GetGate(logical, logical[k].id) = logical[k]
      /\ logical[k].id # NoGate
  BY GateAt DEF InputsOK
<1>2. \A i \in DOMAIN logical : logical[i].id = logical[k].id => i = k
  BY DEF InputsOK, IsCircuit
<1>3. ASSUME NEW l \in Qubits PROVE (Left(l))' = Left(l) \ {k}
  <2>1. OnQubit(logical, l) \subseteq DOMAIN logical
    BY Positions DEF InputsOK
  <2>. QED
    BY <1>2, <2>1 DEF Left
<1>4. ASSUME NEW l \in Qubits, l \notin ToSet(logical[k].qubits)
      PROVE  (Left(l))' = Left(l)
  <2>1. k \notin OnQubit(logical, l)
    BY <1>4 DEF OnQubit
  <2>. QED
    BY <1>3, <2>1 DEF Left
<1>5. ASSUME NEW l \in Qubits, l \in ToSet(logical[k].qubits)
      PROVE  dependency'[l] = IF (Left(l))' = {} THEN NoGate
                                               ELSE logical[Min((Left(l))')].id
  <2>1. PICK pin \in DOMAIN logical[k].qubits :
            /\ logical[k].qubits[pin] = l
            /\ dependency'[l] = GetNext(logical, logical[k].id, pin)
    <3>1. \E pin \in DOMAIN logical[k].qubits : logical[k].qubits[pin] = l
      BY <1>5 DEF ToSet
    <3>. QED
      BY <1>5, <3>1 DEF DependencyAfter
  <2>2. PICK after : after = {i \in OnQubit(logical, l) : i > k}
    OBVIOUS
  <2>3. dependency'[l] = IF after = {} THEN NoGate ELSE logical[Min(after)].id
    BY <2>1, <2>2, <1>1 DEF GetNext, GetSuccessors
  <2>4. after = (Left(l))'
    <3>1. OnQubit(logical, l) \subseteq Nat /\ k \in OnQubit(logical, l)
      BY <1>5, Positions DEF InputsOK, Left
    <3>2. Left(l) \subseteq Nat /\ k \in Left(l) /\ Min(Left(l)) = k
      BY <3>1, <1>5 DEF Left
    <3>3. \A i \in Left(l) : k <= i
      BY <3>2, MinOfNaturals
    <3>4. \A i \in OnQubit(logical, l) : i > k => i \in Left(l)
      BY <3>1, <3>2 DEF DependencyFollowed, Left
    <3>5. Left(l) \subseteq OnQubit(logical, l)
      BY DEF Left
    <3>. QED
      BY <3>1, <3>2, <3>3, <3>4, <3>5, <2>2, <1>3
  <2>. QED
    BY <2>3, <2>4
<1>6. dependency' = [l \in Qubits |->
          IF (Left(l))' = {} THEN NoGate ELSE logical'[Min((Left(l))')].id]
  <2>1. ASSUME NEW l \in Qubits
        PROVE  dependency'[l] = IF (Left(l))' = {} THEN NoGate
                                                 ELSE logical[Min((Left(l))')].id
    <3>1. CASE l \in ToSet(logical[k].qubits)
      BY <3>1, <1>5
    <3>2. CASE l \notin ToSet(logical[k].qubits)
      BY <3>2, <1>4 DEF DependencyFollowed, DependencyAfter
    <3>. QED
      BY <3>1, <3>2
  <2>2. dependency' = [l \in Qubits |-> dependency'[l]]
    BY DEF DependencyAfter
  <2>. QED
    BY <2>1, <2>2
<1>7. ASSUME NEW l \in Qubits, NEW i \in OnQubit(logical, l), NEW j \in OnQubit(logical, l),
             i < j, logical[j].id \in executed'
      PROVE  logical[i].id \in executed'
  <2>1. CASE logical[j].id \in executed
    BY <2>1, <1>7 DEF DependencyFollowed
  <2>2. CASE j = k
    <3>1. l \in ToSet(logical[k].qubits)
      BY <2>2 DEF OnQubit
    <3>2. Left(l) \subseteq Nat /\ Min(Left(l)) = k /\ k \in Left(l)
      BY <3>1, Positions DEF Left, InputsOK
    <3>3. i \notin Left(l)
      BY <3>2, <2>2, <1>7, MinOfNaturals
    <3>. QED
      BY <3>3 DEF Left
  <2>3. j \in DOMAIN logical
    BY Positions DEF InputsOK
  <2>. QED
    BY <2>1, <2>2, <2>3, <1>2, <1>7
<1>. QED
  BY <1>6, <1>7 DEF DependencyFollowed
-----------------------------------------------------------------------------
(* The order in which the gates are visited                                *)

\* An iteration keeps the state of the search.
LEMMA DfsStepKeeps ==
    ASSUME NEW ids, NEW succ \in [ids -> Seq(ids \cup {NoGate})],
           NEW s \in SearchStates(ids)
    PROVE  DfsStep(succ, s) \in SearchStates(ids)
<1>. DEFINE F == StackFrames(ids)
<1>1. /\ s.stack \in Seq(F) /\ s.visited \in SUBSET ids /\ s.order \in Seq(ids)
      /\ s = [stack |-> s.stack, visited |-> s.visited, order |-> s.order]
  BY DEF SearchStates
<1>2. CASE s.stack = <<>>
  BY <1>2 DEF DfsStep
<1>3. CASE s.stack # <<>>
  <2>1. PICK top, rest : top = Last(s.stack) /\ rest = Front(s.stack)
    OBVIOUS
  <2>2. top \in F /\ rest \in Seq(F)
    <3>. HIDE DEF F
    <3>1. top \in F
      BY <1>1, <1>3, <2>1 DEF Last
    <3>2. rest \in Seq(F)
      BY <1>1, <1>3, <2>1 DEF Front
    <3>. QED
      BY <3>1, <3>2
  <2>3. CASE top.post
    <3>1. top.id \in ids
      BY <2>2, <2>3 DEF StackFrames
    <3>2. DfsStep(succ, s) = [s EXCEPT !.stack = rest, !.order = <<top.id>> \o s.order]
      BY <1>3, <2>1, <2>3 DEF DfsStep
    <3>3. <<top.id>> \o s.order \in Seq(ids)
      BY <1>1, <3>1
    <3>. QED
      BY <1>1, <2>2, <3>2, <3>3 DEF SearchStates
  <2>4. CASE ~top.post /\ (top.id = NoGate \/ top.id \in s.visited)
    <3>1. DfsStep(succ, s) = [s EXCEPT !.stack = rest]
      BY <1>3, <2>1, <2>4 DEF DfsStep
    <3>. QED
      BY <1>1, <2>2, <3>1 DEF SearchStates
  <2>5. CASE ~top.post /\ top.id # NoGate /\ top.id \notin s.visited
    <3>1. top.id \in ids
      BY <2>2, <2>5 DEF StackFrames
    <3>2. PICK above, frame : /\ frame = [id |-> top.id, post |-> TRUE]
                              /\ above = DfsFrames(succ[top.id])
      OBVIOUS
    <3>3. DfsStep(succ, s) = [s EXCEPT !.visited = s.visited \cup {top.id},
                                       !.stack = Append(rest, frame) \o above]
      BY <1>3, <2>1, <2>5, <3>2 DEF DfsStep
    <3>4. above \in Seq(F)
      BY <3>1, <3>2, FramesOfPins
    <3>5. frame \in F
      BY <3>1, <3>2 DEF StackFrames
    <3>. HIDE DEF F
    <3>6. Append(rest, frame) \o above \in Seq(F)
      BY <2>2, <3>4, <3>5
    <3>. QED
      BY <1>1, <3>1, <3>3, <3>6 DEF SearchStates, F
  <2>. QED
    BY <2>3, <2>4, <2>5
<1>. QED
  BY <1>2, <1>3

\* So the order holds gates of the circuit.
LEMMA DfsOrderListsGates ==
    ASSUME NEW ids, NEW succ \in [ids -> Seq(ids \cup {NoGate})],
           NEW roots \in Seq(ids \cup {NoGate}), NEW n \in Nat
    PROVE  DfsOrder(roots, succ, n) \in Seq(ids)
<1>1. Len(roots) \in Nat
  OBVIOUS
<1>0. PICK pops \in Nat : \E after : SearchRun(roots, succ, n, pops, after)
  <2>1. PICK pops, after : SearchRun(roots, succ, n, pops, after)
    BY <1>1, SearchRuns
  <2>. QED
    BY <2>1 DEF SearchRun
<1>2. PICK after :
         /\ DfsOrder(roots, succ, n) = after[pops].order
         /\ after[0] = [stack |-> DfsFrames(roots), visited |-> {}, order |-> <<>>]
         /\ \A m \in Nat : m + 1 <= pops => after[m + 1] = DfsStep(succ, after[m])
  BY <1>0 DEF SearchRun
<1>3. after[0] \in SearchStates(ids)
  BY <1>2, FramesOfPins DEF SearchStates
<1>. DEFINE Kept == {m \in Nat : m <= pops => after[m] \in SearchStates(ids)}
<1>4. 0 \in Kept
  BY <1>3
<1>5. ASSUME NEW m \in Nat, m \in Kept PROVE m + 1 \in Kept
  <2>1. m + 1 <= pops => m <= pops
    OBVIOUS
  <2>2. after[m] \in SearchStates(ids) => DfsStep(succ, after[m]) \in SearchStates(ids)
    BY DfsStepKeeps
  <2>. QED
    BY <1>2, <1>5, <2>1, <2>2
<1>6. pops \in Kept
  <2>1. Nat \subseteq Kept
    <3>. HIDE DEF Kept
    <3>. QED
      BY <1>4, <1>5, SetInduction
  <2>. QED
    BY <2>1
<1>. QED
  BY <1>2, <1>6 DEF SearchStates

\* get_gates of a circuit lists gates of the circuit.
LEMMA GatesAreListed ==
    ASSUME NEW c, IsCircuit(c, Qubits)
    PROVE  GetGates(c, NumQubits) \in Seq(GateIds(c))
<1>1. NumQubits \in Nat /\ Len(c) \in Nat
  BY NumQubitsAssumption DEF IsCircuit
<1>2. ASSUME NEW q PROVE FirstGate(c, q) \in GateIds(c) \cup {NoGate}
  <2>1. CASE OnQubit(c, q) # {}
    <3>1. Min(OnQubit(c, q)) \in DOMAIN c
      BY <2>1, Positions, MinOfNaturals
    <3>. QED
      BY <2>1, <3>1 DEF FirstGate, GateIds
  <2>. QED
    BY <2>1 DEF FirstGate
<1>3. [q \in 1 .. NumQubits |-> FirstGate(c, q - 1)] \in Seq(GateIds(c) \cup {NoGate})
  BY <1>1, <1>2
<1>4. ASSUME NEW id \in GateIds(c)
      PROVE  GetSuccessors(c, id) \in Seq(GateIds(c) \cup {NoGate})
  <2>1. PICK i \in DOMAIN c : id = c[i].id
    BY DEF GateIds
  <2>2. GetGate(c, id).qubits \in Seq(Qubits)
    BY <2>1, GateAt
  <2>3. ASSUME NEW S, S \subseteq Nat, S \subseteq DOMAIN c
        PROVE  (IF S = {} THEN NoGate ELSE c[Min(S)].id) \in GateIds(c) \cup {NoGate}
    BY <2>3, MinOfNaturals DEF GateIds
  <2>4. ASSUME NEW pin \in DOMAIN GetGate(c, id).qubits
        PROVE  GetSuccessors(c, id)[pin] \in GateIds(c) \cup {NoGate}
    <3>1. PICK after : after = {i2 \in OnQubit(c, GetGate(c, id).qubits[pin]) :
                                   i2 > Position(c, id)}
      OBVIOUS
    <3>2. after \subseteq Nat /\ after \subseteq DOMAIN c
      BY <3>1, Positions
    <3>3. GetSuccessors(c, id)[pin] = IF after = {} THEN NoGate ELSE c[Min(after)].id
      BY <3>1 DEF GetSuccessors
    <3>. QED
      BY <3>2, <3>3, <2>3
  <2>5. PICK n \in Nat : DOMAIN GetGate(c, id).qubits = 1 .. n
    BY <2>2
  <2>6. PICK r : r = GetSuccessors(c, id)
    OBVIOUS
  <2>7. r = [pin \in 1 .. n |-> r[pin]]
    BY <2>5, <2>6 DEF GetSuccessors
  <2>. QED
    BY <2>4, <2>5, <2>6, <2>7
<1>5. [id \in GateIds(c) |-> GetSuccessors(c, id)]
         \in [GateIds(c) -> Seq(GateIds(c) \cup {NoGate})]
  BY <1>4
<1>. QED
  BY <1>1, <1>3, <1>5, DfsOrderListsGates DEF GetGates

-----------------------------------------------------------------------------
(* The steps                                                               *)

\* The gate that is visited is one of the physical circuit.
LEMMA Visited ==
    ASSUME CheckInv, Checking
    PROVE  /\ Tail(order) \in Seq(GateIds(physical))
           /\ \E i \in DOMAIN physical : GetGate(physical, Current) = physical[i]
           /\ GetGate(physical, Current).qubits \in Seq(Qubits)
           /\ GetGate(physical, Current).qubits # <<>>
<1>1. order \in Seq(GateIds(physical)) /\ order # <<>>
  BY DEF CheckInv, Checking
<1>2. Head(order) \in GateIds(physical) /\ Tail(order) \in Seq(GateIds(physical))
  <2>1. PICK ids : ids = GateIds(physical)
    OBVIOUS
  <2>2. order \in Seq(ids) /\ order # <<>>
    BY <1>1, <2>1
  <2>3. Head(order) \in ids /\ Tail(order) \in Seq(ids)
    BY <2>2
  <2>. QED
    BY <2>1, <2>3
<1>3. PICK i \in DOMAIN physical : Current = physical[i].id
  BY <1>2 DEF GateIds, Current
<1>. QED
  BY <1>2, <1>3, GateAt DEF CheckInv, InputsOK

\* The constructor: nothing was found, and the labels invert the placement.
LEMMA BeginsKeeps ==
    ASSUME CheckInv, CheckBegins(placed), GetGates(physical, NumQubits) \in Seq(GateIds(physical))
    PROVE  CheckInv' /\ UNCHANGED <<device, logical, placed, executed, followed>>
<1>1. /\ verdict = "none" /\ verdict' = "checking"
      /\ order' = GetGates(physical, NumQubits)
      /\ labels' = [q \in Qubits |-> CHOOSE l \in Qubits : placed[l] = q]
      /\ dependency' = [l \in Qubits |-> FirstGate(logical, l)]
      /\ UNCHANGED <<device, logical, physical, placed, executed, followed>>
  BY DEF CheckBegins, inputVars
<1>2. executed = {} /\ placed \in Bijection(Qubits, Qubits) /\ InputsOK
  BY <1>1 DEF CheckInv
<1>3. /\ placed \in [Qubits -> Qubits]
      /\ \A a, b \in Qubits : placed[a] = placed[b] => a = b
      /\ \A q \in Qubits : \E l \in Qubits : placed[l] = q
  BY <1>2 DEF Bijection, Injection, Surjection, IsInjective
<1>4. PlacesFollowed'
  <2>1. \A q \in Qubits : labels'[q] \in Qubits /\ placed[labels'[q]] = q
    BY <1>1, <1>3
  <2>2. labels' \in [Qubits -> Qubits]
    BY <1>1, <2>1
  <2>3. \A l \in Qubits : labels'[placed[l]] = l
    BY <1>3, <2>1
  <2>. QED
    BY <1>1, <2>1, <2>2, <2>3 DEF PlacesFollowed
<1>5. DependencyFollowed'
  <2>1. \A l \in Qubits : (Left(l))' = OnQubit(logical, l)
    BY <1>1, <1>2, Positions DEF Left
  <2>2. dependency' = [l \in Qubits |-> IF OnQubit(logical, l) = {} THEN NoGate
                                        ELSE logical[Min(OnQubit(logical, l))].id]
    BY <1>1 DEF FirstGate
  <2>3. dependency' = [l \in Qubits |-> IF (Left(l))' = {} THEN NoGate
                                        ELSE logical'[Min((Left(l))')].id]
    BY <1>1, <2>1, <2>2
  <2>. QED
    BY <1>1, <1>2, <2>3 DEF DependencyFollowed
<1>6. InputsOK'
  BY <1>1, <1>2 DEF InputsOK
<1>. QED
  BY <1>1, <1>3, <1>4, <1>5, <1>6 DEF CheckInv

\* What changes nothing but the verdict, or the gates still to visit
LEMMA OthersKeep ==
    ASSUME CheckInv,
           UNCHANGED <<device, logical, physical, labels, dependency, placed, executed>>,
           \/ UNCHANGED <<order, verdict>>
           \/ verdict = "checking" /\ verdict' # "none" /\ order' = order
           \/ verdict = "checking" /\ verdict' = verdict
              /\ order' \in Seq(GateIds(physical))
    PROVE  CheckInv'
<1>1. InputsOK'
  BY DEF CheckInv, InputsOK
<1>2. PlacesFollowed => PlacesFollowed'
  BY DEF PlacesFollowed
<1>3. DependencyFollowed => DependencyFollowed'
  <2>1. \A l : (Left(l))' = Left(l)
    BY DEF Left
  <2>. QED
    BY <2>1 DEF DependencyFollowed
<1>. QED
  BY <1>1, <1>2, <1>3 DEF CheckInv

\* A SWAP of the router is an exchange.
LEMMA SwapFollows ==
    ASSUME CheckInv, ExecuteSwap, verdict' = verdict
    PROVE  CheckInv' /\ \E p, q \in Qubits : Run!Exchange(p, q)
<1>. DEFINE p == GetGate(physical, Current).qubits[1]
            q == GetGate(physical, Current).qubits[2]
<1>1. /\ Checking /\ Arity = 2 /\ IsAdjacency(device, p, q)
      /\ labels' = SwapLabels(p, q)
      /\ placed' = [placed EXCEPT ![labels[p]] = q, ![labels[q]] = p]
      /\ followed' = followed \o Run!ThreeCX(p, q)
      /\ order' = Tail(order)
      /\ UNCHANGED <<device, logical, physical, dependency, verdict, executed>>
  BY DEF ExecuteSwap, Reject, Advance, Checking, inputVars
<1>2. verdict # "none"
  BY <1>1 DEF Checking
<1>3. /\ InputsOK /\ placed \in [Qubits -> Qubits] /\ labels \in [Qubits -> Qubits]
      /\ \A x \in Qubits : placed[labels[x]] = x
      /\ \A l \in Qubits : labels[placed[l]] = l
      /\ DependencyFollowed
  BY <1>2 DEF CheckInv, PlacesFollowed
<1>4. p \in Qubits /\ q \in Qubits
  BY <1>1, Visited DEF Arity
<1>. HIDE DEF p, q
<1>5. p # q
  BY <1>1, <1>3, <1>4 DEF InputsOK, IsDevice
<1>6. labels[p] \in Qubits /\ labels[q] \in Qubits /\ labels[p] # labels[q]
  BY <1>3, <1>4, <1>5
<1>7. placed' = [l \in Qubits |-> IF placed[l] = p THEN q
                                  ELSE IF placed[l] = q THEN p ELSE placed[l]]
  <2>1. \A l \in Qubits : /\ placed[l] = p <=> l = labels[p]
                          /\ placed[l] = q <=> l = labels[q]
    BY <1>3, <1>4
  <2>2. placed' \in [Qubits -> Qubits]
        /\ \A l \in Qubits : placed'[l] = IF l = labels[p] THEN q
                                          ELSE IF l = labels[q] THEN p ELSE placed[l]
    BY <1>1, <1>3, <1>4, <1>6
  <2>. QED
    BY <2>1, <2>2
<1>8. labels' = [x \in Qubits |-> IF x = p THEN labels[q]
                                  ELSE IF x = q THEN labels[p] ELSE labels[x]]
  BY <1>1, <1>3, <1>4, <1>5 DEF SwapLabels
<1>9. PlacesFollowed'
  <2>1. ASSUME NEW x \in Qubits PROVE placed'[labels'[x]] = x
    BY <1>3, <1>4, <1>6, <1>7, <1>8
  <2>2. ASSUME NEW l \in Qubits PROVE labels'[placed'[l]] = l
    BY <1>3, <1>4, <1>6, <1>7, <1>8
  <2>3. labels' \in [Qubits -> Qubits]
    BY <1>3, <1>4, <1>8
  <2>. QED
    BY <2>1, <2>2, <2>3 DEF PlacesFollowed
<1>10. InputsOK' /\ DependencyFollowed'
  <2>1. \A l : (Left(l))' = Left(l)
    BY <1>1 DEF Left
  <2>. QED
    BY <1>1, <1>3, <2>1 DEF InputsOK, DependencyFollowed
<1>11. order' \in Seq(GateIds(physical)) /\ placed' \in [Qubits -> Qubits]
  BY <1>1, <1>3, <1>4, <1>7, Visited
<1>12. Run!Exchange(p, q)
  BY <1>1, <1>5, <1>7 DEF Run!Exchange, Run!IsAdjacency, IsAdjacency, Run!ToSet, ToSet,
                             Run!Qubits, Qubits
<1>. QED
  BY <1>1, <1>2, <1>4, <1>9, <1>10, <1>11, <1>12 DEF CheckInv

\* What the qubits of a matching gate wait for is a gate of the logical circuit
\* on the logical qubits that are there, the first that is left on each.
LEMMA MatchIsReady ==
    ASSUME CheckInv, Checking, Matches(Current)
    PROVE  \E k \in DOMAIN logical :
              /\ Waiting(labels[GetGate(physical, Current).qubits[1]]) = logical[k].id
              /\ logical[k].op = GetGate(physical, Current).op
              /\ DOMAIN logical[k].qubits = DOMAIN GetGate(physical, Current).qubits
              /\ Len(logical[k].qubits) = Len(GetGate(physical, Current).qubits)
              /\ \A pin \in DOMAIN logical[k].qubits :
                    logical[k].qubits[pin] = labels[GetGate(physical, Current).qubits[pin]]
              /\ \A l \in ToSet(logical[k].qubits) : k \in Left(l) /\ Min(Left(l)) = k
<1>1. PICK gate, i : i \in DOMAIN physical /\ gate = physical[i]
                     /\ GetGate(physical, Current) = gate
  BY Visited
<1>2. InputsOK /\ DependencyFollowed /\ labels \in [Qubits -> Qubits]
  BY DEF CheckInv, Checking, PlacesFollowed
<1>3. gate.qubits \in Seq(Qubits) /\ gate.qubits # <<>>
  BY <1>1, Visited
<1>4. 1 \in DOMAIN gate.qubits /\ \A pin \in DOMAIN gate.qubits : gate.qubits[pin] \in Qubits
  BY <1>3
<1>5. PICK wanted : wanted = dependency[labels[gate.qubits[1]]]
  OBVIOUS
<1>6. /\ wanted # NoGate
      /\ GetGate(logical, wanted).op = gate.op
      /\ \A pin \in DOMAIN gate.qubits : dependency[labels[gate.qubits[pin]]] = wanted
      /\ \A pin \in DOMAIN gate.qubits :
            GetGate(logical, wanted).qubits[pin] = labels[gate.qubits[pin]]
  BY <1>1, <1>5 DEF Matches, Waiting
<1>7. PICK k \in DOMAIN logical : wanted = logical[k].id
  <2>1. labels[gate.qubits[1]] \in Qubits
    BY <1>2, <1>4
  <2>. QED
    BY <2>1, <1>2, <1>5, <1>6, WaitedFor
<1>8. GetGate(logical, wanted) = logical[k] /\ logical[k].qubits \in Seq(Qubits)
  BY <1>2, <1>7, GateAt DEF InputsOK
<1>9. Len(logical[k].qubits) = Len(gate.qubits)
      /\ DOMAIN logical[k].qubits = DOMAIN gate.qubits
  BY <1>1, <1>2, <1>3, <1>6, <1>8 DEF InputsOK
<1>10. ASSUME NEW l \in ToSet(logical[k].qubits)
       PROVE  k \in Left(l) /\ Min(Left(l)) = k
  <2>1. PICK pin \in DOMAIN gate.qubits : l = labels[gate.qubits[pin]]
    BY <1>6, <1>8, <1>9 DEF ToSet
  <2>2. l \in Qubits /\ dependency[l] = wanted
    BY <2>1, <1>2, <1>4, <1>6
  <2>3. /\ Min(Left(l)) \in Left(l) /\ Min(Left(l)) \in DOMAIN logical
        /\ logical[k].id = logical[Min(Left(l))].id
    BY <2>2, <1>2, <1>6, <1>7, WaitedFor
  <2>4. Min(Left(l)) = k
    BY <2>3, <1>2 DEF InputsOK, IsCircuit
  <2>. QED
    BY <2>3, <2>4
<1>. QED
  BY <1>1, <1>5, <1>6, <1>7, <1>8, <1>9, <1>10 DEF Waiting

\* A gate that is waited for on all its qubits has not run, and what it
\* requires has.
LEMMA ReadyMayRun ==
    ASSUME InputsOK, DependencyFollowed, NEW k \in DOMAIN logical,
           \A l \in ToSet(logical[k].qubits) : k \in Left(l) /\ Min(Left(l)) = k
    PROVE  /\ logical[k].id \notin executed
           /\ Requires(logical, logical[k].id) \subseteq executed
<1>1. logical[k].id \notin executed
  <2>1. PICK l : l \in ToSet(logical[k].qubits)
    <3>1. logical[k].qubits \in Seq(Qubits) /\ logical[k].qubits # <<>>
      BY GateAt DEF InputsOK
    <3>2. 1 \in DOMAIN logical[k].qubits
      BY <3>1
    <3>. QED
      BY <3>2 DEF ToSet
  <2>. QED
    BY <2>1 DEF Left
<1>2. Position(logical, logical[k].id) = k /\ GetGate(logical, logical[k].id) = logical[k]
  BY GateAt DEF InputsOK
<1>3. ASSUME NEW j \in DOMAIN logical, j < k, NEW l \in ToSet(logical[j].qubits),
             l \in ToSet(logical[k].qubits)
      PROVE  logical[j].id \in executed
  <2>1. j \in OnQubit(logical, l)
    BY <1>3 DEF OnQubit
  <2>2. Left(l) \subseteq Nat /\ Min(Left(l)) = k /\ k \in Left(l) /\ j \in Nat
    BY <1>3, Positions, GateAt DEF Left, InputsOK
  <2>3. j \notin Left(l)
    BY <2>2, <1>3, MinOfNaturals
  <2>. QED
    BY <2>1, <2>3 DEF Left
<1>. QED
  BY <1>1, <1>2, <1>3 DEF Requires

\* A gate that matches runs.
LEMMA GateFollows ==
    ASSUME CheckInv, ExecuteGate, verdict' = verdict
    PROVE  CheckInv' /\ \E i \in DOMAIN logical : Run!Execute(logical[i])
<1>1. Checking /\ Matches(Current) /\ verdict = "checking"
  BY DEF ExecuteGate, Reject, Checking
<1>2. PICK gate : gate = GetGate(physical, Current)
  OBVIOUS
<1>3. PICK wanted : wanted = Waiting(labels[gate.qubits[1]])
  OBVIOUS
<1>4. PICK k \in DOMAIN logical :
         /\ wanted = logical[k].id
         /\ logical[k].op = gate.op
         /\ DOMAIN logical[k].qubits = DOMAIN gate.qubits
         /\ Len(logical[k].qubits) = Len(gate.qubits)
         /\ \A pin \in DOMAIN logical[k].qubits :
               logical[k].qubits[pin] = labels[gate.qubits[pin]]
         /\ \A l \in ToSet(logical[k].qubits) : k \in Left(l) /\ Min(Left(l)) = k
  BY <1>1, <1>2, <1>3, MatchIsReady
<1>5. /\ InputsOK /\ DependencyFollowed /\ PlacesFollowed
      /\ placed \in [Qubits -> Qubits]
  BY <1>1 DEF CheckInv
<1>6. GetGate(logical, wanted) = logical[k]
  BY <1>4, <1>5, GateAt DEF InputsOK
<1>7. PICK pins : pins = GetGate(logical, wanted).qubits
  OBVIOUS
<1>8. /\ dependency' = DependencyAfter(wanted, pins)
      /\ executed' = executed \cup {wanted}
      /\ followed' = followed \o Run!PhysicalGate(gate.op, gate.qubits)
      /\ order' = Tail(order)
      /\ UNCHANGED <<inputVars, swaps, labels, verdict, placed>>
  <2>1. verdict' # "rejected"
    BY <1>1
  <2>. QED
    BY <2>1, <1>2, <1>3, <1>7, Zenon DEF ExecuteGate, Reject, Advance, DependencyAfter
<1>9. pins = logical[k].qubits /\ UNCHANGED <<device, logical, physical>>
  BY <1>6, <1>7, <1>8 DEF inputVars
<1>10. DependencyFollowed'
  <2>1. wanted = logical[k].id
    BY <1>4
  <2>2. \A l \in ToSet(logical[k].qubits) : k \in Left(l) /\ Min(Left(l)) = k
    BY <1>4
  <2>3. pins = logical[k].qubits /\ UNCHANGED logical
    BY <1>9
  <2>. QED
    BY <2>1, <2>2, <2>3, <1>5, <1>8, DependencyAdvances, Zenon
<1>11. InputsOK' /\ PlacesFollowed'
  BY <1>5, <1>8, <1>9 DEF InputsOK, PlacesFollowed
<1>12. CheckInv'
  BY <1>1, <1>5, <1>8, <1>9, <1>10, <1>11, Visited DEF CheckInv
<1>13. [pin \in DOMAIN logical[k].qubits |-> placed[logical[k].qubits[pin]]] = gate.qubits
  <2>1. gate.qubits \in Seq(Qubits)
    BY <1>1, <1>2, Visited
  <2>2. \A pin \in DOMAIN gate.qubits : gate.qubits[pin] \in Qubits
    BY <2>1
  <2>3. \A pin \in DOMAIN gate.qubits : placed[logical[k].qubits[pin]] = gate.qubits[pin]
    BY <2>2, <1>4, <1>5 DEF PlacesFollowed
  <2>4. gate.qubits = [pin \in DOMAIN gate.qubits |-> gate.qubits[pin]]
    BY <2>1
  <2>. QED
    BY <2>3, <2>4, <1>4
<1>14. Run!Execute(logical[k])
  <2>1. /\ logical[k].id \notin executed
        /\ Requires(logical, logical[k].id) \subseteq executed
    BY <1>4, <1>5, ReadyMayRun
  <2>2. Run!Requires(logical, logical[k].id) = Requires(logical, logical[k].id)
    BY DEF Run!Requires, Requires, Run!Position, Position, Run!GetGate, GetGate,
           Run!ToSet, ToSet
  <2>3. Len(logical[k].qubits) = 2 => Run!IsAdjacency(device, gate.qubits[1], gate.qubits[2])
    BY <1>1, <1>2, <1>4 DEF Matches, Run!IsAdjacency, IsAdjacency, Run!ToSet, ToSet
  <2>. QED
    BY <2>1, <2>2, <2>3, <1>4, <1>8, <1>9, <1>13 DEF Run!Execute
<1>. QED
  BY <1>12, <1>14

\* Every step keeps the invariant and is a step of a run, or none.
LEMMA StepFollows ==
    ASSUME CheckInv, [CheckNext]_checkVars
    PROVE  CheckInv' /\ [Run!RunNext]_(Run!runVars)
<1>. USE DEF Run!RunNext, Run!runVars
<1>1. CASE CheckBegins(placed)
  BY <1>1, BeginsKeeps, GatesAreListed DEF CheckInv, InputsOK
<1>2. CASE Skip
  <2>1. /\ Checking /\ verdict = "checking" /\ order' = Tail(order)
        /\ UNCHANGED <<device, logical, physical, labels, dependency, verdict, placed,
                       executed, followed>>
    BY <1>2 DEF Skip, Advance, Checking, inputVars, historyVars
  <2>. QED
    BY <2>1, Visited, OthersKeep
<1>3. CASE ExecuteSwap \/ ExecuteGate
  <2>1. CASE verdict' = verdict
    BY <1>3, <2>1, SwapFollows, GateFollows DEF Run!Qubits, Qubits
  <2>2. CASE verdict' # verdict
    <3>1. /\ verdict = "checking" /\ verdict' # "none"
          /\ UNCHANGED <<order, device, logical, physical, labels, dependency, placed,
                         executed, followed>>
      BY <1>3, <2>2 DEF ExecuteSwap, ExecuteGate, Reject, Checking, inputVars, historyVars
    <3>. QED
      BY <3>1, OthersKeep
  <2>. QED
    BY <2>1, <2>2
<1>4. CASE Accept
  <2>1. /\ verdict = "checking" /\ verdict' # "none"
        /\ UNCHANGED <<order, device, logical, physical, labels, dependency, placed,
                       executed, followed>>
    BY <1>4 DEF Accept, inputVars, historyVars
  <2>. QED
    BY <2>1, OthersKeep
<1>5. CASE UNCHANGED checkVars
  <2>1. UNCHANGED <<order, verdict, device, logical, physical, labels, dependency, placed,
                    executed, followed>>
    BY <1>5 DEF checkVars, inputVars, historyVars
  <2>. QED
    BY <2>1, OthersKeep
<1>. QED
  BY <1>1, <1>2, <1>3, <1>4, <1>5 DEF CheckNext, CheckStep, Checked

\* Whatever the physical circuit is, the part of it that the checker has accepted
\* runs the logical circuit on the device: SWAPs are on coupled qubits, a gate is
\* accepted on the coupled places of its qubits, once, and after all the gates that
\* precede it on them.
THEOREM CheckedIsARun == CheckSpec => FollowsARun
<1>1. CheckInit => CheckInv /\ Run!RunInit
  <2>. SUFFICES ASSUME CheckInit PROVE CheckInv /\ Run!RunInit
    OBVIOUS
  <2>1. placed \in Bijection(Qubits, Qubits) /\ executed = {} /\ followed = <<>>
        /\ verdict = "none" /\ InputsOK
    BY DEF CheckInit, NotChecked, InputsOK
  <2>2. placed \in [Qubits -> Qubits] /\ \A a, b \in Qubits : placed[a] = placed[b] => a = b
    BY <2>1 DEF Bijection, Injection, IsInjective
  <2>. QED
    BY <2>1, <2>2 DEF CheckInv, Run!RunInit, Run!Qubits, Qubits
<1>2. CheckInv /\ [CheckNext]_checkVars => CheckInv' /\ [Run!RunNext]_(Run!runVars)
  BY StepFollows
<1>. QED
  BY <1>1, <1>2, PTL DEF CheckSpec, FollowsARun, Run!RunSpec
=============================================================================
