---------------------------- MODULE MappingChecker ----------------------------
(***************************************************************************)
(* duostra/mapping_eqv_checker.cpp: MappingEquivalenceChecker walks through *)
(* the gates of a physical circuit and follows them in the logical one.    *)
(* Three CX in alternating directions are taken for a SWAP of the router,  *)
(* unless a CX of the logical circuit is what the two qubits wait for.     *)
(***************************************************************************)
EXTENDS DeviceTopology, Circuit, Functions

VARIABLES device,      \* the device of _device
          logical,     \* _logical
          physical,    \* _physical
          order,       \* execute_order, the gates not yet visited
          swaps,       \* the gates of the SWAPs found
          labels,      \* _logical_qubit of the physical qubits of _device
          dependency,  \* _dependency: the next logical gate on every qubit
          verdict,     \* what check() returned
          placed,      \* history, for MappedRun: where the logical qubits are,
          executed,    \*    the logical gates that were found,
          followed     \*    and the physical operations as they were understood

inputVars == <<device, logical, physical>>
historyVars == <<placed, executed, followed>>
checkVars == <<inputVars, order, swaps, labels, dependency, verdict, historyVars>>

Run == INSTANCE MappedRun WITH circuit <- logical, at <- placed,
                               done <- executed, physical <- followed

\* get_next, forwards: no caller asks for the reverse direction
GetNext(c, g, pin) == IF g = NoGate THEN NoGate ELSE GetSuccessors(c, g)[pin]

NotChecked(assignment) ==
    /\ order = <<>> /\ swaps = {} /\ labels = <<>> /\ dependency = <<>>
    /\ placed = assignment /\ executed = {} /\ followed = <<>>
    /\ verdict = "none"

\* The constructor, for the assignment of the placer
CheckBegins(assignment) ==
    /\ verdict = "none"
    /\ order' = GetGates(physical, NumQubits)
    /\ labels' = [q \in Qubits |-> CHOOSE l \in Qubits : assignment[l] = q]
    /\ dependency' = [l \in Qubits |-> FirstGate(logical, l)]
    /\ verdict' = "checking"
    /\ placed' = assignment
    /\ UNCHANGED <<inputVars, swaps, executed, followed>>

\* g is a CX and the gate that follows on both its pins is the reverse CX.
TurnsInto(g, next) ==
    /\ GetGate(physical, g).op = "cx"
    /\ next = GetNext(physical, g, 1)
    /\ next = GetNext(physical, g, 2)
    /\ next # NoGate
    /\ GetGate(physical, next).op = "cx"
    /\ GetGate(physical, next).qubits = Reverse(GetGate(physical, g).qubits)

Waiting(l) == dependency[l]

\* is_swap (mutant: the logical circuit is not asked)
IsSwapByShape(g) ==
    LET second == GetNext(physical, g, 1)
    IN  TurnsInto(g, second) /\ TurnsInto(second, GetNext(physical, second, 1))

IsSwap(g) ==
    LET second == GetNext(physical, g, 1)
        third == GetNext(physical, second, 1)
        qs == GetGate(physical, g).qubits
        wanted == Waiting(labels[qs[1]])
    IN  /\ TurnsInto(g, second)
        /\ TurnsInto(second, third)
        /\ ~ /\ wanted = Waiting(labels[qs[2]])
             /\ wanted # NoGate
             /\ GetGate(logical, wanted).op = "cx"

Current == Head(order)
Arity == Len(GetGate(physical, Current).qubits)
Checking == verdict = "checking" /\ order # <<>>
Advance == order' = Tail(order)

Skip == /\ Checking
        /\ Current \in swaps
        /\ Advance
        /\ UNCHANGED <<inputVars, swaps, labels, dependency, verdict, historyVars>>

Reject == /\ verdict' = "rejected"
          /\ UNCHANGED <<inputVars, order, swaps, labels, dependency, historyVars>>

\* The labels after a SWAP of p and q
SwapLabels(p, q) == [labels EXCEPT ![p] = labels[q], ![q] = labels[p]]

\* execute_swap
ExecuteSwap ==
    LET second == GetNext(physical, Current, 1)
        third == GetNext(physical, second, 1)
        p == GetGate(physical, Current).qubits[1]
        q == GetGate(physical, Current).qubits[2]
    IN  /\ Checking
        /\ Current \notin swaps
        /\ Arity = 2
        /\ IsSwap(Current)
        /\ \/ /\ ~IsAdjacency(device, p, q)
              /\ Reject
           \/ /\ IsAdjacency(device, p, q)
              /\ swaps' = swaps \cup {Current, second, third}
              /\ labels' = SwapLabels(p, q)
              /\ placed' = [placed EXCEPT ![labels[p]] = q, ![labels[q]] = p]
              /\ followed' = followed \o Run!ThreeCX(p, q)
              /\ Advance
              /\ UNCHANGED <<inputVars, dependency, verdict, executed>>

\* execute_single and execute_double: the logical gate that the qubits wait for
\* is the same one, has the same operation and the same qubits in this order.
\* check() knows no gates on more qubits.
\* (mutant: the coupling is not checked)
MatchesAnywhere(g) ==
    LET gate == GetGate(physical, g)
        wanted == Waiting(labels[gate.qubits[1]])
    IN  /\ Len(gate.qubits) <= 2
        /\ \A pin \in DOMAIN gate.qubits : Waiting(labels[gate.qubits[pin]]) = wanted
        /\ wanted # NoGate
        /\ GetGate(logical, wanted).op = gate.op
        /\ \A pin \in DOMAIN gate.qubits :
              GetGate(logical, wanted).qubits[pin] = labels[gate.qubits[pin]]

Matches(g) ==
    LET gate == GetGate(physical, g)
        wanted == Waiting(labels[gate.qubits[1]])
    IN  /\ Len(gate.qubits) <= 2
        /\ \A pin \in DOMAIN gate.qubits : Waiting(labels[gate.qubits[pin]]) = wanted
        /\ wanted # NoGate
        /\ GetGate(logical, wanted).op = gate.op
        /\ \A pin \in DOMAIN gate.qubits :
              GetGate(logical, wanted).qubits[pin] = labels[gate.qubits[pin]]
        /\ Len(gate.qubits) = 2 => IsAdjacency(device, gate.qubits[1], gate.qubits[2])

ExecuteGate ==
    LET gate == GetGate(physical, Current)
        wanted == Waiting(labels[gate.qubits[1]])
        pins == GetGate(logical, wanted).qubits
    IN  /\ Checking
        /\ Current \notin swaps
        /\ Arity = 2 => ~IsSwap(Current)
        /\ \/ ~Matches(Current) /\ Reject
           \/ /\ Matches(Current)
              /\ dependency' = [l \in Qubits |->
                    IF l \in ToSet(pins)
                    THEN GetNext(logical, wanted,
                                 CHOOSE pin \in DOMAIN pins : pins[pin] = l)
                    ELSE dependency[l]]
              /\ executed' = executed \cup {wanted}
              /\ followed' = followed \o Run!PhysicalGate(gate.op, gate.qubits)
              /\ Advance
              /\ UNCHANGED <<inputVars, swaps, labels, verdict, placed>>

\* check_remaining only writes warnings.
Accept == /\ verdict = "checking"
          /\ order = <<>>
          /\ verdict' = "accepted"
          /\ UNCHANGED <<inputVars, order, swaps, labels, dependency, historyVars>>

CheckStep == Skip \/ ExecuteSwap \/ ExecuteGate \/ Accept

Checked == verdict \in {"accepted", "rejected"} /\ UNCHANGED checkVars

\* The checker on its own: two circuits on the qubits of the device, in which an
\* operation has one number of qubits, and the placement that the placer will give.
CheckInit ==
    /\ IsDevice(device)
    /\ IsCircuit(logical, Qubits) /\ IsCircuit(physical, Qubits)
    /\ \A i \in DOMAIN logical, j \in DOMAIN physical :
          logical[i].op = physical[j].op => Len(logical[i].qubits) = Len(physical[j].qubits)
    /\ placed \in Bijection(Qubits, Qubits)
    /\ NotChecked(placed)

CheckNext == CheckBegins(placed) \/ CheckStep \/ Checked

CheckSpec == CheckInit /\ [][CheckNext]_checkVars

-----------------------------------------------------------------------------
\* What the checker follows is a run of the logical circuit on the device:
\* each SWAP it accepts is on a coupled pair, each gate it accepts was ready
\* and is on the places of its qubits, whatever the physical circuit is.
FollowsARun == Run!RunSpec
=============================================================================
