-------------------------------- MODULE Mapper --------------------------------
(***************************************************************************)
(* duostra/duostra.cpp and the schedulers (scheduler.cpp,                  *)
(* scheduler_greedy.cpp, scheduler_search.cpp): Duostra::map gives the     *)
(* gates of the logical circuit to the router in an order chosen by the    *)
(* scheduler, sorts the operations by start time and writes the physical   *)
(* circuit.  The user may ask to stop at any time; the schedulers look at  *)
(* the request between two gates and Duostra::map once more at the end.    *)
(***************************************************************************)
EXTENDS Router, Circuit

(***************************************************************************)
(* duostra/circuit_topology.cpp: which gates of the logical circuit may be *)
(* routed next.                                                            *)
(***************************************************************************)

VARIABLES circuit,        \* _dependency_graph: the logical circuit
          availableGates, \* _available_gates, a sequence of ids
          executedGates   \* _executed_gates: id -> number of executed successors

topologyVars == <<circuit, availableGates, executedGates>>

NumGates == Len(circuit)

\* The pins with a gate before or behind them
Present(pins) == {i \in DOMAIN pins : pins[i] # NoGate}

\* _is_available, for the map of executed gates given (mutant: one predecessor
\* is enough)
IsAvailableAfterOne(executed, id) ==
    \/ Present(GetPredecessors(circuit, id)) = {}
    \/ \E i \in Present(GetPredecessors(circuit, id)) :
          GetPredecessors(circuit, id)[i] \in executed

IsAvailable(executed, id) ==
    \A i \in Present(GetPredecessors(circuit, id)) :
        GetPredecessors(circuit, id)[i] \in executed

\* The constructor: ids 0 .. n-1 are tried in order.
InitialGates(c) == KeepOnly([i \in 1 .. Len(c) |-> i - 1],
                            {id \in GateIds(c) : Present(GetPredecessors(c, id)) = {}})

TopologyInit ==
    /\ availableGates = InitialGates(circuit)
    /\ executedGates = <<>>

\* May the entry of a gate be dropped?  seen counts its executed successors
\* (mutant: one too few is enough).
TrimEarly(id, seen) == seen + 1 >= Cardinality(Present(GetSuccessors(circuit, id)))
Trim(id, seen) == seen >= Cardinality(Present(GetSuccessors(circuit, id)))

\* The waiting list after a gate was executed
Erase(gates, id) == KeepOnly(gates, ToSet(gates) \ {id})

\* update_available_gates.  A successor on both pins is visited twice; a gate
\* is dropped from executedGates once all its successors were counted.
UpdateAvailableGates(id) ==
    LET executed == DOMAIN executedGates \cup {id}
        next == KeepOnly(GetSuccessors(circuit, id),
                         {g \in GateIds(circuit) : IsAvailable(executed, g)})
        preds == GetPredecessors(circuit, id)
        prevs == {preds[i] : i \in Present(preds)}
        seen(p) == (IF p \in executed \ {id} THEN executedGates[p] ELSE 0)
                   + Cardinality({i \in Present(preds) : preds[i] = p})
        trimmed == {p \in prevs : Trim(p, seen(p))}
    IN  /\ availableGates' = Erase(availableGates, id) \o next
        /\ executedGates' = [p \in (executed \cup prevs) \ trimmed |-> seen(p)]
        /\ UNCHANGED circuit

-----------------------------------------------------------------------------
CONSTANT Jobs   \* calls of Duostra::map, records with the fields circuit, the logical
                \* circuit; placer, the type of the placer; check, _check; and
                \* scheduler, the configuration of the scheduler, a record of type,
                \* candidates, costMax, availMax, apspCoeff and executeSingle

\* The circuits that the mapper is written for: gates that a router takes, with the ids
\* 0 .. n-1, under which CircuitTopology looks every one up.  They hold no SWAP: the
\* router could not tell it from its own.  The base scheduler takes the gates by id, which
\* therefore have to be in program order.
ASSUME JobsAssumption == \A j \in Jobs :
    /\ IsCircuit(j.circuit, Qubits)
    /\ GateIds(j.circuit) = 0 .. Len(j.circuit) - 1
    /\ \A i \in DOMAIN j.circuit : IsGate(j.circuit[i]) /\ j.circuit[i].op # "swap"
    /\ j.scheduler.type \in {"base", "naive", "random", "greedy", "search"}
    /\ j.scheduler.candidates \in Nat
    /\ j.scheduler.type = "base" => \A i \in DOMAIN j.circuit : j.circuit[i].id = i - 1

VARIABLES job,            \* this call
          nextGate,       \* bar.idx(): how many gates were given to the router
          routingGate,    \* the gate the router works on, {} or {id}
          internal,       \* the search scheduler routes the rest of a TreeNode
          stopRequested,  \* stop_requested()
          stage,          \* where Duostra::map is
          unbuilt,        \* indices of operations not yet in the physical circuit
          physical,       \* _physical_circuit, in the order of append
          at, done        \* history, for MappedRun: where the logical qubits are and
                          \* which gates have run, after the operations of physical

scheduleVars == <<job, nextGate, routingGate, internal>>
buildVars == <<unbuilt, physical, at, done>>
mapVars == <<routerVars, topologyVars, scheduleVars, stopRequested, stage, buildVars>>

Run == INSTANCE MappedRun

scheduler == job.scheduler

-----------------------------------------------------------------------------
(* Which gate is next                                                      *)

\* Router::is_executable
IsExecutable(id) ==
    LET qs == GetGate(circuit, id).qubits
    IN  Len(qs) = 2 => IsAdjacency(device, logicalToPhysical[qs[1]],
                                           logicalToPhysical[qs[2]])

\* BaseScheduler::get_executable_gate: the first one, {} or {id}
ExecutableGate ==
    LET i == SelectInSeq(availableGates, IsExecutable)
    IN  IF i = 0 THEN {} ELSE {availableGates[i]}

\* Router::get_gate_cost, for a router with _apsp
GateCost(id) ==
    LET qs == GetGate(circuit, id).qubits
        p == logicalToPhysical[qs[1]]
        q == logicalToPhysical[qs[2]]
        avail == IF scheduler.availMax = (occupiedTime[p] < occupiedTime[q])
                 THEN occupiedTime[q] ELSE occupiedTime[p]
    IN  IF Len(qs) = 1 THEN occupiedTime[p]
        ELSE avail + Len(GetPath(tables, p, q)) \div scheduler.apspCoeff

\* TopologyCandidate::get_available_gates
Waitlist == SubSeq(availableGates, 1,
                   Min({Len(availableGates), scheduler.candidates}))

\* GreedyScheduler::greedy_fallback: the first gate of the best cost
GreedyFallback ==
    LET better(i, j) == IF scheduler.costMax
                        THEN GateCost(Waitlist[i]) > GateCost(Waitlist[j])
                        ELSE GateCost(Waitlist[i]) < GateCost(Waitlist[j])
        best == {i \in DOMAIN Waitlist : \A j \in DOMAIN Waitlist :
                    IF j < i THEN better(i, j) ELSE ~better(j, i)}
    IN  {Waitlist[i] : i \in best}

\* The head of the waiting list
FirstAvailable == {availableGates[i] : i \in DOMAIN availableGates \cap {1}}

\* TreeNode::_immediate_next
ImmediateNext == IF ExecutableGate # {} THEN ExecutableGate
                 ELSE IF Len(availableGates) = 1 THEN FirstAvailable ELSE {}

\* The gates an iteration of _assign_gates may route.  The search scheduler
\* takes the child of the root that its look-ahead prefers; which one that is
\* is left open, and then all the immediate gates of that child follow.
NextGates ==
    CASE scheduler.type = "base" -> {nextGate}
      [] scheduler.type = "naive" ->
            IF ExecutableGate # {} THEN ExecutableGate ELSE FirstAvailable
      [] scheduler.type = "random" -> ToSet(availableGates)
      [] scheduler.type = "greedy" ->
            IF ExecutableGate # {} THEN ExecutableGate ELSE GreedyFallback
      [] scheduler.type = "search" ->
            IF internal /\ ImmediateNext # {} THEN ImmediateNext
                                              ELSE ToSet(availableGates)

\* The loop condition of _assign_gates
MoreGates == IF scheduler.type \in {"greedy", "search"} THEN availableGates # <<>>
                                                        ELSE nextGate < NumGates

\* A TreeNode is routed to its end before the request to stop is looked at.
LooksAtStop == ~(internal /\ ImmediateNext # {})

-----------------------------------------------------------------------------
MapInit ==
    /\ RouterInit
    /\ job \in Jobs
    /\ circuit = job.circuit
    /\ TopologyInit
    /\ nextGate = 0
    /\ routingGate = {}
    /\ internal = FALSE
    /\ stopRequested = FALSE
    /\ stage = "assign"
    /\ unbuilt = {}
    /\ physical = <<>>
    /\ at = logicalToPhysical
    /\ done = {}

\* route_one_gate: the gate goes to the router ...
RouteOneGate(id) ==
    /\ stage = "assign"
    /\ routingGate = {}
    /\ MoreGates
    /\ LooksAtStop => ~stopRequested
    /\ id \in NextGates
    /\ AssignGate(GetGate(circuit, id))
    /\ routingGate' = {id}
    /\ internal' = (scheduler.type = "search" /\ scheduler.executeSingle)
    /\ nextGate' = nextGate + 1
    /\ UNCHANGED <<topologyVars, job, stopRequested, stage, buildVars>>

Routing == RouteStep /\ UNCHANGED <<topologyVars, scheduleVars, stopRequested,
                                    stage, buildVars>>

\* ... and when the router returns, the available gates are updated.
GateRouted ==
    /\ Idle
    /\ \E id \in routingGate : UpdateAvailableGates(id)
    /\ routingGate' = {}
    /\ UNCHANGED <<routerVars, job, nextGate, internal, stopRequested, stage,
                   buildVars>>

AssignmentOver == /\ stage = "assign"
                  /\ routingGate = {}
                  /\ ~MoreGates \/ (stopRequested /\ LooksAtStop)

\* (mutant: the loop of the scheduler goes on waiting instead of returning)
AssignmentEndsWaiting ==
    /\ AssignmentOver
    /\ stage' = IF stopRequested THEN stage ELSE "build"
    /\ unbuilt' = IF stopRequested THEN {} ELSE DOMAIN operations
    /\ UNCHANGED <<routerVars, topologyVars, scheduleVars, stopRequested,
                   physical, at, done>>

\* _assign_gates returns, because nothing is left or because of the request;
\* assign_gates_and_sort sorts; Duostra::map looks at the request again.
AssignmentEnds ==
    /\ AssignmentOver
    /\ stage' = IF stopRequested THEN "interrupted" ELSE "build"
    /\ unbuilt' = IF stopRequested THEN {} ELSE DOMAIN operations
    /\ UNCHANGED <<routerVars, topologyVars, scheduleVars, stopRequested,
                   physical, at, done>>

\* One operation of the sorted list in build_circuit_by_result.  _sort orders
\* by start time and is not stable.
BuildOperation ==
    \E i \in unbuilt :
        LET o == operations[i]
        IN  /\ stage = "build"
            /\ \A j \in unbuilt : o.start <= operations[j].start
            /\ unbuilt' = unbuilt \ {i}
            /\ physical' = physical \o Run!PhysicalGate(o.op, o.qubits)
            /\ IF o.routing
               THEN /\ at' = [l \in Qubits |->
                                IF at[l] = o.qubits[1] THEN o.qubits[2]
                                ELSE IF at[l] = o.qubits[2] THEN o.qubits[1]
                                ELSE at[l]]
                    /\ done' = done
               ELSE /\ done' = done \cup {o.id}
                    /\ at' = at
            /\ UNCHANGED <<routerVars, topologyVars, scheduleVars, stopRequested, stage>>

BuildEnds ==
    /\ stage = "build"
    /\ unbuilt = {}
    /\ stage' = "mapped"
    /\ UNCHANGED <<routerVars, topologyVars, scheduleVars, stopRequested, buildVars>>

\* The user interrupts the command; the request stays until the command ends.
RequestStop ==
    /\ stage = "assign"
    /\ ~stopRequested
    /\ stopRequested' = TRUE
    /\ UNCHANGED <<routerVars, topologyVars, scheduleVars, stage, buildVars>>

MapStep == \/ \E id \in GateIds(circuit) : RouteOneGate(id)
           \/ Routing \/ GateRouted \/ AssignmentEnds \/ BuildOperation \/ BuildEnds

-----------------------------------------------------------------------------
\* The gates the router has finished
Routed == {operations[i].id : i \in {j \in DOMAIN operations : ~operations[j].routing}}

\* Between two gates the waiting list holds exactly the gates that have not
\* been routed and whose predecessors all have, although the entries of
\* executed gates are dropped from the map as soon as it seems safe.
WaitlistExact ==
    (stage = "assign" /\ routingGate = {}) =>
        ToSet(availableGates) =
            {id \in GateIds(circuit) \ Routed : Requires(circuit, id) \subseteq Routed}

\* The physical circuit runs the logical circuit: sorting by start time and
\* writing SWAPs as CX keeps what the scheduler and the router decided.
MapsTheCircuit == Run!RunSpec

\* A call that ends without interruption has run every gate, each one once;
\* an interrupted call leaves no physical circuit behind.
MappedIsComplete ==
    /\ stage = "mapped" => /\ done = GateIds(circuit)
                           /\ Cardinality({i \in DOMAIN operations :
                                              ~operations[i].routing}) = NumGates
    /\ stage = "interrupted" => physical = <<>>
=============================================================================
