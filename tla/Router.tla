-------------------------------- MODULE Router --------------------------------
(***************************************************************************)
(* duostra/router.cpp: a Router brings the two logical qubits of a gate to *)
(* coupled physical qubits by SWAPs and gives every operation a start and  *)
(* an end time.  A router of type "duostra" searches from both ends at     *)
(* once for the cheapest meeting (duostra_routing, _touch_adjacency,       *)
(* _traceback); one of type "shortest_path" lets the two ends walk by the  *)
(* tables of DeviceTopology (apsp_routing).                                *)
(*                                                                         *)
(* The code routes one gate in one call.  Here the call is cut at the      *)
(* iterations of its loops, so that the invariants of the loops can be     *)
(* stated; phase says where the call is, and nothing else runs meanwhile.  *)
(***************************************************************************)
EXTENDS DeviceTopology, FiniteSetsExt

CONSTANTS Devices,   \* the devices to route on
          Configs,   \* records [duostra |-> _duostra, tieMin |-> _tie_breaking_strategy = min]
          Placements \* the assignments of a placer: logical qubit i to assignment[i]

\* The types of gates that the models name; "none" before the first one.
GateTypes == {"none", "h", "x", "z", "s", "sdg", "t", "tdg", "cx", "cz", "swap"}

\* A gate: its id, its operation, its logical qubits (one or two, control first).
IsGate(g) == /\ g.id \in Nat
             /\ g.op \in GateTypes
             /\ \/ \E a \in Qubits : g.qubits = <<a>>
                \/ \E a, b \in Qubits : a # b /\ g.qubits = <<a, b>>
             /\ g.op = "swap" => Len(g.qubits) = 2

ASSUME RouterAssumption ==
    /\ \A d \in Devices : IsDevice(d)
    /\ Configs \subseteq [duostra : BOOLEAN, tieMin : BOOLEAN]
    /\ Placements \subseteq Bijection(Qubits, Qubits)

VARIABLES
    device,             \* the adjacency lists of _device
    tables,             \* _distance and _predecessor of its topology
    config,             \* the type and the tie breaking of the router
    occupiedTime,       \* _occupied_time of every physical qubit
    logicalQubit,       \* _logical_qubit of every physical qubit
    logicalToPhysical,  \* _logical_to_physical of the router
    search,             \* the search fields of the physical qubits, and the queue
    phase,              \* where the call that routes a gate is
    gate,               \* the gate being routed
    ends,               \* the physical qubits it started from (t0, t1 / s0, s1)
    front,              \* q0, q1: where the two ends have got to
    swapIds,            \* swap_ids: t0 holds the second qubit of the gate
    pending,            \* operation_list of _traceback, not yet applied
    operations          \* the operations applied so far, in order

deviceVars == <<device, tables, config>>
routeVars == <<gate, ends, front, swapIds>>
routerVars == <<deviceVars, occupiedTime, logicalQubit, logicalToPhysical,
                search, phase, routeVars, pending, operations>>

-----------------------------------------------------------------------------
(* Helpers of Device and of the search.                                    *)

Larger(a, b) == IF a < b THEN b ELSE a

SwapDelay == 6

\* Device::get_delay, for the gates of one and two qubits that are routed
Delay(op, n) == CASE op = "swap" -> SwapDelay
                  [] op # "swap" /\ n = 1 -> 1
                  [] OTHER -> 2

\* GateInfo: an operation on physical qubits and its time.  The fields id, the
\* gate it was emitted for, and routing, is it a SWAP that the router adds, are
\* history.
GateOp(g, qubits, start) ==
    [op |-> g.op, qubits |-> qubits, start |-> start,
     end |-> start + Delay(g.op, Len(qubits)), id |-> g.id, routing |-> FALSE]

SwapOp(g, a, b, start) ==
    [op |-> "swap", qubits |-> <<a, b>>, start |-> start,
     end |-> start + SwapDelay, id |-> g.id, routing |-> TRUE]

On(o) == ToSet(o.qubits)

\* The labels after Device::apply_gate: every SWAP exchanges them, whether the
\* router added it or the circuit holds it.
LabelsAfter(o) ==
    IF o.op = "swap"
    THEN [logicalQubit EXCEPT ![o.qubits[1]] = logicalQubit[o.qubits[2]],
                              ![o.qubits[2]] = logicalQubit[o.qubits[1]]]
    ELSE logicalQubit

\* Device::apply_gate and the entry of the operation in the list
ApplyGate(o) ==
    /\ logicalQubit' = LabelsAfter(o)
    /\ occupiedTime' = [q \in Qubits |-> IF q \in On(o) THEN o.end
                                                        ELSE occupiedTime[q]]
    /\ operations' = Append(operations, o)

\* The loop over Device::mapping at the end of assign_gate
FollowLabels(labels) ==
    [l \in Qubits |-> IF \E q \in Qubits : labels[q] = l
                      THEN Max({q \in Qubits : labels[q] = l})
                      ELSE logicalToPhysical[l]]

\* PhysicalQubit::mark and take_route, for the set qs
Mark(s, qs, source, pred) ==
    [s EXCEPT !.marked = @ \cup qs,
              !.source = [q \in Qubits |-> IF q \in qs THEN source ELSE @[q]],
              !.pred = [q \in Qubits |-> IF q \in qs THEN pred ELSE @[q]]]

\* (mutant: the time at which the SWAP ends is taken for its start)
TakeRouteAtEnd(s, q, c, swapTime) ==
    [s EXCEPT !.taken = @ \cup {q},
              !.cost = [@ EXCEPT ![q] = c],
              !.swapTime = [@ EXCEPT ![q] = c]]

TakeRoute(s, q, c, swapTime) ==
    [s EXCEPT !.taken = @ \cup {q},
              !.cost = [@ EXCEPT ![q] = c],
              !.swapTime = [@ EXCEPT ![q] = swapTime]]

\* PhysicalQubit::reset on every qubit
ResetAll(s, occupied) == [s EXCEPT !.marked = {}, !.taken = {}, !.cost = occupied,
                                   !.queue = {}]

\* The neighbour i of q was taken from the other end.
Touches(s, q, source, i) == LET adj == device[q][i]
                            IN  /\ adj \in s.marked \cap s.taken
                                /\ s.source[adj] # source

\* What _touch_adjacency returns: has q met the other end, and where.
IsAdjacent(s, q, source) == \E i \in DOMAIN device[q] : Touches(s, q, source, i)
TouchedBy(s, q, source) ==
    device[q][Min({i \in DOMAIN device[q] : Touches(s, q, source, i)})]

\* _touch_adjacency: the unmarked neighbours that precede the first touching
\* one in the adjacency list are marked and pushed.
Fresh(s, q, source) ==
    {device[q][i] : i \in {j \in DOMAIN device[q] :
                              \A h \in 1 .. j : ~Touches(s, q, source, h)}} \ s.marked

\* When a SWAP of q and p can end (mutant: what p does before is forgotten)
ArrivalIgnoringNext(s, q, p) == s.cost[q] + SwapDelay
Arrival(s, q, p) == Larger(s.cost[q], occupiedTime[p]) + SwapDelay

TouchAdjacency(s, q, source) ==
    LET fresh == Fresh(s, q, source)
        node(p) == [id |-> p, source |-> source, cost |-> Arrival(s, q, p)]
    IN  [Mark(s, fresh, source, q) EXCEPT !.queue = @ \cup {node(p) : p \in fresh}]

\* AStarComp: the smallest cost first, then the smallest id
NodeBefore(m, n) == m.cost < n.cost \/ (m.cost = n.cost /\ m.id <= n.id)

-----------------------------------------------------------------------------
(* A search that has met: the gate is listed first by _traceback.          *)

\* (mutants: swap_ids is ignored; the gate waits for one of its qubits only)
MeetingGateUnswapped(s, q0, q1) ==
    GateOp(gate', <<q0, q1>>, Larger(s.cost[q0], s.cost[q1]))

MeetingGate(s, q0, q1) ==
    GateOp(gate', IF swapIds' THEN <<q1, q0>> ELSE <<q0, q1>>,
           Larger(s.cost[q0], s.cost[q1]))

Meet(s, q0, q1) == /\ phase' = "trace"
                   /\ front' = <<q0, q1>>
                   /\ pending' = {MeetingGate(s, q0, q1)}

Idle == phase = "idle"

\* The end at b is free earlier than the end at a, or the tie is broken for it.
IsSwapped(a, b) == \/ occupiedTime[a] > occupiedTime[b]
                   \/ /\ occupiedTime[a] = occupiedTime[b]
                      /\ config.tieMin
                      /\ logicalQubit[a] > logicalQubit[b]

\* The two ends are marked and taken, t0 as source 0 and t1 as source 1.
TakeEnds(s, t0, t1) ==
    LET s0 == TakeRoute(Mark(s, {t0}, FALSE, t0), t0, s.cost[t0], 0)
    IN  TakeRoute(Mark(s0, {t1}, TRUE, t1), t1, s0.cost[t1], 0)

\* Router::execute_single, from assign_gate
ExecuteSingle(g) ==
    LET q == logicalToPhysical[g.qubits[1]]
        o == GateOp(g, <<q>>, occupiedTime[q])
    IN  /\ Idle
        /\ Len(g.qubits) = 1
        /\ occupiedTime' = [occupiedTime EXCEPT ![q] = o.end]
        /\ operations' = Append(operations, o)
        /\ search' = [search EXCEPT !.marked = @ \ {q}, !.taken = @ \ {q},
                                    !.cost = [@ EXCEPT ![q] = o.end]]
        /\ gate' = g
        /\ UNCHANGED <<deviceVars, logicalQubit, logicalToPhysical, phase, ends,
                       front, swapIds, pending>>

\* duostra_routing, up to its loop.  The end that is free earlier is source 0.
DuostraRouting(g) ==
    LET a == logicalToPhysical[g.qubits[1]]
        b == logicalToPhysical[g.qubits[2]]
        swapped == IsSwapped(a, b)
        t0 == IF swapped THEN b ELSE a
        t1 == IF swapped THEN a ELSE b
    IN  /\ Idle
        /\ config.duostra
        /\ Len(g.qubits) = 2
        /\ gate' = g
        /\ ends' = <<t0, t1>>
        /\ swapIds' = swapped
        /\ \E s1 \in {TakeEnds(search, t0, t1)} :
           \E s2 \in {TouchAdjacency(s1, t0, FALSE)} :
              /\ search' = TouchAdjacency(s2, t1, TRUE)
              /\ \/ /\ IsAdjacent(s1, t0, FALSE)
                    /\ Meet(s2, t0, t1)
                 \/ /\ ~IsAdjacent(s1, t0, FALSE)
                    /\ phase' = "search"
                    /\ front' = <<t0, t1>>
                    /\ UNCHANGED pending
        /\ UNCHANGED <<deviceVars, occupiedTime, logicalQubit, logicalToPhysical,
                       operations>>

\* One iteration of the loop of duostra_routing: the node with the smallest
\* cost is taken and its neighbours are touched.
Propagate ==
    \E next \in search.queue :
        LET s1 == TakeRoute([search EXCEPT !.queue = @ \ {next}],
                            next.id, next.cost, next.cost - SwapDelay)
            met == IsAdjacent(s1, next.id, next.source)
            other == TouchedBy(s1, next.id, next.source)
            s2 == TouchAdjacency(s1, next.id, next.source)
        IN  /\ phase = "search"
            /\ \A n \in search.queue : NodeBefore(next, n)
            /\ search' = s2
            /\ UNCHANGED <<gate, ends, swapIds>>
            /\ \/ /\ met
                  /\ IF next.source THEN Meet(s2, other, next.id)
                                    ELSE Meet(s2, next.id, other)
               \/ /\ ~met
                  /\ UNCHANGED <<phase, front, pending>>
            /\ UNCHANGED <<deviceVars, occupiedTime, logicalQubit,
                           logicalToPhysical, operations>>

\* One iteration of a loop of _traceback: first the branch of t0, then of t1
\* (mutant: the trace does not move).
TraceBackStuck ==
    \E i \in {1, 2} :
        LET q == front[i]
        IN  /\ phase = "trace"
            /\ q # ends[i]
            /\ pending' = pending \cup {SwapOp(gate, q, search.pred[q], search.swapTime[q])}
            /\ UNCHANGED <<deviceVars, occupiedTime, logicalQubit, logicalToPhysical,
                           search, phase, routeVars, operations>>

TraceBack ==
    \E i \in {1, 2} :
        LET q == front[i]
            p == search.pred[q]
        IN  /\ phase = "trace"
            /\ q # ends[i]
            /\ i = 2 => front[1] = ends[1]
            /\ pending' = pending \cup {SwapOp(gate, q, p, search.swapTime[q])}
            /\ front' = [front EXCEPT ![i] = p]
            /\ UNCHANGED <<deviceVars, occupiedTime, logicalQubit,
                           logicalToPhysical, search, phase, gate, ends, swapIds,
                           operations>>

\* _traceback sorts the list by start time and applies it in that order.  The
\* sort is not stable, so among equal times any order is possible.
ApplyInOrder ==
    \E o \in pending :
        /\ \/ phase = "trace" /\ front = ends
           \/ phase = "apply"
        /\ \A other \in pending : o.start <= other.start
        /\ ApplyGate(o)
        /\ pending' = pending \ {o}
        /\ phase' = "apply"
        /\ UNCHANGED <<deviceVars, logicalToPhysical, search, routeVars>>

\* The end of duostra_routing and of assign_gate
FinishDuostra ==
    /\ phase = "apply"
    /\ pending = {}
    /\ phase' = "idle"
    /\ search' = ResetAll(search, occupiedTime)
    /\ logicalToPhysical' = FollowLabels(logicalQubit)
    /\ UNCHANGED <<deviceVars, occupiedTime, logicalQubit, routeVars, pending,
                   operations>>

-----------------------------------------------------------------------------
(* apsp_routing                                                            *)

ApspRouting(g) ==
    LET a == logicalToPhysical[g.qubits[1]]
        b == logicalToPhysical[g.qubits[2]]
    IN  /\ Idle
        /\ ~config.duostra
        /\ Len(g.qubits) = 2
        /\ gate' = g
        /\ ends' = <<a, b>>
        /\ front' = <<a, b>>
        /\ swapIds' = FALSE
        /\ phase' = "walk"
        /\ UNCHANGED <<deviceVars, occupiedTime, logicalQubit, logicalToPhysical,
                       search, pending, operations>>

\* Device::get_next_swap_cost
\* (mutant: row and column exchanged)
NextHopTransposed(q, target) == tables.pred[q][target]
NextHop(q, target) == tables.pred[target][q]
SwapCost(q, next) == Larger(occupiedTime[q], occupiedTime[next])

FrontAdjacent == IsAdjacency(device, front[1], front[2])

\* One iteration of the loop: the end whose next SWAP can start earlier moves.
\* The hops are qubits (PredecessorsAreHops), which the code asserts.
ApspSwap ==
    LET q0 == front[1]
        q1 == front[2]
        n0 == NextHop(q0, ends[2])
        n1 == NextHop(q1, ends[1])
        c0 == SwapCost(q0, n0)
        c1 == SwapCost(q1, n1)
        moveFirst == \/ c0 < c1
                     \/ /\ c0 = c1
                        /\ config.tieMin
                        /\ logicalQubit[q0] < logicalQubit[q1]
    IN  /\ phase = "walk"
        /\ ~FrontAdjacent
        /\ n0 \in Qubits /\ n1 \in Qubits
        /\ IF moveFirst
           THEN ApplyGate(SwapOp(gate, q0, n0, c0)) /\ front' = <<n0, q1>>
           ELSE ApplyGate(SwapOp(gate, q1, n1, c1)) /\ front' = <<q0, n1>>
        /\ UNCHANGED <<deviceVars, logicalToPhysical, search, phase, gate, ends,
                       swapIds, pending>>

\* The gate itself, and the end of assign_gate
ApspGate ==
    LET o == GateOp(gate, front, SwapCost(front[1], front[2]))
    IN  /\ phase = "walk"
        /\ FrontAdjacent
        /\ ApplyGate(o)
        /\ logicalToPhysical' = FollowLabels(LabelsAfter(o))
        /\ phase' = "idle"
        /\ UNCHANGED <<deviceVars, search, routeVars, pending>>

-----------------------------------------------------------------------------
\* Router::assign_gate
AssignGate(g) == ExecuteSingle(g) \/ DuostraRouting(g) \/ ApspRouting(g)

RouteStep == \/ Propagate \/ TraceBack \/ ApplyInOrder \/ FinishDuostra
             \/ ApspSwap \/ ApspGate

NoSearch == [marked |-> {}, taken |-> {}, queue |-> {},
             source |-> [q \in Qubits |-> FALSE],
             pred |-> [q \in Qubits |-> 0],
             cost |-> [q \in Qubits |-> 0],
             swapTime |-> [q \in Qubits |-> 0]]

\* Device::place on a fresh device, and Router::_initialize on the result.  The
\* tables are those of read_device; no gate has been routed.
RouterInit ==
    /\ device \in Devices
    /\ tables = CalculatePath(device)
    /\ config \in Configs
    /\ occupiedTime = [q \in Qubits |-> 0]
    /\ logicalToPhysical \in Placements
    /\ logicalQubit = [q \in Qubits |->
                          CHOOSE l \in Qubits : logicalToPhysical[l] = q]
    /\ search = NoSearch
    /\ phase = "idle"
    /\ gate = [id |-> 0, op |-> "none", qubits |-> <<0>>]
    /\ ends = <<0, 0>>
    /\ front = <<0, 0>>
    /\ swapIds = FALSE
    /\ pending = {}
    /\ operations = <<>>

-----------------------------------------------------------------------------
TimedOps == {o \in [op : GateTypes, qubits : Seq(Qubits), start : Nat, end : Nat,
                    id : Nat, routing : BOOLEAN] :
                /\ Len(o.qubits) \in {1, 2}
                /\ o.op = "swap" => Len(o.qubits) = 2
                /\ o.start < o.end}

Nodes == [id : Qubits, source : BOOLEAN, cost : Nat]

Searches == [marked : SUBSET Qubits, taken : SUBSET Qubits, queue : SUBSET Nodes,
             source : [Qubits -> BOOLEAN], pred : [Qubits -> Qubits],
             cost : [Qubits -> Nat], swapTime : [Qubits -> Nat]]

RouterTypeOK ==
    /\ device \in Devices
    /\ config \in Configs
    /\ occupiedTime \in [Qubits -> Nat]
    /\ logicalQubit \in [Qubits -> Qubits]
    /\ logicalToPhysical \in [Qubits -> Qubits]
    /\ search \in Searches
    /\ search.taken \subseteq search.marked
    /\ phase \in {"idle", "search", "trace", "apply", "walk"}
    /\ IsGate(gate)
    /\ ends \in Qubits \X Qubits
    /\ front \in Qubits \X Qubits
    /\ swapIds \in BOOLEAN
    /\ pending \subseteq TimedOps
    /\ operations \in Seq(TimedOps)

\* Every logical qubit stays on exactly one physical qubit, and when no call
\* runs the router's own table agrees with the labels of the device: the two
\* copies are changed at different times (apply_gate, end of assign_gate).
PlacementConsistent ==
    /\ \A p, q \in Qubits : logicalQubit[p] = logicalQubit[q] => p = q
    /\ \A l \in Qubits : \E q \in Qubits : logicalQubit[q] = l
    /\ Idle => \A l \in Qubits : logicalQubit[logicalToPhysical[l]] = l

\* Operations that share a physical qubit do not overlap in time, and they
\* are listed in the order of their times: the scheduler later sorts the list
\* by start time and builds the physical circuit from it.
NoOverlap ==
    \A i, j \in DOMAIN operations :
        (i < j /\ On(operations[i]) \cap On(operations[j]) # {}) =>
            operations[i].end <= operations[j].start

\* Every operation on two qubits that is emitted is on a coupled pair.
OnCoupledPairs ==
    \A i \in DOMAIN operations :
        LET qs == operations[i].qubits
        IN  Len(qs) = 2 => IsAdjacency(device, qs[1], qs[2])

\* A SWAP of q, which is reached over a coupled pair from a qubit p that the
\* same end has taken, may end at time c: p and q are free for it before.
Reaches(s, p, q, c) ==
    /\ p \in s.taken
    /\ IsAdjacency(device, p, q)
    /\ s.source[p] = s.source[q]
    /\ c >= s.cost[p] + SwapDelay
    /\ c >= occupiedTime[q] + SwapDelay

\* The state of a search from the ends e0 and e1.
GrownFrom(s, e0, e1) ==
    /\ s.taken \subseteq s.marked
    /\ {e0, e1} \subseteq s.taken
    /\ ~s.source[e0] /\ s.source[e1]
    /\ \A q \in s.taken : s.cost[q] >= occupiedTime[q]
    /\ \A q \in s.taken \ {e0, e1} : /\ Reaches(s, s.pred[q], q, s.cost[q])
                                     /\ s.cost[q] = s.swapTime[q] + SwapDelay
    /\ \A n \in s.queue : /\ n.id \in s.marked \ s.taken
                          /\ s.source[n.id] = n.source
                          /\ Reaches(s, s.pred[n.id], n.id, n.cost)
    /\ \A m, n \in s.queue : m.id = n.id => m = n

\* Until the search has met and the chains are traced, each taken qubit except
\* an end was reached over a coupled pair from a qubit taken earlier by the same
\* end, and the SWAP along that pair fits behind what the two qubits do before:
\* _traceback turns the two chains of predecessors into operations without
\* looking at times again.
SearchForest ==
    phase \in {"search", "trace"} => GrownFrom(search, ends[1], ends[2])

\* Operations that share a qubit follow one another.
InTurn(o1, o2) == On(o1) \cap On(o2) # {} => o1.end <= o2.start \/ o2.end <= o1.start

\* The operations of _traceback, of which the order of application is only
\* decided by sorting, wait for their qubits and never want one at the same time.
PendingFit ==
    /\ \A o \in pending, q \in Qubits : q \in On(o) => occupiedTime[q] <= o.start
    /\ \A o1, o2 \in pending : o1 = o2 \/ InTurn(o1, o2)

\* What the trace of an end has still to list comes before what is listed.
TraceGoesBack ==
    phase = "trace" =>
        /\ front[1] \in search.taken /\ ~search.source[front[1]]
        /\ front[2] \in search.taken /\ search.source[front[2]]
        /\ \A o \in pending, q \in Qubits : q \in On(o) =>
              /\ q \in search.taken
              /\ o.start >= search.cost[front[IF search.source[q] THEN 2 ELSE 1]]

\* No operation lasts longer than its qubits are occupied.
Occupied == \A i \in DOMAIN operations, q \in Qubits :
                q \in On(operations[i]) => operations[i].end <= occupiedTime[q]

PhasesOfRouters == /\ pending # {} => phase \in {"trace", "apply"}
                   /\ phase = "walk" => ~config.duostra

\* Between gates no qubit carries a mark of an earlier search, nothing is left
\* in the queue, and the cost of every qubit is the time it is free from: the
\* next search starts from all three.
SearchStartsFresh ==
    Idle /\ config.duostra =>
        /\ search.marked = {}
        /\ search.queue = {}
        /\ search.cost = occupiedTime

\* The gate is applied exactly to the physical qubits that hold its logical
\* qubits at that moment, control first, although the two ends may have been
\* exchanged (swap_ids) and both have moved.
AppliedWhereItIs ==
    Len(operations') > Len(operations) =>
        LET o == Last(operations')
        IN  ~o.routing => \A i \in DOMAIN o.qubits : logicalQubit[o.qubits[i]] = gate'.qubits[i]

GateOnItsQubits == [][AppliedWhereItIs]_routerVars

-----------------------------------------------------------------------------
(* What the parts of a call keep, for OnCoupledPairs and GateOnItsQubits.  *)

\* The hops of the tables are over coupled pairs.
HopsAreCoupled ==
    /\ tables.pred \in [Qubits -> [Qubits -> Qubits \cup {NoQubit}]]
    /\ \A i, j \in Qubits :
          tables.pred[i][j] \in Qubits => IsAdjacency(device, tables.pred[i][j], j)

\* So are the operations that wait to be applied.
PendingCoupled ==
    \A o \in pending : Len(o.qubits) = 2 => IsAdjacency(device, o.qubits[1], o.qubits[2])

\* The logical qubit that end i of a call brings to the other one
Brought(i) == gate.qubits[IF swapIds THEN 3 - i ELSE i]

\* Until operations are applied the ends hold these qubits, and so do the two walkers.
EndsHoldGate ==
    /\ phase # "idle" => Len(gate.qubits) = 2
    /\ phase \in {"search", "trace"} => \A i \in {1, 2} : logicalQubit[ends[i]] = Brought(i)
    /\ phase = "walk" => \A i \in {1, 2} : logicalQubit[front[i]] = gate.qubits[i]

\* Where the chain of end i begins that is still to be applied: at the front of its trace,
\* and when operations are applied, where they have brought its logical qubit.
Begins(i, c) == IF phase = "trace" THEN c = front[i] ELSE logicalQubit[c] = Brought(i)

\* The qubits that the SWAPs which wait lead to, and the places where the two ends meet
Entered == {o.qubits[1] : o \in {s \in pending : s.routing}}
Meeting(o, i) == o.qubits[IF swapIds THEN 3 - i ELSE i]

\* The SWAPs that wait are the chains of predecessors from the meeting back to where the
\* chains begin, each one entered after its predecessor.
ChainsLead ==
    phase = "trace" \/ pending # {} =>
        /\ \A o \in pending : o.routing =>
              /\ o.qubits[1] \in search.taken \ {ends[1], ends[2]}
              /\ o = SwapOp(gate, o.qubits[1], search.pred[o.qubits[1]],
                            search.swapTime[o.qubits[1]])
        /\ \A p, q \in Entered : search.pred[p] = search.pred[q] => p = q
        /\ \A i \in {1, 2}, c \in Qubits : Begins(i, c) =>
              /\ c \in search.taken /\ search.source[c] = (i = 2)
              /\ \A q \in Entered : search.source[q] = (i = 2) =>
                    /\ search.cost[c] < search.cost[q]
                    /\ search.pred[q] \in Entered \cup {c}
              /\ \A o \in pending : ~o.routing => Meeting(o, i) \in Entered \cup {c}

\* One of the operations that wait is the gate, which ends the chains: the two ends have
\* come to where it is, one of each tree, and it starts when both are there.
GateEndsChains ==
    phase = "trace" \/ pending # {} => \E o \in pending :
        /\ \A other \in pending : ~other.routing => other = o
        /\ o.op = gate.op /\ o.id = gate.id /\ ~o.routing /\ Len(o.qubits) = 2
        /\ \A i \in {1, 2} :
              /\ Meeting(o, i) \in search.taken
              /\ search.source[Meeting(o, i)] = (i = 2)
              /\ o.start >= search.cost[Meeting(o, i)]
              /\ \A q \in Entered : search.source[q] = (i = 2) =>
                    search.cost[q] <= search.cost[Meeting(o, i)]

\* The trees that the chains are read from stay as they are while operations are applied.
TreesStay ==
    phase \in {"search", "trace", "apply"} =>
        /\ ~search.source[ends[1]] /\ search.source[ends[2]]
        /\ \A q \in search.taken \ {ends[1], ends[2]} :
              /\ search.pred[q] \in search.taken
              /\ search.source[search.pred[q]] = search.source[q]
              /\ search.cost[q] = search.swapTime[q] + SwapDelay
              /\ search.cost[q] > search.cost[search.pred[q]]

\* The inductive invariant of the places: the parts from which each call keeps
\* OnCoupledPairs and GateOnItsQubits.
PlacesInv == /\ OnCoupledPairs
             /\ HopsAreCoupled
             /\ PendingCoupled
             /\ EndsHoldGate
             /\ ChainsLead
             /\ GateEndsChains
             /\ TreesStay

\* The inductive invariant of the times: the parts from which each call keeps NoOverlap
\* and PlacementConsistent.
TimesInv == /\ RouterTypeOK
            /\ PlacementConsistent
            /\ NoOverlap
            /\ Occupied
            /\ SearchForest
            /\ SearchStartsFresh
            /\ PendingFit
            /\ TraceGoesBack
            /\ PhasesOfRouters

RouterInv == TimesInv /\ PlacesInv
=============================================================================
