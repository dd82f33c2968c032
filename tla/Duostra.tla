------------------------------- MODULE Duostra -------------------------------
(***************************************************************************)
(* Duostra::map (duostra/duostra.cpp): placement, mapping, and, with the    *)
(* option --check, the check of the physical circuit, for which the checker *)
(* asks the placer once more for the initial placement.                    *)
(***************************************************************************)
EXTENDS Mapper, Functions

(***************************************************************************)
(* duostra/placer.cpp: the assignments that the placers compute, as        *)
(* functions from logical qubit i to assignment[i].                        *)
(***************************************************************************)

\* DFSPlacer: the qubits in the order of a depth-first search from qubit 0.
\* What _dfs_device keeps on the call stack is the sequence of qubits waiting.
DeviceOrder(dev) ==
    LET visit(s, i) ==
            IF s.waiting = <<>> THEN s
            ELSE LET q == Head(s.waiting)
                 IN  IF q \in ToSet(s.seen)
                     THEN [s EXCEPT !.waiting = Tail(@)]
                     ELSE [seen |-> Append(s.seen, q),
                           waiting |-> dev[q] \o Tail(s.waiting)]
        visits == 1 + FoldFunction(LAMBDA adj, n : n + Len(adj), 0, dev)
    IN  FoldLeft(visit, [seen |-> <<>>, waiting |-> <<0>>],
                 [i \in 1 .. visits |-> i]).seen

DfsPlacement(dev) == [l \in 0 .. Len(DeviceOrder(dev)) - 1 |-> DeviceOrder(dev)[l + 1]]

\* StaticPlacer
StaticPlacement == [l \in Qubits |-> l]

\* place_and_assign: what the placer of a type may assign
Assignments(type, dev) ==
    CASE type = "naive" -> {StaticPlacement}
      [] type = "dfs" -> {DfsPlacement(dev)}
      [] type = "random" -> Bijection(Qubits, Qubits)

-----------------------------------------------------------------------------
VARIABLES order, swaps, labels, dependency, verdict,   \* the checker's
          placed, executed, followed                   \* and its history

checkerVars == <<order, swaps, labels, dependency, verdict, placed, executed, followed>>
duostraVars == <<mapVars, checkerVars>>

\* _physical_circuit: append numbers the gates.
PhysicalCircuit == [i \in DOMAIN physical |->
    [id |-> i - 1, op |-> physical[i].op, qubits |-> physical[i].qubits]]

Checker == INSTANCE MappingChecker WITH logical <- circuit, physical <- PhysicalCircuit

DuostraInit ==
    /\ MapInit
    /\ logicalToPhysical \in Assignments(job.placer, device)
    /\ Checker!NotChecked(StaticPlacement)

Map == MapStep /\ UNCHANGED checkerVars

Interrupt == RequestStop /\ UNCHANGED checkerVars

CheckBegins ==
    /\ stage = "mapped"
    /\ job.check
    /\ UNCHANGED mapVars
    /\ \E assignment \in Assignments(job.placer, device) : Checker!CheckBegins(assignment)

CheckRuns ==
    /\ stage = "mapped"
    /\ UNCHANGED mapVars
    /\ Checker!CheckStep

Returned == \/ stage = "interrupted"
            \/ stage = "mapped" /\ ~job.check
            \/ verdict \in {"accepted", "rejected"}

DuostraNext == \/ Map \/ CheckBegins \/ CheckRuns
               \/ Interrupt
               \/ Returned /\ UNCHANGED duostraVars

\* The mapping is ordinary sequential code and runs on; whether and when the
\* user interrupts it is open.
DuostraSpec == DuostraInit /\ [][DuostraNext]_duostraVars /\ WF_duostraVars(Map)

-----------------------------------------------------------------------------
\* The check "whether the mapping result is correct" (duostra_cmd.cpp:233)
\* never rejects what Duostra::map built, which MapsTheCircuit shows to be
\* correct: a SWAP of the router is never mistaken for gates of the circuit,
\* nor gates of the circuit for a SWAP.  The placer has to give the check the
\* placement of the mapping: RandomPlacer draws another one.
CheckAcceptsMapping == verdict # "rejected"

\* When the check accepts the circuit that Duostra::map built, it has found
\* every gate of the logical circuit in it and follows the qubits to the
\* places where the device has them.
CheckFollowsMapping ==
    verdict = "accepted" => executed = done /\ placed = at /\ labels = logicalQubit

\* What a call of Duostra::map hands over is complete, and --check agrees with it,
\* whichever scheduler and router decided and whenever the user interrupted.
MappingIsChecked == MappedIsComplete /\ CheckAcceptsMapping /\ CheckFollowsMapping

\* The mapping ends, interrupted or not: no scheduler waits for a gate that
\* never becomes available, no search or walk goes on for ever.
MappingEnds == <>(stage \in {"mapped", "interrupted"})
=============================================================================
