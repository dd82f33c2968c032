------------------------------ MODULE QCirToZX ------------------------------
(***************************************************************************)
(* From a circuit to a ZX graph (src/src/convert/qcir_to_zxgraph.cpp):     *)
(* every gate has a small graph of its own, its ZX form, and the forms are *)
(* concatenated in the order of the circuit.                               *)
(*                                                                         *)
(* A gate is a record: `op` names the operation, `phase` is its angle,     *)
(* `qubits` lists the qubits it acts on, the target of a controlled gate   *)
(* last.  A controlled gate has op "control" and the controlled operation  *)
(* in `of`.                                                                *)
(***************************************************************************)
EXTENDS ZXGraph, Integers

\* A phase is kept in (-pi, pi], so half of it has the sign of that interval.
Signed(p) == IF p > Pi THEN p - Turn ELSE p

\* get_gadget_phase: the angle over 2^(n-1), a multiple of pi/4 for the gates
\* modelled.
GadgetPhase(p, n) == (Signed(p) \div 2^(n - 1)) % Turn

\* A path of spiders from a new input q to a new output q, simple edges all the
\* way: the vertices are numbered input, spiders, output.
Path(g, q, spiders) ==
    LET Step(h, s) ==
          LET v == FreshId(h[1])
          IN <<AddEdge(AddVertex(h[1], s[1], s[2]), h[2], v, "simple"), v>>
        in  == FreshId(g)
        run == FoldLeft(Step, <<AddInput(g, q), in>>, spiders)
        out == FreshId(run[1])
    IN AddEdge(AddOutput(run[1], q), run[2], out, "simple")

SingleVertexForm(vt, p) == Path(EmptyGraph, 0, <<<<vt, p>>>>)
IdForm == Path(EmptyGraph, 0, <<>>)
RYForm(p) ==
    Path(EmptyGraph, 0, <<<<"z", Minus(0, HalfPi)>>, <<"x", p>>, <<"z", HalfPi>>>>)

\* Two paths of one spider each, joined: ids are in, spider, out of qubit 0 and
\* then of qubit 1.
PairForm(vt, et) ==
    AddEdge(Path(Path(EmptyGraph, 0, <<<<"z", 0>>>>), 1, <<<<vt, 0>>>>), 1, 4, et)

CXForm == PairForm("x", "simple")
CZForm == PairForm("z", "hadamard")

SwapForm ==
    LET g == AddOutput(AddInput(AddOutput(AddInput(EmptyGraph, 0), 0), 1), 1)
    IN AddEdge(AddEdge(g, 0, 3, "simple"), 2, 1, "simple")

ECRForm ==
    LET ends == AddOutput(AddInput(AddOutput(AddInput(EmptyGraph, 0), 0), 1), 1)
        g    == AddVertex(AddVertex(AddVertex(ends, "z", HalfPi), "x", HalfPi), "x", Pi)
        Wire(h, e) == AddEdge(h, e[1], e[2], "simple")
    IN FoldLeft(Wire, g, <<<<0, 4>>, <<4, 6>>, <<6, 1>>, <<2, 5>>, <<5, 3>>, <<4, 5>>>>)

\* create_multi_control_backbone: a phaseless spider on every qubit; for an x
\* or y rotation the target's is between Hadamard edges, and for y between
\* quarter turns as well.
Backbone(n, axis) ==
    LET Plain(g, q) ==
          LET h == AddOutput(AddVertex(AddInput(g, q), "z", 0), q)
              et == IF axis = "z" \/ q # n - 1 THEN "simple" ELSE "hadamard"
          IN AddEdge(AddEdge(h, 3 * q, 3 * q + 1, et), 3 * q + 1, 3 * q + 2, et)
        g == FoldLeft(Plain, EmptyGraph, [i \in 1..n |-> i - 1])
        t == 3 * n - 2
        h == AddIdentityVertex(g, t, t - 1, "z", "hadamard")
        k == AddIdentityVertex(h, t, t + 1, "z", "hadamard")
    IN IF axis # "y" THEN g
       ELSE Turned(Turned(k, 3 * n, Minus(0, HalfPi)), 3 * n + 1, HalfPi)

SpidersOf(n) == [i \in 1..n |-> 3 * i - 2]

\* The subsets of a list of ids of at least k members, smaller ones first.
SubsetsFrom(vs, k) ==
    LET all == {s \in SUBSET ToSet(vs) : Cardinality(s) >= k}
    IN SetToSortSeq(all, LAMBDA a, b : Cardinality(a) < Cardinality(b))

GadgetOn(g, s, p) ==
    AddGadget(g, IF Cardinality(s) % 2 = 1 THEN p ELSE Minus(0, p), Ascending(s))

\* create_multi_control_p_gate_gadgets
MCPForm(n, phase, axis) ==
    LET p    == GadgetPhase(phase, n)
        base == FoldLeft(LAMBDA g, v : Turned(g, v, p), Backbone(n, axis), SpidersOf(n))
    IN FoldLeft(LAMBDA g, s : GadgetOn(g, s, p), base, SubsetsFrom(SpidersOf(n), 2))

\* create_multi_control_r_gate_gadgets: the gadgets that touch the target.
MCRForm(n, phase, axis) ==
    LET p      == GadgetPhase(phase, n)
        target == 3 * n - 2
        base   == Turned(Backbone(n, axis), target, p)
    IN FoldLeft(LAMBDA g, s : GadgetOn(g, s \cup {target}, p), base,
                SubsetsFrom(SpidersOf(n - 1), 1))

Axis == [px |-> "x", py |-> "y", pz |-> "z", rx |-> "x", ry |-> "y", rz |-> "z"]

\* to_zxgraph(ControlGate): two gates have a form of their own.
ControlForm(gate) ==
    LET n == Len(gate.qubits)
    IN IF gate.of = "px" /\ n = 2 /\ gate.phase = Pi THEN CXForm
       ELSE IF gate.of = "pz" /\ n = 2 /\ gate.phase = Pi THEN CZForm
       ELSE IF gate.of \in {"px", "py", "pz"} THEN MCPForm(n, gate.phase, Axis[gate.of])
       ELSE MCRForm(n, gate.phase, Axis[gate.of])

GateForm(gate) ==
    CASE gate.op = "id"   -> IdForm
      [] gate.op = "h"    -> SingleVertexForm("h_box", Pi)
      [] gate.op = "swap" -> SwapForm
      [] gate.op = "ecr"  -> ECRForm
      [] gate.op \in {"pz", "rz"} -> SingleVertexForm("z", gate.phase)
      [] gate.op \in {"px", "rx"} -> SingleVertexForm("x", gate.phase)
      [] gate.op \in {"py", "ry"} -> RYForm(gate.phase)
      [] gate.op = "control" -> ControlForm(gate)

\* Every qubit starts as a wire from its input to its output.
Wires(n) ==
    FoldLeft(LAMBDA g, q : Path(g, q, <<>>), EmptyGraph, [i \in 1..n |-> i - 1])

ToZXGraph(n, gates) ==
    FoldLeft(LAMBDA g, gate : Concatenate(g, GateForm(gate), gate.qubits),
             Wires(n), gates)
=============================================================================
