--------------------------- MODULE ExtractSession ---------------------------
(***************************************************************************)
(* From a ZX graph back to a circuit, as a user does it: the graph of a    *)
(* circuit is reduced, or a graph is read, and then either `convert zx     *)
(* qcir` (cmd/conversion_cmd.cpp) extracts a copy of it, or `extract step` *)
(* (cmd/extractor_cmd.cpp) extracts the graph itself bit by bit, every     *)
(* time with a new Extractor.                                              *)
(*                                                                         *)
(* extraction_loop is one step for each iteration.  Ctrl-C is looked at    *)
(* between two of them.                                                    *)
(***************************************************************************)
EXTENDS Simplifier, Extractor, ZXMeaning

CONSTANTS
    Circuits,  \* [n, gates, asked, config, commands]: a circuit of n qubits, the routine
               \* its graph is reduced with, `extract config`, and the commands that follow
    Reading    \* [graph, config, commands]: the same, for a graph-like graph from a file

VARIABLES pc,       \* "simplifying", "idle", "looping", how the loop was left, how it ended
          circuit,  \* the gates of the circuit that `extract step` extracts to
          work,     \* the Extractor of a loop, or NoWork
          mode,     \* what runs the loop: "convert" or "step", and its iterations left
          config,   \* the settings; bound: they stay what they are
          ref,      \* what the graph meant; no code reads it
          flow,     \* the verdicts of `zx gflow` on it, and whether they are right
          exact,    \* no command that is known to lose a gate has done so
          left      \* commands left

vars == <<graph, frames, stopped, pc, circuit, work, mode, config, ref, flow, exact, left>>
extractVars == <<circuit, work, mode, config, ref, flow, exact, left>>

NoWork == [graph |-> EmptyGraph]
Convert == [name |-> "convert"]

Verdicts(g) ==
    LET Judged(plane, all) ==
          [plane |-> plane.valid, planeHolds |-> plane.valid /\ IsGFlow(g, plane),
           allHolds |-> all.valid /\ IsGFlow(g, all)]
    IN Judged(CalculateGFlow(g, FALSE), CalculateGFlow(g, TRUE))

\* What is known of the graph that is to be extracted
Known(g, meaning, verdicts) == meaning = Tabulated(GraphMap(g)) /\ verdicts = Verdicts(g)
Unknown(meaning, verdicts)  == meaning = <<>> /\ verdicts = <<>>

Init ==
    /\ stopped = FALSE /\ circuit = <<>> /\ work = NoWork /\ mode = Convert /\ exact = TRUE
    /\ \/ \E c \in Circuits :
             /\ graph = ToZXGraph(c.n, c.gates)
             /\ frames = <<Entered(c.asked)>> /\ pc = "simplifying"
             /\ config = c.config /\ left = c.commands
             /\ Unknown(ref, flow)
       \/ \E r \in Reading :
             /\ graph = r.graph
             /\ frames = <<>> /\ pc = "idle"
             /\ config = r.config /\ left = r.commands
             /\ Known(graph, ref, flow)

Reduce == pc = "simplifying" /\ Simplify /\ UNCHANGED <<pc, extractVars>>

Reduced ==
    /\ pc = "simplifying" /\ ~Running
    /\ pc' = "idle" /\ Known(graph, ref', flow')
    /\ UNCHANGED <<svars, circuit, work, mode, config, exact, left>>

Command == pc = "idle" /\ left > 0 /\ left' = left - 1 /\ IsGraphLike(graph)

----------------------------------------------------------------------------
\* The loop

BeginLoop(gates, m) ==
    /\ pc = "idle" /\ left > 0 /\ IsGraphLike(graph)
    /\ pc' = "looping" /\ mode' = m /\ stopped' = FALSE
    /\ work' = Initialize(graph, gates)
    /\ UNCHANGED <<graph, frames, circuit, config>>

\* What is converted is the graph as the steps before have left it.  Bound: nothing
\* comes after a conversion.
ConvertToQCir ==
    /\ BeginLoop(<<>>, Convert)
    /\ left' = 0 /\ exact' = ~work'.lost /\ Known(graph, ref', flow')

StepLoop ==
    /\ \E n \in 1 .. 2 : BeginLoop(circuit, [name |-> "step", iterations |-> n])
    /\ left' = left - 1 /\ exact' = (exact /\ ~work'.lost)
    /\ UNCHANGED <<ref, flow>>

MoreIterations == mode.name = "step" => mode.iterations > 0

\* What every iteration starts with
Cleaned == UpdateNeighbors(CleanFrontier(work, config))
Iterating == pc = "looping" /\ MoreIterations /\ ~stopped
CountDown == mode' = IF mode.name = "step" THEN [mode EXCEPT !.iterations = @ - 1] ELSE mode

\* An output whose spider is gone has no neighbour; the first one is read all the same.
AfterRemoval(g) == IF \E o \in Outputs(g) : g.nbr[o] = <<>> THEN "crashed" ELSE pc

NoFrontierLeft ==
    /\ Iterating
    /\ work' = Cleaned /\ work'.frontier = <<>>
    /\ pc' = "finishing"
    /\ UNCHANGED <<svars, circuit, mode, config, ref, flow, exact, left>>

\* Gadgets first; this iteration is not counted.  With --random the neighbours are
\* shuffled.
IterateOnGadgets ==
    /\ Iterating
    /\ LET Orders(x, near) == IF config.random THEN SetToSeqs(near)
                             ELSE {SelectSeq(x.neighbors, LAMBDA v : v \in near)}
           Removal(x) == /\ x.frontier # <<>> /\ HasGadget(x)
                        /\ \E order \in Orders(x, ToSet(x.neighbors) \cap x.axels) :
                              work' = RemoveGadgets(x, config, order)
       IN Removal(Cleaned)
    /\ UNCHANGED <<svars, pc, circuit, mode, config, ref, flow, exact, left>>

IterateOnMatrix ==
    /\ Iterating
    /\ LET Freed(x) == IF config.dynamic THEN ExtractCZs(x, config.reduce) ELSE x
           Ready(x) == IF ContainsSingleNeighbor(x) THEN x ELSE ExtractCXs(x, config)
           Goes(x)  == /\ work' = ExtractHadamards(x)
                       \* "No hadamard gates to extract from the matrix!!"
                       /\ pc' = IF OneHotPairs(x) = <<>> THEN "stuck"
                                ELSE AfterRemoval(work'.graph)
           Under(x) == IF ~ContainsSingleNeighbor(x) /\ ReadsNoMatrix(x, config)
                       THEN pc' = "crashed" /\ UNCHANGED work
                       ELSE Goes(Ready(x))
           Start(x) == x.frontier # <<>> /\ ~HasGadget(x) /\ Under(Freed(x))
       IN Start(Cleaned)
    /\ CountDown
    /\ UNCHANGED <<svars, circuit, config, ref, flow, exact, left>>

StopIterating ==
    /\ pc = "looping" /\ ~(MoreIterations /\ ~stopped)
    /\ pc' = IF mode.name = "step" THEN "finishing" ELSE "stopping"
    /\ UNCHANGED <<svars, extractVars>>

\* extract(): the qubits are permuted, and the new circuit gets the focus.  A loop of
\* `extract step` leaves the graph and the circuit as they are now.
Finish ==
    /\ pc \in {"finishing", "stuck", "stopping"}
    /\ LET x == IF pc = "finishing" /\ mode.name = "convert" /\ config.permute
                THEN PermuteQubits(work) ELSE work
       IN IF mode.name = "convert"
          THEN /\ pc' = IF pc = "finishing" THEN "converted" ELSE "nothing"
               /\ work' = x /\ UNCHANGED <<graph, circuit>>
          ELSE /\ pc' = "idle" /\ work' = NoWork
               /\ graph' = x.graph /\ circuit' = x.circuit
    /\ UNCHANGED <<frames, stopped, mode, config, ref, flow, exact, left>>

InterruptLoop ==
    /\ pc = "looping" /\ MoreIterations /\ ~stopped
    /\ stopped' = TRUE
    /\ UNCHANGED <<graph, frames, pc, extractVars>>

----------------------------------------------------------------------------
\* `extract step` with one of the stages, and `extract print`: a new Extractor is
\* initialized on the graph, and then does what is asked for.

ByStage(x, stage) ==
    CASE stage = "clear"    -> CleanFrontier(x, config)
      [] stage = "phase"    -> ExtractSingles(x)
      [] stage = "cz"       -> IF FrontierIsCleanedForCZ(x) THEN ExtractCZs(x, config.reduce) ELSE x
      [] stage = "hadamard" -> IF FrontierIsCleaned(x) /\ ~AxelInNeighbors(x)
                               THEN ExtractHadamards(x) ELSE x
      [] stage = "gadgets"  -> IF x.frontier # <<>> /\ FrontierIsCleaned(x)
                               THEN RemoveGadgets(x, config, x.neighbors) ELSE x
      [] stage = "permute"  -> PermuteQubits(x)

Stages == {"clear", "phase", "cz", "hadamard", "gadgets", "permute"}

StepStage ==
    /\ Command
    /\ \E stage \in Stages :
          LET With(x) == graph' = x.graph /\ circuit' = x.circuit /\ exact' = (exact /\ ~x.lost)
                     /\ pc' = AfterRemoval(x.graph)
          IN With(ByStage(Initialize(graph, circuit), stage))
    /\ UNCHANGED <<frames, stopped, work, mode, config, ref, flow>>

StepCX ==
    /\ Command
    /\ LET Leave(x) == /\ graph' = x.graph /\ circuit' = x.circuit
                       /\ exact' = (exact /\ ~x.lost) /\ UNCHANGED pc
           Check(x) == IF ~FrontierIsCleaned(x) \/ AxelInNeighbors(x) THEN Leave(x)
                       ELSE IF ReadsNoMatrix(x, config)
                            THEN pc' = "crashed" /\ UNCHANGED <<graph, circuit, exact>>
                            ELSE Leave(EliminateTwice(x, config))
       IN Check(Initialize(graph, circuit))
    /\ UNCHANGED <<frames, stopped, work, mode, config, ref, flow>>

\* The Extractor has a circuit of its own, that is thrown away.
PrintExtraction ==
    /\ Command
    /\ LET With(x) == graph' = x.graph /\ exact' = (exact /\ ~x.lost /\ x.circuit = <<>>)
       IN With(Initialize(graph, <<>>))
    /\ UNCHANGED <<frames, stopped, pc, circuit, work, mode, config, ref, flow>>

Next ==
    \/ Reduce \/ Reduced
    \/ ConvertToQCir \/ StepLoop
    \/ NoFrontierLeft \/ IterateOnGadgets \/ IterateOnMatrix \/ StopIterating \/ Finish
    \/ InterruptLoop
    \/ StepStage \/ StepCX \/ PrintExtraction

Spec == Init /\ [][Next]_vars

----------------------------------------------------------------------------
\* A graph followed by gates: the map of both.
Followed(g, gates) ==
    LET qs == DOMAIN g.outs
        m  == Tabulated(GraphMap(g))
        Ports1(s, side) == {<<side, q>> : q \in s}
        From(s) == FoldLeft(GateOn, [r \in SUBSET qs |-> m[Ports1(s, "in") \cup Ports1(r, "out")]], gates)
        images == Tabulated([s \in SUBSET qs |-> Tabulated(From(s))])
    IN [ps \in SUBSET Ports(g) |->
          images[{q \in qs : <<"in", q>> \in ps}][{q \in qs : <<"out", q>> \in ps}]]

MeansTheSame(g, gates) == Proportional(Tabulated(Followed(g, gates)), ref)

\* The graph has a generalized flow: one that the code finds, and that is one.
HasFlow == flow.planeHolds \/ flow.allHolds

\* After every stage and every iteration, what is left of the graph followed by the gates
\* extracted so far means what the graph did, whatever the settings, in whatever order
\* the stages were asked for, and whenever the loop was stopped.
MeaningKept ==
    (exact /\ flow # <<>> /\ HasFlow) =>
       /\ pc = "idle" => MeansTheSame(graph, circuit)
       /\ work # NoWork => MeansTheSame(work.graph, work.circuit)

\* A graph with a generalized flow is extracted to the end: the loop never runs out of
\* Hadamards, and when the qubits have been permuted no more than straight wires are left.
FlowExtracts ==
    /\ (pc = "stuck" \/ (pc = "crashed" /\ work # NoWork)) => ~HasFlow
    /\ (pc = "converted" /\ config.permute) => IsWires(work.graph) /\ Matched(work.graph)

\* "GFlow exists." of `zx gflow --only-xy-plane` is true: the correction sets that the
\* linear systems gave are those of a generalized flow, by its definition.
FlowSound == flow # <<>> => (flow.plane => flow.planeHolds)

----------------------------------------------------------------------------
\* What a user takes `convert zx qcir` to promise, and the tests check with `tensor equiv`
\* (tests/conversion/zx2qc): the circuit is that of the graph.  It is not when a spider of
\* phase 0 is between an input and a Hadamard edge to an output.
ConvertedIsTheGraph == pc = "converted" => MeansTheSame(work.graph, work.circuit)
=============================================================================
