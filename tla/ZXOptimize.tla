----------------------------- MODULE ZXOptimize -----------------------------
(***************************************************************************)
(* The commands that work on a ZX graph: zx optimize and zx rule           *)
(* (cmd/zx/simp_cmd.cpp), zx compose, tensor-product and adjoint           *)
(* (cmd/zx_cmd.cpp).  A session starts with the graph of a circuit.  A     *)
(* reduction is a routine or a rule of the simplifier, or causal_flow_opt  *)
(* (simplifier/causal-flow-opt.cpp), which tries its matches the best first*)
(* and takes back the ones that cost the graph its causal flow.            *)
(***************************************************************************)
EXTENDS Simplifier, ZXMeaning

(***************************************************************************)
(* Whether a ZX graph has a causal flow (zx/flow/causal-flow.cpp).         *)
(* Starting from the outputs, a processed vertex with one unprocessed      *)
(* neighbour left corrects that neighbour; every round processes all the   *)
(* neighbours that can be corrected.                                       *)
(***************************************************************************)

Pending(g, v, processed) == NeighborIds(g, v) \ processed

\* Mutant: a corrector with two neighbours left corrects both.
ReadyForTwo(g, s) == {v \in s.correctors : Cardinality(Pending(g, v, s.processed)) <= 2}

\* A corrector is ready when at most one neighbour is left.  One with none left
\* makes the code read the first element of an empty vector.
Ready(g, s) == {v \in s.correctors : Cardinality(Pending(g, v, s.processed)) <= 1}
ReadsNothing(g, s) == \E v \in Ready(g, s) : Pending(g, v, s.processed) = {}

FlowStart(g) == [processed |-> Outputs(g), correctors |-> Outputs(g) \ Inputs(g)]

FlowRound(g, s) ==
    LET found == UNION {Pending(g, v, s.processed) : v \in Ready(g, s)}
    IN [processed  |-> s.processed \cup found,
        correctors |-> (s.correctors \ Ready(g, s)) \cup (found \ Inputs(g))]

\* The rounds of loop_through_correctors: it stops when nobody is ready.  A round
\* in which nobody reads from an empty vector processes at least one vertex.
FlowRounds(g) ==
    LET round[n \in 0..Cardinality(Vertices(g))] ==
          IF n = 0 THEN FlowStart(g)
          ELSE LET s == round[n - 1]
               IN IF Ready(g, s) = {} \/ ReadsNothing(g, s) THEN s ELSE FlowRound(g, s)
    IN round[Cardinality(Vertices(g))]

\* has_causal_flow: what the loop returns, "undefined" when it read nothing.
CausalFlowVerdict(g) ==
    LET last == FlowRounds(g)
    IN IF ReadsNothing(g, last) THEN "undefined"
       ELSE IF last.processed = Vertices(g) THEN "yes" ELSE "no"

----------------------------------------------------------------------------
\* What a causal flow is: every vertex but the outputs has a corrector of its
\* own among its neighbours, none of them an input, and there is an order in
\* which a vertex comes before its corrector and before the other neighbours of
\* its corrector.

\* All the ways to give every vertex a corrector of its own.
Corrections(g) ==
    LET Extend(fs, v) ==
          {v :> w @@ f : <<f, w>> \in
             {x \in fs \X (NeighborIds(g, v) \ Inputs(g)) :
                \A u \in DOMAIN x[1] : x[1][u] # x[2]}}
    IN FoldLeft(Extend, {<<>>}, Ascending(Vertices(g) \ Outputs(g)))

Followers(g, f, v) ==
    IF v \in DOMAIN f THEN ({f[v]} \cup NeighborIds(g, f[v])) \ {v} ELSE {}

\* An order exists when taking away, again and again, the vertices that come
\* before nothing that is left takes all of them away.
IsOrderable(g, f) ==
    LET rest[n \in 0..Cardinality(Vertices(g))] ==
          IF n = 0 THEN Vertices(g)
          ELSE LET left == rest[n - 1]
               IN {v \in left : Followers(g, f, v) \cap left # {}}
    IN rest[Cardinality(Vertices(g))] = {}

HasCausalFlow(g) == \E f \in Corrections(g) : IsOrderable(g, f)

-----------------------------------------------------------------------------
(***************************************************************************)
(* The matches that causal_flow_opt tries (rules/rule-matchers.cpp) and    *)
(* what each of them is worth (heuristics.cpp): by how much it decreases   *)
(* the edges less the vertices, the 2-qubit gates of the circuit that a    *)
(* graph with a causal flow stands for.                                    *)
(***************************************************************************)

IsRegularAt(g, v) ==
    \A e \in ToSet(g.nbr[v]) :
       IsBoundary(g, e[1]) \/ (g.type[e[1]] = "z" /\ e[2] = "hadamard")

BoundaryIds(g, v) == {w \in NeighborIds(g, v) : IsBoundary(g, w)}

\* At least two neighbours are kept fused, or a rule could be undone by the next.
MaxUnfusions(n, max) == IF n <= 2 THEN 0 ELSE IF n - 2 < max THEN n - 2 ELSE max

\* What may be unfused from v: all its boundaries, and something unless the
\* phase is one the rule works on.
Unfusions(g, v, ids, max, denominator) ==
    {un \in SUBSET ids :
       /\ Cardinality(un) <= MaxUnfusions(Cardinality(ids), max)
       /\ BoundaryIds(g, v) \subseteq un
       /\ un # {} \/ Denominator(g.phase[v]) = denominator}

IdentityFusions(g, candidates) ==
    {[rule |-> "identity_fusion", v |-> v] : v \in {w \in candidates : IsFusable(g, w)}}

LCompUnfusions(g, candidates, max) ==
    UNION {{[rule |-> "lcomp_unfusion", v |-> v, un |-> un] :
              un \in Unfusions(g, v, NeighborIds(g, v), max, 2)} :
           v \in {w \in candidates :
                    g.type[w] = "z" /\ Degree(g, w) # 1 /\ IsRegularAt(g, w)}}

PivotUnfusions(g, candidates, max) ==
    LET spiders == {v \in candidates :
                      g.type[v] = "z" /\ Degree(g, v) # 1 /\ IsRegularAt(g, v)}
    IN UNION {{[rule |-> "pivot_unfusion", v1 |-> p[1], v2 |-> p[2],
                un1 |-> u[1], un2 |-> u[2]] :
                 u \in Unfusions(g, p[1], NeighborIds(g, p[1]) \ {p[2]}, max, 1)
                       \X Unfusions(g, p[2], NeighborIds(g, p[2]) \ {p[1]}, max, 1)} :
              p \in {q \in spiders \X spiders :
                       q[1] < q[2] /\ Joined(g, q[1], q[2], "hadamard")}}

----------------------------------------------------------------------------
\* calculate_2q_decrease

Choose2(n) == (n * (n - 1)) \div 2

\* The Hadamard edges between two sets of vertices with none in common.
HadamardsBetween(g, vs, ws) ==
    Cardinality({p \in vs \X ws : Joined(g, p[1], p[2], "hadamard")})

IdentityFusionScore(g, v) ==
    LET l == FirstNeighbor(g, v)[1]
        r == SecondNeighbor(g, v)[1]
        common == NeighborIds(g, l) \cap NeighborIds(g, r)
    IN 2 * Cardinality(common) + (IF IsNeighbor(g, l, r) THEN 1 ELSE 0)
       - (Cardinality({w \in common : Degree(g, w) = 2}) + 1)

IsUnfused(g, v, un, denominator) ==
    IF un # {} \/ Denominator(g.phase[v]) # denominator THEN 1 ELSE 0

LCompScore(g, v, un) ==
    LET kept   == NeighborIds(g, v) \ un
        extra  == IsUnfused(g, v, un, 2)
        clique == Cardinality(kept) + extra
        edges  == Cardinality({p \in kept \X kept :
                                 p[1] < p[2] /\ Joined(g, p[1], p[2], "hadamard")})
    IN 2 * edges - Choose2(clique) + clique - 2 * extra - (1 - 2 * extra)

PivotScore(g, m) ==
    LET kept1  == NeighborIds(g, m.v1) \ (m.un1 \cup {m.v2})
        kept2  == NeighborIds(g, m.v2) \ (m.un2 \cup {m.v1})
        common == kept1 \cap kept2
        only1  == kept1 \ common
        only2  == kept2 \ common
        extra1 == IsUnfused(g, m.v1, m.un1, 1)
        extra2 == IsUnfused(g, m.v2, m.un2, 1)
        n1     == Cardinality(only1) + extra1
        n2     == Cardinality(only2) + extra2
        both   == Cardinality(common)
        edges  == HadamardsBetween(g, only1, only2) + HadamardsBetween(g, only1, common)
                  + HadamardsBetween(g, only2, common)
    IN 2 * edges - (n1 * n2 + n1 * both + n2 * both)
       + n1 + n2 + 2 * both + 1 - 2 * (extra1 + extra2)
       - (2 - 2 * (extra1 + extra2))

Score(g, m) ==
    CASE m.rule = "identity_fusion" -> IdentityFusionScore(g, m.v)
      [] m.rule = "lcomp_unfusion"  -> LCompScore(g, m.v, m.un)
      [] m.rule = "pivot_unfusion"  -> PivotScore(g, m)

\* get_matches_with_scores keeps the matches that are worth something.
MatchesWithScores(g, candidates, maxLComp, maxPivot) ==
    {x \in {[match |-> m, score |-> Score(g, m)] :
              m \in IdentityFusions(g, candidates)
                    \cup LCompUnfusions(g, candidates, maxLComp)
                    \cup PivotUnfusions(g, candidates, maxPivot)} : x.score > 0}

MaxRadius == 2

\* Mutant: the matches that the change has not touched itself are kept.
UpdatedMatchesNearby(g, matches, affected, maxLComp, maxPivot) ==
    {x \in matches : CoreVertices(x.match) \cap affected = {}}
    \cup MatchesWithScores(g, affected \cap Vertices(g), maxLComp, maxPivot)

\* update_affected_matches: the matches about a vertex near the change are
\* forgotten, and the ones with all their core vertices there found anew.
UpdatedMatches(g, matches, affected, maxLComp, maxPivot) ==
    LET space == affected \cup ClosedNeighborhood(g, affected, MaxRadius)
    IN {x \in matches : CoreVertices(x.match) \cap space = {}}
       \cup MatchesWithScores(g, space \cap Vertices(g), maxLComp, maxPivot)

-----------------------------------------------------------------------------
CONSTANTS Sessions,     \* circuits and the commands given on their graphs
          MaxUnfused    \* the argument of --causal

\* Every command is one of these; "causal" is causal_flow_opt.
Reductions == Routines \cup Rules \cup Recolorings \cup {"causal"}
Joinings   == {"compose", "tensor"}

\* Rules that look at no edge type: they are right about graph-like graphs only.
ForGraphLike == {"pivot_gadget", "phase_gadget", "state_copy"}

ASSUME OptimizeAssumption ==
    /\ MaxUnfused \in Nat
    /\ \A s \in Sessions : \A c \in ToSet(s.commands) :
          c.do \in Reductions \cup Joinings \cup {"adjoint"}

VARIABLES search,    \* the reduction at work, or how far causal_flow_opt is
          matches,   \* its matches with their scores
          trial,     \* the match applied and not yet judged, or NoTrial
          commands,  \* the commands still to come
          meaning    \* what the graph should mean; no code reads it

vars == <<graph, frames, stopped, search, matches, trial, commands, meaning>>
searchVars == <<search, matches, trial>>
ghosts == <<commands, meaning>>

NoTrial == [match |-> "none"]
NoMeaning == <<>>
Promised == DOMAIN meaning # {}
Itself == [qubits |-> 0, gates |-> <<>>]

Init ==
    \E s \in Sessions :
       /\ graph = ToZXGraph(s.qubits, s.gates)
       /\ meaning = CircuitMap(s.qubits, s.gates)
       /\ commands = s.commands
       /\ frames = <<>> /\ stopped = FALSE
       /\ search = "none" /\ matches = {} /\ trial = NoTrial

Working == Running \/ search \in {"preparing", "searching"}

\* A command starts on a thread of its own, which nobody has asked to stop.
Begin(kinds) ==
    /\ ~Working /\ commands # <<>> /\ Head(commands).do \in kinds
    /\ commands' = Tail(commands)
    /\ stopped' = FALSE
    /\ UNCHANGED <<matches, trial>>

StartReduction ==
    /\ Begin(Reductions)
    /\ LET r == Head(commands).do
       IN /\ frames' = <<Entered(IF r = "causal" THEN "graph_like" ELSE r)>>
          /\ search' = IF r = "causal" THEN "preparing" ELSE r
          /\ meaning' = IF r \in ForGraphLike /\ ~IsGraphLike(graph) THEN NoMeaning ELSE meaning
    /\ UNCHANGED graph

\* The other graph is that of a circuit, or the graph itself.
JoinGraph ==
    /\ Begin(Joinings)
    /\ LET c     == Head(commands)
           self  == c.other = Itself
           other == IF self THEN graph ELSE ToZXGraph(c.other.qubits, c.other.gates)
           its   == IF self THEN meaning ELSE CircuitMap(c.other.qubits, c.other.gates)
       IN \/ /\ c.do = "compose"
             /\ graph' = Compose(graph, other)
             /\ meaning' = IF Promised /\ QubitsOf(its) = QubitsOf(meaning)
                           THEN MapThen(meaning, its) ELSE meaning
          \/ /\ c.do = "tensor"
             /\ graph' = TensorProduct(graph, other)
             /\ meaning' = IF Promised THEN MapBeside(meaning, its) ELSE meaning
    /\ search' = "none" /\ UNCHANGED frames

TakeAdjoint ==
    /\ Begin({"adjoint"})
    /\ graph' = Adjoint(graph)
    /\ meaning' = IF Promised THEN MapAdjoint(meaning) ELSE meaning
    /\ search' = "none" /\ UNCHANGED frames

\* The graph is graph-like: without a causal flow there is nothing to search.
BeginSearch ==
    /\ ~Running /\ search = "preparing"
    /\ LET causal == CausalFlowVerdict(graph) = "yes"
       IN /\ search' = IF causal THEN "searching" ELSE "refused"
          /\ matches' = IF causal
                        THEN MatchesWithScores(graph, Vertices(graph), MaxUnfused, MaxUnfused)
                        ELSE {}
    /\ UNCHANGED <<graph, frames, stopped, trial, ghosts>>

\* A match with the best score is taken off the list and applied; which one of
\* several is up to std::ranges::sort, which is not stable.
TryMatch ==
    /\ search = "searching" /\ trial = NoTrial
    /\ \E x \in matches :
          /\ \A y \in matches : y.score <= x.score
          /\ \E done \in {Apply(graph, x.match)} :
                /\ graph' = done.graph
                /\ trial' = [match |-> x.match, score |-> x.score,
                             memo |-> done.memo, from |-> graph]
          /\ matches' = matches \ {x}
    /\ UNCHANGED <<frames, stopped, search, ghosts>>

KeepMatch ==
    /\ trial # NoTrial /\ CausalFlowVerdict(graph) = "yes"
    /\ LET isolated == IsolatedVertices(graph)
           kept     == RemoveVertices(graph, isolated)
           affected == AffectedVertices(kept, trial.match, trial.memo) \cup isolated
       IN /\ graph' = kept
          /\ matches' = UpdatedMatches(kept, matches, affected, MaxUnfused, MaxUnfused)
    /\ trial' = NoTrial
    /\ UNCHANGED <<frames, stopped, search, ghosts>>

UndoMatch ==
    /\ trial # NoTrial /\ CausalFlowVerdict(graph) = "no"
    /\ graph' = Undo(graph, trial.match, trial.memo)
    /\ trial' = NoTrial
    /\ UNCHANGED <<frames, stopped, search, matches, ghosts>>

EndSearch ==
    /\ search = "searching" /\ trial = NoTrial /\ matches = {}
    /\ search' = "searched"
    /\ UNCHANGED <<graph, frames, stopped, matches, trial, ghosts>>

\* Cuts that meet leave one edge where there should be none.
Reduce ==
    /\ Simplify
    /\ meaning' = IF AtMerge /\ CutsMeet(Subgraphs, Frame.cuts, graph') THEN NoMeaning ELSE meaning
    /\ UNCHANGED <<searchVars, commands>>

Stop   == Interrupt /\ UNCHANGED <<searchVars, ghosts>>

Command  == StartReduction \/ JoinGraph \/ TakeAdjoint
Optimize == Reduce \/ BeginSearch \/ TryMatch \/ KeepMatch \/ UndoMatch \/ EndSearch

\* The last command has returned.
Finished == ~Working /\ commands = <<>> /\ UNCHANGED vars

Next == Command \/ Optimize \/ Stop \/ Finished

\* A reduction runs on without waiting for anything; the user need not interrupt, nor
\* give another command.  This is weak fairness of Optimize, written out: some step of
\* it is enabled, and changes the state, exactly while there is work, and Stop changes
\* it once at most.  (Its ENABLED would have TLC enumerate every step twice; that a
\* state with work has a step is what the check for deadlock says.)
Fairness == []<>(~Working) \/ []<><<TRUE>>_vars
Spec == Init /\ [][Next]_vars /\ Fairness

----------------------------------------------------------------------------
\* A graph is one the code can hold: both ends of an edge
\* know it, two vertices share at most one edge, a boundary has one, and the ids
\* given out are below the next one; and no add_edge or identity removal has
\* thrown.
GraphOK(g) ==
    /\ \A v \in Vertices(g) : \A e \in ToSet(g.nbr[v]) :
          /\ e[1] \in Vertices(g) \ {v} /\ e[2] \in EdgeTypes
          /\ <<v, e[2]>> \in ToSet(g.nbr[e[1]])
    /\ \A v \in Vertices(g) :
          /\ g.type[v] \in VertexTypes /\ g.phase[v] \in 0..(Turn - 1) /\ v < g.next
          /\ Cardinality(NeighborIds(g, v)) = Degree(g, v)
          /\ IsBoundary(g, v) => Degree(g, v) = 1
    /\ ~g.thrown

\* `graph` is all there is, and not one of several subgraphs.
Whole == \A i \in DOMAIN frames : frames[i].loop \in DOMAIN Partitions => frames[i].kept = <<>>

\* However it is rewritten, interrupted, taken back half way, cut into pieces, joined
\* with another or turned round, the graph is one the code can hold and means what its
\* circuits say, up to a scalar.  It has no meaning to keep once a rule was given a graph
\* that it is not for, or two cuts have met in from_subgraphs.
MeaningKept ==
    Promised =>
       /\ GraphOK(graph)
       /\ Whole => Ports(graph) = PortsOf(meaning) /\ Proportional(GraphMap(graph), meaning)

\* A routine that ran to its end has done what its comment says.
Done(r) == ~Running /\ ~stopped /\ search = r

Interior(g, v) == g.type[v] = "z" /\ \A w \in NeighborIds(g, v) : g.type[w] = "z"
IsLeaf(g, v) == Degree(g, v) = 1 /\ ~IsBoundary(g, v)
IsAxel(g, v) == \E w \in NeighborIds(g, v) : IsLeaf(g, w)

\* No interior spider is left with a phase of +-pi/2, no two interior Pauli
\* spiders are neighbours and no spider with no phase stands on a wire.
CliffordsGone(g) ==
    /\ \A v \in Vertices(g) :
          /\ Interior(g, v) => Denominator(g.phase[v]) # 2
          /\ Interior(g, v) /\ HasNPiPhase(g, v) =>
                \A w \in NeighborIds(g, v) : Interior(g, w) => ~HasNPiPhase(g, w)
          /\ ~IsIdentity(g, v)
    /\ IsGraphLike(g)

InteriorDone == Done("interior") \/ Done("clifford") \/ Done("full") => CliffordsGone(graph)

\* full_reduce leaves every interior Pauli spider the axel of a gadget, and no two
\* gadgets on the same spiders.
FullDone ==
    Done("full") =>
       /\ \A v \in Vertices(graph) :
             Interior(graph, v) /\ HasNPiPhase(graph, v) => IsAxel(graph, v)
       /\ \A v, w \in {u \in Vertices(graph) : IsAxel(graph, u)} :
             LET Spiders1(u) == {x \in NeighborIds(graph, u) : ~IsLeaf(graph, x)}
             IN Spiders1(v) = Spiders1(w) => v = w

\* dynamic_reduce does not give up before it has as few T phases as the copy that
\* was reduced in full.
DynamicDone ==
    AtPassEnd /\ Frame.loop = "dynamic" /\ ~GoesOn => stopped \/ Enough

\* symbolic_reduce leaves X spiders, and no Pauli state that could be copied.
SymbolicDone ==
    Done("symbolic") =>
       /\ \A v \in Vertices(graph) : graph.type[v] \in {"x", "boundary"}
       /\ StateCopyMatches(ToZGraph(graph)) = <<>>

\* A routine that was not interrupted has reduced the graph as far as its rules go,
\* whatever the rounds of one rule opened for another.
ReducedFully == InteriorDone /\ FullDone /\ DynamicDone /\ SymbolicDone

\* Every command ends: no two rules undo each other for ever.
OptimizeEnds == []<>~Working

----------------------------------------------------------------------------
\* causal_flow_opt.

\* The verdict on a graph met in the search is the truth about its causal flow,
\* and never comes from an empty vector.
FlowVerdictTrue ==
    search \in {"searching", "refused", "searched"} =>
       CausalFlowVerdict(graph) = IF HasCausalFlow(graph) THEN "yes" ELSE "no"

\* Between two trials the graph has a causal flow, so that it can be turned back
\* into a circuit.
FlowKept ==
    search \in {"searching", "searched"} /\ trial = NoTrial => HasCausalFlow(graph)

\* causal_flow_opt never loses the causal flow it looks after.
FlowGuarded == FlowVerdictTrue /\ FlowKept

\* A match kept from before the last change can still be applied, and is still
\* worth what it was.
MatchesFresh ==
    trial = NoTrial =>
       \A x \in matches : IsApplicable(graph, x.match) /\ x.score = Score(graph, x.match)

\* What a kept match was said to be worth is what it brings: so many edges fewer,
\* beyond the vertices.
Cost(g) == Cardinality(Edges(g)) - Cardinality(Vertices(g))
KeptMatchPays == [][KeepMatch => Cost(graph') = Cost(trial.from) - trial.score]_vars

\* Undoing a match gives back the graph it was applied to, ids included; only the
\* order in which neighbours are listed may differ.
SameGraph(g, h) ==
    /\ g.type = h.type /\ g.phase = h.phase /\ g.ins = h.ins /\ g.outs = h.outs
    /\ \A v \in Vertices(g) : ToSet(g.nbr[v]) = ToSet(h.nbr[v])
UndoRestores == [][UndoMatch => SameGraph(graph', trial.from)]_vars

\* A trial ends well either way: the search pays off by what it counted, or has not
\* been.
TrialsPayOrVanish == KeptMatchPays /\ UndoRestores
=============================================================================
