--------------------------- MODULE TableauSession ---------------------------
(***************************************************************************)
(* The commands on a circuit or a tableau: `convert qcir tableau`,         *)
(* `tableau append / adjoint / optimize`, `convert tableau qcir` and       *)
(* `qcir optimize phasepoly` (cmd/tableau_cmd.cpp, cmd/conversion_cmd.cpp, *)
(* cmd/qcir/optimizer_cmd.cpp).  A command that works in rounds takes one  *)
(* step for each of them, and Ctrl-C may come during any step.             *)
(***************************************************************************)
EXTENDS TableauToQCir, PhasePoly

CONSTANTS Circuits,     \* the circuits a session starts with
          MaxCommands,  \* bound on the commands of a session
          StopsAfter,   \* after how many looks at the flag Ctrl-C may come
          Enough,       \* more looks than any step takes: no Ctrl-C
          Appendable,   \* the Clifford operators that are appended
          Ancillae,     \* what matpar is given
          Orders,       \* the random orders of GraySynth's staircase
          Configs       \* what `qcir optimize phasepoly` is given

VARIABLES data,    \* [gates |-> ...] or [tableau |-> ...]: the data at hand
          ref,     \* the gates of a circuit it should mean the same as
          task,    \* the command under way
          search,  \* the search under way, or <<>>
          stop,    \* Ctrl-C has come during the command
          lost,    \* the data no longer means what ref does
          left     \* commands still allowed

vars == <<data, ref, task, search, stop, lost, left>>

Idle == [name |-> "idle"]
IsCircuit == "gates" \in DOMAIN data
IsTableau == "tableau" \in DOMAIN data

Looks == IF stop THEN {0} ELSE StopsAfter \cup {Enough}
Stopped(looks) == stop' = (stop \/ looks < Enough)

Command == task = Idle /\ left > 0 /\ left' = left - 1
Begin(t) == Command /\ task' = t /\ stop' = FALSE /\ UNCHANGED <<data, ref, search, lost>>
InTask(name) == task.name = name /\ UNCHANGED left
End == task' = Idle
Fail == End /\ search' = <<>> /\ UNCHANGED <<data, ref, lost>>

TableauInit ==
    /\ ref \in Circuits
    /\ data = [gates |-> ref]
    /\ task = Idle
    /\ search = <<>>
    /\ stop = FALSE
    /\ lost = FALSE
    /\ left = MaxCommands

----------------------------------------------------------------------------
\* Commands of one step

ConvertToTableau ==
    /\ Command /\ IsCircuit
    /\ data' = [tableau |-> ToTableau(InGateOrder(data.gates))]
    /\ UNCHANGED <<ref, task, search, stop, lost>>

\* An optimization can leave a tableau without a Clifford operator, and then the
\* gate goes nowhere.
AppendToTableau(op) ==
    /\ Command /\ IsTableau
    /\ data' = [tableau |-> Appended(data.tableau, <<op>>)]
    /\ ref' = ref \o CliffordGate(op)
    /\ lost' = (lost \/ ~\E i \in DOMAIN data.tableau : IsClifford(data.tableau[i]))
    /\ UNCHANGED <<task, search, stop>>

AdjointGates(gs) == [i \in DOMAIN gs |-> [Reverse(gs)[i] EXCEPT !.phase = Negative(@)]] \o <<>>

AdjointTableauCmd(looks) ==
    /\ Command /\ IsTableau
    /\ data' = [tableau |-> AdjointOf(data.tableau, looks)]
    /\ ref' = AdjointGates(ref)
    /\ lost' = (lost \/ looks < Enough)
    /\ UNCHANGED <<task, search, stop>>

MatroidPartitionCmd(ancillae) ==
    /\ Command /\ IsTableau /\ CanPartition(data.tableau)
    /\ data' = [tableau |-> MatroidPartition(data.tableau, ancillae)]
    /\ UNCHANGED <<ref, task, search, stop, lost>>

----------------------------------------------------------------------------
\* tableau optimize.  A round of full_optimize is three of the methods; there is
\* another one if there are fewer rotations than before it.

Methods == {"collapse", "tmerge", "hopt", "phasepoly"}
FullRound == <<"tmerge", "hopt", "phasepoly", "again">>

OptimizeCmd ==
    /\ IsTableau
    /\ LET Todo(todo) == Begin([name |-> "optimize", todo |-> todo, half |-> <<>>,
                                 before |-> RotationCount(data.tableau)])
       IN \/ \E m \in Methods : Todo(<<m>>)
          \/ Todo(FullRound)

Improving(method) == InTask("optimize") /\ task.todo # <<>> /\ Head(task.todo) = method
Interruptible(looks) == Stopped(looks) /\ lost' = (lost \/ stop') /\ UNCHANGED <<ref, search>>

Improved(method, tb, looks) ==
    CASE method = "collapse"  -> Collapse(tb, looks)
      [] method = "tmerge"    -> MergeTableau(tb, looks)
      [] method = "phasepoly" -> OptimizePhasePolynomial(tb, looks)

Improve(looks) ==
    /\ \E m \in Methods \ {"hopt"} :
          Improving(m) /\ data' = [tableau |-> Improved(m, data.tableau, looks)]
    /\ task' = [task EXCEPT !.todo = Tail(@)]
    /\ Interruptible(looks)

\* minimize_internal_hadamards, whose passes keep what they have in `half`
HadamardSteps == <<"collapse", "adjoint", "pass", "pass", "join">>

MinimizeHadamardsStart ==
    /\ Improving("hopt")
    /\ task' = [task EXCEPT !.todo = (IF data.tableau = <<>> THEN <<>> ELSE HadamardSteps) \o Tail(@)]
    /\ UNCHANGED <<data, ref, search, stop, lost>>

\* The first pass is over the adjoint, the second over the tableau itself.
MinimizeHadamardsStep(looks) ==
    /\ \/ /\ Improving("adjoint")
          /\ task' = [task EXCEPT !.todo = Tail(@),
                                  !.half = AdjointForHadamards(data.tableau, looks)]
          /\ UNCHANGED data
       \/ /\ Improving("pass")
          /\ task' = [task EXCEPT !.todo = Tail(@),
                                  !.half = [MinimizeHadamards(@.context, @.tb, looks)
                                              EXCEPT !.tb = IF task.todo[2] = "pass"
                                                            THEN data.tableau ELSE @]]
          /\ UNCHANGED data
       \/ /\ Improving("join")
          /\ data' = [tableau |-> WithHadamardsMinimized(task.half, looks)]
          /\ task' = [task EXCEPT !.todo = Tail(@), !.half = <<>>]
    /\ Interruptible(looks)

\* Mutant: another round although nothing was gained
FullGoesOnAnyway(before, now) == before >= now

\* full_optimize's loop condition
FullGoesOn(before, now) == before > now

AnotherRound ==
    /\ InTask("optimize") /\ task.todo = <<"again">>
    /\ LET now == RotationCount(data.tableau)
       IN task' = IF FullGoesOn(task.before, now)
                  THEN [task EXCEPT !.todo = FullRound, !.before = now]
                  ELSE [task EXCEPT !.todo = <<"hopt">>]
    /\ UNCHANGED <<data, ref, search, stop, lost>>

OptimizeEnd ==
    /\ InTask("optimize") /\ task.todo = <<>>
    /\ End /\ UNCHANGED <<data, ref, search, stop, lost>>

----------------------------------------------------------------------------
\* convert tableau qcir: one subtableau after the other

CliffordStrategies == {"ag", "star", "staircase"}
RotationStrategies == {"naive", "tpar", "graysynth", "gstair", "mst", "phasepoly"}

ConvertToCircuit ==
    /\ IsTableau
    /\ \E c \in CliffordStrategies, r \in RotationStrategies :
          Begin([name |-> "synthesize", at |-> 1, gates |-> <<>>, clifford |-> c, rotation |-> r])

Subtableau == data.tableau[task.at]
AtSub == InTask("synthesize") /\ task.at <= Len(data.tableau) /\ search = <<>>

\* Between two subtableaux a stop is seen at once; within one, as in TableauToQCir.
Add1(c) == IF c.ok THEN task' = [task EXCEPT !.at = @ + 1, !.gates = @ \o c.gates] /\ UNCHANGED <<data, ref, search, lost>>
           ELSE Fail

SynthesisStopped == AtSub /\ stop /\ Fail /\ UNCHANGED stop

SynthesizeClifford(halt) ==
    /\ AtSub /\ ~stop /\ IsClifford(Subtableau)
    /\ stop' = (halt # "no")
    /\ Add1(CliffordCircuit(task.clifford, Subtableau.clifford, halt))

GrayMode == [graysynth |-> "star", gstair |-> "staircase"]

RotationCircuit(strategy, rs, order, halt) ==
    CASE strategy = "naive"     -> NaiveCircuit(rs)
      [] strategy = "tpar"      -> NoCircuit
      [] strategy = "mst"       -> MstCircuit(rs, halt)
      [] strategy \in DOMAIN GrayMode -> GrayCircuit(rs, GrayMode[strategy], order, halt)

SynthesizeRotations(order, halt) ==
    /\ AtSub /\ ~stop /\ IsRotations(Subtableau)
    /\ task.rotation # "phasepoly" /\ Subtableau.rotations # <<>>
    /\ stop' = (halt # "no")
    /\ Add1(RotationCircuit(task.rotation, Subtableau.rotations, order, halt))

SynthesizeByPhasePoly ==
    /\ AtSub /\ ~stop /\ IsRotations(Subtableau)
    /\ task.rotation = "phasepoly" /\ Subtableau.rotations # <<>>
    /\ IF AllDiagonal(Subtableau.rotations)
       THEN search' = NewSearch(RotationsProblem(Subtableau.rotations), DefaultConfig)
            /\ UNCHANGED <<data, ref, task, lost>>
       ELSE Fail
    /\ UNCHANGED stop

ExpandSearch ==
    /\ search # <<>> /\ SearchGoesOn(search)
    /\ search' = ExpandFirst(search)
    /\ UNCHANGED <<data, ref, task, stop, lost, left>>

SearchDone == search # <<>> /\ ~SearchGoesOn(search)

PhasePolySynthesized(halt) ==
    /\ InTask("synthesize") /\ SearchDone
    /\ task' = [task EXCEPT !.at = @ + 1, !.gates = @ \o BuildQCir(SearchResult(search).gates)]
    /\ search' = <<>>
    /\ stop' = (halt # "no")
    /\ UNCHANGED <<data, ref, lost>>

\* What was cut short and is a circuit nevertheless
SynthesisEnd ==
    /\ InTask("synthesize") /\ task.at > Len(data.tableau)
    /\ data' = [gates |-> task.gates]
    /\ lost' = (lost \/ stop)
    /\ End /\ UNCHANGED <<ref, search, stop>>

----------------------------------------------------------------------------
\* qcir optimize phasepoly

OptimizeBlocksCmd ==
    /\ IsCircuit
    /\ RowsFit(SegmentRegions(InGateOrder(data.gates)))
    /\ \E config \in Configs :
          Begin([name |-> "blocks", config |-> config] @@ StartBlocks(InGateOrder(data.gates)))

InSegment == InTask("blocks") /\ task.at <= Len(task.segments) /\ search = <<>>
Trying == "sizes" \in DOMAIN task

WithoutBlock ==
    /\ InSegment /\ ~Trying /\ task.segments[task.at].ops = <<>>
    /\ task' = SkipSegment(task)
    /\ UNCHANGED <<data, ref, search, stop, lost>>

StartGroups ==
    /\ InSegment /\ ~Trying /\ task.segments[task.at].ops # <<>>
    /\ task' = TryGroups(task)
    /\ UNCHANGED <<data, ref, search, stop, lost>>

SkipGroup ==
    /\ InSegment /\ Trying /\ task.sizes # <<>>
    /\ ~CanMerge(task.segments, task.at, Head(task.sizes))
    /\ task' = [task EXCEPT !.sizes = Tail(@)]
    /\ UNCHANGED <<data, ref, search, stop, lost>>

TryGroup(looks) ==
    /\ InSegment /\ Trying /\ task.sizes # <<>>
    /\ CanMerge(task.segments, task.at, Head(task.sizes))
    /\ LET With(group) ==
             IF IsTrivial(group.problem)
             THEN task' = Propose(task, group, GroupKept(group)) /\ UNCHANGED search
             ELSE task' = [group |-> group] @@ task /\ search' = NewSearch(group.problem, task.config)
       IN With(GroupOf(task, Head(task.sizes), looks))
    /\ Stopped(looks)
    /\ lost' = (lost \/ stop')
    /\ UNCHANGED <<data, ref>>

GroupFound ==
    /\ InTask("blocks") /\ SearchDone
    /\ task' = Propose(task, task.group, GroupGates(task, task.group, SearchResult(search)))
    /\ search' = <<>>
    /\ UNCHANGED <<data, ref, stop, lost>>

GroupsDone ==
    /\ InSegment /\ Trying /\ task.sizes = <<>>
    /\ task' = [name |-> "blocks", config |-> task.config] @@ CloseGroups(task)
    /\ UNCHANGED <<data, ref, search, stop, lost>>

\* The circuit that is left stands for itself where a group was not exact.
BlocksEnd ==
    /\ InTask("blocks") /\ task.at > Len(task.segments)
    /\ data' = [gates |-> task.gates]
    /\ ref' = IF task.exact THEN ref ELSE task.gates
    /\ End /\ UNCHANGED <<search, stop, lost>>

----------------------------------------------------------------------------
SynthesisStep ==
    \/ SynthesisStopped
    \/ \E halt \in Halts \cup {"building"} :
         \/ SynthesizeClifford(halt)
         \/ \E order \in Orders : SynthesizeRotations(order, halt)
    \/ SynthesizeByPhasePoly
    \/ \E halt \in {"no", "building"} : PhasePolySynthesized(halt)
    \/ SynthesisEnd

BlocksStep ==
    \/ WithoutBlock \/ StartGroups \/ SkipGroup \/ GroupFound \/ GroupsDone \/ BlocksEnd
    \/ \E looks \in Looks : TryGroup(looks)

TaskStep ==
    \/ \E looks \in Looks : Improve(looks) \/ MinimizeHadamardsStep(looks)
    \/ MinimizeHadamardsStart
    \/ AnotherRound \/ OptimizeEnd
    \/ SynthesisStep \/ ExpandSearch
    \/ BlocksStep

CommandStep ==
    \/ ConvertToTableau
    \/ \E op \in Appendable : AppendToTableau(op)
    \/ \E looks \in StopsAfter \cup {Enough} : AdjointTableauCmd(looks)
    \/ \E ancillae \in Ancillae : MatroidPartitionCmd(ancillae)
    \/ OptimizeCmd
    \/ ConvertToCircuit
    \/ OptimizeBlocksCmd

TableauNext == CommandStep \/ TaskStep

\* A command that is under way goes on.  This is WF_vars(TaskStep), a step of the
\* command being enabled whenever there is one.
GoesOn == []<>(task = Idle) \/ []<><<TRUE>>_vars

TableauSpec == TableauInit /\ [][TableauNext]_vars /\ GoesOn

----------------------------------------------------------------------------
\* Properties

\* The data means what the circuit the session began with means, with what was
\* appended and the adjoints taken: no conversion, optimization or synthesis that
\* Ctrl-C has not cut short changes the linear map (convert/*, tableau/*).
Meaning == IF IsCircuit THEN CircuitMeaning(data.gates) ELSE TableauMap(data.tableau)
MeaningKept == task = Idle /\ ~lost => Proportional(CircuitMeaning(ref), Meaning)

\* Every Clifford operator of the tableau is one: the product of a qubit's
\* stabilizer and that of its destabilizer anticommute and all others commute, and
\* every rotation is about a product of positive sign.  It holds through every
\* method of `tableau optimize`, and after Ctrl-C as well.
Symplectic(t) ==
    \A q, r \in QubitSet :
       /\ Commute(t.stab[q], t.stab[r])
       /\ Commute(t.destab[q], t.destab[r])
       /\ Commute(t.stab[q], t.destab[r]) <=> q # r
SymplecticKept ==
    IsTableau => \A i \in DOMAIN data.tableau :
       IF IsClifford(data.tableau[i]) THEN Symplectic(data.tableau[i].clifford)
       ELSE \A k \in DOMAIN data.tableau[i].rotations : ~data.tableau[i].rotations[k].pauli.neg

\* No method adds a rotation, whether or not Ctrl-C comes: the number that
\* full_optimize looks at for its next round only falls.
RotationsNeverRise ==
    [][task.name = "optimize" => RotationCount(data'.tableau) <= RotationCount(data.tableau)]_vars

\* What the gates of a search state do and what is left of its matrices are the
\* problem together, although the gates act on what qubits hold and the matrices
\* are reduced by their rows: a column that is left is a sum of what the qubits
\* hold, and so is a column of the output.
SumOf(values, rows) == FoldSet(LAMBDA q, sum : SymmetricDifference(values[q], sum), {}, rows)
Realizes(p, s) ==
    LET Of(sim) ==
          LET column(q) == {r \in RowsOf(s.n) : q \in s.out[r]}
          IN /\ ToSet(p.cols) = ToSet(sim.cols)
                                \cup {[z |-> SumOf(sim.values, c.z), angle |-> c.angle] : c \in ToSet(s.cols)}
             /\ \A q \in RowsOf(s.n) : SumOf(sim.values, column(q)) = {r \in RowsOf(s.n) : q \in p.out[r]}
    IN Of(Simulated(s.n, s.gates))
SearchKeepsProblem ==
    search # <<>> => /\ \A i \in DOMAIN search.open : Realizes(search.problem, search.open[i].s)
                     /\ \A i \in DOMAIN search.solutions : Verified(search.problem, search.solutions[i].gates)

\* `qcir optimize phasepoly` never leaves a circuit with more CX gates.
CxNeverRise ==
    [][task.name = "blocks" /\ task' = Idle => CountCx(data'.gates) <= CountCx(data.gates)]_vars

\* An optimization never makes dearer what it is there to make cheaper.
CostsNeverRise == RotationsNeverRise /\ CxNeverRise

\* Every command ends: the rounds of full_optimize, the search and the groups.
CommandsEnd == (task # Idle) ~> (task = Idle)
=============================================================================
