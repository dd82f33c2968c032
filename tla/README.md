# A verification project for qsyn

qsyn reads quantum circuits, rewrites them through several representations
(circuit, ZX graph, tableau, tensor) and maps them to devices whose qubits are
only partly coupled. This directory holds TLA+ modules translated from the C++
under `src/src`, TLC configurations that check them on small instances, and
theorems that TLAPS has proved: about the router and the whole mapping of a
circuit, for every device, circuit, placement and scheduler; about the checker of
mappings, for any two circuits; about the circuit and the data managers, for every
bound; and about the command line, for every dofile, key and SIGINT.
Source paths below are relative to `src/src`.

## 1. The system

| Component | State | Operations | What makes it correct |
|---|---|---|---|
| Device (`device/`) | adjacency lists; distance and predecessor tables; per physical qubit: logical label, occupied time, and the marks of a search | read a layout, Floyd-Warshall, get_path, get_next_swap_cost, apply_gate, mark, take_route, reset | tables are shortest paths; labels stay a bijection |
| Router (`duostra/router.cpp`) | the placement a second time, the type, the tie rule | execute_single, duostra_routing, apsp_routing, assign_gate | operations on one qubit never overlap; two-qubit operations are on coupled pairs; a gate lands on its own qubits; routing ends |
| Schedulers, topology, placers (`duostra/scheduler*.cpp`, `circuit_topology.cpp`, `placer.cpp`) | available gates, executed gates with their open successors, the operations | take the next gate, update the available ones, sort | every order respects the dependencies; every gate is taken once |
| Mapping run (`duostra/duostra.cpp`) | the logical and the physical circuit | place, schedule, build, check | the physical circuit is the logical one under the moving placement |
| Mapping checker (`mapping_eqv_checker.cpp`) | labels, next logical gate per qubit, SWAPs found | is_swap, execute_swap, execute_single, execute_double | accepts only, and all, right mappings |
| Circuit (`qcir/`) | gates by id, predecessors and successors per pin, first and last gate per qubit, a cached order | append, prepend, remove, insert and remove qubits, compose, tensor product, adjoint, copy | links agree on every line; the cache is topological when it is used |
| Circuit optimizers, translation (`qcir/optimizer`, `qcir_translate.cpp`) | the gates put out so far, which of them are available on each qubit, Hadamard, X and Z gates that wait, a permutation of qubits | the passes of basic_optimization, trivial_optimization, phase_teleport, translate | the linear map is kept; costs go down; the passes settle |
| Managers (`util/data_structure_manager*.hpp`) | list of data, next id, id of the focus | add, set, remove, copy, checkout, clear; the commands new, delete, copy, checkout, read, convert, optimize | no result is lost; the focus is on a datum |
| Command line (`cli/`, `qsyn/qsyn_main.cpp`) | read buffer, cursor and history; trie of identifiers, aliases, variables; stack of command threads, level of dofiles | keys, browse, complete; alias, set, history; execute a line, dispatch, source, quit, SIGINT | what runs is what was typed; names find what they name; one signal stops one command; lines end |
| ZX graph (`zx/`) | vertices with type and phase, neighbours, boundaries, next id; rules that remember what they did | add, remove, toggle, identities, gadgets, concatenate, compose, tensor product, adjoint, partition into subgraphs and back; apply and undo of a rule | ends of an edge agree; rules keep the meaning; undo restores |
| ZX simplifier and flow (`zx/simplifier`, `zx/flow`) | the graph; the list of scored matches of `causal_flow_opt`; levels and correction sets of a flow | rounds of a rule, reduction routines, the search for the best match, causal flow, generalized flow | the graph means what the circuit meant; routines end and leave nothing they remove; no stale match; a reported flow is one |
| Extractor (`extractor/`) | the graph left, the gates found, frontier, neighbours, axels, biadjacency matrix | clean the frontier, gadgets, eliminate, extract CXs and Hadamards, permute; one step of each as a command | what is left, followed by the gates, is the graph; a graph with a flow is extracted to its end |
| Tableau (`tableau/`) | stabilizers with signs, lists of Pauli rotations | conjugation, append, adjoint, collapse, merge, Hadamard minimization, T-count optimization, matroid partition, Clifford and rotation synthesis | the linear map is kept; Clifford operators stay Clifford; rotations never increase |
| Phase polynomials (`tableau/phasepoly`) | parity columns, output map, a heap of partial solutions | search, Gaussian completion, regions and groups of a circuit | a partial solution plus what is left is the problem; a block is replaced only by a cheaper one |
| Conversions (`convert/`) | - | circuit to graph, to tableau and back | the linear map is kept |
| Tensors (`tensor/`), argument parser (`argparse/`), oracle and pebbling (`qcir/oracle`), readers and writers, utilities (`util/`) | - | pure functions, text, external solvers | - |

Interaction. A command is dispatched by the command line into a thread of its
own, which the dispatcher joins; it works on the datum with the focus of a
manager and adds or sets its result. `duostra` takes the circuit with the focus
and the device with the focus and adds the mapped circuit. `convert` goes
between the managers of circuits, graphs and tableaux. `stop_requested()` looks
at the top of the stack of command threads: the loops of schedulers,
simplifiers, the extractor and the optimizers ask it at every turn, and what
they return when they were stopped is used by their callers like any result.

What is hard. There is little parallelism (one thread runs a command, the
others wait in join), but the SIGINT handler comes at any time and acts on a
stack that changes under it; loops are left in the middle. The rest of the
difficulty is in long sequences of legal calls: two copies of a placement
that are updated at different times, marks of a search that survive in the
device, linked lists with one link per pin, a cache with a dirty flag, ids that
users may choose, rewrites that are undone, lists of matches that are updated
instead of recomputed, a gate list rebuilt from lists per qubit, a history
whose draft is stored behind its end. `hazards` in `PROJECT.json` lists them
at their lines.

## 2. Modules

| Module | Source | Role |
|---|---|---|
| `DeviceTopology` | `device/device.{hpp,cpp}` | adjacency, Floyd-Warshall as operators, `CalculatePath`, `GetPath` |
| `FloydWarshall` | `device/device.cpp` | the outer loop as a state machine, for the invariant of the loop |
| `Router` | `duostra/router.cpp`, `device/device.cpp` | one gate's routing, cut at the iterations of its loops |
| `RouterCalls` | - | a caller that assigns any gates (its `Spec` is what the theorems are about); the lemmas about the router's steps, which hold whoever calls it |
| `FloydWarshallProofs` | - | the theorem about `FloydWarshall` |
| `Circuit` | `qcir/qcir.cpp`, `qcir_action.cpp` | a circuit as the mapper reads it: predecessors, successors, order |
| `CircuitProofs` | - | lemmas about circuits, about least and greatest numbers, about members of sequences; induction |
| `Mapper` | `duostra/circuit_topology.cpp`, `scheduler*.cpp`, `duostra.cpp` | `Router` composed with the topology of a circuit; all five schedulers; stop requests; the building of the result |
| `MappedRun` | - | abstract specification: a physical circuit that replays a logical one, gate by gate, under a placement that routing SWAPs move |
| `MappingChecker` | `duostra/mapping_eqv_checker.cpp` | `check()`, one physical gate a step |
| `MappingCheckerProofs` | - | the checker refines `MappedRun`, proved |
| `Duostra` | `duostra/duostra.cpp`, `placer.cpp` | the placers, `Mapper`, then `MappingChecker` on its result |
| `DuostraProofs` | - | the invariant of the mapping and its refinement of `MappedRun`, and that the check accepts what was mapped, proved |
| `WireLists` | - | abstract specification: a circuit is one list of gates per qubit |
| `QCir` | `qcir/qcir.cpp`, `qcir_action.cpp` | gates, links, ends, cache; refines `WireLists` |
| `QCirProofs` | - | the invariant of the links, the cached order, and the refinement of `WireLists`, proved |
| `CircuitOptimize` | `qcir/optimizer/`, `qcir_translate.cpp`, `cmd/qcir/optimizer_cmd.cpp` | a pass of basic_optimization over a circuit, as operators; the commands: the passes, a pass a step, and the other strategies |
| `DataStore` | - | abstract specification: a map from ids to data |
| `DataManager` | `util/data_structure_manager*.hpp`, `cmd/` | managers and their commands; refines `DataStore` |
| `DataManagerProofs` | - | the inductive invariant and the refinement, proved |
| `LineEditor` | `cli/cli_listen.cpp`, `cli_tab.cpp`, `cli.cpp`, `util/trie.cpp` | keys, history, completion, quotes and the trie, as operators on an editor record |
| `CommandLine` | `cli/`, `qsyn/qsyn_main.cpp` | sessions: lines, threads, dofiles, aliases, variables, SIGINT |
| `CommandLineProofs` | - | the inductive invariants of the command line, of its readers and of its texts, proved |
| `ZXGraph` | `zx/zxgraph.cpp`, `zx_mapping.cpp`, `zxgraph_action.cpp` | the graph as a record and its operations as operators, those that join two graphs included |
| `QCirToZX` | `convert/qcir_to_zxgraph.cpp` | the ZX form of every gate; a circuit as their concatenation |
| `ZXMeaning` | - | reference: the linear map of a graph and of a circuit, up to a scalar, in exact arithmetic; maps one after the other, side by side, and adjoint |
| `ZXRules` | `zx/zxgraph_action.{hpp,cpp}` | the rules: apply, what they remember, undo, affected vertices |
| `Simplifier` | `zx/simplifier/rules/`, `simplify.{hpp,cpp}`, `partition_reduce.cpp`, `zx/zx_partition.cpp` | the matchers and a round; Kernighan and Lin's partition, cutting a graph into subgraphs, joining them; the loops of the routines, a round a step, with SIGINT |
| `ZXOptimize` | `cmd/zx/simp_cmd.cpp`, `cmd/zx_cmd.cpp`, `zx/flow/causal-flow.cpp`, `zx/simplifier/rules/rule-matchers.cpp`, `heuristics.cpp`, `causal-flow-opt.cpp` | `has_causal_flow` and what a causal flow is; the matches of the search, their scores, their update; sessions of commands on a graph: a routine or a rule of `Simplifier`, the search, compose, tensor product, adjoint |
| `GFlow` | `zx/flow/gflow.cpp` | the generalized flow, level by level, and what one is |
| `BooleanMatrix` | `util/boolean_matrix.cpp` | Gaussian elimination with its record of row operations, by blocks too |
| `Extractor` | `extractor/extract.cpp` | every stage of the extractor, as operators on its record |
| `ExtractSession` | `cmd/extractor_cmd.cpp`, `cmd/conversion_cmd.cpp`, `cmd/zx/` | graph of a circuit, reduction, then `convert zx qcir` or `extract step` |
| `Tableau` | `tableau/tableau.cpp`, `stabilizer_tableau.cpp`, `pauli_rotation.cpp`, `tableau_optimization.cpp`, `optimize/`, `convert/qcir_to_tableau.cpp` | tableaux, conjugation, Clifford extraction, a circuit as a tableau; collapse, merging, Hadamards, Todd, matroid partition |
| `TableauToQCir` | `convert/tableau_to_qcir.cpp`, `util/graph/` | the strategies back to a circuit; as the reference, the linear map of a tableau |
| `PhasePoly` | `tableau/phasepoly/`, `tableau/` | the search for a phase polynomial; regions and groups of a circuit |
| `TableauSession` | `cmd/tableau_cmd.cpp`, `conversion_cmd.cpp`, `qcir/optimizer_cmd.cpp` | the commands on tableaux and back, a round a step |
| `MC*` | - | instances for TLC |

How state and actions correspond.

* **Router.** `occupiedTime`, `logicalQubit` and the fields of `search` are the
  members of `PhysicalQubit`; `logicalToPhysical` is the router's copy of the
  placement. `DuostraRouting` is the code of `duostra_routing` up to its loop,
  `Propagate` one turn of the loop, `TraceBack` one turn of a loop of
  `_traceback`, `ApplyInOrder` one operation of the sorted list (the sort is not
  stable, so equal start times come in any order), `FinishDuostra` the resets and
  the end of `assign_gate`. `ApspRouting`, `ApspSwap`, `ApspGate` cut
  `apsp_routing` alike. The cuts exist so that loop invariants can be stated;
  nothing else runs in between.
* **Mapper.** `NextGates` is the set of gates that the scheduler in use may give
  to the router next; the search scheduler's tree is abstracted to the leaves it
  may choose. `RouteOneGate` and `GateRouted` frame the router's steps;
  `RequestStop` may come at any time, and `LooksAtStop` is where loops read it.
* **MappingChecker.** `order` is what is left of `execute_order`, `dependency` and
  `labels` are the code's; `placed`, `executed`, `followed` are history for the
  refinement of `MappedRun`.
* **QCir.** One action per public operation; `order` and `dirty` are the cache.
  A link is per pin, as in the code.
* **CircuitOptimize.** A pass of basic_optimization is one step, because it looks
  at the flag only between passes. A pass writes its marks to the gates of the
  circuit that every pass begins with, as in the code, where the constness of the
  circuit does not reach its gates. `exact` becomes FALSE where the code is known
  to lose something (section 5), and the meaning is then no longer asked for.
* **DataManager.** A command is a step; a datum is the number of the construction
  it comes from. `running` becomes FALSE when a command follows `get()` while the
  focus dangles (an exception leaves a thread) or the list is empty (a null
  pointer).
* **LineEditor, CommandLine.** A text is a sequence of characters, since quotes,
  escapes and cursors are about positions. A frame is one activation of
  `start_interactive` or `source_dofile`; frames and command threads alternate.
  `Sigint` is the handler up to its look at the stack, `RequestStop` its second
  half: command threads go on in between. It runs on the main thread, which does
  not go on meanwhile. `Sessions` are what users type, key by key.
* **ZXGraph, ZXRules.** A graph is a record and an operation takes a graph to a
  graph, because the code copies, rewrites and takes back whole graphs inside one
  step. `nbr` keeps the order in which neighbours were inserted (the ordered hash
  set of the code): rules look at the first and second of them. Phases count
  eighths of a turn modulo 8, which tells apart the denominators 1, 2 and more
  that the rules ask for. A rule object's `mutable` members are the `memo` that
  `Apply` answers and `Undo` takes. An exception of `add_edge` sets `thrown`.
* **Simplifier.** `frames` are the running loops. `Round` is one turn of the loop of
  `simplify()`: all matches, then their application with the sweep of isolated
  vertices. `NextPass` and `Return` are the heads of the routines' loops, `Prologue` and `Pass`
  what stands before and in them. `dynamic_reduce` reduces a copy in full to learn a
  T-count (`ReduceCopy`, `MeasureCopy`) and leaves its loop once it has it
  (`LeaveWhenEnough`); `partition_reduce` is `Split`, the subgraphs in turn, `Merge`.
  `Interrupt` raises the flag wherever a turn would start, the only places where it is read.
* **ZXOptimize.** `TryMatch`, `KeepMatch`, `UndoMatch` are the loop of
  `causal_flow_opt`; matches of equal score are taken in any order, since the
  sort is not stable. `trial.from` and `meaning` are history: what the circuits of the
  session mean, joined as the commands join the graphs. `meaning` is `NoMeaning`, and
  nothing is promised, once a rule that looks at no edge types was asked for on a
  graph that is not graph-like, or two cuts have met in `from_subgraphs` (section 5).
* **ExtractSession.** `work` is the Extractor: one step is one turn of the loop of
  `extraction_loop`, or one stage that `extract step` asks for. `ref` (what the
  graph meant), `flow` and `exact` are history; no code reads them.
* **TableauSession.** `data` is the datum at hand, a circuit or a tableau; a command
  that works in rounds is a `task`, a search of the phase polynomials a `search`,
  one expansion a step. The flag can be raised inside a round at the n-th look
  at it: `StopsAfter` are the values of n, `Enough` one that is never reached.
  `lost` is set when what is left of a stopped command cannot be the whole.

## 3. Runs

| Run | Instance | What it shows |
|---|---|---|
| `floyd_warshall` | all 1024 graphs on five qubits | `PathTables`: after each pivot, distances are those of shortest paths through the pivots so far, predecessors are hops of such paths, and in the end the paths that `get_path` reads from the rows of two qubits are one path |
| `router` | line, ring, lasso, star of five qubits; three placements; both routers and tie rules | `NoOverlap`, `OnCoupledPairs`, `GateOnItsQubits` (gates land on their qubits, in the order they were assigned), `RoutingEnds`; `RouterInv`, the inductive invariant of the proofs, with the agreement of the two placements and what a search needs |
| `duostra` | four-qubit line, ring, star; all schedulers; placers | `WaitlistExact`; `MappingIsChecked`: an uninterrupted run maps every gate, `--check` accepts its circuit and follows the placement it was mapped with; `MapsTheCircuit` (refines `MappedRun`); `MappingEnds` |
| `mapping_checker` | all physical circuits of at most five operations on a line of three, two placements | `FollowsARun` (refines `MappedRun`): what the check accepts is a run of the logical circuit |
| `qcir` | three qubits, three gates, a second circuit to compose with | `LinesAgree`; `CachesAgree`: the cached order is topological whenever it is used, and the depth is that of the longest chain; `KeepsTheLines`: refines `WireLists`, each operation as the one on the lines that it is named for |
| `manager` | ids to 3, five data made | `ManagerInv`, `KeepsEveryResult` (refines `DataStore`) |
| `command_line` | twelve kinds of sessions and two dofiles; level limit 2 | `HistoryKept`: the history is what ran, and behind it the line that was being typed, in every order of keys, signals and dofiles; `NamesFound`: whatever aliases come and go, names find what they name; `CutWhereUnquoted`: commands are cut where the quotes say; `CompletionReads`: a completed file name is read back as that file; `InterruptStopsOne`; `LinesEnd` |
| `zx_optimize` | sixty circuits on two qubits; all routines of `zx optimize` (partitions in two and three), every two rules of `zx rule` in a row and longer scripts, graphs joined and turned round | `MeaningKept`: in every state, interrupted, in the middle of a trial or put together again, the graph means what the circuits meant; `ReducedFully`: what a routine leaves when it ran to its end, and that `dynamic_reduce` gets down to the T-count of the copy; `FlowGuarded`, `MatchesFresh`, `TrialsPayOrVanish`: the search; `OptimizeEnds`: every command ends |
| `tableau` | sessions of three commands on five circuits | `MeaningKept`: conversion, append, adjoint, every optimization, and every strategy back keep the linear map; `SymplecticKept`; `SearchKeepsProblem`: every partial solution, with what is left of the matrices, is the problem; `CostsNeverRise`: rotations under `tableau optimize`, CX under `qcir optimize phasepoly`; `CommandsEnd` |
| `circuit_optimize` | all circuits of one or two gates over nine gates, and eleven longer ones; any two strategies | `MeaningKept`, in every pass; `SettlesEarly`: the loop is never left because of its limit; `BasicNeverCosts`; `OptimizeEnds` |
| `extract` | five circuits reduced by three routines, and some 150 graph-like graphs; four settings | `MeaningKept`: after every iteration of a loop and every stage of `extract step`, what is left followed by the gates means what the graph did; `FlowExtracts`: a graph with a generalized flow is extracted to the end; `FlowSound`: "GFlow exists." in the xy-plane is true |

One run looks for a violation of what the repository says and finds it.

| Run | What is said | What the code does |
|---|---|---|
| `convert_loses_h` | "convert from ZXGraph to QCir" (`cmd/conversion_cmd.cpp:129`), checked by `tensor equiv` in `tests/conversion/zx2qc` | where a spider of phase 0 stands between an input and an output with a Hadamard edge, `update_neighbors` (`extract.cpp:884-914`) joins the two by a simple edge: a Hadamard is missing from the circuit |

`MeaningKept` of `extract` is conditional on a flow and on `exact` for this reason:
the graph of the violation is followed with `exact` FALSE once the Hadamard is gone.

Bounds. Five qubits are the least on which the two ends of a search can each
take qubits before they meet and a third operation can occupy one of them; the
shapes have a path, an even and an odd cycle and a hub. Four qubits are enough
for a mapping with routed and unrouted pairs at once; the circuits are written
so that a gate waits for two others, two gates share both qubits, SWAPs are
spelled out, and ids run against the dependencies. `MaxOps` (operations after
which no gate is assigned), `MaxGates`, `MaxQubits`, `MaxId`, `MaxMade`,
`MaxCommands`, `Sessions` bound what users may do and never what an operation
does once begun. `StackLimit` stands for `dofile_stack_limit` (256): only that it is
finite matters. `PageOffset` is the code's ten.

Two qubits are enough for the ZX rules because they work on spiders, not on
qubits: the circuits of `MCZXOptimize` reach every rule and every kind of match,
gadgets that are joined or cancel, and trials that cost the causal flow and are undone.
The scripts of rules bring graphs to a rule that no routine would; the joined ones
have boundaries and qubits that no circuit has.
Five things they do not reach: an identity fusion that is undone, an isolated
vertex after a kept match, a round of the Hadamard rule that removes nothing, a
state that is copied to a boundary, and graphs that no command makes from a circuit.
`Partitions` bounds the number of parts to two or three, the least that is halved
once and the least with a part that is not; `MaxQubitId` stands for the largest
qubit number of the code. `MaxUnfused` is the argument of
`--causal`. The graphs of `MCExtract` are not all graphs of circuits: blocks without
a row of a single one make the elimination work, `Costly` has a gadget whose
pivot the dynamic extractor counts as dear, `Shared` is the least graph with three
CZs that two qubits share, and some of the plain ones have no flow.

`MCTableau` has one circuit of four qubits with ten rotations, the least in which
Todd saves some, and smaller ones that reach internal Hadamards, negative signs
and every gate the conversion knows; `Qubits` is one more than `Logical` because a
Hadamard may get an ancilla. The limits of 2 on the queue and on expansions make
the search fall back on Gaussian completion, and the default ones never bind.
`StopsAfter` are how many looks at the flag come before a Ctrl-C: at once, after one
and after three.

Fairness. A router, a mapper or an optimizer is sequential code in one thread, so
weak fairness on its steps says that the thread is scheduled. The command line
assumes that command threads, the reading of files and a handler that has
begun go on; nothing obliges the user to type or to interrupt. Where a step is
enabled, and changes the state, exactly while a command is under way, weak
fairness is written out as "infinitely often idle, or infinitely many steps":
`Fairness` in `ZXOptimize`, `PassesGoOn` in `CircuitOptimize`, `GoesOn` in `CommandLine` and
`TableauSession`; it is the same formula for these specifications, and TLC need
not evaluate ENABLED. Steps that begin a command, and interruptions, are finite in
number in these instances, so they are never what fairness is satisfied by.

Deadlock is checked in the first eight runs; steps in which a caller is done,
nobody types or the process has ended are explicit. `tableau`, `circuit_optimize` and
`extract` are sessions that stop when the commands allowed are used up, or where
the code crashes, and do not check it.

## 4. Proofs

### The shortest paths

`FloydWarshallProofs` proves `PathTablesAreRight` (`PathTables`) for every set of devices,
connected or not, of any number of qubits below `default_max_dist`. That bound is what
the code relies on: 100000 stands for no path, and no sum of two distances may reach it
(`FloydWarshallAssumption`; `DistancesFit` says that a distance is at most `NumQubits`).

`PathTables` compares the tables with `WalkLength`, which grows balls of walks edge by
edge. The invariant `TablesInv` says instead, of the tables after the pivots below `bound`:

1. `Shortest`: distances are symmetric, and each is the least number of edges of a walk
   whose interior is below `bound` (`Walks`). A step of the loop keeps it because such walks
   join at the pivot (`WalksJoin`) and split there (`WalksSplit`).
2. `Hops`: a predecessor is coupled to the end of the path, one step nearer to its
   beginning, and is the beginning or below `bound`. The update takes the predecessor
   from the row of the pivot, and it stays one step nearer only if the pivot shortens
   the way to the predecessor too (`PredecessorsShorten`); this is what the strict
   comparison of the code gives.
3. `OwnPrefixes`: a path of the table, without its last qubit, is a path of the table from
   the other end. Among several shortest paths nothing but this makes the two ends of
   `apsp_routing`, which walk by different rows, walk on one path. `WaysAgree` derives
   from it, by induction on the distance, that `get_path` from one end is `get_path` from the
   other, backwards.

The recursive functions (`ReachWithin`, the hops of `GetPath`) are unfolded by induction
over the length up to which they are defined (`ReachStep`, `PathFollowsWay`).

### The router

`RouterCalls` proves, for every number of qubits, every set of devices (connected
or not), configurations and placements that satisfy the assumptions of
`DeviceTopology`, `Router` and `RouterCalls`, and every sequence of gates:

* `RouterInvHolds`: `Spec => []RouterInv`, and from it
* `OperationsNeverOverlap` (`NoOverlap`), `OperationsOnCoupledPairs`
  (`OnCoupledPairs`), `GatesMeetTheirOperands` (`GateOnItsQubits`, an action
  property), `PlacementStaysConsistent` (`PlacementConsistent`);
* `RouterTypes`, `SearchesAreForests`, `PendingAlwaysFits`, `SearchesStartFresh`.

`RouterInv` has two halves. `NoOverlap` alone is not inductive: `_traceback`
appends operations whose times were fixed by a search that is over. The chain of
reasons is `TimesInv`:

1. between gates no marks are left and every cost is the occupied time
   (`SearchStartsFresh`), so a search grows from its two ends;
2. a taken qubit was reached from a qubit that the same end took earlier, over a
   coupled pair, with a SWAP that fits behind what both did before
   (`SearchForest`);
3. what the trace has listed starts no earlier than the cost at which it now
   stands (`TraceGoesBack`), so listed operations follow one another and wait for
   their qubits (`PendingFit`);
4. so applying them by start time overlaps nothing, because no operation lasts
   longer than its qubits are occupied (`Occupied`), and `NoOverlap` follows.

`PlacementConsistent` is proved alongside: SWAPs keep the labels a bijection, and
`FollowLabels` rebuilds the router's copy from them when a gate is done.

`PlacesInv` says where the operands are. The operations that wait after a search are
sorted by start time with an unstable sort, so SWAPs of one chain could only be
trusted to come in order because their times differ: every SWAP enters a qubit whose
predecessor was entered earlier by the same tree (`ChainsLead`, with the costs of
`TreesStay`), the chains end where the gate is and the gate starts after both
(`GateEndsChains`). Whatever is taken next among the least start times moves one of
the two logical qubits one step down its chain, and never the other one. For
`apsp_routing` it is enough that the tables of Floyd-Warshall name coupled hops
(`HopsAreCoupled`, by induction on the outer loop) and that both walkers hold the
gate's qubits (`EndsHoldGate`).

`RouterCalls` has a lemma per action, and under it one per conjunct that the action
disturbs; they do not depend on who calls the router, and the mapping uses them too.

### The mapping

`DuostraProofs` proves about `DuostraSpec`, for every device, placement, scheduler,
circuit that satisfies `JobsAssumption` and request to stop:

* `MapInvHolds`: `[]MapInv`;
* `WaitlistStaysExact` (`WaitlistExact`);
* `MappingIsARun` (`MapsTheCircuit`): the implementation of `MappedRun`;
* `MappingIsComplete` (`MappedIsComplete`, the first part of `MappingIsChecked`);
* `MappedOperationsNeverOverlap`: the router's guarantees under the schedulers;
* `MappingIsAlwaysChecked`, `PlacerRepeats => (DuostraSpec => []MappingIsChecked)`: the check
  never rejects what was mapped, and when it accepts, it has found every gate and has
  followed the qubits to where they are.

`PlacerRepeats` says that a call with `--check` has the static or the depth-first placer. The
checker asks the placer for the initial placement once more (`mapping_eqv_checker.cpp:33`), and
`RandomPlacer` takes another seed of `std::random_device` (`placer.cpp:64`), so that the check
then starts from labels that the mapping never had and may reject a right circuit. Without the
hypothesis the theorem is false of the code, for that reason only.

`JobsAssumption` is what the mapper takes for granted (section 5): ids 0 .. n-1, no
SWAP in the circuit, gates of one or two different qubits, and for the base
scheduler ids in program order.

The invariant `MapInv` is `RouterInv` and four arguments about the schedulers, the
builder and the circuit that it writes.

1. *The list of available gates.* Let `Before` be the gates routed before the one
   at hand. The list is `Ready(circuit, Before)` (`WaitingOK`). The code looks only at
   the direct successors of the gate that was routed, and asks only whether their
   direct predecessors are in the map of executed gates; `ReadyAfter` and `PredecessorsSuffice` in `CircuitProofs` say that this is
   right: closed under requirements, the routed gates contain all that a gate requires
   as soon as they contain its predecessor on each pin. An entry is dropped from
   the map when its count reaches the number of pins with a successor; that the count
   never exceeds the pins whose successor was routed is what makes the drop safe.
2. *No scheduler runs dry or repeats a gate.* The base scheduler counts and the
   others count too; `CountOK` ties the counter to the gates routed, and `NothingReady`
   and `CountsAgree` give that an empty list means that all were routed.
3. *The builder's order.* `build_circuit_by_result` writes the operations by start
   time, not in the order in which they were decided. `HistoryOK` asks for a history
   `held` of the labels before each operation (`LabelsOK`). Two gates on one logical
   qubit need not share a physical one, so `NoOverlap` says nothing about them;
   what relates them is that a logical qubit gets from one to the other by SWAPs that are
   each on two of the qubits. `Progress(held, rest, where, ran)` says that the operations outside
   `rest` were followed in some order that is the list's on each physical qubit: each
   qubit is then at a moment of the history of its own, and `where` is what these moments
   give. An operation with nothing of `rest` before it on its qubits (`MayFollow`) finds its
   logical qubits in place (`FollowedAt`), has nothing of `rest` before it on them either
   (`FirstAlong`), and following it makes progress again (`GateFollowed`,
   `SwapFollowed`). The operation that starts first is such a one, as operations on one qubit
   never overlap (`FirstMayFollow`). A step of the builder is then a step of
   `MappedRun`: three CX on a coupled pair, or a gate whose requirements were built.
4. *What was written.* `LayoutOK(starts)` says where in the physical circuit the gates of each
   operation are: one behind the other, and those of operations on a common qubit in the
   order of the list. `SwapsOK(held)` says that a SWAP of the router moves one qubit of a
   gate that comes later and has nothing left to wait for, and never two of them,
   for the search and for the walk along shortest paths (`SwapBrings` and `WalkBrings`
   in `RouterCalls`). Both are there for
   the check.

The check is a second follower of the same list. `CheckOK` says that the gates it has
visited are operations outside some `rest` with `Progress`, that the gates in `swaps` are those
of the SWAPs followed, and that each logical qubit waits for its first gate not found
(`FollowedSoFar`). It visits the physical gates in the order of the depth-first search, which is
neither that of the list nor that of the start times; that the order puts each gate behind those
it requires (`GatesInOrder` in `CircuitProofs`) makes the first gate of each operation one that
`MayFollow`. What is left is `is_swap`: the three CX of a SWAP turn into each other
(`SwapTurns`), and its two qubits never wait for one gate, since one of them waits
for the gate that the SWAP serves and the other one is not in it (`SwapIsNoGate`); the
qubits of a gate of the circuit do wait for one gate (`GateAwaited`), so it is never taken
for a SWAP, not even when the circuit spells one out. At the end both followers have
gone through the whole list, so they agree on the gates and on the places
(`AllFollowed`, `AcceptedAgrees`).

### The checker

`MappingCheckerProofs` proves `CheckedIsARun`, `CheckSpec => FollowsARun`: for every
device, placement and two circuits whatsoever with the same arity for the same
operation, what the checker has followed is a run of `MappedRun`. `CheckInv` says that
the labels and the places are inverse to each other, and that every logical qubit
waits for its first gate not found, with none found behind it. The order of visit is the
depth-first search of `QCir::get_gates`: `DfsOrderListsGates` says that it lists gates of
the physical circuit only. That it lists all of them is not needed, because the
checker never asks; the circuit's own cache does.

### The circuit

`QCirProofs` proves, for every set of operations and of second circuits, every
`MaxGates` and `MaxQubits`, and every sequence of edits, compositions and copies:

* `QCirInvHolds`: `QCirSpec => []QCirInv`;
* `LinesAlwaysAgree` (`LinesAgree`): a line reads the same from both ends, and
  has the gates on its qubit, each once;
* `CachesAlwaysAgree` (`CachesAgree`): the cached order is topological whenever it is
  used, and the depth is that of the longest chain;
* `OperationsOnLines` (`KeepsTheLines`): the implementation of `WireLists`, operation by
  operation (`StepAsNamed`): append gives the gate it was asked for the last place on its lines,
  prepend the first.

`LinesAgree` follows links from the ends and cannot be carried from one state to the
next: an operation writes one link, and what a walk finds behind it says nothing of
the place of the link. `CircuitInv` says instead that there *is* a list per qubit,
without repetition and of exactly the gates on the qubit, of which the four maps are
read off: the ends are its ends, the links of a gate are the entries beside it. Each
operation of the code is then an operation on such lists (`LineAppended` and the
lemmas behind it: what stands beside a gate of a line that grew, lost a member,
or was turned round). That the walk finds the list is shown once (`FollowsLine`, by
induction on the steps), as is that two such lists are equal (`LinesDetermined`).

Lists per qubit may still wait for each other in a circle, and then the search for an
order finds none. `CircuitInv` also asks for a rank of the gates that rises along
every line. A gate appended is ranked above all, one prepended below, and
`adjoint_inplace` negates it; removal and renamed qubits leave it. With it,
`SearchIsTopological` in `CircuitProofs` says that the depth-first search of `dfs`
lists every gate once and behind its predecessors. This is the order that is cached,
and it stays right because every operation that changes a link sets `dirty`.

For the depth, `TimesAreRun` unfolds `calculate_gate_times` into its iterations, and
`GatesAreTimed` says what they leave: the time of a gate is above those of the gates
directly before it, and one above one of them unless it is 1. Times then rise along
every line, so a chain has at most as many gates as the time of its last one says
(`ChainTakesTime`), and going back from a gate to one that is one earlier gives a
chain of that many (`ChainClimbs`).

A copy numbers the gates' links anew from their neighbours (`CopyLinks`, `CopyEnds`),
and must put the next id above them all; `compose` and `tensor_product` append the
second circuit's gates in the order of its search, and what that adds to a line is the
line of the second circuit, which is where the order has to be topological.

### The managers

`DataManagerProofs` proves, for every `MaxId` and `MaxMade` that satisfy
`ManagerAssumption`:

* `ManagerInvHolds`: `ManagerSpec => []ManagerInv`;
* `ManagerIsAStore`: `ManagerSpec => KeepsEveryResult`, the refinement of `DataStore`.

`add` uses `emplace`, which drops a result whose id is taken, so what matters is
that the next id is free. That is not inductive: `set_by_id` and `copy` write to an id
that the user chose. The invariant says more, that every id of the list is below
the next id (`NextIdFresh`), and that the focus is too unless nothing was added since
the list was cleared: a command on a dangling focus would otherwise write above
it. With it, every command is a step of the store (`CommandIsStored`): a result is
kept under an id that was free, or replaces what it was meant to, or a datum is
deleted.

### The command line

`CommandLineProofs` proves, for every set of dofiles, sessions and subsystems and every
`StackLimit` that satisfy `CommandLineAssumption`:

* `CliInvHolds` and `TextsHold`: `CliSpec => []CliInv` and `CliSpec => []TextsInv`;
* `InterruptsStopOne` (`InterruptStopsOne`);
* `HistoryIsWhatRan` (`HistoryKept`);
* `NamesAlwaysFound` (`NamesFound`).

`CliInv` has these parts, of which none is inductive without the first.

1. `ReadersInv`: every frame but the innermost one waits for a command, and while the program
   runs there are as many command threads as frames that wait. So `top()` in `stop_requested`
   and in the handler is the thread that the code means, and a thread is joined once.
2. `HandlerInv`: a handler that has found a thread keeps one to stop, because the main
   thread, which would remove the last one, is the one that the handler suspends.
3. `SignalInv`: the commands that were interrupted, the threads that were asked to stop
   and a handler on its way are together at most the signals sent. `InterruptStopsOne` alone
   is not inductive: a thread that was asked must count before it is reported.
4. `HistoryInv`: the entries of the history are those of the commands that ended, and behind
   them, only while a user is at the prompt, the line that was left to browse. The code
   stores it in the history itself and takes it away again when the line is entered, or
   when the user is back at it (`Remembers`).

That the cursor stands in the line, the last part of `HistoryKept`, needs the text that is
there to have a length, and a text may come from anywhere: it was typed, read from a file,
found in the history, in an alias or in a variable, completed, or replaced by a value.
`TextsInv` says that everything in any of these places is a sequence of characters, and the
lemmas `...Texts` follow each step's texts through `_dequote`, `_decode`, the cutting of
lines and tokens and the replacement of variables (`Iterates` unfolds their loops by
induction). `CommandLineAssumption` asks for two things: no file consists of blank lines
only, which would be read for ever (section 5), and no file has the empty name.
`StringsAreTexts` says of the strings of the code that they have characters.

`NamesFound` is about the trie of identifiers, which an alias over a command enters twice
and `alias -d` of a command leaves. `NamesInv` therefore does not say what the frequencies of
its nodes are, only that a node counts at least the words below it (`TrieInv`): this is why
`erase`, which cuts off the first node of frequency 0 with everything below, cuts off no other
word (`EraseKeeps`). While nobody has named a command the words are just the commands and the
aliases, and the frequencies count them (`Counts`), so that no node is a dead end, and a
node with one word below leads to it (`OnlyWordFound`).

### Only model-checked

Liveness (`RoutingEnds`, `MappingEnds`, `LinesEnd`, `OptimizeEnds`, `CommandsEnd`) is out
of the prover's reach. An induction over data has to be set up by hand: the
induction theorems of the library take an operator as a parameter, so
`SetInduction` states induction for a set of numbers, and each recursive function needs
the set of numbers up to which it does what it should. That was done for the searches and lists the
mapping, the circuit and the command line rest on. It was not done for the folds of ZX
graphs, tableaux, optimizers and the extractor, so everything about them is model-checked
only. Of the command line, `CutWhereUnquoted` and `CompletionReads` (what quoting, completing and
reading again give) are.

## 5. Not modelled, known disagreements, and the plan

Left out for good: tensors and their decomposition (floating point); readers,
writers and printing (text formats); the argument parser (one sequential pass
over tokens, no state between commands); the equivalence command, whose steps are
modelled where they belong; oracle synthesis and pebbling (a SAT solver decides);
measurement programs (`table1_benchmark`, `table1_synthesizer`, `tableau_export`);
the insertion of Hadamards at random.

Left out so far: `zx rule --hadamard-fusion`, which finds nothing after the Hadamard
rule that runs before it; `zx manual` and the commands on single vertices and edges; a
stop inside a partition, which is one step here; an alias with the empty name (`alias \c x`), of which
the code makes the root of its trie a word; `optimize_2q_count`; the independent layers of a generalized flow; the reverse
direction of the mapping checker; logging commands and the screen; a mapping onto the
placement the device already has (`map(true)`, which nothing calls); the end of standard
input at the prompt; a stop inside `trivial_optimization`. The circuits of the `tableau`
run have no controlled rotations.

While translating, these were met in which the code is at odds with a comment, a
message, a test or itself. They are in the models as the code has them; where a
property would fail for one of them only, its statement excludes it and says so.

* Mapping. The checker accepts when logical gates remain
  (`mapping_eqv_checker.cpp:69`, against the comment in line 71). A SWAP of the logical
  circuit is written as three CX and exchanges the labels too (`device.cpp:309`),
  so it is lost. The base scheduler takes gates by id (`scheduler.cpp:152`), against
  the dependencies of a circuit with prepended gates. `get_final_cost`
  (`scheduler.cpp:76`) is the end of the operation with the last start, not the
  last end. The base scheduler and the list of available gates walk the ids
  0 .. size-1, which have holes after a gate was removed (`circuit_topology.cpp:38`).
* Managers. The focus dangles when datum 0 is gone, though the message says
  "Checked out to {} 0" (`data_structure_manager.hpp:120`).
* Command line. `alias -d` on a command erases its identifier (`cli.cpp:122`); an alias
  over a command name, once removed, leaves a trie node without children whose
  first child is then read (`trie.cpp:135`); `cli_exec.cpp:174` looks for a semicolon
  after an escaped space, so that a quoted argument swallows those behind it; a
  file name with the quote it is typed in closes that quote when completed; `Tab`
  with the cursor in leading spaces throws (`cli_tab.cpp:56`); a dofile of blank
  lines only is read for ever (`cli.cpp:174`); nested dofiles overwrite the `$1` of the
  outer ones; a line goes on after `quit` (`cli_exec.cpp:93`).
* Circuit optimizers. `parse_gate` drops gates of kinds it does not know
  (`basic_optimization.cpp:176`); trivial_optimization cancels a pair although gates
  on the other qubit are between (`trivial_optimization.cpp:44`); phase_teleport on a
  circuit without rotations throws (`phase_teleport.cpp:117`); an `rz` gate reaches a
  cast to PZ (`gate_optimization.cpp:81`); the passes write to the gates of the
  original, though a copy is spoken of (`optimizer_cmd.cpp:55`).
* Extractor and flow. The extended generalized flow is unsound outside the
  xy-plane (`gflow.cpp:232`); `extract print` changes the graph and throws away
  Hadamards; `extract step -cx` eliminates twice (`extractor_cmd.cpp:118`);
  `_block_elimination` filters the matrix instead of its copy (`extract.cpp:811`); a
  stopped extraction is a null pointer (`extract.cpp:99`); with independent
  layers a vertex that is skipped leaves the row index behind (`gflow.cpp:113`).
* Tableaux. Todd on a group of blocks need not be exact (`todd_preprocess.cpp:34`); a
  gate appended to a tableau without a Clifford operator is lost (`tableau.cpp:15`); the
  combinations of a controlled rotation include its target (`qcir_to_tableau.cpp:63`);
  a stopped Clifford extraction is the identity (`stabilizer_tableau.cpp:283`); the
  contraction of a cycle adds weights where the algorithm subtracts
  (`minimum_spanning_arborescence.hpp`).
* ZX graphs. `has_causal_flow` dereferences an empty vector on an output, a spider
  and an output in a row (`causal-flow.cpp:68`); `causal_flow_opt` does not ask for a stop. `from_subgraphs`
  (`zx_partition.cpp:162`) records the edge of a cut without asking for one that is
  there: with two CX on the same qubits `zx optimize --partition 2` does not give the
  identity, though `tests/zxrules/partition_reduce/dof/tseqv.dof` asks for tensor
  equality after it. A part of a single vertex would have the loop count down from
  zero (`zx_partition.cpp:303`). `zx rule` with `--pivot-gadget`, `--gadget-fusion` or
  `--state-copy` looks at no edge types, so that on a graph that is not graph-like (after
  an interrupted spider fusion, say) the linear map changes.

In order, next:

1. Proofs: that conjugation
   keeps `Symplectic`; that adding and removing edges keeps the two ends of an edge of
   `ZXGraph` agreed.
2. `zx manual` and the commands on vertices and edges; `optimize_2q_count`.
3. Pebbling and the argument parser as pure algorithms against reference
   definitions.
