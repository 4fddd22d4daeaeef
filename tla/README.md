# A verification of ch_constructor

`ch_constructor` reads a road graph, builds a *contraction hierarchy* (CH) over
it with several threads and writes the hierarchy to a file. `Dijkstra` and
`CHDijkstra` answer shortest-path queries, the latter in the hierarchy. This
directory holds TLA+ models of the program, TLC configurations that check them
on small graphs, and TLAPS proofs that hold for graphs of every size.

Source paths below are relative to `src/src/`.

## 1. The system

| part | state | operations | talks to |
|---|---|---|---|
| edges, orders (`nodes_and_edges.*`) | none | `concat`, `make_shortcut`, `otherNode`, the sorts | everybody |
| `Graph` (`graph.h`) | out- and in-edges, offsets into both, id-to-index table, dirty flag | `init`, `update`, `nodeEdges`, `getEdge`, degrees | queries, constructor |
| `CHGraph` (`chgraph.h`) | + node levels, next level, dumped edges | `restructure`/`_addNewEdge`, `rebuildCompleteGraph`, `isUp`, `exportData` | constructor, `CHDijkstra`, writers |
| `CHConstructor` (`ch_constructor.h`) | labels per thread, `_new_shortcuts` with its mutex, `_edge_diffs`, `_remove`, `_to_remove` | `quickContract`, `contract` (with and without a prioritizer), `calcIndependentSet` | `CHGraph`, OpenMP threads, prioritizer |
| prioritizers (`prioritizer.h`, `prioritizers.h`) | the vector of the nodes that are left | `init`, `extractNextNodes`, `hasNodesLeft` | called by the constructor, calls it back for independent sets and edge differences |
| `Dijkstra`, `CHDijkstra` (`dijkstra.h`) | labels kept from query to query | `calcShopa` | `Graph`, `CHGraph` |
| readers (`file_formats_helper.h`, `file_formats.cpp`) | the stream with its flags, the loops of `readGraph` | `readHeader`, `readLine`, `text_readNode`, `text_readEdge`, `readGraph` | deliver the input of `Graph::init` |
| writers, choice of formats (`file_formats.*`) | none | `writeCHGraphFile`, ... | called last by `main` |
| `main`, `BuildAndStoreCHGraph` (`ch_constructor.cpp`) | the options, the order of the calls | option parsing, read, build, write | everybody |
| helpers (`enum_*`, `function_traits.h`, `defs.h`, `track_time.h`, `indexed_container.h`) | none | | |

What is hard in this program:

* **Threads.** The nodes of an independent set are contracted in an OpenMP loop
  whose threads share one vector of shortcuts.
* **Simultaneous removal.** All nodes of a round are contracted against the
  *same* graph, and only some are removed. That distances survive depends on
  the independence of the nodes, on how ties between equally long paths are
  broken and on where a search may stop.
* **The merge.** `restructure()` merges two sorted vectors by hand and decides
  with the last edge only what to drop, replace or duplicate, and which id an
  edge gets. Ids are later used as positions.
* **Data kept between calls.** The labels of both query classes, `_to_remove`,
  the id table (stale from the first round until `rebuildCompleteGraph()`).
* **Termination.** Progress of `contract()` rests on a comparison with a mean,
  that of the queries on a strict comparison, with edges of length zero around.
* **Streams.** A reader meets the end of a file with the last number or after
  it, depending on what follows; formats differ in fields and headers, and
  nothing marks a file with its format.
* **Failing late.** The types a graph needs follow from the output format, but
  the output file is opened, and emptied, only after the contraction.
* **Unsigned arithmetic.** Four "no value" constants are all the largest
  `uint`, and distances add up without a check.

`PROJECT.json` lists these hazards line by line with the properties that cover
them.

## 2. The modules

```
NodesAndEdges ── ShortestPaths ── ShortestPathQueries (abstract)
   │        ├──── InputGraphFamilies
   │        └──── FileFormats ── GraphReader (+ InputStream, Sorting) ── Program ── MCProgram
   │                                                                       └── ProgramProofs (+ RecursionProofs)
 CHGraph ───────────────────────────── GraphVectors (+ Sorting)
   │                                      │        │
 CHConstructor                        CHDijkstra  Dijkstra ── MCDijkstra
   │                                      │           (refines ShortestPathQueries)
 CHConstructorProperties ── (refines) Contraction (abstract)
   │         │    │   ├── CHConstructorProofs ── PipelineProofs
   │         │    │   └── WitnessSearch (refines CHConstructor) ── MCWitnessSearch
   │         │    │            └── WitnessSearchProofs (on CHConstructorProofs)
   │         │    └── Prioritizers ── MCPrioritizers
   │         │             └── PrioritizersProofs (on CHConstructorProofs)
   │         └─────── CHPipeline (+ CHDijkstra, FileFormats) ── MCCHPipeline
 MCCHConstructor                     (refines ShortestPathQueries)

 RecursionProofs (on ShortestPaths, Sorting) ──┬── GraphVectorsProofs ──┬── DijkstraProofs
                                               ├── CHConstructorProofs ─┴── PipelineProofs
                                               └── ProgramProofs
```

A definition marked `\* mutant` stands beside the one it varies: the same
operator with a plausible mistake. No specification uses it; it is there to
confirm that the property named for it in `PROJECT.json` notices the mistake.

**NodesAndEdges**. An edge is a record of the fields control depends on: id,
ends, distance, child ids, center node. `MaxUint` is the largest `uint`, also
`NO_EID`, `NO_NID`, `NO_DIST`, `NO_LVL`; `UintAdd` wraps around. `IsInputGraph`
says what a reader delivers; it is the assumption on the constant `InputGraphs`
of all that follows, and what `GraphReader` is proved to deliver.

**ShortestPaths**. What distances *are* (found by allowing one node after
the other as an inner node of a path), independent of the code: the reference
for the properties.

**CHGraph**. The graph during construction. `restructure()` is a machine with
one step per iteration of its merge: `BeginRestructure` (levels),
`MergeShortcut`, `MergeEdge` (each with `_addNewEdge()` as `IgnoreEdge`,
`ReplaceEdge`, `AppendEdge`), `FinishRestructure`. `std::sort` is not stable:
shortcuts with equal ends come in any order. The vector of dumped edges is a
set, because nothing depends on its order. `input_edges` is a history variable.

**CHConstructor**. `quickContract()` then `contract()`, as `main` and the unit
tests call them. A round is `StartRound` (`_initVectors()`), `SelectNode` once
per node (`calcIndependentSet()`, in any order the sort may produce),
`EnterParallelLoop`, per thread `ContractNode`, `LockInsert`, `FinishInsert`,
then after the barrier `ChooseRemoveNodes`, the merge, `EndRound`. Inserting
into the shared vector takes two steps, reading and writing, because that is
what the mutex is for. The witness search (`CalcShortestDists`) is a recursive
function on the states of a search (`SearchStates`: the queue and the labels),
which starts in `SearchStart`, takes the element `Top` of the queue until
`SearchEnds` (the radius of the code, or an empty queue) and relaxes its edges
(`PopAndRelax`): it reads a graph no one changes during the loop and writes the
data of its own thread, so its steps commute with those of other threads and one
step stands for it.
Shortcuts are held as a set: two pairs of edges never give the same record,
since the ids of both are in it.

**Contraction**. The abstract specification: nodes leave, at least one at a
time, and the distances among the others do not change. `ImplementsContraction`
in `CHConstructorProperties` is the refinement (INSTANCE): a node counts as
remaining until the merged vectors are swapped in.

**GraphVectors**. What `Graph` keeps besides the outgoing edges: the incoming
ones, the offsets, the id table; `Update`, `RebuildCompleteGraph`,
`ExportData`.

**CHDijkstra**, **Dijkstra**. The two query classes, one step per iteration of
the search and of the walk back; elements of the queue with equal distances
come in any order. `Dijkstra` is complete with its own specification.

**WitnessSearch**. The parallel loop of `contract()` with the searches inside:
`TakeNode`, then for each start edge `StartSearch`, `PopTop`, `RelaxEdge` (one
edge), `FinishSearch`, and `FinishNode`. Each thread keeps its `ThreadData`
(queue, labels, list of labels to reset) from search to search, node to node
and round to round. All else are the actions of `CHConstructor`, which is the
*abstract* specification here: `ImplementsConstructor` says that the steps of
all threads amount to its single `ContractNode`, taken when the node is taken.

**ShortestPathQueries**. The abstract specification of a query object: the
reply to a question is the distance in the graph that was read, whatever was
asked before. `Dijkstra` and `CHPipeline` (for `CHDijkstra`) implement it
(`ImplementsQueries`).

**CHPipeline** composes `CHConstructor`, `GraphVectors`, `CHDijkstra` and the
writers' part of `FileFormats`: construct, then export and write (as `main`
does), or rebuild, query, export and write (as `testCHDijkstra` does).

**Prioritizers**. `contract(nodes, prioritizer)` with both prioritizers. It
reuses the parallel loop and the merge of `CHConstructor`.

**InputStream**. What the readers use of `std::ifstream`: `>>`, `getline`,
`peek` with the `eof` and `fail` flags, over a text that is a sequence of
symbols (numbers, words, ends of lines). `Extract` is one `>>`, and
`ExtractNumbers` a chain of them. The library is external; its operators follow
from how `file_formats*` uses it.

**FileFormats**. The formats as tables: the types of nodes and edges each can
be read and written with, what converts to what, the number of fields of a
line, `calcTimeMetric()` (with the two results rounding can have) and the lines
that are written.

**GraphReader**. `SimpleReader::readGraph()` with the `readHeader()`,
`text_readNode()` and `text_readEdge()` of each format, one step per line:
`ReadMetadata`, `ReadCounts`, `ReadNode`, `ReadEdge` (loops and negative lengths
are dropped with `--i; --nr_of_edges;`), then the sort and `RemoveDuplicates`
with its new ids. A record that is not complete, or that the end of the file
follows too soon, aborts the program. What a file is (`IsFile`) and its `Text`,
one of the `Rows` after the other, are there for the properties, as is the
history variable `file`, which no action reads.

**Program**. `main()`: one step per option (with the checks of `-t`), the choice
of types for a pair of formats, opening the input, reading it with
`GraphReader`, building, opening the output (which empties it) and writing.
Every way to stop is a value of `stage`: `exit_0`, `exit_1`, `aborted`
(`std::abort`), `terminated` (an exception nobody catches). What is done to the
graph in between is the matter of `CHPipeline`.

## 3. Runs

| run | question | instance |
|---|---|---|
| `three_nodes` | Is every hierarchy of three nodes correct? | all graphs over six arcs with lengths 0, 1, 3 or no arc; 2 threads |
| `four_nodes` | Do shortcuts of shortcuts unpack, does the merge keep its order? | sub-graphs of a ring of four with chords, lengths 1, 3; 2 threads |
| `threads` | Is a shortcut lost between threads? Is every node contracted? Are distances kept along the way (`Contraction`)? | 3 threads, graphs of up to five nodes, in which up to three are independent |
| `witness` | Do the searches of the threads, with labels they keep, find what `CHConstructor` takes for granted? | five graphs of four nodes, one with a cycle of length zero; 2 threads |
| `pipeline` | Vectors, table and labels over the whole life of a hierarchy, two queries with the same labels, and the written file | graphs of four nodes, some with edges of no length; formats `STD` and `FMI_CH` |
| `dijkstra` | Any number of queries, with zero-length cycles | graphs of three nodes with lengths 0, 1; one asymmetric graph |
| `prioritizers` | Is the order of either prioritizer as good (`Contraction`), and does it run out? | five graphs of four nodes, all 24 orders of them; 2 threads |
| `program` | Is what is delivered the graph of the file? What fails, and when? Does every run end? | all `SIMPLE` files of up to 3 lines over two arcs and a loop (4 lines over fewer), lengths -1, 1, 2, counts right or off by one; roads of each kind in `STD` and `FMI`; orderly and faulty files in every layout under all 81 pairs of format names; command lines with mistakes |
| `original_edges`, `overflow`, `final_newline`, `exported_ids` | findings, see below | |

The properties, in short:

* `AcceptedShortcutsStay`, `LevelsSeparate`: the assertions of `restructure()`
  and `isUp()` hold.
* `TypeOK` of `CHConstructorProperties`: beside the types, the edges of the
  hierarchy have ids and pending shortcuts have none, but a center node. That is
  how `_addNewEdge()` tells a new shortcut from an edge and from an edge of the
  input.
* `IdsDense`, `ShortcutsUnpack`: ids are `0..edge_count-1`,
  each once, over any number of rounds with replaced and duplicated edges, and
  the children of a shortcut lead along it.
* `MergeSorts`: the merged vector is sorted, and of edges with equal ends each
  is shorter than those before.
* `DirectionIrrelevant`: `_contract()` may search in the direction with fewer
  edges, the shortcuts are the same.
* `NoShortcutLost`: after the parallel loop the shared vector holds the
  shortcuts of every chosen node and nothing else.
* `ContractedIsFinal`: levels and dumped edges are never touched again.
* `HierarchyAnswersQueries`: the hierarchy represents the distances of the
  input; `ImplementsContraction`: and so does the graph between any two rounds,
  for the nodes that are left.
* `LabelsListed`, `DistancesFound`, `ImplementsConstructor`: a search starts with
  clean labels, ends with the distances within its radius, and the threads
  together do what `CHConstructor` says.
* `ImplementsQueries`, `PathsLead`: what a query returns is the distance,
  whatever was asked before, and its path leads from source to target and is
  that long.
* `VectorsAgree`, `EdgesFoundById`, `LabelsWillBeReset`: derived data agrees
  with the data it is derived from.
* `WrittenFileHasDistances`, `WrittenShortcutsUnpack`: the written file can be
  used without the program.
* `NodesHandedOutOnce`, and the liveness properties `EventuallyContracted`,
  `PrioritizerRunsOut`, `QueriesEnd`, `ProgramEnds`.
* `DeliversInputGraph` (`IsInputGraph` is what everything else assumes),
  `KeepsDistances`, `TimesCoverLengths`, `MisreadFilesGiveNothing` (a file in
  another format than announced is not taken for a graph), `CompleteFilesAreRead`,
  `FailureLeavesOutput`.

`ProgramEnds` is claimed only for files whose last line is ended: with
metadata, no empty line and no end of the last line, `getline()` leaves `line` as
it was once the stream has failed, and the loop of `readHeader()` never ends.

### Bounds

`NrOfNodes`, `MaxUint` and the graphs bound a run. Three nodes suffice for a
shortcut, a witness and a tie; four for a shortcut of a shortcut, a replaced
edge followed by a duplicate, and two nodes removed in one round around the
same pair; five for three simultaneous contractions and several rounds.
`MaxUint` is chosen above every sum of lengths and every id of the instance
(15 to 63; 511 in `program`, so that every speed is a signed number and no time wraps around), except in `overflow`, where it is 7 so that two edges of the
largest length the readers accept (`MaxUint \div 2`) wrap around. Input graphs
number their edges against their order, so that an id taken for a position
shows. Bounds inside the models: `EdgeIdsLeft` and `LevelsLeft` (a counter
that reaches the "no value" constant stops the model; it would wrap around in
the code after 2^32 edges or rounds), `QuickMaxRounds` and `QuickMaxDegree`
(parameters of the code: 5 and 4 in `main`), `MaxQueries` (2: the second query
meets the labels of the first; `dijkstra` needs no such bound). `MaxThreads`
stands for the memory the constructor has for the labels of its threads.
`TimesFit` is assumed of the files of `program` (see section 4).

The format names are all eight and one that is unknown. `SIMPLE` files are
enumerated, because they reach every branch of the loop over the edges; the
other formats differ in header, fields and time, and have files of their own.

What `std::sort` leaves open, and the order in which a caller hands over the
nodes, is nondeterminism; symmetry is not used, because nodes are numbers that are
compared.

### Fairness

`Spec` of `CHConstructor`, `SearchSpec`, `PrioritizedSpec` and `ProgramSpec` have
weak fairness of their whole next-state relation: the program computes without waiting for anybody,
so as long as a step is possible one is taken. No fairness between threads is
assumed. In `Dijkstra` only `AnswerQuery` is fair: a query that was asked is
computed, but nothing obliges a caller to ask another.

### Findings

* `original_edges`: the comments in `_addNewEdge()` (`chgraph.h:139` "only
  replace shortcut edges", `chgraph.h:146-147` "don't remove edges from original
  graph") say the reverse of the condition in line 140, which replaces the last
  edge exactly if it is *not* a shortcut. Queries are still right
  (`HierarchyAnswersQueries`), but edges of the input are lost.
* `overflow`: "we know a path within radius - so _calcShortestDists must have
  found one" (`ch_constructor.h:228`) fails when the sum of two distances wraps
  around. Each length is one that the readers accept.
* `final_newline`: "only make sure there is a newline (or EOF) after the record"
  (`file_formats.cpp:26`), but when the
  last number of a file is read the stream already knows the end, `peek()` sets
  `fail`, and the record is refused: a file whose last line is not ended is not
  read.
* `exported_ids`: "Sort edges for output and adapt id's" (`chgraph.h:212`), but
  line 220 sets the id of the edge at position `i` to `new_id[i]`, an index of
  old ids, instead of `i`. The child ids (lines 221-222) are right.

## 4. Proofs

`CHConstructorProofs` proves, for every number of nodes and threads, every
input graph, every `MaxUint` and every limit of `quickContract()`:

* `Invariant`: `Spec => []IInv`, the inductive invariant;
* `TypeCorrect`: `[]TypeOK`; that edges of the hierarchy have ids and pending
  shortcuts have none comes from the invariant of the ids below (`IdsInv`);
* `ShortcutsStay`: `[]AcceptedShortcutsStay`, the assertions of the merge;
* `LevelsDiffer`: `[]LevelsSeparate`, the assertion of `isUp()`;
* `ContractedStays`: `ContractedIsFinal`, from `Invariant`: a node that is
  removed has no level yet.

The assumptions are those on the constants: `SizeAssumption` (the nodes fit
into a `uint`), `InputAssumption` (an input graph is what the readers deliver,
`IsInputGraph`), `ThreadsAssumption`, `QuickAssumption`.

`AcceptedShortcutsStay` is not inductive: it speaks of the merge, but its
reason is four steps back. The argument that `IInv` (in
`CHConstructorProperties`) carries along is:

1. `Independent`: while nodes are selected, both ends of every edge at a chosen
   node are marked; so at the end no edge joins two chosen nodes.
2. `ShortcutsOverChosen`: every shortcut a thread has found, is inserting, or
   has inserted runs along two edges of the graph over a chosen node (lemmas
   `JoinOver`, `ShortcutsOver`); the graph does not change until the merge.
3. So both ends of a shortcut over a removed node are neighbours of it, and
   with 1. not chosen, hence not removed.
4. `LevelsGiven`, `EdgesJoinNodes`, `DumpSeparate`: the nodes that are left are
   those without a level, edges join only those, an edge that is dumped has an
   end with the newest level and another end that has none or an older one.
   `LocalsScoped` and `NoLoops` say where the locals are empty and that no edge
   is a loop.

There is one lemma per action (`StartRoundKeeps` ... `EndRoundKeeps`), combined
in `NextKeeps`. The witness search needs no induction: what it returns only
decides *which* of the possible shortcuts are made.

On `IInv` build, from the same assumptions:

* `CHConstructorProofs`, `NothingLost`: `[]NoShortcutLost`. Neither is it
  inductive: `LoopInv` adds that a thread that is inserting holds the mutex and
  has seen the vector as it is (`InsertingAlone`), and that the vector together
  with what the threads hold is the union of the shortcuts of all nodes taken so
  far (`NoneLost`). That the shortcuts of a node do not change during the loop
  is a lemma (`SameShortcuts`).
* `CHConstructorProofs`, `MergeKeepsOrder`: `[]MergeSorts`. `OrderInv` adds that what is
  not merged yet comes after what is (`MergeAhead`: for an edge of the graph in
  the order of the merged vector, which is transitive; for a shortcut only by
  its ends) and that new shortcuts have no id (`NewIds`), which is why one with
  the ends of the last edge is compared with it.
* `CHConstructorProofs`, `IdsStayDense`: `[]IdsDense`. `IdsInv` says which ids are in
  which place: those not merged yet, those merged and those laid aside are
  disjoint, within each vector the ids differ from position to position, and
  together they are `0..edge_count-1`. Without positions, replacing the last
  edge could leave a second one with its id. That it holds of the input is the
  pigeonhole principle: `n` different ids below `n` are all of them.
* `CHConstructorProofs`, `EveryShortcutUnpacks`: `[]ShortcutsUnpack`. An edge of the
  input can be replaced by a shortcut that takes over its id, and what was its
  place in another shortcut would then be wrong. `UnpackInv` shows that this
  cannot be: a child of a shortcut ends at a node that is removed in the round
  the shortcut is made in, so it is `Leaving` when the shortcut is merged, and
  laid aside at the end of the round; what is replaced joins nodes that stay.

`ProgramProofs` is about the program as `main()` runs it, for files of any
number of nodes and lines, every command line and every pair of formats. The
assumptions are `StartsAssumption` (what is read is a file in the sense of
`IsFile`: written in one of the layouts, ends that are nodes, lengths and speeds
of the signed type they are read into; counts may be wrong, lines may be loops,
negative or the same, the last line may not be ended), `SymbolsAssumption` (ends
of lines and words are no numbers), `SizeAssumption` and `MaxThreadsAssumption`.

* `FailuresComeFirst`: `[]FailureLeavesOutput`; the reason (`TypesCanBeWritten`,
  `OutputInv`) is that the graph has exactly the types the writer asks for.
* `InputGraphsAreDelivered`: `[]DeliversInputGraph`, so the assumption all other
  proofs make about input graphs (`InputAssumption`) is one the readers keep.
* `ReadingKeepsDistances`: `[]KeepsDistances`.
* `OtherLayoutsGiveNothing`: `[]MisreadFilesGiveNothing`.
* `NothingInOrderIsRefused`: `[]CompleteFilesAreRead`.
* `TimesAreNoLess`: `[]TimesCoverLengths`, for files in which no time is above
  `MaxUint` (`TimesFit`; `MCProgram` assumes it of its files, so TLC evaluates
  it). `calcTimeMetric()` puts a `double` into an `unsigned` unchecked, and a
  time that does not fit is anything.

The invariant is `ReaderInv`, which TLC has checked on all states of `program`
before it was proved. What it says rests on where the stream is:

1. A text is its rows one after the other (`TextOfFile`), and `RowEnds` is where
   each of them ends. From a stream in front of a row, `ExtractNumbers` gives its
   numbers and stops after the last of them; it is at the end of the file
   exactly if that row is the last and not ended (`AfterRowInText`).
2. Read in its own layout (`RightLayout`), the reader is in front of a row and
   after the one before it (`InOrder`): in the loop over the edges some `k` lines
   have been read, `i` ids given away, and `nr_of_edges` is what was announced
   less the lines dropped, `k - i` of them. So `--i; --nr_of_edges;` and the
   loop's `++i` neither overrun nor stop short (`EdgesReadTo`).
3. The edges have the ids `0 .. i-1` in the order of their lines, each stands for
   a line that is kept, and each line that is kept has its edge (`FromRows`).
   The sort changes their order only (`EdgesAreSorted`, from
   `SortingsAreSortings`). In the order by ends and then by length,
   `std::unique` keeps the shortest of each group (`UniqueStayed`), and the ids
   stay dense: renewed if an edge went, as they were if none did
   (`DuplicatesRemoved`).
4. Read in another layout (`Misread`), the counts are 0: there is metadata in
   their place, or the reader went through the whole file for the end of
   metadata it does not have. Or they are right, and the first line of a node has
   a number too many or too few, so that `readLine()` aborts; only a file without
   nodes gets past that, and it has no edges.
5. An abort has a cause (`AbortsForCause`): with everything in order none of the
   checks strikes, because of 2.

The distances follow from 3. alone (`DistancesAreKept`): each edge is a line with
one of its lengths, so no way is shorter than the lines allow; each line has an
edge not longer than itself, or is a loop, so none is longer (`EdgesNoShorter`);
and who is reached does not depend on lengths (`SameNodesReached`).

`RecursionProofs` holds what is needed of recursive definitions. The library
states induction and recursion with operators as parameters, which the provers
cannot instantiate; here both are stated for *sets* (a set that contains 0 and
with each number the next one contains all, `NatSetInduction`; likewise for the
subsets of a finite set, `SubsetInduction`) and for functions given by a step
(`IntervalRecursion`, `SetRecursion`). From these follow what the folds of the
community modules compute, and two results everything else uses:

* `SortingsAreSortings`: the members of `Sortings(S, order)` hold each element
  of `S` once and put none after a greater one.
* `DistancesAreDistances`: the reference the properties call distance deserves
  the name. `Distances(E)` satisfies the triangle inequality and is at most the
  length of each edge, and no *potential* (a function on the nodes that rises
  along an edge at most by its length) rises faster than it. That determines it.

Distances depend on the ends and lengths of edges only
(`SameArcsSameDistances`), so ids that are renumbered do not matter.

`GraphVectorsProofs` shows that counting and adding up gives offsets that cut
exactly the edges of a node out of a vector sorted by that end
(`SliceOfNode`, `SliceOfSet`).

`DijkstraProofs` is about any number of queries of one object:

* `CleanLabels`: `[]LabelsWillBeReset`.
* `PathsAlwaysLead`: `[]PathsLead`.
* `RepliesAreDistances`: `Spec => ImplementsQueries`, the refinement of
  `ShortestPathQueries`.

The invariant `IInv` says of the set `W` of nodes that are settled: their labels
are exact, each was found by an edge from another settled node with a label
that differs by its length, and the other nodes are labelled with the best way
over one more edge (`Settled`, `Frontier`). With edges of length zero the walk
back needs more than falling labels: an order in which the nodes were settled.
That the label popped is the distance (`TopIsExact`) is shown with a potential,
the smaller of the labels and the top's distance. The last two theorems are for
graphs in which every distance plus an edge is below `NO_DIST`
(`LengthsFit`); nothing in the code checks that, and beyond it the sums wrap
around and the replies are wrong. `MCDijkstra` assumes it of its graphs, so TLC
evaluates it.

The second half of `CHConstructorProofs` proves what the program is for, for any number of nodes,
threads and rounds, whichever nodes the rounds choose and whichever thread is
faster:

* `QueriesAnswered`: `[]HierarchyAnswersQueries`, the finished hierarchy
  represents the distances of the graph that was read.
* `ConstructionContracts`: `Spec => ImplementsContraction`, the refinement of
  `Contraction`: each round takes nodes away and keeps the distances of the
  others.
* `EitherDirection`: `[]DirectionIrrelevant`, the direction with fewer edges
  finds the same shortcuts as the other.

The hypothesis is `LengthsFit`: the length of the longest edge, doubled in each
round of `quickContract()` (5 in `main`) and once more, and twice the longest
distance, are below `NO_DIST`. A shortcut is at most twice as long as the
longest edge, and in the rounds of `contract()` no longer than a distance. For
road graphs it holds by a wide margin; nothing in the code checks it, and the
run `overflow` shows that the search fails without it. TLC evaluates it for the
graphs of every run that claims these properties (`GraphsFit`).

1. Where no sum wraps around, a search finds the distances within its radius
   and labels nothing below its distance (`SearchFinds`), although it stops at
   the radius and pops elements that are out of date; the argument is the one of
   `Dijkstra`, with a radius.
2. So `_calcShortcuts()` keeps a way over the node exactly if no way in the graph
   is shorter, in either direction, ties included (`SearchDecides`).
3. Take a graph, remove nodes of which no two are joined, add the shortest ways
   over them and leave out edges that are not shorter than another way: among the
   nodes that stay, distances stay (`StayingKeepDistances`). With two removed
   nodes around the same pair, each search could see the other's way as the
   witness; ties are kept by both, so one survives.
4. The edges that leave such a graph lead up on the one side of a shortest path
   and down on the other (`StillUpAndDown`).
5. The merge of `restructure()` makes such a graph (`MergedMakeUp`), whatever it
   drops, replaces or duplicates on the way.

`DistanceInv` carries this from round to round: the distances among the nodes
that are left are those of the input, and the dumped edges together with the
graph represent the rest; a bound on the lengths of the edges, doubled per round,
keeps every sum from wrapping around; within a round, what the threads have found
and the merge has not dealt with yet is accounted for. TLC checked it on all
graphs of three nodes before it was proved.

`WitnessSearchProofs` proves that it was right to take one step for a whole
search, for any number of nodes and threads and every interleaving:

* `LabelsStayListed`: `[]LabelsListed`.
* `SearchesImplementConstructor`: `SearchSpec => ImplementsConstructor`, the
  refinement of `CHConstructor`.
* `SearchesFindDistances`: `[]DistancesFound`.

The last two assume `LengthsFit`, as the distances of `CHConstructorProofs` do; `MCWitnessSearch`
assumes it of its graphs, so TLC evaluates it. The invariant is `SearchesInv`:

1. `LabelsInv`: the labels a thread has set are listed, so its next search
   starts with clean ones, whatever it has searched before.
2. `JobsInv`: a thread on a job (`OnTheJob`) contracts a node of the independent
   set that no other thread has, and what it has found together with the
   shortcuts of the start edges it has not finished are the shortcuts of its
   node. While it searches, labels are lengths of ways and what is not in its queue
   is relaxed, but for the edges of the top still to come (`Underway`), and that
   top has its distance (`TopSettled`). Other threads change neither the graph
   nor its data (`UndisturbedJob`).
3. `Atomic!DistanceInv`, the invariant of `CHConstructorProofs` under the refinement
   mapping. The searches need it: sums do not wrap around because the graph is
   one `CHConstructor` could have reached. It holds of the next state because the
   step, seen through the mapping, is one of `CHConstructor` (`StepsAreSeen`), so
   refinement and invariant are proved together (`SearchesStayInv`).

A search that ends has the distances within the radius (`SearchIsExact`), and
these decide on the shortcuts as those of the recursive function do
(`SameShortcutsFound`): what `TakeNode` promised is what `FinishNode` has found.

`PrioritizersProofs` is about the construction with a prioritizer, for any
number of nodes and threads, every order of the nodes and every order
`std::sort` may leave:

* `HandedOutOnce`: `[]NodesHandedOutOnce`.
* `PrioritizedShortcutsStay`: `[]AcceptedShortcutsStay`.
* `PrioritizedQueriesAnswered`: `[]HierarchyAnswersQueries`, and
  `PrioritizedContracts`: `PrioritizedSpec => ImplementsContraction`, both for
  graphs whose lengths fit (`LengthsFit`, assumed in `MCPrioritizers`).

Nothing of the parallel loop or the merge is proved again. The proofs of
`CHConstructorProofs` are not about `Next` but about `AnyNext`, whose rounds
contract *any* nodes of which no two are joined, and remove any of those;
`contract(nodes)` is one way to choose them and a prioritizer is another. The
instance `Rounds` reads the state of a prioritized construction as one of
those: the nodes without a level are the vector of nodes, and all the
prioritizer does is the head of a round. `PrioritizedSteps` shows that each
step is then one of `AnyNext` or none. It needs `PrioritizerInv`: between
rounds the prioritizer has the nodes without a level, each once; what
`calcIndependentSet()` returned are some of them, and joined by no edge. This
rests on what the pure functions do: `_remove()` with its exchanges removes
exactly the nodes given (`RemoveNodesRemoves`), the sort keeps the nodes
(`SortingKeepsNodes`), of the nodes of an independent set no two are neighbours
(`IndependentSetIndependent`), and those with a low edge difference are among
them, each once (`LowEdgeDiffNodesAreNodes`). That there is always one of them
is a matter of progress and stays with TLC (`PrioritizerRunsOut`).

`PipelineProofs` is about the whole life of a hierarchy, for any number of
rounds and queries: `OffsetsAgree` (`[]VectorsAgree`), `TableFindsEdges`
(`[]EdgesFoundById`), `QueriesStartClean` (`[]LabelsWillBeReset`), `FilesUnpack`
(`[]WrittenShortcutsUnpack`) and, for graphs whose lengths fit (`LengthsFit`),
`FilesHaveDistances` (`[]WrittenFileHasDistances`): from the numbers on the lines
of the written file alone, read as a hierarchy or as a plain graph, follow the
distances of the graph that was read. Its invariant `PipelineInv` says for each
stage what is known: during the construction, that merged edges are sorted, ids
dense and shortcuts unpack, that edges without a center node have no children
(`PlainChildren`), and that the vectors hold the same edges (`VectorsInv`); after
the construction, that the edges form a `Hierarchy`; after the export, that the
children of the edge at a position are the edges at two positions
(`ExportedUnpack`). The export translates ids that are dense and distinct, which
is why `new_id` is defined on all of them and one to one
(`RenumberedPositions`). `FileInv` adds the distances: `DistanceInv` during the
construction, and after it that the edges, also with the new ids and sorted
anew, represent the distances (`Complete`).

The same module proves that the queries are right, for any number of them:

* `QueriesAreDistances`: `PipelineSpec => ImplementsQueries`, the refinement of
  `ShortestPathQueries` by the construction and `CHDijkstra` together.
* `PathsOfQueriesLead`: `[]PathsLead`.

The hypothesis is `QueriesFit`, which is `LengthsFit` with three times the bound
below `NO_DIST`: a query adds the distance of a node to the label the other
direction has for it, which may itself be a distance plus an edge. `MCCHPipeline`
assumes both (`GraphsFit`), so TLC evaluates them. The invariant `AnswersInv` is
`FileInv` and what is known at each stage of a query:

1. During the search (`TwoSearches`), for each direction: a node that is settled
   has a label found by an edge from another settled node, longer by that edge
   (`Settled`); labels of the others are at most two lengths and still in the
   queue (`Frontier`); nobody was settled before its turn (`Ordered`). No label is
   below the distance in the part of the hierarchy its direction walks. The best
   meeting so far is not below the distance `d` and covers every node both
   directions have settled (`Met`).
2. By `Complete` a shortest way goes up and then down, so there is a node in
   between where both searches are exact once all shorter elements are popped
   (`SettledByThen`). The loop ends when the top is longer than the best meeting
   or the queue is empty, so the best meeting is `d` (`DistanceIsFound`,
   `SearchFound`), although neither search is complete by then.
3. If there is no way at all, no node ever gets a label from both (`InVain`,
   `NoMeeting`), and the loop ends with an empty queue.
4. The walk back from the meeting node follows settled nodes only, each edge as
   long as the labels differ (`EdgeBack`, `Legs`); the legs of both directions
   joined are the path (`LegsLead`). That the walk ends is not
   part of it; in TLC's runs an endless walk would be an endless path, hence
   infinitely many states.

Every safety invariant, every action property and every refinement the passing
runs check has its theorem. Model-checked only are the liveness properties
(`EventuallyContracted`, `PrioritizerRunsOut`, `QueriesEnd`, `ProgramEnds`), since `ENABLED`
and fairness are not supported by the provers, and the four runs that find a
counterexample.

## 5. Not modelled

* The payload of edges and nodes (coordinates, metric, names): carried along,
  never compared. Type and speed of a road only where they decide its time.
* The metadata of files beyond the empty line that ends them, and the headers
  of written files.
* Printing and the stop watch; `enum_array`, `function_traits` and other
  compile-time helpers.
* Code nothing calls: `IndexVector`, `withReadGraph()`, `writeGraph()` and
  `writeGraphFile()`, `getShortcutsOfContracting(node)` and `calcEdgeDiff(node)`
  (which would search with an empty vector of labels).
* Numbers with decimals: no format has one where control depends on it.
* Memory that runs out, as when the counts of a file announce more than can be
  reserved.
* A disk that is full: `WriteHierarchy` may leave the file cut off and the
  program reports success, as the code does; nothing promises otherwise.

## 6. Plan

Done: the core (CHGraph, CHConstructor, Contraction) with its inductive
invariant; the searches of the threads; vectors, queries and what a query object
promises; the life of a hierarchy up to the written file; prioritizers; readers,
formats and the program; theorems about the parallel loop, the merge, the ids
and the children of shortcuts, the distances the construction keeps, the
vectors, the searches of the threads, the prioritizers, the queries of
`Dijkstra` and of `CHDijkstra`, the written file, and what the readers deliver.

What could be added: a termination argument for `contract()` and the queries by
hand-written variants, as the provers do not support fairness; the headers of
the written files; and a composition of `Program` with `CHPipeline` in one
specification (today the link is `IsInputGraph`, which the one delivers and the
other assumes).
