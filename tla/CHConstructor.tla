--------------------------- MODULE CHConstructor ---------------------------
(***************************************************************************)
(* The construction of a contraction hierarchy (ch_constructor.h), as the  *)
(* program runs it: quickContract() for at most QuickMaxRounds rounds,     *)
(* then contract() until no node is left.                                  *)
(*                                                                         *)
(* A round sorts the nodes that are left, picks an independent set of them *)
(* (SelectNode), contracts its members in a parallel loop (ContractNode,   *)
(* LockInsert, FinishInsert), waits for all threads, chooses the nodes to  *)
(* remove and restructures the graph.  Contracting a node does not change  *)
(* the graph: it computes the shortcuts that will replace the node.        *)
(***************************************************************************)
EXTENDS CHGraph, FiniteSetsExt, SequencesExt

CONSTANTS Threads,          \* threads of the parallel loops
          NoThread,         \* the mutex is free
          QuickMaxDegree,   \* max_degree of quickContract()
          QuickMaxRounds    \* max_rounds of quickContract()

ASSUME ThreadsAssumption == NoThread \notin Threads /\ IsFiniteSet(Threads)
ASSUME QuickAssumption == QuickMaxDegree \in Nat /\ QuickMaxRounds \in Nat

VARIABLES
  mode,             \* which function runs: "quick" or "contract"
  phase,            \* where in its loop, or "contracted" after the last
  round,            \* round of quickContract()
  nodes,            \* nodes that are not contracted yet
  unvisited,        \* calcIndependentSet(): nodes the loop has not reached
  marked,           \* calcIndependentSet(): nodes that cannot be chosen
  independent_set,  \* the nodes chosen, in the order they were chosen
  next_index,       \* first iteration of the parallel loop nobody has taken
  pc,               \* where each thread is in its iteration
  found,            \* shortcuts each thread found and has not inserted yet
  seen,             \* _new_shortcuts as the inserting thread found it
  mutex,            \* owner of _new_shortcuts_mutex
  new_shortcuts,    \* _new_shortcuts
  edge_diffs,       \* _edge_diffs
  to_remove         \* _to_remove, and _remove as a set

loop_vars   == <<mode, phase, round, nodes>>
select_vars == <<unvisited, marked, independent_set>>
thread_vars == <<next_index, pc, found, seen, mutex, new_shortcuts, edge_diffs>>
vars == <<graph_vars, loop_vars, select_vars, thread_vars, to_remove>>

-----------------------------------------------------------------------------
(* Contracting a node.                                                     *)

(* How far a search for a path around a node goes.                         *)
WithinRadiusOnly(dist, radius) == dist < radius   \* mutant

WithinRadius(dist, radius) == dist <= radius

(* _calcShortestDists(): the distances from start_node, in a graph with    *)
(* the edges E, that are found before the queue holds nothing within the   *)
(* radius.  Labels outside of the radius need not be shortest distances.   *)
SearchStates == [dists : [Nodes -> Uint], queue : SUBSET (Nodes \X Uint)]

SearchStart(start_node) ==
  [dists |-> [n \in Nodes |-> IF n = start_node THEN 0 ELSE NO_DIST],
   queue |-> {<<start_node, 0>>}]

Top(search) == CHOOSE e \in search.queue : \A o \in search.queue : e[2] <= o[2]

SearchEnds(search, radius) == search.queue = {} \/ ~WithinRadius(Top(search)[2], radius)

(* The edges of the top are relaxed, if its distance is not outdated.      *)
PopAndRelax(E, type, search) ==
  LET top     == Top(search)
      labels(n) == {UintAdd(top[2], e.dist) :
                      e \in {x \in E : OtherNode(x, Opposite(type)) = top[1] /\ OtherNode(x, type) = n}}
      relaxed == [n \in Nodes |-> Min({search.dists[n]} \cup labels(n))]
      pushed  == {<<n, relaxed[n]>> : n \in {m \in Nodes : relaxed[m] < search.dists[m]}}
  IN  IF search.dists[top[1]] # top[2] THEN [search EXCEPT !.queue = @ \ {top}]
      ELSE [dists |-> relaxed, queue |-> (search.queue \ {top}) \cup pushed]

CalcShortestDists(E, start_node, type, radius) ==
  LET dists[search \in SearchStates] ==
        IF SearchEnds(search, radius) THEN search.dists ELSE dists[PopAndRelax(E, type, search)]
  IN  dists[SearchStart(start_node)]

CreateShortcutInOrder(edge1, edge2, type) == MakeShortcut(edge1, edge2)   \* mutant

CreateShortcut(edge1, edge2, type) ==
  IF type = "OUT" THEN MakeShortcut(edge1, edge2) ELSE MakeShortcut(edge2, edge1)

NoLoop(e) == e.src # e.tgt

(* The edges that can follow start_edge at center_node.                    *)
Targets(start_edge, center_node, type) ==
  {e \in NodeEdges(center_node, type) :
     NoLoop(e) /\ OtherNode(e, type) # OtherNode(start_edge, Opposite(type))}

RadiusWithoutStart(lengths, start_edge) == Max(lengths \cup {0})   \* mutant

Radius(lengths, start_edge) == UintAdd(Max(lengths \cup {0}), start_edge.dist)

SearchDists(start_edge, center_node, type) ==
  LET lengths == {e.dist : e \in Targets(start_edge, center_node, type)}
  IN  CalcShortestDists(Edges, OtherNode(start_edge, Opposite(type)), type,
                        Radius(lengths, start_edge))

(* _calcShortcuts(): one shortcut for each path from start_edge over       *)
(* center_node no path is shorter than.                                    *)
CalcShortcuts(start_edge, center_node, type) ==
  LET dists == SearchDists(start_edge, center_node, type)
      shortest(e) == dists[OtherNode(e, type)] = UintAdd(start_edge.dist, e.dist)
  IN  IF dists[center_node] # start_edge.dist THEN {}
      ELSE {CreateShortcut(start_edge, e, type) :
              e \in {t \in Targets(start_edge, center_node, type) : shortest(t)}}

SearchDirection(node) ==
  IF NrOfEdgesOf(node, "IN") <= NrOfEdgesOf(node, "OUT") THEN "OUT" ELSE "IN"

(* _contract(node, td)                                                     *)
ShortcutsOf(node) ==
  LET type == SearchDirection(node)
  IN  UNION {CalcShortcuts(e, node, type) :
               e \in {x \in NodeEdges(node, Opposite(type)) : NoLoop(x)}}

(* getShortcutsOfQuickContracting(node): every pair of edges.              *)
QuickShortcutsOf(node) ==
  LET pairs == NodeEdges(node, "IN") \X NodeEdges(node, "OUT")
  IN  {CreateShortcut(p[1], p[2], "OUT") :
         p \in {q \in pairs : NoLoop(q[1]) /\ NoLoop(q[2]) /\ q[1].src # q[2].tgt}}

Shortcuts(node) == IF mode = "quick" THEN QuickShortcutsOf(node) ELSE ShortcutsOf(node)

-----------------------------------------------------------------------------
(* The rounds of quickContract() and contract().                           *)

Init ==
  /\ GraphInit
  /\ mode = "quick" /\ phase = "round" /\ round = 1
  /\ nodes = Nodes
  /\ unvisited = {} /\ marked = {} /\ independent_set = <<>>
  /\ next_index = 1
  /\ pc = [t \in Threads |-> "idle"]
  /\ found = [t \in Threads |-> {}]
  /\ seen = [t \in Threads |-> {}]
  /\ mutex = NoThread
  /\ new_shortcuts = {}
  /\ edge_diffs = [n \in Nodes |-> 0]
  /\ to_remove = {}

(* The head of the loop and _initVectors().                                *)
StartRoundKeepsRemoved ==   \* mutant
  /\ phase = "round"
  /\ IF mode = "quick" THEN round <= QuickMaxRounds ELSE nodes # {}
  /\ phase' = "select"
  /\ new_shortcuts' = {}
  /\ unvisited' = nodes /\ marked' = {} /\ independent_set' = <<>>
  /\ UNCHANGED <<graph_vars, mode, round, nodes, next_index, pc, found, seen,
                 mutex, edge_diffs, to_remove>>

StartRound ==
  /\ phase = "round"
  /\ IF mode = "quick" THEN round <= QuickMaxRounds ELSE nodes # {}
  /\ phase' = "select"
  /\ new_shortcuts' = {} /\ to_remove' = {}
  /\ unvisited' = nodes /\ marked' = {} /\ independent_set' = <<>>
  /\ UNCHANGED <<graph_vars, mode, round, nodes, next_index, pc, found, seen,
                 mutex, edge_diffs>>

(* quickContract() returns, after its last round or because no node has a  *)
(* degree it accepts; contract() is called.                                *)
QuickContractReturns ==
  /\ mode = "quick"
  /\ \/ phase = "round" /\ round > QuickMaxRounds
     \/ phase = "select" /\ unvisited = {} /\ independent_set = <<>>
  /\ mode' = "contract" /\ phase' = "round"
  /\ UNCHANGED <<graph_vars, round, nodes, select_vars, thread_vars, to_remove>>

ContractReturns ==
  /\ mode = "contract" /\ phase = "round" /\ nodes = {}
  /\ phase' = "contracted"
  /\ UNCHANGED <<graph_vars, mode, round, nodes, select_vars, thread_vars, to_remove>>

(* The nodes are sorted by the product of their degrees, which is a uint;  *)
(* those with equal products may come in any order.                        *)
InOutProduct(n) == (NrOfEdgesOf(n, "IN") * NrOfEdgesOf(n, "OUT")) % (MaxUint + 1)

OutNeighbours(n) == {OtherNode(e, "OUT") : e \in NodeEdges(n, "OUT")}   \* mutant

Neighbours(n) == UNION {{OtherNode(e, type) : e \in NodeEdges(n, type)} : type \in EdgeType}

DegreeAccepted(n) == mode = "quick" => QuickMaxDegree >= NrOfEdges(n)

(* One iteration of calcIndependentSet().                                  *)
SelectNode ==
  /\ phase = "select"
  /\ \E n \in unvisited :
       /\ \A m \in unvisited : InOutProduct(n) <= InOutProduct(m)
       /\ unvisited' = unvisited \ {n}
       /\ IF n \notin marked /\ DegreeAccepted(n)
          THEN /\ marked' = marked \cup {n} \cup Neighbours(n)
               /\ independent_set' = Append(independent_set, n)
          ELSE UNCHANGED <<marked, independent_set>>
  /\ UNCHANGED <<graph_vars, loop_vars, thread_vars, to_remove>>

EnterParallelLoop ==
  /\ phase = "select" /\ unvisited = {} /\ (mode = "quick" => independent_set # <<>>)
  /\ phase' = "parallel"
  /\ next_index' = 1
  /\ UNCHANGED <<graph_vars, mode, round, nodes, select_vars, pc, found, seen,
                 mutex, new_shortcuts, edge_diffs, to_remove>>

(* A thread takes the next iteration of the parallel loop and computes the *)
(* shortcuts; contract() also notes how many edges the removal would add.  *)
ContractNode(t) ==
  /\ phase = "parallel" /\ pc[t] = "idle"
  /\ next_index <= Len(independent_set)
  /\ LET node == independent_set[next_index]
         new  == Shortcuts(node)
     IN  /\ found' = [found EXCEPT ![t] = new]
         /\ edge_diffs' = IF mode = "quick" THEN edge_diffs
                          ELSE [edge_diffs EXCEPT ![node] = Cardinality(new) - NrOfEdges(node)]
  /\ next_index' = next_index + 1
  /\ pc' = [pc EXCEPT ![t] = "insert"]
  /\ UNCHANGED <<graph_vars, loop_vars, select_vars, seen, mutex, new_shortcuts, to_remove>>

(* The vector grows in two steps, reading it and writing it: only the      *)
(* mutex keeps another thread from writing in between.                     *)
LockInsertAnyway(t) ==   \* mutant
  /\ pc[t] = "insert"
  /\ mutex' = t
  /\ seen' = [seen EXCEPT ![t] = new_shortcuts]
  /\ pc' = [pc EXCEPT ![t] = "inserting"]
  /\ UNCHANGED <<graph_vars, loop_vars, select_vars, next_index, found,
                 new_shortcuts, edge_diffs, to_remove>>

LockInsert(t) ==
  /\ pc[t] = "insert"
  /\ mutex = NoThread
  /\ mutex' = t
  /\ seen' = [seen EXCEPT ![t] = new_shortcuts]
  /\ pc' = [pc EXCEPT ![t] = "inserting"]
  /\ UNCHANGED <<graph_vars, loop_vars, select_vars, next_index, found,
                 new_shortcuts, edge_diffs, to_remove>>

FinishInsertKeepsLock(t) ==   \* mutant
  /\ pc[t] = "inserting"
  /\ new_shortcuts' = seen[t] \cup found[t]
  /\ found' = [found EXCEPT ![t] = {}]
  /\ seen' = [seen EXCEPT ![t] = {}]
  /\ pc' = [pc EXCEPT ![t] = "idle"]
  /\ UNCHANGED <<graph_vars, loop_vars, select_vars, next_index, mutex, edge_diffs, to_remove>>

FinishInsert(t) ==
  /\ pc[t] = "inserting"
  /\ new_shortcuts' = seen[t] \cup found[t]
  /\ found' = [found EXCEPT ![t] = {}]
  /\ seen' = [seen EXCEPT ![t] = {}]
  /\ mutex' = NoThread
  /\ pc' = [pc EXCEPT ![t] = "idle"]
  /\ UNCHANGED <<graph_vars, loop_vars, select_vars, next_index, edge_diffs, to_remove>>

(* The barrier at the end of the parallel loop.                            *)
LoopDone == next_index > Len(independent_set) /\ \A t \in Threads : pc[t] = "idle"

Chosen == {independent_set[i] : i \in DOMAIN independent_set}

(* _chooseRemoveNodes(): the nodes with at most the mean edge difference.  *)
EdgeDiffSum == MapThenSumSet(LAMBDA n : edge_diffs[n], Chosen)

LowEdgeDiffs == {n \in Chosen : edge_diffs[n] * Cardinality(Chosen) <= EdgeDiffSum}

NodesToRemove == IF mode = "quick" THEN Chosen ELSE LowEdgeDiffs

ChooseRemoveNodes ==
  /\ phase = "parallel" /\ LoopDone
  /\ to_remove' = to_remove \cup NodesToRemove
  /\ nodes' = nodes \ (to_remove \cup NodesToRemove)
  /\ BeginRestructure(to_remove \cup NodesToRemove, new_shortcuts)
  /\ phase' = "restructure"
  /\ UNCHANGED <<mode, round, select_vars, thread_vars>>

Restructure ==
  /\ phase = "restructure"
  /\ MergeShortcut(to_remove) \/ MergeEdge(to_remove)
  /\ UNCHANGED <<loop_vars, select_vars, thread_vars, to_remove>>

EndRound ==
  /\ phase = "restructure"
  /\ FinishRestructure
  /\ phase' = "round"
  /\ round' = IF mode = "quick" THEN round + 1 ELSE round
  /\ UNCHANGED <<mode, nodes, select_vars, thread_vars, to_remove>>

Terminated == phase = "contracted" /\ UNCHANGED vars

StepWithinRound ==
  \/ StartRound \/ QuickContractReturns \/ ContractReturns
  \/ SelectNode \/ EnterParallelLoop
  \/ \E t \in Threads : ContractNode(t) \/ LockInsert(t) \/ FinishInsert(t)
  \/ ChooseRemoveNodes \/ Restructure

Next == StepWithinRound \/ EndRound \/ Terminated

(* The program is a terminating computation: while a step is possible, the *)
(* processor and the scheduler of the threads eventually take one.         *)
Spec == Init /\ [][Next]_vars /\ WF_vars(Next)
=============================================================================
