---------------------- MODULE CHConstructorProperties ----------------------
(***************************************************************************)
(* What makes the construction of a contraction hierarchy correct.         *)
(***************************************************************************)
EXTENDS CHConstructor, ShortestPaths

(* The types of the variables.                                             *)
VariableTypes ==
  /\ GraphTypeOK
  /\ mode \in {"quick", "contract"}
  /\ phase \in {"round", "select", "parallel", "restructure", "contracted"}
  /\ round \in 1..(QuickMaxRounds + 1)
  /\ nodes \in SUBSET Nodes
  /\ unvisited \in SUBSET Nodes
  /\ marked \in SUBSET Nodes
  /\ independent_set \in Seq(Nodes)
  /\ next_index \in Nat \ {0}
  /\ pc \in [Threads -> {"idle", "insert", "inserting"}]
  /\ found \in [Threads -> SUBSET CHEdge]
  /\ seen \in [Threads -> SUBSET CHEdge]
  /\ mutex \in Threads \cup {NoThread}
  /\ new_shortcuts \in SUBSET CHEdge
  /\ edge_diffs \in [Nodes -> Int]
  /\ to_remove \in SUBSET Nodes

(* The edges of the hierarchy so far, those restructure() is moving        *)
(* between the vectors included.                                           *)
UnmergedEdges == {out_edges[i] : i \in {k \in DOMAIN out_edges : k >= merge_pos}}
AllEdges == UnmergedEdges \cup MergedEdges \cup edges_dump

(* The shortcuts a round has found and restructure() has not put into the  *)
(* graph.                                                                  *)
PendingShortcuts ==
  rest_shortcuts \cup (IF phase = "parallel" THEN new_shortcuts ELSE {})
    \cup UNION {found[t] \cup seen[t] : t \in Threads}

(* Every variable has its type, and NO_EID and NO_NID, the values that     *)
(* stand for no id and no node, are where the code counts on them and      *)
(* nowhere else: _addNewEdge() takes an edge without an id for a new       *)
(* shortcut and one without a center node for an edge of the input, so in  *)
(* every round the edges of the hierarchy have ids, and the shortcuts that *)
(* are found have none but a center node.                                  *)
TypeOK ==
  /\ VariableTypes
  /\ \A e \in AllEdges : e.id # NO_EID
  /\ \A s \in PendingShortcuts : s.id = NO_EID /\ IsShortcut(s)

Restructuring == phase = "restructure"

Contracted(n) == node_levels[n] # NO_LVL

-----------------------------------------------------------------------------
(* Two nodes that are removed in the same round share no edge: a shortcut  *)
(* restructure() accepts does not end at a node that is removed with its   *)
(* center node (the assertions in both loops of the merge).                *)
AcceptedShortcutsStay ==
  Restructuring =>
    \A s \in rest_shortcuts :
      s.center_node \in to_remove => {s.src, s.tgt} \cap to_remove = {}

(* The edges of the graph join nodes that are not contracted; an edge that *)
(* was laid aside joins nodes that do not have the same level, so isUp()   *)
(* finds a direction for it and its assertion holds.                       *)
LevelsSeparate ==
  /\ ~Restructuring =>
       \A e \in Edges : ~Contracted(e.src) /\ ~Contracted(e.tgt)
  /\ \A e \in edges_dump : node_levels[e.src] # node_levels[e.tgt]

(* The ids of the edges are 0, 1, .. edge_count - 1, each used once:       *)
(* exportData() and the id-to-index table use them as positions.           *)
IdsDense ==
  /\ {e.id : e \in AllEdges} = 0..(edge_count - 1)
  /\ Cardinality(AllEdges) = edge_count

(* A shortcut can be unpacked: its two child edges are in the hierarchy,   *)
(* lead from its source to its center node and on to its target, are       *)
(* together as long as it is, and the center node was contracted before    *)
(* the ends of the shortcut were.                                          *)
Unpacks(x, a, b) ==
  /\ a.id = x.child_edge1 /\ b.id = x.child_edge2
  /\ a.src = x.src /\ a.tgt = x.center_node
  /\ b.src = x.center_node /\ b.tgt = x.tgt
  /\ x.dist = UintAdd(a.dist, b.dist)

ShortcutsUnpack ==
  \A x \in {e \in AllEdges : IsShortcut(e)} :
    /\ \E a, b \in AllEdges : Unpacks(x, a, b)
    /\ node_levels[x.center_node] < node_levels[x.src]
    /\ node_levels[x.center_node] < node_levels[x.tgt]

(* The merge leaves the edges sorted (the debug assertion at the end of    *)
(* restructure()), and of the edges with equal endpoints each is shorter   *)
(* than the ones before it.                                                *)
InMergeOrder(v) ==
  \A i \in 1..(Len(v) - 1) :
    LET a == v[i]
        b == v[i + 1]
    IN  \/ a.src < b.src
        \/ a.src = b.src /\ a.tgt < b.tgt
        \/ EqualEndpoints(a, b) /\ a.dist > b.dist

MergeSorts == InMergeOrder(out_edges) /\ InMergeOrder(new_edge_vec)

(* When the threads meet at the end of the parallel loop, the shortcuts of *)
(* every node of the independent set are in the shared vector, and         *)
(* nothing else is.                                                        *)
NoShortcutLost ==
  phase = "parallel" /\ LoopDone =>
    new_shortcuts = UNION {Shortcuts(n) : n \in Chosen}

(* The shortcuts of a node do not depend on the direction _contract()      *)
(* searches for shorter paths in.                                          *)
DirectionIrrelevant ==
  phase = "select" /\ mode = "contract" =>
    \A n \in nodes :
      UNION {CalcShortcuts(e, n, "OUT") : e \in NodeEdges(n, "IN")}
        = UNION {CalcShortcuts(e, n, "IN") : e \in NodeEdges(n, "OUT")}

(* In the finished hierarchy a shortest path between any two nodes of the  *)
(* input is found by going up in the levels from both: the query CHDijkstra*)
(* answers is the distance in the graph that was read.                     *)
EdgesRead == {input_edges[i] : i \in DOMAIN input_edges}

UpEdges   == {e \in edges_dump : IsUp(e, "OUT")}
DownEdges == {e \in edges_dump : IsUp(e, "IN")}

HierarchyAnswersQueries ==
  phase = "contracted" =>
    Shortest(Joined(Distances(UpEdges), Distances(DownEdges)))
      = Distances(EdgesRead)

(* The answers are right as long as no sum of two lengths wraps around: it *)
(* is enough that the length of the longest edge, doubled in each round of *)
(* quickContract() and once more, is below NO_DIST, and that twice the     *)
(* longest distance is.                                                    *)
BoundsLengths(bound, E) ==
  /\ \A e \in E : e.dist <= bound[0]
  /\ \A k \in 1..QuickMaxRounds : 2 * bound[k - 1] <= bound[k]
  /\ 2 * bound[QuickMaxRounds] < NO_DIST
  /\ \A t \in Distances(E) : t[3] <= bound[QuickMaxRounds]

LengthsFit ==
  \A g \in InputGraphs :
    \E bound \in [0..QuickMaxRounds -> Uint] : BoundsLengths(bound, {g[i] : i \in DOMAIN g})

(* A query adds up more: the distance of a node and a label of the other   *)
(* direction, which may itself be a distance and an edge.                  *)
QueriesFit ==
  \A g \in InputGraphs :
    \E bound \in [0..QuickMaxRounds -> Uint] :
      BoundsLengths(bound, {g[i] : i \in DOMAIN g}) /\ 3 * bound[QuickMaxRounds] < NO_DIST

-----------------------------------------------------------------------------
(* The inductive invariant behind AcceptedShortcutsStay and LevelsSeparate.*)

(* The locals of restructure() are empty outside of it, those of the       *)
(* threads outside of the parallel loop.                                   *)
LocalsScoped ==
  /\ ~Restructuring => new_edge_vec = <<>> /\ merge_pos = 0 /\ rest_shortcuts = {}
  /\ Restructuring => merge_pos # 0
  /\ \A t \in Threads : pc[t] = "idle" => found[t] = {} /\ seen[t] = {}
  /\ phase # "parallel" => \A t \in Threads : pc[t] = "idle"
  /\ phase = "select" => new_shortcuts = {}
  /\ phase \in {"select", "parallel"} => to_remove = {}
  /\ mode = "quick" /\ phase # "round" => round <= QuickMaxRounds

NoLoops == \A e \in Edges \cup MergedEdges : NoLoop(e)

(* s leads over a node of C, along two edges of the graph.                 *)
ShortcutOver(s, C) ==
  /\ s.center_node \in C
  /\ NoLoop(s)
  /\ \E a, b \in Edges :
       /\ a.src = s.src /\ a.tgt = s.center_node
       /\ b.src = s.center_node /\ b.tgt = s.tgt

ShortcutsOverChosen ==
  /\ phase = "parallel" =>
       /\ \A s \in new_shortcuts : ShortcutOver(s, Chosen)
       /\ \A t \in Threads : \A s \in found[t] \cup seen[t] : ShortcutOver(s, Chosen)
  /\ Restructuring => \A s \in rest_shortcuts : ShortcutOver(s, Chosen)

(* No edge joins two chosen nodes, because the neighbours of a chosen node *)
(* are marked.                                                             *)
Independent ==
  /\ phase = "select" =>
       /\ Chosen \subseteq marked
       /\ \A e \in Edges :
            /\ e.src \in Chosen => e.tgt \in marked
            /\ e.tgt \in Chosen => e.src \in marked
  /\ phase \in {"select", "parallel", "restructure"} =>
       \A e \in Edges : e.src \notin Chosen \/ e.tgt \notin Chosen

(* The nodes that are left have no level, the others have one of the       *)
(* levels given so far; the nodes being removed have the newest.           *)
LevelsGiven ==
  /\ nodes = {n \in Nodes : ~Contracted(n)}
  /\ \A n \in Nodes : Contracted(n) => node_levels[n] < next_lvl
  /\ phase = "select" => unvisited \subseteq nodes
  /\ phase \in {"select", "parallel"} => Chosen \subseteq nodes
  /\ Restructuring =>
       /\ to_remove \subseteq Chosen
       /\ \A n \in to_remove : node_levels[n] = next_lvl - 1

(* The edges of the graph join nodes that are left or being removed.       *)
EdgesJoinNodes ==
  /\ \A e \in Edges : {e.src, e.tgt} \subseteq (IF Restructuring THEN nodes \cup to_remove ELSE nodes)
  /\ \A e \in MergedEdges : {e.src, e.tgt} \subseteq nodes

DumpSeparate == \A e \in edges_dump : node_levels[e.src] # node_levels[e.tgt]

IInv ==
  /\ VariableTypes /\ LocalsScoped /\ NoLoops /\ ShortcutsOverChosen /\ Independent
  /\ LevelsGiven /\ EdgesJoinNodes /\ DumpSeparate

-----------------------------------------------------------------------------
(* A contracted node keeps its level and an edge that was laid aside is    *)
(* not touched again, over all rounds.                                     *)
ContractedIsFinal ==
  [][/\ \A n \in Nodes : Contracted(n) => node_levels'[n] = node_levels[n]
     /\ edges_dump \subseteq edges_dump']_vars

(* Every node gets contracted: each round of contract() removes a node.    *)
EventuallyContracted == <>(phase = "contracted" /\ \A n \in Nodes : Contracted(n))

(* The construction implements the abstract contraction: during a          *)
(* restructure() its nodes count as remaining until the vectors are        *)
(* swapped.                                                                *)
Remaining ==
  {n \in Nodes : ~Contracted(n)} \cup (IF Restructuring THEN to_remove ELSE {})

DistancesBetween(S, E) == {t \in Distances(E) : t[1] \in S /\ t[2] \in S}

Abstract == INSTANCE Contraction WITH
  AllNodes <- Nodes,
  PossibleDistances <- {Distances({g[i] : i \in DOMAIN g}) : g \in InputGraphs},
  remaining <- Remaining,
  distances <- DistancesBetween(Remaining, Edges)

ImplementsContraction == Abstract!Spec

-----------------------------------------------------------------------------
(* What comments and assertions of the code say, and runs refute.          *)

(* The comments in _addNewEdge(): only shortcuts are replaced, edges of    *)
(* the original graph are not removed.                                     *)
OriginalEdgesKept ==
  \A i \in DOMAIN input_edges :
    \E e \in AllEdges :
      ~IsShortcut(e) /\ EqualEndpoints(e, input_edges[i]) /\ e.dist = input_edges[i].dist

(* The assertion in _calcShortcuts(): where the start edge is a shortest   *)
(* path to the center node, the search reaches every end node.             *)
SearchReachesTargets ==
  phase = "parallel" /\ mode = "contract" =>
    \A n \in Chosen :
      \A e \in {x \in NodeEdges(n, Opposite(SearchDirection(n))) : NoLoop(x)} :
        LET dists == SearchDists(e, n, SearchDirection(n))
        IN  dists[n] = e.dist =>
              \A t \in Targets(e, n, SearchDirection(n)) :
                dists[OtherNode(t, SearchDirection(n))] # NO_DIST
=============================================================================
