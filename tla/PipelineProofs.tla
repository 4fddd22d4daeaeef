--------------------------- MODULE PipelineProofs ---------------------------
(***************************************************************************)
(* Proofs about the life of a hierarchy, from the input graph to the file, *)
(* for every graph, every order of threads and sorts, and any number of    *)
(* queries: the vectors agree, edges are found by their ids, the labels of *)
(* a query are reset, what is written can be unpacked and has the          *)
(* distances of the graph that was read, every query is answered with the  *)
(* distance, and its path leads there.                                     *)
(***************************************************************************)
EXTENDS CHPipeline, CHConstructorProofs, GraphVectorsProofs

-----------------------------------------------------------------------------
(* The inductive invariant.                                                *)

(* Only shortcuts have children.                                           *)
PlainChildren ==
  \A x \in Edges \cup MergedEdges \cup edges_dump : ~IsShortcut(x) => x.child_edge1 = NO_EID

ConstructionInv ==
  /\ OrderInv /\ IdsInv /\ UnpackInv /\ PlainChildren
  /\ phase = "contracted" => nodes = {}
  /\ Restructuring => is_dirty

(* The vectors of the graph, while there is one.                           *)
VectorsInv ==
  /\ out_edges \in Seq(CHEdge)
  /\ Lists(out_edges, Edges) /\ SortedByKey(out_edges, "OUT")
  /\ Lists(in_edges, Edges) /\ SortedByKey(in_edges, "IN")
  /\ out_offsets = Offsets(out_edges, "OUT") /\ in_offsets = Offsets(out_edges, "IN")

(* The edges of a finished hierarchy: their ids are positions, and every   *)
(* edge with children unpacks into them.                                   *)
Hierarchy(E) ==
  /\ E \in SUBSET CHEdge
  /\ \A a, b \in E : a.id = b.id => a = b
  /\ Ids(E) = 0..(edge_count - 1) /\ edge_count \in Uint
  /\ \A x \in E : x.child_edge1 # NO_EID => LowCenter(x) /\ Unpackable(x, E)

(* The labels of the query object.                                         *)
PQElements == [node : Nodes, found_by : Uint, direction : EdgeType, dist : Uint]

LabelsInv ==
  /\ task \in {"none", "search", "backtrack", "answered"}
  /\ task \in {"search", "backtrack"} => stage = "query"
  /\ pq \in SUBSET PQElements
  /\ dists \in [EdgeType -> [Nodes -> Uint]]
  /\ reset_dists \in [EdgeType -> SUBSET Nodes]
  /\ LabelsWillBeReset

(* The children of an exported edge are positions of edges.                *)
UnpacksAt(v, i) ==
  LET x == v[i]
      a == v[x.child_edge1 + 1]
      b == v[x.child_edge2 + 1]
  IN  /\ x.child_edge1 + 1 \in DOMAIN v /\ x.child_edge2 + 1 \in DOMAIN v
      /\ x.child_edge2 # NO_EID
      /\ {x.src, x.tgt, a.tgt} \subseteq Nodes
      /\ a.src = x.src /\ a.tgt = b.src /\ b.tgt = x.tgt
      /\ x.dist = UintAdd(a.dist, b.dist)
      /\ \A n \in {x.src, x.tgt} : node_levels[a.tgt] < node_levels[n]

ExportedUnpack == \A i \in DOMAIN out_edges : out_edges[i].child_edge1 # NO_EID => UnpacksAt(out_edges, i)

PipelineInv ==
  /\ stage \in {"construct", "query", "exported", "written"}
  /\ stage = "construct" => ConstructionInv
  /\ stage \in {"construct", "query"} => VectorsInv
  /\ stage = "query" => edges_dump = {} /\ Hierarchy(Edges) /\ ~Restructuring
  /\ stage \in {"exported", "written"} => is_dirty
  /\ stage = "exported" => ExportedUnpack
  /\ EdgesFoundById /\ LabelsInv /\ WrittenShortcutsUnpack

-----------------------------------------------------------------------------
(* The construction.                                                       *)

(* Initially.                                                              *)
LEMMA InitConstruction == Init => ConstructionInv
<1> SUFFICES ASSUME Init PROVE ConstructionInv
  OBVIOUS
<1>1. OrderInv /\ IdsInv /\ UnpackInv
  BY InitIsAny, InitOrder, InitIds, InitUnpacks
<1>2. IsInputGraph(out_edges) /\ MergedEdges = {} /\ edges_dump = {}
  BY InputAssumption DEF Init, GraphInit, MergedEdges
<1>3. DOMAIN out_edges = 1..Len(out_edges)
  BY <1>2, LenProperties DEF IsInputGraph
<1>4. PlainChildren
  BY <1>2, <1>3 DEF PlainChildren, Edges, IsInputGraph, InputEdge
<1> QED
  BY <1>1, <1>4 DEF ConstructionInv, Init, Restructuring

(* An edge that is new or moved has children only if it is a shortcut.     *)
LEMMA AddNewEdgePlain ==
  ASSUME IInv, NEW e \in CHEdge, AddNewEdge(e),
         IsShortcut(e) \/ e.child_edge1 = NO_EID,
         \A x \in MergedEdges : IsShortcut(x) \/ x.child_edge1 = NO_EID
  PROVE  \A x \in MergedEdges' : IsShortcut(x) \/ x.child_edge1 = NO_EID
<1> SUFFICES ASSUME NEW x \in MergedEdges', x \notin MergedEdges
             PROVE  IsShortcut(x) \/ x.child_edge1 = NO_EID
  OBVIOUS
<1>1. PICK id : x = [e EXCEPT !.id = id]
  BY AddNewEdgeRenumbers
<1>2. x.child_edge1 = e.child_edge1 /\ x.center_node = e.center_node
  BY <1>1 DEF CHEdge
<1> QED
  BY <1>2 DEF IsShortcut

(* The merge keeps this.                                                   *)
LEMMA RestructurePlain ==
  ASSUME IInv, PlainChildren, Restructure
  PROVE  PlainChildren'
<1>0. Restructuring
  BY DEF Restructure, Restructuring
<1>1. CASE MergeShortcut(to_remove)
  <2>1. PICK s \in rest_shortcuts :
          /\ IF AcceptsShortcut(s, to_remove)
             THEN AddNewEdge(s)
             ELSE UNCHANGED <<new_edge_vec, edge_count>>
          /\ UNCHANGED <<out_edges, edges_dump>>
    BY <1>1 DEF MergeShortcut
  <2>2. s \in CHEdge
    BY MergeTypes
  <2>3. IsShortcut(s)
    <3>1. s.center_node \in Chosen /\ Chosen \subseteq Nodes
      <4>1. ShortcutOver(s, Chosen)
        BY <1>0 DEF IInv, ShortcutsOverChosen
      <4>2. Chosen \subseteq Nodes
        BY DEF IInv, VariableTypes, Chosen
      <4> QED
        BY <4>1, <4>2 DEF ShortcutOver
    <3> QED
      BY <3>1, NodesAreUint DEF IsShortcut
  <2>4. \A x \in MergedEdges : IsShortcut(x) \/ x.child_edge1 = NO_EID
    BY DEF PlainChildren
  <2>5. \A x \in MergedEdges' : IsShortcut(x) \/ x.child_edge1 = NO_EID
    <3>1. CASE AddNewEdge(s)
      BY <2>2, <2>3, <2>4, <3>1, AddNewEdgePlain
    <3>2. CASE UNCHANGED <<new_edge_vec, edge_count>>
      BY <2>4, <3>2 DEF MergedEdges
    <3> QED
      BY <2>1, <3>1, <3>2
  <2>6. Edges' = Edges
    BY <2>1 DEF Edges
  <2> QED
    BY <2>1, <2>5, <2>6 DEF PlainChildren
<1>2. CASE MergeEdge(to_remove)
  <2> DEFINE edge == out_edges[merge_pos]
  <2>1. /\ merge_pos \in 1..Len(out_edges)
        /\ \/ AddNewEdge(edge) /\ UNCHANGED edges_dump
           \/ edges_dump' = edges_dump \cup {edge} /\ UNCHANGED <<new_edge_vec, edge_count>>
        /\ UNCHANGED out_edges
    BY <1>2 DEF MergeEdge
  <2>2. edge \in CHEdge /\ edge \in Edges
    BY <2>1, MergeTypes, LenProperties DEF Edges
  <2> HIDE DEF edge
  <2>3. \A x \in Edges \cup MergedEdges \cup edges_dump : IsShortcut(x) \/ x.child_edge1 = NO_EID
    BY DEF PlainChildren
  <2>4. Edges' = Edges
    BY <2>1 DEF Edges
  <2>5. CASE AddNewEdge(edge) /\ UNCHANGED edges_dump
    <3>1. \A x \in MergedEdges' : IsShortcut(x) \/ x.child_edge1 = NO_EID
      BY <2>2, <2>3, <2>5, AddNewEdgePlain
    <3> QED
      BY <2>3, <2>4, <2>5, <3>1 DEF PlainChildren
  <2>6. CASE edges_dump' = edges_dump \cup {edge} /\ UNCHANGED <<new_edge_vec, edge_count>>
    <3>1. MergedEdges' = MergedEdges
      BY <2>6 DEF MergedEdges
    <3> QED
      BY <2>2, <2>3, <2>4, <2>6, <3>1 DEF PlainChildren
  <2> QED
    BY <2>1, <2>5, <2>6
<1> QED
  BY <1>1, <1>2 DEF Restructure

(* Every step of the construction.                                         *)
LEMMA NextKeepsConstruction == ConstructionInv /\ [Next]_vars => ConstructionInv'
<1> SUFFICES ASSUME ConstructionInv, [Next]_vars PROVE ConstructionInv'
  OBVIOUS
<1>1. OrderInv' /\ IdsInv' /\ UnpackInv'
  BY NextKeepsOrder, NextKeepsIds, NextKeepsUnpacking DEF ConstructionInv
<1>2. IInv /\ PlainChildren
  BY DEF ConstructionInv, OrderInv
<1>3. CASE UNCHANGED graph_vars
  <2>1. PlainChildren'
    BY <1>2, <1>3, SameGraph DEF PlainChildren, graph_vars
  <2>2. (phase = "contracted" => nodes = {})'
    BY DEF ConstructionInv, Next, StepWithinRound, StartRound, QuickContractReturns,
           ContractReturns, SelectNode, EnterParallelLoop, ContractNode, LockInsert, FinishInsert,
           ChooseRemoveNodes, Restructure, EndRound, Terminated, vars, loop_vars
  <2>3. (Restructuring => is_dirty)'
    BY <1>3 DEF ConstructionInv, Next, StepWithinRound, StartRound, QuickContractReturns,
           ContractReturns, SelectNode, EnterParallelLoop, ContractNode, LockInsert, FinishInsert,
           ChooseRemoveNodes, BeginRestructure, Restructure, EndRound, Terminated, vars, loop_vars,
           Restructuring, graph_vars
  <2> QED
    BY <1>1, <2>1, <2>2, <2>3 DEF ConstructionInv
<1>4. CASE ChooseRemoveNodes
  BY <1>1, <1>2, <1>4 DEF ConstructionInv, ChooseRemoveNodes, BeginRestructure, PlainChildren,
     Edges, MergedEdges
<1>5. CASE Restructure
  <2>1. PlainChildren'
    BY <1>2, <1>5, RestructurePlain
  <2>2. UNCHANGED <<is_dirty, phase>>
    BY <1>5 DEF Restructure, MergeShortcut, MergeEdge, loop_vars
  <2> QED
    BY <1>1, <1>5, <2>1, <2>2 DEF ConstructionInv, Restructure, Restructuring
<1>6. CASE EndRound
  <2>1. phase' = "round" /\ Edges' = MergedEdges /\ MergedEdges' = {} /\ edges_dump' = edges_dump
    BY <1>6 DEF EndRound, FinishRestructure, Edges, MergedEdges
  <2> QED
    BY <1>1, <1>2, <2>1 DEF ConstructionInv, PlainChildren, Restructuring
<1> QED
  BY <1>3, <1>4, <1>5, <1>6
  DEF Next, StepWithinRound, StartRound, QuickContractReturns, ContractReturns, SelectNode,
      EnterParallelLoop, ContractNode, LockInsert, FinishInsert, Terminated, vars

(* The finished hierarchy is what was laid aside.                          *)
LEMMA ContractedHierarchy ==
  ASSUME ConstructionInv, phase = "contracted"
  PROVE  Hierarchy(edges_dump) /\ Edges = {} /\ out_edges = <<>>
<1>1. IInv /\ nodes = {} /\ ~Restructuring /\ IdsInv /\ UnpackInv /\ PlainChildren
  BY DEF ConstructionInv, OrderInv, Restructuring
<1>2. Edges = {}
  BY <1>1 DEF IInv, EdgesJoinNodes
<1>3. out_edges = <<>>
  <2>1. out_edges \in Seq(CHEdge) /\ DOMAIN out_edges = {}
    BY <1>1, <1>2, MergeTypes DEF Edges
  <2> QED
    BY <2>1
<1>4. MergedEdges = {} /\ UnmergedEdges = {} /\ Leaving = {}
  <2>1. new_edge_vec = <<>>
    BY <1>1 DEF IInv, LocalsScoped
  <2>2. DOMAIN <<>> = {}
    OBVIOUS
  <2> QED
    BY <1>1, <1>2, <2>1, <2>2 DEF MergedEdges, UnmergedEdges, Edges, Leaving
<1>5. edges_dump \in SUBSET CHEdge /\ edge_count \in Uint
  BY <1>1 DEF IInv, VariableTypes, GraphTypeOK
<1>6. /\ \A a, b \in edges_dump : a.id = b.id => a = b
      /\ Ids(edges_dump) = 0..(edge_count - 1)
  BY <1>1, <1>4 DEF IdsInv, IdsApart, IdsUsed, Ids
<1>7. \A x \in edges_dump : x.child_edge1 # NO_EID => LowCenter(x) /\ Unpackable(x, edges_dump)
  BY <1>1, <1>4 DEF UnpackInv, KeptUnpack, PlainChildren
<1> QED
  BY <1>2, <1>3, <1>5, <1>6, <1>7 DEF Hierarchy

-----------------------------------------------------------------------------
(* The vectors.                                                            *)

(* A merged vector is sorted by the sources.                               *)
LEMMA MergeOrderSorted ==
  ASSUME NEW v \in Seq(CHEdge), InMergeOrder(v)
  PROVE  SortedByKey(v, "OUT")
<1>1. Len(v) \in Nat /\ DOMAIN v = 1..Len(v)
  OBVIOUS
<1>2. \A k \in 1..Len(v) : v[k].src \in Nat
  <2>1. \A k \in 1..Len(v) : v[k] \in CHEdge
    OBVIOUS
  <2>2. \A e \in CHEdge : e.src \in Nat
    BY SizeAssumption DEF CHEdge, Nodes
  <2> QED
    BY <2>1, <2>2
<1>3. \A k \in 1..(Len(v) - 1) : v[k].src <= v[k + 1].src
  <2> TAKE k \in 1..(Len(v) - 1)
  <2>1. k \in 1..Len(v) /\ k + 1 \in 1..Len(v)
    BY <1>1
  <2>2. v[k].src < v[k + 1].src \/ v[k].src = v[k + 1].src
    BY DEF InMergeOrder, EqualEndpoints
  <2> QED
    BY <1>2, <2>1, <2>2
<1> SUFFICES ASSUME NEW i \in DOMAIN v PROVE \A j \in DOMAIN v : i < j => v[i].src <= v[j].src
  BY DEF SortedByKey, KeyNode, OtherNode, Opposite
<1> DEFINE S == {j \in Nat : j \in 1..Len(v) /\ i < j => v[i].src <= v[j].src}
<1>4. 0 \in S
  OBVIOUS
<1>5. ASSUME NEW j \in Nat, j \in S PROVE j + 1 \in S
  <2> SUFFICES ASSUME j + 1 \in 1..Len(v), i < j + 1 PROVE v[i].src <= v[j + 1].src
    OBVIOUS
  <2>1. j = i \/ i < j
    BY <1>1
  <2>2. j \in 1..(Len(v) - 1) /\ j \in 1..Len(v)
    BY <1>1, <2>1
  <2>3. v[i].src <= v[j].src
    BY <1>1, <1>2, <1>5, <2>1, <2>2
  <2> QED
    BY <1>1, <1>2, <1>3, <2>2, <2>3
<1> HIDE DEF S
<1>6. Nat \subseteq S
  BY <1>4, <1>5, NatSetInduction
<1> QED
  BY <1>1, <1>6 DEF S

(* A vector of edges with different ids lists them.                        *)
LEMMA DistinctLists ==
  ASSUME NEW v \in Seq(CHEdge), DistinctIds(v), NEW S, S = {v[i] : i \in DOMAIN v}
  PROVE  Lists(v, S) /\ S \in SUBSET CHEdge /\ IsFiniteSet(S)
<1>1. DOMAIN v = 1..Len(v) /\ \A i \in 1..Len(v) : v[i] \in CHEdge
  OBVIOUS
<1>2. S \in SUBSET CHEdge
  BY <1>1
<1>3. v \in Seq(S)
  BY <1>1
<1>4. Lists(v, S)
  BY <1>3 DEF Lists, DistinctIds
<1> QED
  BY <1>2, <1>4, EdgeSetsFinite

(* The outgoing edges during the construction.                             *)
LEMMA ConstructedVector ==
  ASSUME ConstructionInv
  PROVE  /\ out_edges \in Seq(CHEdge) /\ Lists(out_edges, Edges) /\ SortedByKey(out_edges, "OUT")
         /\ Edges \in SUBSET CHEdge /\ IsFiniteSet(Edges)
<1>1. out_edges \in Seq(CHEdge) /\ DistinctIds(out_edges) /\ InMergeOrder(out_edges)
  BY DEF ConstructionInv, OrderInv, IInv, VariableTypes, GraphTypeOK, MergeSorts, IdsInv, IdsApart
<1>2. Lists(out_edges, Edges) /\ Edges \in SUBSET CHEdge /\ IsFiniteSet(Edges)
  BY <1>1, DistinctLists DEF Edges
<1> QED
  BY <1>1, <1>2, MergeOrderSorted

(* Initially.                                                              *)
LEMMA InitVectors == Init /\ VectorsInit => VectorsInv
<1> SUFFICES ASSUME Init, VectorsInit PROVE VectorsInv
  OBVIOUS
<1>1. /\ out_edges \in Seq(CHEdge) /\ Lists(out_edges, Edges) /\ SortedByKey(out_edges, "OUT")
      /\ Edges \in SUBSET CHEdge /\ IsFiniteSet(Edges)
  BY InitConstruction, ConstructedVector
<1>2. in_edges \in TgtSrcSortings(Edges)
  BY <1>1, TgtSrcSortingExists DEF VectorsInit
<1>3. Lists(in_edges, Edges) /\ SortedByKey(in_edges, "IN")
  BY <1>1, <1>2, TgtSrcSorted
<1>4. out_offsets = Offsets(out_edges, "OUT") /\ in_offsets = Offsets(out_edges, "IN")
  BY DEF VectorsInit, Init, GraphInit
<1> QED
  BY <1>1, <1>3, <1>4 DEF VectorsInv

(* At the end of restructure().                                            *)
LEMMA RestructuredVectors ==
  ASSUME ConstructionInv, ConstructionInv', RestructureVectors
  PROVE  VectorsInv'
<1>1. out_edges' \in Seq(CHEdge) /\ DistinctIds(out_edges') /\ InMergeOrder(out_edges')
  BY DEF ConstructionInv, OrderInv, IInv, VariableTypes, GraphTypeOK, MergeSorts, IdsInv, IdsApart,
         DistinctIds, InMergeOrder
<1>2. Edges' = {out_edges'[i] : i \in DOMAIN out_edges'}
  BY DEF Edges
<1>3. Lists(out_edges', Edges') /\ Edges' \in SUBSET CHEdge /\ IsFiniteSet(Edges')
  BY <1>1, <1>2, DistinctLists
<1>4. SortedByKey(out_edges', "OUT")
  BY <1>1, MergeOrderSorted
<1>5. Lists(in_edges', Edges') /\ SortedByKey(in_edges', "IN")
  BY <1>3, TgtSrcSorted DEF RestructureVectors, SortInEdges
<1>6. out_offsets' = Offsets(out_edges', "OUT") /\ in_offsets' = Offsets(out_edges', "IN")
  BY DEF RestructureVectors, InitOffsets
<1> QED
  BY <1>1, <1>3, <1>4, <1>5, <1>6 DEF VectorsInv, Lists, SortedByKey, KeyNode, Offsets

(* nodeEdges() returns the edges of a node, each once.                     *)
LEMMA RangeOfNode ==
  ASSUME VectorsInv, NEW n \in Nodes, NEW type \in EdgeType
  PROVE  /\ NodeEdgesRange(n, type) \in Seq(CHEdge)
         /\ ConsistsOf(NodeEdgesRange(n, type), NodeEdges(n, type))
<1>1. out_edges \in Seq(CHEdge) /\ Edges \in SUBSET CHEdge
  BY DEF VectorsInv, Edges
<1>2. IsFiniteSet(Edges)
  BY <1>1, EdgeSetsFinite
<1>3. NodeEdges(n, type) = {e \in Edges : KeyNode(e, type) = n}
  BY DEF NodeEdges, KeyNode
<1>4. CASE type = "OUT"
  <2>1. NodeEdgesRange(n, type) = Slice(out_edges, Offsets(out_edges, "OUT"), n)
    BY <1>4 DEF NodeEdgesRange, Slice, VectorsInv
  <2>2. Lists(out_edges, Edges) /\ SortedByKey(out_edges, "OUT")
    BY DEF VectorsInv
  <2> QED
    BY <1>1, <1>2, <1>3, <1>4, <2>1, <2>2, SliceOfSet
<1>5. CASE type = "IN"
  <2>1. Lists(out_edges, Edges) /\ Lists(in_edges, Edges) /\ SortedByKey(in_edges, "IN")
    BY DEF VectorsInv
  <2>2. Offsets(out_edges, "IN") = Offsets(in_edges, "IN")
    BY <1>1, <1>2, <2>1, SameOffsets
  <2>3. NodeEdgesRange(n, type) = Slice(in_edges, Offsets(in_edges, "IN"), n)
    BY <1>5, <2>2 DEF NodeEdgesRange, Slice, VectorsInv
  <2> QED
    BY <1>1, <1>2, <1>3, <1>5, <2>1, <2>3, SliceOfSet
<1> QED
  BY <1>4, <1>5 DEF EdgeType

-----------------------------------------------------------------------------
(* The labels of a query.                                                  *)

(* The labels of one direction, and the queue.                             *)
CleanStates ==
  {st \in [dists : [Nodes -> Uint], reset : SUBSET Nodes, queue : SUBSET PQElements] :
     \A n \in Nodes : st.dists[n] # NO_DIST => n \in st.reset}

(* Relaxing an edge notes the node whose label it sets.                    *)
LEMMA RelaxClean ==
  ASSUME NEW top \in PQElements, NEW st \in CleanStates, NEW e \in CHEdge
  PROVE  Relax(top, st, e) \in CleanStates
<1> DEFINE dir == top.direction
           n == OtherNode(e, dir)
           d == UintAdd(top.dist, e.dist)
           reset == IF st.dists[n] = NO_DIST THEN st.reset \cup {n} ELSE st.reset
           ds == [st.dists EXCEPT ![n] = d]
           queue == st.queue \cup {PQElement(n, e.id, dir, d)}
<1>1. n \in Nodes /\ dir \in EdgeType /\ e.id \in Uint /\ top.dist \in Uint /\ e.dist \in Uint
  BY DEF OtherNode, CHEdge, PQElements
<1>2. d \in Uint
  BY <1>1, UintAddType
<1>3. PQElement(n, e.id, dir, d) \in PQElements
  BY <1>1, <1>2 DEF PQElement, PQElements
<1>4. /\ st.dists \in [Nodes -> Uint] /\ st.reset \in SUBSET Nodes /\ st.queue \in SUBSET PQElements
      /\ \A m \in Nodes : st.dists[m] # NO_DIST => m \in st.reset
  BY DEF CleanStates
<1>5. Relax(top, st, e) = st \/ Relax(top, st, e) = [dists |-> ds, reset |-> reset, queue |-> queue]
  BY DEF Relax
<1>6. queue \in SUBSET PQElements
  BY <1>3, <1>4
<1> HIDE DEF d, n, queue, dir
<1>7. ds \in [Nodes -> Uint] /\ reset \in SUBSET Nodes
  BY <1>1, <1>2, <1>4
<1>8. \A m \in Nodes : ds[m] # NO_DIST => m \in reset
  BY <1>1, <1>4
<1> HIDE DEF ds, reset
<1>9. [dists |-> ds, reset |-> reset, queue |-> queue] \in CleanStates
  BY <1>6, <1>7, <1>8 DEF CleanStates
<1> QED
  BY <1>5, <1>9

(* RelaxAllEdges() relaxes one edge after the other.                       *)
LEMMA RelaxOneByOne ==
  ASSUME NEW top \in PQElements, NEW r, r = NodeEdgesRange(top.node, top.direction), r \in Seq(CHEdge),
         NEW start \in CleanStates,
         start = [dists |-> dists[top.direction], reset |-> reset_dists[top.direction],
                  queue |-> pq \ {top}]
  PROVE  \E st : /\ st[0] = start /\ st[Len(r)] = RelaxAllEdges(top)
                 /\ \A k \in 1..Len(r) : st[k] = Relax(top, st[k - 1], r[k])
<1> DEFINE n == Len(r)
           s == [p \in (1..n) \X CleanStates |-> Relax(top, p[2], r[p[1]])]
<1>1. n \in Nat /\ DOMAIN r = 1..n /\ \A k \in 1..n : r[k] \in CHEdge
  OBVIOUS
<1> HIDE DEF n
<1>2. s \in [(1..n) \X CleanStates -> CleanStates]
  BY <1>1, RelaxClean
<1>3. \A k \in 1..n, x \in CleanStates : s[<<k, x>>] = Relax(top, x, r[k])
  OBVIOUS
<1> HIDE DEF s
<1>4. PICK g \in [SUBSET (1..n) -> CleanStates] : SetFollows(g, 1..n, start, LastOf(n), s)
  BY <1>1, <1>2, FoldExists
<1> DEFINE Body(h) == [T \in SUBSET DOMAIN r |->
                         IF T = {} THEN start
                         ELSE LET x == Max(T) IN Relax(top, h[T \ {x}], r[x])]
           f == CHOOSE h : h = Body(h)
<1>5. g = Body(g)
  <2>1. ASSUME NEW T \in SUBSET (1..n), T # {}
        PROVE  g[T] = Relax(top, g[T \ {Max(T)}], r[Max(T)])
    <3> DEFINE m == Max(T)
    <3>1. m \in T
      BY <1>1, <2>1, MaxOfPositions
    <3>2. LastOf(n)[T] = m
      BY DEF LastOf
    <3> HIDE DEF m
    <3>3. m \in 1..n /\ g[T \ {m}] \in CleanStates
      BY <1>4, <3>1
    <3>4. g[T] = s[<<m, g[T \ {m}]>>]
      BY <1>4, <2>1, <3>2 DEF SetFollows
    <3>5. g[T] = Relax(top, g[T \ {m}], r[m])
      BY <1>3, <3>3, <3>4
    <3> QED
      BY <3>5 DEF m
  <2>2. g[{}] = start
    BY <1>4 DEF SetFollows
  <2>3. \A T \in SUBSET (1..n) :
          g[T] = IF T = {} THEN start ELSE LET x == Max(T) IN Relax(top, g[T \ {x}], r[x])
    BY <2>1, <2>2
  <2> QED
    BY <1>1, <1>4, <2>3
<1>6. f = Body(f)
  <2> HIDE DEF Body
  <2> QED
    BY <1>5
<1>7. RelaxAllEdges(top) = f[1..n]
  BY <1>1 DEF RelaxAllEdges, FoldLeft, MapThenFoldSet
<1> HIDE DEF f
<1> DEFINE st == [k \in 0..n |-> f[1..k]]
<1>8. st[0] = start
  <2>1. 1..0 = {}
    OBVIOUS
  <2> QED
    BY <1>1, <1>6, <2>1
<1>9. st[n] = RelaxAllEdges(top)
  BY <1>1, <1>7
<1>10. ASSUME NEW k \in 1..n PROVE st[k] = Relax(top, st[k - 1], r[k])
  <2>1. Max(1..k) = k /\ (1..k) \ {k} = 1..(k - 1) /\ 1..k # {} /\ 1..k \in SUBSET (1..n)
    BY <1>1, LastPosition
  <2>2. f[1..k] = Relax(top, f[(1..k) \ {Max(1..k)}], r[Max(1..k)])
    BY <1>1, <1>6, <2>1
  <2>3. k \in 0..n /\ k - 1 \in 0..n
    BY <1>1
  <2> QED
    BY <2>1, <2>2, <2>3
<1> QED
  BY <1>8, <1>9, <1>10 DEF n

(* P holds of a state after the first edge if it held before it, and so on.*)
KeptByRelaxing(P, top, r) ==
  \A k \in 1..Len(r), st \in CleanStates :
    <<k - 1, st>> \in P => <<k, Relax(top, st, r[k])>> \in P

(* What holds before the first edge and is kept by each holds after all.   *)
LEMMA RelaxInduction ==
  ASSUME NEW top \in PQElements, NEW r, r = NodeEdgesRange(top.node, top.direction), r \in Seq(CHEdge),
         NEW start \in CleanStates,
         start = [dists |-> dists[top.direction], reset |-> reset_dists[top.direction],
                  queue |-> pq \ {top}],
         NEW P \in SUBSET (Nat \X CleanStates), <<0, start>> \in P, KeptByRelaxing(P, top, r)
  PROVE  <<Len(r), RelaxAllEdges(top)>> \in P
<1>1. PICK st : /\ st[0] = start /\ st[Len(r)] = RelaxAllEdges(top)
                /\ \A k \in 1..Len(r) : st[k] = Relax(top, st[k - 1], r[k])
  BY RelaxOneByOne
<1> DEFINE S == {k \in Nat : k <= Len(r) => <<k, st[k]>> \in P}
<1>2. 0 \in S
  BY <1>1
<1>3. ASSUME NEW k \in Nat, k \in S PROVE k + 1 \in S
  <2> SUFFICES ASSUME k + 1 <= Len(r) PROVE <<k + 1, st[k + 1]>> \in P
    OBVIOUS
  <2>1. k + 1 \in 1..Len(r) /\ (k + 1) - 1 = k /\ k <= Len(r)
    OBVIOUS
  <2>2. <<k, st[k]>> \in P
    BY <1>3, <2>1
  <2>3. st[k] \in CleanStates
    BY <2>2
  <2>4. st[k + 1] = Relax(top, st[k], r[k + 1])
    BY <1>1, <2>1
  <2>5. \A j \in 1..Len(r), x \in CleanStates : <<j - 1, x>> \in P => <<j, Relax(top, x, r[j])>> \in P
    BY DEF KeptByRelaxing
  <2>6. <<k + 1, Relax(top, st[k], r[k + 1])>> \in P
    BY <2>1, <2>2, <2>3, <2>5
  <2> QED
    BY <2>4, <2>6
<1> HIDE DEF S
<1>4. Nat \subseteq S
  BY <1>2, <1>3, NatSetInduction
<1>5. Len(r) \in Nat /\ Len(r) \in S
  BY <1>4
<1>6. <<Len(r), st[Len(r)]>> \in P
  BY <1>5 DEF S
<1> QED
  BY <1>1, <1>6

(* So every node whose label is set is noted.                              *)
LEMMA RelaxAllClean ==
  ASSUME NEW top \in PQElements, NEW r, r = NodeEdgesRange(top.node, top.direction), r \in Seq(CHEdge),
         NEW start \in CleanStates,
         start = [dists |-> dists[top.direction], reset |-> reset_dists[top.direction],
                  queue |-> pq \ {top}]
  PROVE  RelaxAllEdges(top) \in CleanStates
<1> DEFINE P == Nat \X CleanStates
<1>1. <<0, start>> \in P /\ P \in SUBSET (Nat \X CleanStates)
  OBVIOUS
<1>2. ASSUME NEW k \in 1..Len(r), NEW st \in CleanStates
      PROVE  <<k, Relax(top, st, r[k])>> \in P
  BY RelaxClean
<1> HIDE DEF P
<1>3. KeptByRelaxing(P, top, r)
  BY <1>2 DEF KeptByRelaxing
<1>4. <<Len(r), RelaxAllEdges(top)>> \in P
  BY <1>1, <1>3, RelaxInduction
<1> QED
  BY <1>4 DEF P

(* One iteration of the search.                                            *)
LEMMA SearchStepClean ==
  ASSUME VectorsInv, LabelsInv, SearchStep
  PROVE  /\ pq' \in SUBSET PQElements
         /\ dists' \in [EdgeType -> [Nodes -> Uint]]
         /\ reset_dists' \in [EdgeType -> SUBSET Nodes]
         /\ LabelsWillBeReset'
<1>1. PICK top \in pq :
        IF dists[top.direction][top.node] = top.dist
        THEN /\ dists' = [dists EXCEPT ![top.direction] = RelaxAllEdges(top).dists]
             /\ reset_dists' = [reset_dists EXCEPT ![top.direction] = RelaxAllEdges(top).reset]
             /\ pq' = RelaxAllEdges(top).queue
        ELSE pq' = pq \ {top} /\ UNCHANGED <<dists, reset_dists>>
  BY DEF SearchStep, Tops
<1>2. /\ top \in PQElements /\ top.node \in Nodes /\ top.direction \in EdgeType
      /\ pq \in SUBSET PQElements /\ dists \in [EdgeType -> [Nodes -> Uint]]
      /\ reset_dists \in [EdgeType -> SUBSET Nodes]
      /\ \A type \in EdgeType, n \in Nodes : dists[type][n] # NO_DIST => n \in reset_dists[type]
  BY DEF LabelsInv, PQElements, LabelsWillBeReset
<1>3. CASE dists[top.direction][top.node] # top.dist
  BY <1>1, <1>2, <1>3 DEF LabelsWillBeReset
<1>4. CASE dists[top.direction][top.node] = top.dist
  <2> DEFINE r == NodeEdgesRange(top.node, top.direction)
             dir == top.direction
             start == [dists |-> dists[dir], reset |-> reset_dists[dir], queue |-> pq \ {top}]
             st == RelaxAllEdges(top)
  <2>1. r = NodeEdgesRange(top.node, top.direction) /\ r \in Seq(CHEdge)
    BY <1>2, RangeOfNode
  <2>2. start \in CleanStates
    <3>1. dists[dir] \in [Nodes -> Uint] /\ reset_dists[dir] \in SUBSET Nodes
      BY <1>2
    <3> QED
      BY <1>2, <3>1 DEF CleanStates
  <2>3. start = [dists |-> dists[top.direction], reset |-> reset_dists[top.direction],
                 queue |-> pq \ {top}]
    OBVIOUS
  <2> HIDE DEF r, start
  <2>4. st \in CleanStates
    BY <1>2, <2>1, <2>2, <2>3, RelaxAllClean
  <2>5. /\ dists' = [dists EXCEPT ![dir] = st.dists]
        /\ reset_dists' = [reset_dists EXCEPT ![dir] = st.reset]
        /\ pq' = st.queue
    BY <1>1, <1>4
  <2>6. dir \in EdgeType
    BY <1>2
  <2> HIDE DEF st, dir
  <2>7. /\ st.dists \in [Nodes -> Uint] /\ st.reset \in SUBSET Nodes /\ st.queue \in SUBSET PQElements
        /\ \A n \in Nodes : st.dists[n] # NO_DIST => n \in st.reset
    BY <2>4 DEF CleanStates
  <2>8. dists' \in [EdgeType -> [Nodes -> Uint]] /\ reset_dists' \in [EdgeType -> SUBSET Nodes]
    BY <1>2, <2>5, <2>6, <2>7
  <2>9. \A type \in EdgeType : /\ dists'[type] = IF type = dir THEN st.dists ELSE dists[type]
                               /\ reset_dists'[type] = IF type = dir THEN st.reset ELSE reset_dists[type]
    BY <1>2, <2>5, <2>6
  <2>10. \A type \in EdgeType, n \in Nodes : dists'[type][n] # NO_DIST => n \in reset_dists'[type]
    BY <1>2, <2>7, <2>9
  <2> QED
    BY <2>5, <2>7, <2>8, <2>10 DEF LabelsWillBeReset
<1> QED
  BY <1>3, <1>4

(* A new query resets what the last one noted.                             *)
LEMMA CalcShopaClean ==
  ASSUME LabelsInv, NEW src \in Nodes, NEW tgt \in Nodes, CalcShopa(src, tgt)
  PROVE  /\ pq' \in SUBSET PQElements
         /\ dists' \in [EdgeType -> [Nodes -> Uint]]
         /\ reset_dists' \in [EdgeType -> SUBSET Nodes]
         /\ LabelsWillBeReset'
<1>1. /\ ends' = [type \in EdgeType |-> IF type = "OUT" THEN src ELSE tgt]
      /\ pq' = {PQElement(ends'[type], NO_EID, type, 0) : type \in EdgeType}
      /\ dists' = [type \in EdgeType |-> [ResetDists(type) EXCEPT ![ends'[type]] = 0]]
      /\ reset_dists' = [type \in EdgeType |-> {ends'[type]}]
  BY DEF CalcShopa
<1>2. \A type \in EdgeType : ends'[type] \in Nodes
  BY <1>1
<1>3. 0 \in Uint /\ NO_DIST \in Uint
  BY SizeAssumption DEF Uint, NO_DIST
<1>4. pq' \in SUBSET PQElements
  BY <1>1, <1>2, <1>3, NoValueTypes DEF PQElement, PQElements
<1>5. ASSUME NEW type \in EdgeType
      PROVE  /\ ResetDists(type) \in [Nodes -> Uint]
             /\ \A n \in Nodes : ResetDists(type)[n] = NO_DIST
  BY <1>3, <1>5 DEF LabelsInv, LabelsWillBeReset, ResetDists
<1>6. ASSUME NEW type \in EdgeType
      PROVE  /\ dists'[type] = [ResetDists(type) EXCEPT ![ends'[type]] = 0]
             /\ reset_dists'[type] = {ends'[type]}
  BY <1>1
<1>7. \A type \in EdgeType : dists'[type] \in [Nodes -> Uint]
  BY <1>2, <1>3, <1>5, <1>6
<1>8. dists' \in [EdgeType -> [Nodes -> Uint]]
  BY <1>1, <1>7
<1>9. reset_dists' \in [EdgeType -> SUBSET Nodes]
  BY <1>1, <1>2
<1>10. \A type \in EdgeType, n \in Nodes : dists'[type][n] # NO_DIST => n \in reset_dists'[type]
  BY <1>2, <1>5, <1>6
<1> QED
  BY <1>4, <1>8, <1>9, <1>10 DEF LabelsWillBeReset

-----------------------------------------------------------------------------
(* Rebuilding the graph, and exporting it.                                 *)

(* The ids of a hierarchy are as many as its edges.                        *)
LEMMA HierarchyLength ==
  ASSUME NEW S, Hierarchy(S), NEW v, Lists(v, S)
  PROVE  /\ Len(v) = edge_count /\ DOMAIN v = 1..Len(v) /\ edge_count \in Nat
         /\ edge_count <= NO_EID
<1>1. v \in Seq(S) /\ DOMAIN v = 1..Len(v) /\ Len(v) \in Nat
  BY DEF Lists
<1>2. edge_count \in Nat /\ edge_count <= NO_EID
  BY SizeAssumption DEF Hierarchy, Uint, NO_EID
<1> DEFINE f == [i \in 1..Len(v) |-> v[i].id]
<1>3. f \in Bijection(1..Len(v), 0..(edge_count - 1))
  <2>1. \A i \in 1..Len(v) : v[i] \in S /\ f[i] \in 0..(edge_count - 1)
    BY <1>1 DEF Hierarchy, Ids
  <2>2. \A i, j \in 1..Len(v) : f[i] = f[j] => i = j
    BY <1>1, <2>1 DEF Hierarchy, Lists
  <2>3. \A k \in 0..(edge_count - 1) : \E i \in 1..Len(v) : f[i] = k
    BY <1>1 DEF Hierarchy, Ids, Lists
  <2> QED
    BY <2>1, <2>2, <2>3 DEF Bijection, Injection, IsInjective, Surjection
<1> HIDE DEF f
<1>4. IsFiniteSet(1..Len(v)) /\ Cardinality(1..Len(v)) = Len(v)
  BY <1>1, FS_Interval
<1>5. Cardinality(0..(edge_count - 1)) = Len(v)
  BY <1>3, <1>4, FS_Bijection DEF ExistsBijection
<1>6. Cardinality(0..(edge_count - 1)) = edge_count
  <2>1. 0 \in Int /\ edge_count - 1 \in Int
    BY <1>2
  <2>2. Cardinality(0..(edge_count - 1)) = IF 0 > edge_count - 1 THEN 0 ELSE edge_count - 1 - 0 + 1
    BY <2>1, FS_Interval
  <2> QED
    BY <1>2, <2>2
<1> QED
  BY <1>1, <1>2, <1>5, <1>6

(* rebuildCompleteGraph() puts the edges laid aside into the vectors.      *)
LEMMA RebuildKeeps ==
  ASSUME ConstructionInv, phase = "contracted", RebuildCompleteGraph
  PROVE  /\ VectorsInv' /\ edges_dump' = {} /\ EdgesFoundById'
         /\ Hierarchy(edges_dump) /\ Edges' = edges_dump
         /\ UNCHANGED <<edge_count, node_levels>>
<1> DEFINE S == edges_dump
<1>1. Hierarchy(S)
  BY ContractedHierarchy
<1>2. S \in SUBSET CHEdge /\ IsFiniteSet(S)
  BY <1>1, EdgeSetsFinite DEF Hierarchy
<1>3. /\ out_edges' \in SrcTgtSortings(S) /\ in_edges' \in TgtSrcSortings(S)
      /\ InitOffsets /\ InitIdToIndex /\ edges_dump' = {}
      /\ UNCHANGED <<edge_count, node_levels>>
  BY DEF RebuildCompleteGraph, Update, SortInEdges
<1> HIDE DEF S
<1>4. /\ Lists(out_edges', S) /\ SortedByKey(out_edges', "OUT")
      /\ Lists(in_edges', S) /\ SortedByKey(in_edges', "IN")
  BY <1>2, <1>3, SrcTgtSorted, TgtSrcSorted
<1>5. Edges' = S
  <2>1. Edges' = {out_edges'[i] : i \in DOMAIN out_edges'}
    BY DEF Edges
  <2>2. \A i \in DOMAIN out_edges' : out_edges'[i] \in S
    BY <1>4 DEF Lists
  <2>3. \A e \in S : \E i \in DOMAIN out_edges' : out_edges'[i] = e
    BY <1>4 DEF Lists
  <2> QED
    BY <2>1, <2>2, <2>3
<1>6. VectorsInv'
  <2>1. out_edges' \in Seq(CHEdge)
    BY <1>2, <1>4 DEF Lists
  <2>2. out_offsets' = Offsets(out_edges', "OUT") /\ in_offsets' = Offsets(out_edges', "IN")
    BY <1>3 DEF InitOffsets
  <2> QED
    BY <1>4, <1>5, <2>1, <2>2 DEF VectorsInv, Lists, SortedByKey, KeyNode, Offsets
<1>7. EdgesFoundById'
  <2> SUFFICES ASSUME NEW e \in S
               PROVE  /\ e.id \in DOMAIN id_to_index' /\ id_to_index'[e.id] \in DOMAIN out_edges'
                      /\ out_edges'[id_to_index'[e.id]] = e
    BY <1>5 DEF EdgesFoundById, GetEdge
  <2>1. e.id \in 0..(edge_count' - 1)
    BY <1>1, <1>3 DEF Hierarchy, Ids
  <2>2. PICK k \in DOMAIN out_edges' : out_edges'[k] = e
    BY <1>4 DEF Lists
  <2> DEFINE i == CHOOSE j \in DOMAIN out_edges' : out_edges'[j].id = e.id
  <2>3. i \in DOMAIN out_edges' /\ out_edges'[i].id = e.id
    BY <2>2
  <2>4. id_to_index'[e.id] = i /\ e.id \in DOMAIN id_to_index'
    BY <1>3, <2>1, <2>2 DEF InitIdToIndex
  <2> HIDE DEF i
  <2>5. out_edges'[i] \in S
    BY <1>4, <2>3 DEF Lists
  <2>6. out_edges'[i] = e
    BY <1>1, <2>3, <2>5 DEF Hierarchy
  <2> QED
    BY <2>3, <2>4, <2>6
<1> QED
  BY <1>1, <1>3, <1>5, <1>6, <1>7 DEF S

(* In an exported vector the children of an edge are positions.            *)
LEMMA RenumberedPositions ==
  ASSUME NEW S, Hierarchy(S), NEW v, Lists(v, S), NEW i \in DOMAIN v,
         Renumbered(v)[i].child_edge1 # NO_EID
  PROVE  UnpacksAt(Renumbered(v), i)
<1>1. /\ Len(v) = edge_count /\ DOMAIN v = 1..Len(v) /\ edge_count \in Nat
      /\ edge_count <= NO_EID
  BY HierarchyLength
<1> DEFINE w == Renumbered(v)
           new_id == [id \in 0..(Len(v) - 1) |-> (CHOOSE k \in DOMAIN v : v[k].id = id) - 1]
           x == v[i]
<1>2. \A k \in DOMAIN v : v[k] \in S /\ v[k] \in CHEdge
  BY DEF Lists, Hierarchy
<1>3. w = [k \in DOMAIN v |-> [v[k] EXCEPT !.id = new_id[k - 1],
                                          !.child_edge1 = NewChild(@, new_id),
                                          !.child_edge2 = NewChild(@, new_id)]]
  BY DEF Renumbered
<1> HIDE DEF w, new_id
<1>4. ASSUME NEW k \in DOMAIN v
      PROVE  /\ w[k].src = v[k].src /\ w[k].tgt = v[k].tgt /\ w[k].dist = v[k].dist
             /\ w[k].child_edge1 = NewChild(v[k].child_edge1, new_id)
             /\ w[k].child_edge2 = NewChild(v[k].child_edge2, new_id)
  <2>1. v[k] \in CHEdge
    BY <1>2
  <2> QED
    BY <1>3, <2>1 DEF CHEdge
<1>5. DOMAIN w = DOMAIN v
  BY <1>3
<1>6. x \in S /\ x \in CHEdge /\ x.child_edge1 # NO_EID
  BY <1>2, <1>4 DEF NewChild, w
<1>7. LowCenter(x) /\ Unpackable(x, S)
  BY <1>6 DEF Hierarchy
<1>8. PICK a, b \in S : Unpacks(x, a, b)
  BY <1>7 DEF Unpackable
<1>9. ASSUME NEW e \in S
      PROVE  /\ e.id # NO_EID /\ NewChild(e.id, new_id) + 1 \in DOMAIN v
             /\ v[NewChild(e.id, new_id) + 1] = e /\ NewChild(e.id, new_id) # NO_EID
  <2>1. e.id \in 0..(edge_count - 1)
    BY DEF Hierarchy, Ids
  <2>2. e.id # NO_EID
    BY <1>1, <2>1, SizeAssumption DEF NO_EID
  <2>3. PICK k \in DOMAIN v : v[k] = e
    BY DEF Lists
  <2> DEFINE j == CHOOSE l \in DOMAIN v : v[l].id = e.id
  <2>4. j \in DOMAIN v /\ v[j].id = e.id
    BY <2>3
  <2>5. new_id[e.id] = j - 1
    BY <1>1, <2>1 DEF new_id
  <2> HIDE DEF j
  <2>6. v[j] = e
    BY <1>2, <2>4 DEF Hierarchy
  <2>7. NewChild(e.id, new_id) = j - 1 /\ j \in 1..edge_count
    BY <1>1, <2>2, <2>4, <2>5 DEF NewChild
  <2>8. (j - 1) + 1 = j /\ j - 1 # NO_EID
    BY <1>1, <2>7, SizeAssumption DEF NO_EID
  <2> QED
    BY <2>2, <2>4, <2>6, <2>7, <2>8
<1>10. /\ a.id = x.child_edge1 /\ b.id = x.child_edge2 /\ a.src = x.src /\ a.tgt = x.center_node
       /\ b.src = x.center_node /\ b.tgt = x.tgt /\ x.dist = UintAdd(a.dist, b.dist)
  BY <1>8 DEF Unpacks
<1> DEFINE p == w[i].child_edge1 + 1
           q == w[i].child_edge2 + 1
<1>11. p \in DOMAIN v /\ v[p] = a /\ q \in DOMAIN v /\ v[q] = b /\ w[i].child_edge2 # NO_EID
  <2>1. /\ w[i].child_edge1 = NewChild(a.id, new_id)
        /\ w[i].child_edge2 = NewChild(b.id, new_id)
    BY <1>4, <1>10
  <2> QED
    BY <1>9, <2>1
<1> HIDE DEF p, q
<1>12. /\ w[p].src = a.src /\ w[p].tgt = a.tgt /\ w[p].dist = a.dist
       /\ w[q].src = b.src /\ w[q].tgt = b.tgt /\ w[q].dist = b.dist
       /\ w[i].src = x.src /\ w[i].tgt = x.tgt /\ w[i].dist = x.dist
  BY <1>4, <1>11
<1>13. {x.src, x.tgt, a.tgt} \subseteq Nodes
  BY <1>6, <1>7, <1>10 DEF CHEdge, LowCenter
<1>14. \A n \in {x.src, x.tgt} : node_levels[a.tgt] < node_levels[n]
  BY <1>7, <1>10 DEF LowCenter
<1> HIDE DEF x
<1>15. UnpacksAt(w, i)
  BY <1>5, <1>10, <1>11, <1>12, <1>13, <1>14 DEF UnpacksAt, p, q
<1> QED
  BY <1>15 DEF w

(* exportData() writes the positions of the children into the edges.       *)
LEMMA ExportUnpacks ==
  ASSUME NEW S, Hierarchy(S), S = (IF out_edges = <<>> THEN edges_dump ELSE Edges), ExportData
  PROVE  ExportedUnpack'
<1>1. S \in SUBSET CHEdge /\ IsFiniteSet(S)
  BY EdgeSetsFinite DEF Hierarchy
<1>2. PICK v \in SrcTgtSortings(S) : out_edges' = Renumbered(v)
  BY DEF ExportData
<1>3. node_levels' = node_levels
  BY DEF ExportData
<1>4. Lists(v, S)
  BY <1>1, <1>2, SrcTgtSorted
<1>5. DOMAIN Renumbered(v) = DOMAIN v
  BY DEF Renumbered
<1>6. \A i \in DOMAIN v : Renumbered(v)[i].child_edge1 # NO_EID => UnpacksAt(Renumbered(v), i)
  BY <1>4, RenumberedPositions
<1> QED
  BY <1>2, <1>3, <1>5, <1>6 DEF ExportedUnpack, UnpacksAt

(* The fields of a line.                                                   *)
LEMMA LineFields ==
  ASSUME NEW a, NEW b, NEW c, NEW d, NEW e
  PROVE  LET l == <<a, b, c>> \o <<d, e>>
         IN  l[1] = a /\ l[2] = b /\ l[3] = c /\ l[4] = d /\ l[5] = e
<1> DEFINE S == {a, b, c, d, e}
           s1 == <<a, b, c>>
           s2 == <<d, e>>
<1>1. s1 \in Seq(S) /\ s2 \in Seq(S) /\ Len(s1) = 3 /\ Len(s2) = 2
  OBVIOUS
<1>2. s1[1] = a /\ s1[2] = b /\ s1[3] = c /\ s2[1] = d /\ s2[2] = e
  OBVIOUS
<1> HIDE DEF s1, s2, S
<1>3. \A i \in 1..(Len(s1) + Len(s2)) :
        (s1 \o s2)[i] = IF i <= Len(s1) THEN s1[i] ELSE s2[i - Len(s1)]
  BY <1>1, ConcatProperties
<1> DEFINE l == s1 \o s2
<1>4. \A i \in 1..(Len(s1) + Len(s2)) : l[i] = IF i <= Len(s1) THEN s1[i] ELSE s2[i - Len(s1)]
  BY <1>3
<1> HIDE DEF l
<1>5. l[1] = s1[1] /\ l[2] = s1[2] /\ l[3] = s1[3] /\ l[4] = s2[1] /\ l[5] = s2[2]
  BY <1>1, <1>4
<1> QED
  BY <1>2, <1>5 DEF l, s1, s2

(* The lines of the file say the same.                                     *)
LEMMA WriteUnpacks ==
  ASSUME ExportedUnpack, NEW format, stage' = "written",
         written' = WriteCHGraph(format, node_levels, out_edges)
  PROVE  WrittenShortcutsUnpack'
<1> SUFFICES ASSUME format \in CHFormats, NEW i \in DOMAIN out_edges,
                    written'.edges[i][4] # -1
             PROVE  LET x == written'.edges[i]
                        a == written'.edges[x[4] + 1]
                        b == written'.edges[x[5] + 1]
                    IN  /\ a[1] = x[1] /\ a[2] = b[1] /\ b[2] = x[2]
                        /\ x[3] = UintAdd(a[3], b[3])
                        /\ \A n \in {x[1], x[2]} :
                             written'.nodes[a[2] + 1][1] < written'.nodes[n + 1][1]
  BY DEF WrittenShortcutsUnpack, WriteCHGraph
<1>2. \A n \in Nodes : written'.nodes[n + 1][1] = node_levels[n]
  <2> TAKE n \in Nodes
  <2>1. n + 1 \in 1..NrOfNodes /\ (n + 1) - 1 = n
    BY SizeAssumption DEF Nodes
  <2>2. written'.nodes[n + 1] = <<node_levels[n]>>
    BY <2>1 DEF WriteCHGraph, WrittenNode
  <2> QED
    BY <2>2
<1> DEFINE x == out_edges[i]
           p == x.child_edge1 + 1
           q == x.child_edge2 + 1
<1>3. \A k \in DOMAIN out_edges :
        LET e == out_edges[k]
            l == written'.edges[k]
        IN  /\ l[1] = e.src /\ l[2] = e.tgt /\ l[3] = e.dist
            /\ l[4] = ChildField(e.child_edge1) /\ l[5] = ChildField(e.child_edge2)
  <2> TAKE k \in DOMAIN out_edges
  <2> DEFINE e == out_edges[k]
  <2>1. written'.edges[k] = <<e.src, e.tgt, e.dist>>
                              \o <<ChildField(e.child_edge1), ChildField(e.child_edge2)>>
    BY DEF WriteCHGraph, WrittenEdge
  <2> QED
    BY <2>1, LineFields
<1>4. x.child_edge1 # NO_EID
  BY <1>3 DEF ChildField
<1>5. /\ p \in DOMAIN out_edges /\ q \in DOMAIN out_edges /\ x.child_edge2 # NO_EID
      /\ {x.src, x.tgt, out_edges[p].tgt} \subseteq Nodes
      /\ out_edges[p].src = x.src /\ out_edges[p].tgt = out_edges[q].src /\ out_edges[q].tgt = x.tgt
      /\ x.dist = UintAdd(out_edges[p].dist, out_edges[q].dist)
      /\ \A n \in {x.src, x.tgt} : node_levels[out_edges[p].tgt] < node_levels[n]
  BY <1>4 DEF ExportedUnpack, UnpacksAt
<1>6. written'.edges[i][4] + 1 = p /\ written'.edges[i][5] + 1 = q
  BY <1>3, <1>4, <1>5 DEF ChildField
<1> DEFINE l == written'.edges[i]
           a == written'.edges[p]
           b == written'.edges[q]
<1>7. /\ l[1] = x.src /\ l[2] = x.tgt /\ l[3] = x.dist
      /\ a[1] = out_edges[p].src /\ a[2] = out_edges[p].tgt /\ a[3] = out_edges[p].dist
      /\ b[1] = out_edges[q].src /\ b[2] = out_edges[q].tgt /\ b[3] = out_edges[q].dist
  BY <1>3, <1>5
<1> HIDE DEF l, a, b, x, p, q
<1>8. /\ a[1] = l[1] /\ a[2] = b[1] /\ b[2] = l[2] /\ l[3] = UintAdd(a[3], b[3])
  BY <1>5, <1>7
<1>9. \A n \in {l[1], l[2]} : written'.nodes[a[2] + 1][1] < written'.nodes[n + 1][1]
  BY <1>2, <1>5, <1>7
<1>10. written'.edges[l[4] + 1] = a /\ written'.edges[l[5] + 1] = b
  BY <1>6 DEF l, a, b
<1> QED
  BY <1>8, <1>9, <1>10 DEF l

-----------------------------------------------------------------------------
(* The steps of the pipeline.                                              *)

(* The vectors as they are agree.                                          *)
LEMMA SameVectors ==
  ASSUME VectorsInv, UNCHANGED <<out_edges, in_edges, out_offsets, in_offsets>>
  PROVE  VectorsInv'
BY DEF VectorsInv, Edges, Lists, SortedByKey, KeyNode, Offsets

(* A query object nobody uses is the same.                                 *)
LEMMA SameLabels ==
  ASSUME LabelsInv, UNCHANGED query_vars, task \in {"none", "answered"} \/ stage' = stage
  PROVE  LabelsInv'
BY DEF LabelsInv, query_vars, LabelsWillBeReset

(* Initially.                                                              *)
LEMMA InitPipeline == PipelineInit => PipelineInv
<1> SUFFICES ASSUME PipelineInit PROVE PipelineInv
  OBVIOUS
<1>1. Init /\ VectorsInit /\ QueryInit /\ stage = "construct"
  BY DEF PipelineInit
<1>2. ConstructionInv /\ VectorsInv
  BY <1>1, InitConstruction, InitVectors
<1>3. LabelsInv
  BY <1>1, SizeAssumption DEF QueryInit, LabelsInv, LabelsWillBeReset, Uint, NO_DIST
<1>4. EdgesFoundById
  <2> SUFFICES ASSUME NEW k \in DOMAIN out_edges
               PROVE  /\ out_edges[k].id \in DOMAIN id_to_index
                      /\ id_to_index[out_edges[k].id] \in DOMAIN out_edges
                      /\ out_edges[id_to_index[out_edges[k].id]] = out_edges[k]
    BY DEF EdgesFoundById, GetEdge, Edges
  <2>1. out_edges = input_edges /\ IsInputGraph(out_edges)
    BY <1>1, InputAssumption DEF Init, GraphInit
  <2>2. DOMAIN out_edges = 1..Len(out_edges) /\ Len(out_edges) \in Nat /\ out_edges[k] \in CHEdge
    BY <2>1 DEF IsInputGraph
  <2>3. out_edges[k].id \in 0..(Len(out_edges) - 1)
    <3>1. out_edges[k].id \in Nat /\ out_edges[k].id < Len(out_edges)
      BY <2>1, <2>2, SizeAssumption DEF IsInputGraph, CHEdge, Uint
    <3> QED
      BY <2>2, <3>1
  <2> DEFINE i == CHOOSE j \in DOMAIN out_edges : out_edges[j].id = out_edges[k].id
  <2>4. i \in DOMAIN out_edges /\ out_edges[i].id = out_edges[k].id
    OBVIOUS
  <2>5. id_to_index[out_edges[k].id] = i /\ out_edges[k].id \in DOMAIN id_to_index
    BY <1>1, <2>1, <2>3 DEF VectorsInit
  <2> HIDE DEF i
  <2>6. DistinctIds(out_edges)
    BY <1>2 DEF ConstructionInv, IdsInv, IdsApart
  <2>7. i = k
    BY <2>4, <2>6 DEF DistinctIds
  <2> QED
    BY <2>4, <2>5, <2>7
<1> QED
  BY <1>1, <1>2, <1>3, <1>4 DEF PipelineInv, WrittenShortcutsUnpack

(* Constructing.                                                           *)
LEMMA ConstructKeeps == PipelineInv /\ Construct => PipelineInv'
<1> SUFFICES ASSUME PipelineInv, Construct PROVE PipelineInv'
  OBVIOUS
<1>1. /\ stage = "construct" /\ stage' = "construct" /\ UNCHANGED <<query_vars, usage_vars>>
      /\ \/ StepWithinRound /\ UNCHANGED vector_vars
         \/ EndRound /\ RestructureVectors
  BY DEF Construct, usage_vars
<1>2. ConstructionInv /\ VectorsInv /\ EdgesFoundById /\ LabelsInv
  BY <1>1 DEF PipelineInv
<1>3. ConstructionInv'
  BY <1>1, <1>2, NextKeepsConstruction DEF Next
<1>4. LabelsInv'
  BY <1>1, <1>2, SameLabels
<1>5. CASE StepWithinRound /\ UNCHANGED vector_vars
  <2>1. UNCHANGED out_edges
    BY <1>5 DEF StepWithinRound, StartRound, QuickContractReturns, ContractReturns, SelectNode,
       EnterParallelLoop, ContractNode, LockInsert, FinishInsert, ChooseRemoveNodes,
       BeginRestructure, Restructure, MergeShortcut, MergeEdge, graph_vars
  <2>2. VectorsInv'
    BY <1>2, <1>5, <2>1, SameVectors DEF vector_vars
  <2>3. is_dirty' = is_dirty \/ is_dirty' = TRUE
    BY <1>5 DEF StepWithinRound, StartRound, QuickContractReturns, ContractReturns, SelectNode,
       EnterParallelLoop, ContractNode, LockInsert, FinishInsert, ChooseRemoveNodes,
       BeginRestructure, Restructure, MergeShortcut, MergeEdge, graph_vars
  <2>4. EdgesFoundById'
    BY <1>2, <1>5, <2>1, <2>3 DEF EdgesFoundById, Edges, GetEdge, vector_vars
  <2> QED
    BY <1>1, <1>3, <1>4, <2>2, <2>4 DEF PipelineInv, WrittenShortcutsUnpack
<1>6. CASE EndRound /\ RestructureVectors
  <2>1. VectorsInv'
    BY <1>2, <1>3, <1>6, RestructuredVectors
  <2>2. is_dirty'
    BY <1>2, <1>6 DEF ConstructionInv, EndRound, FinishRestructure, Restructuring
  <2>3. EdgesFoundById'
    BY <2>2 DEF EdgesFoundById
  <2> QED
    BY <1>1, <1>3, <1>4, <2>1, <2>3 DEF PipelineInv, WrittenShortcutsUnpack
<1> QED
  BY <1>1, <1>5, <1>6

(* Rebuilding.                                                             *)
LEMMA RebuildStep == PipelineInv /\ Rebuild => PipelineInv'
<1> SUFFICES ASSUME PipelineInv, Rebuild PROVE PipelineInv'
  OBVIOUS
<1>1. /\ stage = "construct" /\ phase = "contracted" /\ RebuildCompleteGraph /\ stage' = "query"
      /\ UNCHANGED <<query_vars, phase>>
  BY DEF Rebuild, loop_vars
<1>2. ConstructionInv /\ LabelsInv
  BY <1>1 DEF PipelineInv
<1>3. /\ VectorsInv' /\ edges_dump' = {} /\ EdgesFoundById'
      /\ Hierarchy(edges_dump) /\ Edges' = edges_dump
      /\ UNCHANGED <<edge_count, node_levels>>
  BY <1>1, <1>2, RebuildKeeps
<1>4. Hierarchy(Edges)'
  BY <1>3 DEF Hierarchy, Ids, LowCenter, Contracted, Unpackable
<1>5. LabelsInv'
  <2>1. task \in {"none", "answered"}
    BY <1>1, <1>2 DEF LabelsInv
  <2> QED
    BY <1>1, <1>2, <2>1, SameLabels
<1>6. ~Restructuring'
  BY <1>1 DEF Restructuring
<1> QED
  BY <1>1, <1>3, <1>4, <1>5, <1>6 DEF PipelineInv, WrittenShortcutsUnpack

(* A query.                                                                *)
LEMMA QueryStep == PipelineInv /\ (AskQuery \/ Answer) => PipelineInv'
<1> SUFFICES ASSUME PipelineInv, AskQuery \/ Answer PROVE PipelineInv'
  OBVIOUS
<1>1. UNCHANGED <<vars, vector_vars, stage, written>>
  BY DEF AskQuery, Answer, usage_vars
<1>2. stage = "query"
  BY DEF AskQuery, Answer, PipelineInv, LabelsInv, AnswerQuery, SearchStep, NoPathFound,
         SearchEnded, StartBacktracking, Backtrack, OtherDirection, PathFound
<1>3. /\ VectorsInv /\ LabelsInv /\ EdgesFoundById /\ edges_dump = {} /\ Hierarchy(Edges)
      /\ ~Restructuring
  BY <1>2 DEF PipelineInv
<1>4. /\ UNCHANGED <<in_edges, out_offsets, in_offsets, id_to_index, phase>> /\ UNCHANGED graph_vars
  BY <1>1 DEF vars, vector_vars, loop_vars
<1>5. UNCHANGED <<out_edges, edges_dump, edge_count, is_dirty, node_levels>>
  BY <1>4 DEF graph_vars
<1>6. VectorsInv'
  BY <1>3, <1>4, <1>5, SameVectors
<1>7. EdgesFoundById'
  BY <1>3, <1>4, <1>5 DEF EdgesFoundById, Edges, GetEdge
<1>8. Hierarchy(Edges)'
  BY <1>3, <1>5 DEF Hierarchy, Ids, Edges, LowCenter, Contracted, Unpackable
<1>9. LabelsInv'
  <2>1. CASE AskQuery
    <3>1. PICK src, tgt \in Nodes : CalcShopa(src, tgt)
      BY <2>1 DEF AskQuery
    <3>2. /\ pq' \in SUBSET PQElements
          /\ dists' \in [EdgeType -> [Nodes -> Uint]]
          /\ reset_dists' \in [EdgeType -> SUBSET Nodes]
          /\ LabelsWillBeReset'
      BY <1>3, <3>1, CalcShopaClean
    <3>3. task' = "search"
      BY <3>1 DEF CalcShopa
    <3> QED
      BY <1>1, <1>2, <3>2, <3>3 DEF LabelsInv
  <2>2. CASE SearchStep
    <3>1. /\ pq' \in SUBSET PQElements
          /\ dists' \in [EdgeType -> [Nodes -> Uint]]
          /\ reset_dists' \in [EdgeType -> SUBSET Nodes]
          /\ LabelsWillBeReset'
      BY <1>3, <2>2, SearchStepClean
    <3> QED
      BY <1>1, <1>2, <1>3, <2>2, <3>1 DEF LabelsInv, SearchStep
  <2>3. CASE NoPathFound \/ StartBacktracking \/ Backtrack \/ OtherDirection \/ PathFound
    <3>1. UNCHANGED <<pq, dists, reset_dists>> /\ task' \in {"answered", "backtrack"}
      BY <1>3, <2>3 DEF NoPathFound, StartBacktracking, Backtrack, OtherDirection, PathFound
    <3> QED
      BY <1>1, <1>2, <1>3, <3>1 DEF LabelsInv, LabelsWillBeReset
  <2> QED
    BY <2>1, <2>2, <2>3 DEF Answer, AnswerQuery
<1> QED
  BY <1>1, <1>2, <1>3, <1>4, <1>5, <1>6, <1>7, <1>8, <1>9
  DEF PipelineInv, WrittenShortcutsUnpack, Restructuring

(* Exporting.                                                              *)
LEMMA ExportStep == PipelineInv /\ Export => PipelineInv'
<1> SUFFICES ASSUME PipelineInv, Export PROVE PipelineInv'
  OBVIOUS
<1>1. /\ ExportData /\ stage' = "exported" /\ UNCHANGED query_vars
      /\ \/ stage = "construct" /\ phase = "contracted"
         \/ stage = "query" /\ task = "answered"
  BY DEF Export
<1>2. LabelsInv
  BY DEF PipelineInv
<1>3. task \in {"none", "answered"}
  BY <1>1, <1>2 DEF LabelsInv
<1> DEFINE S == IF out_edges = <<>> THEN edges_dump ELSE Edges
<1>4. Hierarchy(S)
  <2>1. CASE stage = "construct" /\ phase = "contracted"
    BY <2>1, ContractedHierarchy DEF PipelineInv
  <2>2. CASE stage = "query"
    <3>1. out_edges = <<>> => Edges = {}
      BY DEF Edges
    <3> QED
      BY <2>2, <3>1 DEF PipelineInv
  <2> QED
    BY <1>1, <2>1, <2>2
<1>5. ExportedUnpack'
  BY <1>1, <1>4, ExportUnpacks
<1>6. LabelsInv'
  BY <1>1, <1>2, <1>3, SameLabels
<1>7. is_dirty' = TRUE
  BY <1>1 DEF ExportData
<1> QED
  BY <1>1, <1>5, <1>6, <1>7 DEF PipelineInv, EdgesFoundById, WrittenShortcutsUnpack

(* Writing.                                                                *)
LEMMA WriteStep == PipelineInv /\ Write => PipelineInv'
<1> SUFFICES ASSUME PipelineInv, Write PROVE PipelineInv'
  OBVIOUS
<1>1. PICK format \in OutFormats :
        /\ stage = "exported" /\ stage' = "written" /\ UNCHANGED <<vars, vector_vars, query_vars>>
        /\ written' = WriteCHGraph(format, node_levels, out_edges)
  BY DEF Write
<1>2. ExportedUnpack /\ LabelsInv /\ EdgesFoundById /\ is_dirty
  BY <1>1 DEF PipelineInv
<1>3. WrittenShortcutsUnpack'
  BY <1>1, <1>2, WriteUnpacks
<1>4. is_dirty' = is_dirty
  BY <1>1 DEF vars, graph_vars
<1>5. LabelsInv'
  BY <1>1, <1>2, SameLabels DEF LabelsInv
<1> QED
  BY <1>1, <1>2, <1>3, <1>4, <1>5 DEF PipelineInv, EdgesFoundById

(* Nothing happens.                                                        *)
LEMMA PipelineStutters == PipelineInv /\ UNCHANGED pipeline_vars => PipelineInv'
<1> SUFFICES ASSUME PipelineInv, UNCHANGED pipeline_vars PROVE PipelineInv'
  OBVIOUS
<1>1. UNCHANGED <<vars, vector_vars, query_vars, stage, written>>
  BY DEF pipeline_vars, usage_vars
<1>2. /\ UNCHANGED <<in_edges, out_offsets, in_offsets, id_to_index, phase>> /\ UNCHANGED graph_vars
  BY <1>1 DEF vars, vector_vars, loop_vars
<1>3. UNCHANGED <<out_edges, edges_dump, edge_count, is_dirty, node_levels>>
  BY <1>2 DEF graph_vars
<1>4. (stage = "construct" => ConstructionInv)'
  BY <1>1, NextKeepsConstruction DEF PipelineInv
<1>5. (stage \in {"construct", "query"} => VectorsInv)'
  BY <1>1, <1>2, <1>3, SameVectors DEF PipelineInv
<1>6. EdgesFoundById'
  BY <1>2, <1>3 DEF PipelineInv, EdgesFoundById, Edges, GetEdge
<1>7. (stage = "query" => edges_dump = {} /\ Hierarchy(Edges) /\ ~Restructuring)'
  BY <1>1, <1>2, <1>3
  DEF PipelineInv, Hierarchy, Ids, Edges, LowCenter, Contracted, Unpackable, Restructuring
<1>8. LabelsInv'
  BY <1>1, SameLabels DEF PipelineInv
<1>9. (stage = "exported" => ExportedUnpack)'
  BY <1>1, <1>3 DEF PipelineInv, ExportedUnpack, UnpacksAt
<1>10. WrittenShortcutsUnpack'
  BY <1>1 DEF PipelineInv, WrittenShortcutsUnpack
<1> QED
  BY <1>1, <1>3, <1>4, <1>5, <1>6, <1>7, <1>8, <1>9, <1>10 DEF PipelineInv

(* The inductive invariant holds from the input graph to the file.         *)
THEOREM PipelineInvariant == PipelineSpec => []PipelineInv
<1>1. PipelineInv /\ [PipelineNext]_pipeline_vars => PipelineInv'
  BY ConstructKeeps, RebuildStep, QueryStep, ExportStep, WriteStep, PipelineStutters
  DEF PipelineNext, Done
<1> QED
  BY <1>1, InitPipeline, PTL DEF PipelineSpec

(* nodeEdges() returns the edges of a node from either vector, all of them *)
(* and no others, whenever restructure() or rebuildCompleteGraph() is done:*)
(* it does not matter that initOffsets() counts in one vector for both.    *)
THEOREM OffsetsAgree == PipelineSpec => []VectorsAgree
<1>1. PipelineInv => VectorsAgree
  <2> SUFFICES ASSUME PipelineInv, stage \notin {"exported", "written"},
                      NEW n \in Nodes, NEW type \in EdgeType
               PROVE  ConsistsOf(NodeEdgesRange(n, type), NodeEdges(n, type))
    BY DEF VectorsAgree, ConsistsOf, NrOfEdgesOf
  <2>1. VectorsInv
    BY DEF PipelineInv
  <2> QED
    BY <2>1, RangeOfNode
<1> QED
  BY <1>1, PipelineInvariant, PTL

(* While the graph is not dirty getEdge() finds every edge by its id.      *)
THEOREM TableFindsEdges == PipelineSpec => []EdgesFoundById
<1>1. PipelineInv => EdgesFoundById
  BY DEF PipelineInv
<1> QED
  BY <1>1, PipelineInvariant, PTL

(* CHDijkstra notes every label it sets, whatever the lengths are: each    *)
(* query of any number starts with clean labels in both directions.        *)
THEOREM QueriesStartClean == PipelineSpec => []LabelsWillBeReset
<1>1. PipelineInv => LabelsWillBeReset
  BY DEF PipelineInv, LabelsInv
<1> QED
  BY <1>1, PipelineInvariant, PTL

(* In every file of a hierarchy the child fields of a line are the lines of*)
(* the two edges the shortcut stands for, which meet in a lower node.      *)
THEOREM FilesUnpack == PipelineSpec => []WrittenShortcutsUnpack
<1>1. PipelineInv => WrittenShortcutsUnpack
  BY DEF PipelineInv
<1> QED
  BY <1>1, PipelineInvariant, PTL

-----------------------------------------------------------------------------
(* What was written has the distances of the input.                        *)

(* Nothing happens to a finished hierarchy while its levels stay.          *)
LEMMA StaysComplete ==
  ASSUME NEW E, Complete(E), UNCHANGED <<node_levels, input_edges>>
  PROVE  Complete(E)'
BY DEF Complete, UpPart, DownPart, IsUp, EdgesRead

(* Renumbering the ids keeps ends and lengths.                             *)
LEMMA RenumberedArcs ==
  ASSUME NEW S, Hierarchy(S), NEW v, Lists(v, S)
  PROVE  Arcs({Renumbered(v)[i] : i \in DOMAIN Renumbered(v)}) = Arcs(S)
<1> DEFINE w == Renumbered(v)
           F == {w[i] : i \in DOMAIN w}
           new_id == [id \in 0..(Len(v) - 1) |-> (CHOOSE k \in DOMAIN v : v[k].id = id) - 1]
<1>1. w = [k \in DOMAIN v |-> [v[k] EXCEPT !.id = new_id[k - 1],
                                          !.child_edge1 = NewChild(@, new_id),
                                          !.child_edge2 = NewChild(@, new_id)]]
  BY DEF Renumbered
<1>2. DOMAIN w = DOMAIN v
  BY <1>1
<1> HIDE DEF w, new_id
<1>3. ASSUME NEW k \in DOMAIN v
      PROVE  w[k].src = v[k].src /\ w[k].tgt = v[k].tgt /\ w[k].dist = v[k].dist
  <2>1. v[k] \in CHEdge
    BY DEF Lists, Hierarchy
  <2> QED
    BY <1>1, <2>1 DEF CHEdge
<1>4. ASSUME NEW t \in Arcs(F) PROVE t \in Arcs(S)
  <2>1. PICK k \in DOMAIN v : t = <<w[k].src, w[k].tgt, w[k].dist>>
    BY <1>2, <1>4 DEF Arcs
  <2>2. v[k] \in S /\ t = <<v[k].src, v[k].tgt, v[k].dist>>
    BY <1>3, <2>1 DEF Lists
  <2> QED
    BY <2>2 DEF Arcs
<1>5. ASSUME NEW t \in Arcs(S) PROVE t \in Arcs(F)
  <2>1. PICK e \in S : t = <<e.src, e.tgt, e.dist>>
    BY <1>5 DEF Arcs
  <2>2. PICK k \in DOMAIN v : v[k] = e
    BY DEF Lists
  <2>3. t = <<w[k].src, w[k].tgt, w[k].dist>> /\ w[k] \in F
    BY <1>2, <1>3, <2>1, <2>2
  <2> QED
    BY <2>3 DEF Arcs
<1> HIDE DEF F
<1>6. Arcs(F) = Arcs(S)
  BY <1>4, <1>5
<1> QED
  BY <1>6 DEF F, w

(* exportData() keeps them.                                                *)
LEMMA ExportKeepsArcs ==
  ASSUME NEW S, Hierarchy(S), S = (IF out_edges = <<>> THEN edges_dump ELSE Edges), ExportData
  PROVE  Arcs(Edges') = Arcs(S) /\ UNCHANGED <<node_levels, input_edges>>
<1>1. S \in SUBSET CHEdge /\ IsFiniteSet(S)
  BY EdgeSetsFinite DEF Hierarchy
<1>2. PICK v \in SrcTgtSortings(S) : out_edges' = Renumbered(v)
  BY DEF ExportData
<1>3. Lists(v, S)
  BY <1>1, <1>2, SrcTgtSorted
<1>4. Edges' = {Renumbered(v)[i] : i \in DOMAIN Renumbered(v)}
  BY <1>2 DEF Edges
<1>5. Arcs({Renumbered(v)[i] : i \in DOMAIN Renumbered(v)}) = Arcs(S)
  BY <1>3, RenumberedArcs
<1>6. Arcs(Edges') = Arcs(S)
  BY <1>4, <1>5
<1> QED
  BY <1>6 DEF ExportData

(* The first three fields of a line, in every format.                      *)
LEMMA FirstFields ==
  ASSUME NEW format, NEW e
  PROVE  LET l == WrittenEdge(format, e)
         IN  l[1] = e.src /\ l[2] = e.tgt /\ l[3] = e.dist
<1>1. CASE format \in CHFormats
  <2>1. WrittenEdge(format, e) = <<e.src, e.tgt, e.dist>>
                                   \o <<ChildField(e.child_edge1), ChildField(e.child_edge2)>>
    BY <1>1 DEF WrittenEdge
  <2> QED
    BY <2>1, LineFields
<1>2. CASE format \notin CHFormats
  <2>1. WrittenEdge(format, e) = <<e.src, e.tgt, e.dist>> \o <<>>
    BY <1>2 DEF WrittenEdge
  <2> DEFINE S == {e.src, e.tgt, e.dist}
             s1 == <<e.src, e.tgt, e.dist>>
  <2>2. s1 \in Seq(S) /\ s1[1] = e.src /\ s1[2] = e.tgt /\ s1[3] = e.dist
    OBVIOUS
  <2> HIDE DEF s1, S
  <2>3. s1 \o <<>> = s1
    BY <2>2, ConcatEmptySeq
  <2> QED
    BY <2>1, <2>2, <2>3 DEF s1
<1> QED
  BY <1>1, <1>2

(* The lines of a file, and the level it gives a node.                     *)
Lines(file) == {file.edges[i] : i \in DOMAIN file.edges}

LevelIn(file, n) == file.nodes[n + 1][1]

(* The lines of a file hold the edges, its nodes the levels.               *)
LEMMA FileArcs ==
  ASSUME NEW format, NEW file, file = WriteCHGraph(format, node_levels, out_edges), EdgeSet(Edges)
  PROVE  /\ file.format = format
         /\ Arcs(LineEdges(Lines(file))) = Arcs(Edges)
         /\ format \in CHFormats => \A n \in Nodes : LevelIn(file, n) = node_levels[n]
<1> DEFINE F == LineEdges(Lines(file))
<1>1. /\ file.format = format /\ DOMAIN file.edges = DOMAIN out_edges
      /\ \A k \in DOMAIN out_edges : file.edges[k] = WrittenEdge(format, out_edges[k])
  BY DEF WriteCHGraph
<1>2. ASSUME NEW k \in DOMAIN out_edges
      PROVE  /\ file.edges[k][1] = out_edges[k].src /\ file.edges[k][2] = out_edges[k].tgt
             /\ file.edges[k][3] = out_edges[k].dist
  BY <1>1, FirstFields
<1>3. ASSUME NEW t \in Arcs(F) PROVE t \in Arcs(Edges)
  <2>1. PICK l \in Lines(file) : t = <<l[1], l[2], l[3]>>
    BY <1>3 DEF Arcs, LineEdges
  <2>2. PICK k \in DOMAIN out_edges : l = file.edges[k]
    BY <1>1, <2>1 DEF Lines
  <2>3. t = <<out_edges[k].src, out_edges[k].tgt, out_edges[k].dist>> /\ out_edges[k] \in Edges
    BY <1>2, <2>1, <2>2 DEF Edges
  <2> QED
    BY <2>3 DEF Arcs
<1>4. ASSUME NEW t \in Arcs(Edges) PROVE t \in Arcs(F)
  <2>1. PICK e \in Edges : t = <<e.src, e.tgt, e.dist>>
    BY <1>4 DEF Arcs
  <2>2. PICK k \in DOMAIN out_edges : out_edges[k] = e
    BY DEF Edges
  <2> DEFINE l == file.edges[k]
             f == [src |-> l[1], tgt |-> l[2], dist |-> l[3]]
  <2>3. l \in Lines(file)
    BY <1>1 DEF Lines
  <2>4. f \in F
    BY <2>3 DEF LineEdges
  <2>5. t = <<f.src, f.tgt, f.dist>>
    BY <1>2, <2>1, <2>2
  <2> QED
    BY <2>4, <2>5 DEF Arcs
<1> HIDE DEF F
<1>5. Arcs(F) = Arcs(Edges)
  BY <1>3, <1>4
<1>6. ASSUME format \in CHFormats, NEW n \in Nodes PROVE LevelIn(file, n) = node_levels[n]
  <2>1. n + 1 \in 1..NrOfNodes /\ (n + 1) - 1 = n
    BY SizeAssumption DEF Nodes
  <2>2. file.nodes[n + 1] = <<node_levels[n]>>
    BY <1>6, <2>1 DEF WriteCHGraph, WrittenNode
  <2> QED
    BY <2>2 DEF LevelIn
<1> QED
  BY <1>1, <1>5, <1>6 DEF F

(* The file can be used like the hierarchy.                                *)
LEMMA FileComplete ==
  ASSUME NEW format, NEW file, file = WriteCHGraph(format, node_levels, out_edges), Complete(Edges),
         stage' = "written", written' = file, UNCHANGED input_edges
  PROVE  WrittenFileHasDistances'
<1> DEFINE F == LineEdges(Lines(file))
           up == LineEdges({l \in Lines(file) : LevelIn(file, l[1]) < LevelIn(file, l[2])})
           down == LineEdges({l \in Lines(file) : LevelIn(file, l[1]) > LevelIn(file, l[2])})
<1>1. EdgeSet(Edges)
  BY DEF Complete
<1>2. /\ file.format = format /\ Arcs(F) = Arcs(Edges)
      /\ format \in CHFormats => \A n \in Nodes : LevelIn(file, n) = node_levels[n]
  BY <1>1, FileArcs
<1>3. Complete(F)
  BY <1>2, SameArcsComplete
<1>4. EdgesRead' = EdgesRead
  BY DEF EdgesRead
<1>5. ASSUME format \in CHFormats PROVE up = UpPart(F) /\ down = DownPart(F)
  <2>1. \A l \in Lines(file) : l[1] \in Nodes /\ l[2] \in Nodes
    <3> SUFFICES ASSUME NEW l \in Lines(file) PROVE l[1] \in Nodes /\ l[2] \in Nodes
      OBVIOUS
    <3> DEFINE f == [src |-> l[1], tgt |-> l[2], dist |-> l[3]]
    <3>1. f \in F /\ f.src = l[1] /\ f.tgt = l[2]
      BY DEF LineEdges
    <3> HIDE DEF f, F
    <3> QED
      BY <1>3, <3>1 DEF Complete, EdgeSet
  <2>2. \A l \in Lines(file) : /\ LevelIn(file, l[1]) = node_levels[l[1]]
                               /\ LevelIn(file, l[2]) = node_levels[l[2]]
    BY <1>2, <1>5, <2>1
  <2>3. ASSUME NEW l \in Lines(file)
        PROVE  [src |-> l[1], tgt |-> l[2], dist |-> l[3]].src = l[1]
               /\ [src |-> l[1], tgt |-> l[2], dist |-> l[3]].tgt = l[2]
    OBVIOUS
  <2>4. up = UpPart(F)
    BY <2>2 DEF UpPart, IsUp, LineEdges
  <2>5. down = DownPart(F)
    BY <2>2 DEF DownPart, IsUp, LineEdges
  <2> QED
    BY <2>4, <2>5
<1> HIDE DEF up, down, F
<1>6. IF format \in CHFormats
      THEN Shortest(Joined(Distances(up), Distances(down))) = Distances(EdgesRead)
      ELSE Distances(F) = Distances(EdgesRead)
  BY <1>3, <1>5 DEF Complete
<1>7. IF written'.format \in CHFormats
      THEN Shortest(Joined(Distances(up), Distances(down))) = Distances(EdgesRead')
      ELSE Distances(F) = Distances(EdgesRead')
  BY <1>2, <1>4, <1>6
<1> QED
  BY <1>7 DEF WrittenFileHasDistances, up, down, F, Lines, LevelIn

(* The invariant: the hierarchy has the distances of the input while it is *)
(* constructed, when it is finished, and when it was exported.             *)
FileInv ==
  /\ PipelineInv
  /\ stage = "construct" => DistanceInv
  /\ stage \in {"query", "exported"} => Complete(Edges)
  /\ WrittenFileHasDistances

LEMMA InitFile ==
  ASSUME LengthsFit
  PROVE  PipelineInit => FileInv
<1> SUFFICES ASSUME PipelineInit PROVE FileInv
  OBVIOUS
<1>1. PipelineInv /\ Init /\ stage = "construct"
  BY InitPipeline DEF PipelineInit
<1> QED
  BY <1>1, InitIsAny, InitDistances DEF FileInv, WrittenFileHasDistances

(* The graph is unchanged from when the hierarchy was complete.            *)
LEMMA EdgesStayComplete ==
  ASSUME Complete(Edges), UNCHANGED <<out_edges, node_levels, input_edges>>
  PROVE  Complete(Edges)'
<1>1. PICK E : E = Edges
  OBVIOUS
<1>2. Edges' = E
  BY <1>1 DEF Edges
<1>3. Complete(E)'
  BY <1>1, StaysComplete
<1> QED
  BY <1>2, <1>3 DEF Complete, UpPart, DownPart

(* Rebuilding the finished graph keeps its distances.                      *)
LEMMA RebuildKeepsFile == FileInv /\ Rebuild => FileInv'
<1> SUFFICES ASSUME FileInv, Rebuild PROVE FileInv'
  OBVIOUS
<1>1. PipelineInv' /\ stage' = "query"
  BY RebuildStep DEF FileInv, Rebuild
<1>2. stage = "construct" /\ phase = "contracted" /\ RebuildCompleteGraph /\ ConstructionInv /\ DistanceInv
  BY DEF FileInv, PipelineInv, Rebuild
<1>3. PICK E : E = edges_dump
  OBVIOUS
<1>4. Edges' = E /\ UNCHANGED <<node_levels, input_edges>>
  BY <1>2, <1>3, RebuildKeeps DEF RebuildCompleteGraph
<1>5. Complete(E)
  BY <1>2, <1>3, ContractedComplete
<1>6. Complete(E)'
  BY <1>4, <1>5, StaysComplete
<1>7. Complete(Edges)'
  BY <1>4, <1>6 DEF Complete, UpPart, DownPart
<1> QED
  BY <1>1, <1>7 DEF FileInv, WrittenFileHasDistances

(* What is exported and written has the distances of the construction.     *)
LEMMA ExportKeepsFile == FileInv /\ Export => FileInv'
<1> SUFFICES ASSUME FileInv, Export PROVE FileInv'
  OBVIOUS
<1>1. PipelineInv' /\ stage' = "exported" /\ ExportData /\ PipelineInv
  BY ExportStep DEF FileInv, Export
<1> DEFINE S == IF out_edges = <<>> THEN edges_dump ELSE Edges
<1>2. Hierarchy(S) /\ Complete(S)
  <2>1. CASE stage = "construct" /\ phase = "contracted"
    <3>1. ConstructionInv /\ DistanceInv
      BY <2>1 DEF FileInv, PipelineInv
    <3>2. Hierarchy(edges_dump) /\ out_edges = <<>> /\ Complete(edges_dump)
      BY <2>1, <3>1, ContractedHierarchy, ContractedComplete
    <3> QED
      BY <3>2
  <2>2. CASE stage = "query"
    <3>1. out_edges = <<>> => Edges = {}
      BY DEF Edges
    <3>2. edges_dump = {} /\ Hierarchy(Edges) /\ Complete(Edges)
      BY <2>2 DEF FileInv, PipelineInv
    <3>3. S = Edges
      BY <3>1, <3>2
    <3> HIDE DEF S
    <3> QED
      BY <3>2, <3>3
  <2> QED
    BY <2>1, <2>2 DEF Export
<1>3. PICK T : T = S
  OBVIOUS
<1> HIDE DEF S
<1>4. T = (IF out_edges = <<>> THEN edges_dump ELSE Edges)
  BY <1>3 DEF S
<1>5. Arcs(Edges') = Arcs(T) /\ UNCHANGED <<node_levels, input_edges>>
  BY <1>1, <1>2, <1>3, <1>4, ExportKeepsArcs
<1>6. PICK E : E = Edges'
  OBVIOUS
<1>7. Arcs(T) = Arcs(E) /\ Complete(T)
  BY <1>2, <1>3, <1>5, <1>6
<1>8. Complete(E)
  BY <1>7, SameArcsComplete
<1>9. Complete(E)'
  BY <1>5, <1>8, StaysComplete
<1>10. Complete(Edges)'
  BY <1>6, <1>9 DEF Complete, UpPart, DownPart
<1> QED
  BY <1>1, <1>10 DEF FileInv, WrittenFileHasDistances

(* Every step keeps it.                                                    *)
LEMMA NextKeepsFile ==
  ASSUME FileInv, [PipelineNext]_pipeline_vars
  PROVE  FileInv'
<1>1. PipelineInv'
  BY ConstructKeeps, RebuildStep, QueryStep, ExportStep, WriteStep, PipelineStutters
  DEF FileInv, PipelineNext, Done
<1>2. CASE Construct
  <2>1. stage = "construct" /\ stage' = "construct" /\ Next
    BY <1>2 DEF Construct, usage_vars, Next
  <2>2. DistanceInv'
    BY <2>1, NextKeepsDistances DEF FileInv
  <2> QED
    BY <1>1, <2>1, <2>2 DEF FileInv, WrittenFileHasDistances
<1>3. CASE Rebuild
  BY <1>3, RebuildKeepsFile
<1>4. CASE AskQuery \/ Answer
  <2>1. UNCHANGED <<vars, stage>>
    BY <1>4 DEF AskQuery, Answer, usage_vars
  <2>2. stage = "query"
    BY <1>4 DEF FileInv, AskQuery, Answer, PipelineInv, LabelsInv, AnswerQuery, SearchStep, NoPathFound,
         SearchEnded, StartBacktracking, Backtrack, OtherDirection, PathFound
  <2>3. UNCHANGED <<out_edges, node_levels, input_edges>>
    BY <2>1 DEF vars, graph_vars
  <2>4. Complete(Edges)'
    BY <2>2, <2>3, EdgesStayComplete DEF FileInv
  <2> QED
    BY <1>1, <2>1, <2>2, <2>4 DEF FileInv, WrittenFileHasDistances
<1>5. CASE Export
  BY <1>5, ExportKeepsFile
<1>6. CASE Write
  <2>1. PICK format \in OutFormats : written' = WriteCHGraph(format, node_levels, out_edges)
    BY <1>6 DEF Write
  <2>2. PICK file : file = WriteCHGraph(format, node_levels, out_edges)
    OBVIOUS
  <2>3. stage = "exported" /\ stage' = "written" /\ UNCHANGED input_edges
    BY <1>6 DEF Write, vars, graph_vars
  <2>4. Complete(Edges)
    BY <2>3 DEF FileInv
  <2>5. WrittenFileHasDistances'
    BY <2>1, <2>2, <2>3, <2>4, FileComplete
  <2> QED
    BY <1>1, <2>3, <2>5 DEF FileInv
<1>7. CASE Done \/ UNCHANGED pipeline_vars
  <2>1. UNCHANGED <<vars, stage, written>>
    BY <1>7 DEF Done, pipeline_vars, usage_vars
  <2>2. UNCHANGED <<out_edges, node_levels, input_edges>>
    BY <2>1 DEF vars, graph_vars
  <2>3. (stage = "construct" => DistanceInv)'
    BY <2>1, NextKeepsDistances DEF FileInv
  <2>4. (stage \in {"query", "exported"} => Complete(Edges))'
    BY <2>1, <2>2, EdgesStayComplete DEF FileInv
  <2>5. WrittenFileHasDistances'
    BY <2>1, <2>2 DEF FileInv, WrittenFileHasDistances, EdgesRead
  <2> QED
    BY <1>1, <2>3, <2>4, <2>5 DEF FileInv
<1> QED
  BY <1>2, <1>3, <1>4, <1>5, <1>6, <1>7 DEF PipelineNext

(* What is written has the distances of the graph that was read, whatever  *)
(* happened in between: a file with levels if one goes up and then down,   *)
(* one without levels as a graph.                                          *)
THEOREM FilesHaveDistances ==
  ASSUME LengthsFit
  PROVE  PipelineSpec => []WrittenFileHasDistances
<1>1. PipelineInit => FileInv
  BY InitFile
<1>2. FileInv /\ [PipelineNext]_pipeline_vars => FileInv'
  BY NextKeepsFile
<1>3. FileInv => WrittenFileHasDistances
  BY DEF FileInv
<1> QED
  BY <1>1, <1>2, <1>3, PTL DEF PipelineSpec

-----------------------------------------------------------------------------
(* The two searches of a query.                                            *)

(* The edges a search follows.                                             *)
Upward(E, dir) == {e \in E : IsUp(e, dir)}

(* In these G are the edges a search in direction dir follows, a the node  *)
(* it starts at, ds its labels, fb its _found_by, and W the nodes that are *)
(* settled.  The label d of n is that of a settled node and an edge from   *)
(* there, the one with the given id.                                       *)
Justified(G, dir, a, W, ds, n, id, d) ==
  \/ n = a /\ d = 0
  \/ \E e \in G : /\ e.id = id /\ OtherNode(e, dir) = n /\ FromNode(e, dir) \in W
                  /\ ds[FromNode(e, dir)] + e.dist = d

Settled(G, dir, a, W, ds, fb) ==
  \A n \in W : ds[n] # NO_DIST /\ Justified(G, dir, a, W, ds, n, fb[n], ds[n])

(* The other labels have an element in the queue; the edges in relaxed are *)
(* relaxed; no label is more than limit.                                   *)
Frontier(G, dir, a, W, ds, queue, relaxed, limit) ==
  /\ ds[a] = 0
  /\ \A x \in queue : x.direction = dir =>
       /\ ds[x.node] <= x.dist /\ x.dist # NO_DIST
       /\ Justified(G, dir, a, W, ds, x.node, x.found_by, x.dist)
  /\ \A n \in Nodes \ W : ds[n] # NO_DIST =>
       \E x \in queue : x.direction = dir /\ x.node = n /\ x.dist = ds[n]
  /\ \A e \in relaxed : ds[OtherNode(e, dir)] <= ds[FromNode(e, dir)] + e.dist
  /\ \A n \in Nodes : ds[n] # NO_DIST => AtMost(Ways(G, dir), a, n, ds[n]) /\ ds[n] <= limit

(* Nobody was settled before its turn.                                     *)
Ordered(W, ds, queue) == \A n \in W, x \in queue : ds[n] <= x.dist

LabelsStay(W, ds1, ds2) == \A n \in W : ds1[n] = ds2[n]

NoHigher(ds1, ds2) == \A n \in Nodes : ds1[n] <= ds2[n]

(* The state st while the edges of the node settled last, that of top, are *)
(* relaxed.                                                                *)
Turn(G, dir, a, W, top, st, relaxed, limit) ==
  /\ Frontier(G, dir, a, W, st.dists, st.queue, relaxed, limit)
  /\ st.dists[top.node] = top.dist
  /\ \A n \in W : st.dists[n] <= top.dist
  /\ \A x \in st.queue : top.dist <= x.dist
  /\ \A x \in relaxed : FromNode(x, dir) \in W

TurnStarts(G, dir, a, W, top, limit) ==
  /\ G \in SUBSET CHEdge /\ dir \in EdgeType /\ a \in Nodes /\ W \in SUBSET Nodes
  /\ limit \in Nat /\ limit < NO_DIST
  /\ top \in PQElements /\ top.direction = dir /\ top.node \in W /\ top.dist # NO_DIST

(* What a queue holds for a direction.                                     *)
Part(queue, dir) == {x \in queue : x.direction = dir}

(* A sum that does not wrap around.                                        *)
LEMMA UintAddExact ==
  ASSUME NEW a \in Nat, NEW b \in Nat, a + b < NO_DIST
  PROVE  UintAdd(a, b) = a + b
<1>1. MaxUint \in Nat /\ a + b < MaxUint /\ a + b \in Nat
  BY SizeAssumption DEF NO_DIST
<1>2. (a + b) % (MaxUint + 1) = a + b
  BY <1>1
<1> QED
  BY <1>2 DEF UintAdd

(* What queue elements and edges consist of.                               *)
LEMMA QueueTypes ==
  /\ \A x \in PQElements : x.node \in Nodes /\ x.dist \in Nat /\ x.direction \in EdgeType /\ x.found_by \in Uint
  /\ \A e \in CHEdge, dir \in EdgeType :
       OtherNode(e, dir) \in Nodes /\ FromNode(e, dir) \in Nodes /\ e.dist \in Nat /\ e.id \in Uint
<1>1. Uint \subseteq Nat
  BY NodesAreUint
<1>2. \A x \in PQElements : x.node \in Nodes /\ x.dist \in Nat /\ x.direction \in EdgeType /\ x.found_by \in Uint
  BY <1>1 DEF PQElements
<1>3. \A e \in CHEdge, dir \in EdgeType :
        OtherNode(e, dir) \in Nodes /\ FromNode(e, dir) \in Nodes /\ e.dist \in Nat /\ e.id \in Uint
  BY <1>1 DEF CHEdge, OtherNode, FromNode, Opposite, EdgeType
<1> QED
  BY <1>2, <1>3

(* Way and edge together are a way.                                        *)
LEMMA WayAndUpEdge ==
  ASSUME NEW G, G \in SUBSET CHEdge, NEW dir \in EdgeType, NEW a \in Nodes, NEW e \in G, NEW c \in Nat,
         AtMost(Ways(G, dir), a, FromNode(e, dir), c)
  PROVE  AtMost(Ways(G, dir), a, OtherNode(e, dir), c + e.dist)
<1>1. EdgeSet(G)
  BY NodesAreUint DEF EdgeSet, CHEdge
<1>2. Triangular(Ways(G, dir)) /\ AtMost(Ways(G, dir), FromNode(e, dir), OtherNode(e, dir), e.dist)
  BY <1>1, WaysAreDistances
<1>3. FromNode(e, dir) \in Nodes /\ OtherNode(e, dir) \in Nodes /\ e.dist \in Nat
  BY QueueTypes
<1> QED
  BY <1>2, <1>3 DEF Triangular

(* Relaxing an edge of a settled node leaves the settled ones alone.       *)
LEMMA RelaxKeeps ==
  ASSUME NEW G, NEW dir, NEW a, NEW W, NEW top, NEW limit, TurnStarts(G, dir, a, W, top, limit),
         NEW st \in CleanStates, NEW R \in SUBSET G, Turn(G, dir, a, W, top, st, R, limit),
         NEW e \in G, IsUp(e, dir), FromNode(e, dir) = top.node, top.dist + e.dist <= limit
  PROVE  /\ Turn(G, dir, a, W, top, Relax(top, st, e), R \cup {e}, limit)
         /\ LabelsStay(W, Relax(top, st, e).dists, st.dists) /\ NoHigher(Relax(top, st, e).dists, st.dists)
         /\ Part(Relax(top, st, e).queue, Opposite(dir)) = Part(st.queue, Opposite(dir))
<1> DEFINE ds == st.dists
           q == st.queue
           t == OtherNode(e, dir)
           f == FromNode(e, dir)
           nds == Relax(top, st, e).dists
           nq == Relax(top, st, e).queue
           d == top.dist + e.dist
<1>8. /\ G \in SUBSET CHEdge /\ dir \in EdgeType /\ a \in Nodes /\ W \in SUBSET Nodes
      /\ limit \in Nat /\ limit < NO_DIST
      /\ top \in PQElements /\ top.direction = dir /\ top.node \in W /\ top.dist # NO_DIST
  BY DEF TurnStarts
<1>1. /\ e \in CHEdge /\ f \in Nodes /\ t \in Nodes /\ e.dist \in Nat /\ e.id \in Uint
      /\ top.dist \in Nat /\ d \in Nat /\ d < NO_DIST /\ top.dist <= d /\ d <= limit /\ NO_DIST \in Nat
  BY <1>8, QueueTypes, SizeAssumption DEF NO_DIST
<1>2. UintAdd(top.dist, e.dist) = d
  BY <1>8, <1>1, UintAddExact
<1>3. /\ ds \in [Nodes -> Uint] /\ q \in SUBSET PQElements /\ Uint \subseteq Nat
      /\ \A n \in Nodes : ds[n] \in Nat
      /\ \A x \in q : x.node \in Nodes /\ x.dist \in Nat
  BY <1>8, QueueTypes, NodesAreUint DEF CleanStates
<1>4. Frontier(G, dir, a, W, ds, q, R, limit) /\ \A x \in R : FromNode(x, dir) \in W
  BY DEF Turn
<1>7. /\ ds[top.node] = top.dist /\ f = top.node /\ (\A n \in W : ds[n] <= top.dist)
      /\ \A x \in q : top.dist <= x.dist
  BY DEF Turn
<1>5. CASE ~(d < ds[t])
  <2>1. Relax(top, st, e) = st
    BY <1>8, <1>2, <1>5 DEF Relax, Better
  <2>2. ds[t] <= ds[f] + e.dist
    BY <1>8, <1>1, <1>3, <1>5, <1>7
  <2>3. LabelsStay(W, ds, ds) /\ NoHigher(ds, ds)
    BY <1>3 DEF LabelsStay, NoHigher
  <2> HIDE DEF ds, q
  <2>4. Frontier(G, dir, a, W, ds, q, R \cup {e}, limit)
    BY <1>8, <1>4, <2>2 DEF Frontier
  <2>5. Turn(G, dir, a, W, top, st, R \cup {e}, limit)
    BY <1>8, <1>4, <1>7, <2>4 DEF Turn, ds, q, f
  <2> QED
    BY <1>8, <2>1, <2>3, <2>5 DEF ds
<1>6. CASE d < ds[t]
  <2> DEFINE new == PQElement(t, e.id, dir, d)
  <2>1. /\ Relax(top, st, e).dists = [ds EXCEPT ![t] = d]
        /\ Relax(top, st, e).queue = q \cup {new}
    BY <1>8, <1>2, <1>6 DEF Relax, Better
  <2>2. \A n \in Nodes : nds[n] = IF n = t THEN d ELSE ds[n]
    BY <1>8, <1>1, <1>3, <2>1
  <2>3. nq = q \cup {new}
    BY <1>8, <2>1
  <2>4. new.node = t /\ new.found_by = e.id /\ new.direction = dir /\ new.dist = d
    BY DEF PQElement
  <2>5. t \notin W
    BY <1>8, <1>1, <1>3, <1>6, <1>7
  <2>6. /\ ds[top.node] = top.dist /\ f = top.node /\ (\A n \in W : ds[n] <= top.dist)
        /\ \A x \in q : top.dist <= x.dist
    BY <1>7
  <2> HIDE DEF ds, q, nds, nq, d, new, t, f
  <2>7. \A n \in W : nds[n] = ds[n]
    BY <1>8, <2>2, <2>5
  <2>8. \A n \in Nodes : nds[n] <= ds[n]
    BY <1>8, <1>1, <1>3, <1>6, <2>2
  <2>9. nds[a] = 0
    <3>1. ds[a] = 0
      BY <1>8, <1>4 DEF Frontier
    <3>2. a # t
      BY <1>8, <1>1, <1>6, <3>1
    <3> QED
      BY <1>8, <2>2, <3>1, <3>2
  <2>10. ASSUME NEW x \in nq, x.direction = dir
         PROVE  /\ nds[x.node] <= x.dist /\ x.dist # NO_DIST
                /\ Justified(G, dir, a, W, nds, x.node, x.found_by, x.dist)
    <3>1. CASE x \in q
      <4>1. /\ ds[x.node] <= x.dist /\ x.dist # NO_DIST
            /\ Justified(G, dir, a, W, ds, x.node, x.found_by, x.dist)
        BY <1>8, <1>4, <2>10, <3>1 DEF Frontier
      <4>2. nds[x.node] <= x.dist
        <5>1. nds[x.node] <= ds[x.node] /\ nds[x.node] \in Nat /\ ds[x.node] \in Nat /\ x.dist \in Nat
          BY <1>8, <1>1, <1>3, <2>2, <2>8, <3>1
        <5> QED
          BY <4>1, <5>1
      <4>3. Justified(G, dir, a, W, nds, x.node, x.found_by, x.dist)
        BY <1>8, <2>7, <4>1 DEF Justified
      <4> QED
        BY <4>1, <4>2, <4>3
    <3>2. CASE x = new
      <4>1. nds[f] + e.dist = d /\ f \in W
        BY <1>8, <2>6, <2>7 DEF d
      <4>2. Justified(G, dir, a, W, nds, t, e.id, d)
        BY <4>1 DEF Justified, t, f
      <4>3. nds[t] = d /\ d # NO_DIST
        BY <1>8, <1>1, <2>2
      <4> QED
        BY <1>8, <1>1, <2>4, <3>2, <4>2, <4>3
    <3> QED
      BY <1>8, <2>3, <3>1, <3>2
  <2>11. ASSUME NEW n \in Nodes \ W, nds[n] # NO_DIST
         PROVE  \E x \in nq : x.direction = dir /\ x.node = n /\ x.dist = nds[n]
    <3>1. CASE n = t
      BY <1>8, <2>2, <2>3, <2>4, <3>1
    <3>2. CASE n # t
      <4>1. \E x \in q : x.direction = dir /\ x.node = n /\ x.dist = ds[n]
        BY <1>8, <1>4, <2>2, <2>11, <3>2 DEF Frontier
      <4> QED
        BY <1>8, <2>2, <2>3, <3>2, <4>1
    <3> QED
      BY <3>1, <3>2
  <2>12. ASSUME NEW x \in R \cup {e}
         PROVE  nds[OtherNode(x, dir)] <= nds[FromNode(x, dir)] + x.dist
    <3>1. CASE x \in R
      <4>1. ds[OtherNode(x, dir)] <= ds[FromNode(x, dir)] + x.dist /\ FromNode(x, dir) \in W
        BY <1>8, <1>4, <3>1 DEF Frontier
      <4>2. /\ FromNode(x, dir) \in Nodes /\ OtherNode(x, dir) \in Nodes /\ x.dist \in Nat
            /\ nds[FromNode(x, dir)] = ds[FromNode(x, dir)]
        BY <1>8, <2>7, <3>1, <4>1, QueueTypes
      <4>3. /\ nds[OtherNode(x, dir)] <= ds[OtherNode(x, dir)] /\ nds[OtherNode(x, dir)] \in Nat
            /\ ds[OtherNode(x, dir)] \in Nat /\ ds[FromNode(x, dir)] \in Nat
        BY <1>8, <1>1, <1>3, <2>2, <2>8, <4>2
      <4> QED
        BY <4>1, <4>2, <4>3
    <3>2. CASE x = e
      <4>1. nds[t] = d /\ nds[f] = top.dist
        BY <1>8, <1>1, <2>2, <2>6, <2>7
      <4>2. nds[t] <= nds[f] + e.dist
        BY <1>8, <1>1, <4>1 DEF d
      <4> QED
        BY <3>2, <4>2 DEF t, f
    <3> QED
      BY <3>1, <3>2
  <2>13. ASSUME NEW n \in Nodes, nds[n] # NO_DIST
         PROVE  AtMost(Ways(G, dir), a, n, nds[n]) /\ nds[n] <= limit
    <3>1. CASE n = t
      <4>1. AtMost(Ways(G, dir), a, f, top.dist)
        BY <1>8, <1>1, <1>4, <2>6 DEF Frontier
      <4>2. AtMost(Ways(G, dir), a, t, d)
        BY <1>8, <1>1, <4>1, WayAndUpEdge DEF d, t, f
      <4> QED
        BY <1>8, <1>1, <2>2, <3>1, <4>2
    <3>2. CASE n # t
      BY <1>8, <1>4, <2>2, <2>13, <3>2 DEF Frontier
    <3> QED
      BY <3>1, <3>2
  <2>14. Frontier(G, dir, a, W, nds, nq, R \cup {e}, limit)
    BY <1>8, <2>9, <2>10, <2>11, <2>12, <2>13 DEF Frontier
  <2>15. Part(nq, Opposite(dir)) = Part(q, Opposite(dir))
    <3>1. Opposite(dir) # dir
      BY <1>8 DEF Opposite, EdgeType
    <3> QED
      BY <1>8, <2>3, <2>4, <3>1 DEF Part
  <2>16. \A x \in nq : top.dist <= x.dist
    BY <1>8, <1>1, <2>3, <2>4, <2>6
  <2>17. LabelsStay(W, nds, ds) /\ NoHigher(nds, ds)
    BY <1>8, <2>7, <2>8 DEF LabelsStay, NoHigher
  <2>18. \A x \in R \cup {e} : FromNode(x, dir) \in W
    BY <1>8, <1>4, <2>6 DEF f
  <2>19. nds[top.node] = top.dist /\ \A n \in W : nds[n] <= top.dist
    BY <1>8, <2>6, <2>7
  <2>20. Turn(G, dir, a, W, top, Relax(top, st, e), R \cup {e}, limit)
    BY <1>8, <2>14, <2>16, <2>18, <2>19 DEF Turn, nds, nq
  <2> QED
    BY <1>8, <2>15, <2>17, <2>20 DEF nds, nq, ds, q
<1> QED
  BY <1>5, <1>6


(* Labels are numbers.                                                     *)
LEMMA LabelTypes ==
  /\ \A st \in CleanStates, n \in Nodes : st.dists[n] \in Nat /\ st.dists[n] \in Uint
  /\ LabelsInv => \A type \in EdgeType, n \in Nodes : dists[type][n] \in Nat /\ dists[type][n] \in Uint
<1>1. Uint \subseteq Nat
  BY NodesAreUint
<1>2. \A st \in CleanStates : st.dists \in [Nodes -> Uint]
  BY DEF CleanStates
<1>3. LabelsInv => \A type \in EdgeType : dists[type] \in [Nodes -> Uint]
  BY DEF LabelsInv
<1> QED
  BY <1>1, <1>2, <1>3

(* Before and after the edges of the node settled last are relaxed.        *)
BeforeRelaxing(G, dir, a, W, top, limit) ==
  /\ G = Upward(Edges, dir) /\ TurnStarts(G, dir, a, W, top, limit)
  /\ dists[dir][top.node] = top.dist /\ \A n \in W : dists[dir][n] <= top.dist
  /\ \A x \in pq : top.dist <= x.dist
  /\ \A e \in G : top.dist + e.dist <= limit
  /\ Frontier(G, dir, a, W, dists[dir], pq \ {top}, {e \in G : FromNode(e, dir) \in W \ {top.node}}, limit)

AfterRelaxing(G, dir, a, W, top, R, limit) ==
  /\ Frontier(G, dir, a, W, R.dists, R.queue, {e \in G : FromNode(e, dir) \in W}, limit)
  /\ LabelsStay(W, R.dists, dists[dir]) /\ NoHigher(R.dists, dists[dir])
  /\ Part(R.queue, Opposite(dir)) = Part(pq, Opposite(dir))
  /\ \A x \in R.queue : top.dist <= x.dist

(* Relaxing the edges of the node settled last leads to a state of the     *)
(* search with all edges of the settled nodes relaxed.                     *)
LEMMA RelaxAllKeeps ==
  ASSUME VectorsInv, LabelsInv, NEW G, NEW dir, NEW a, NEW W, NEW top, NEW limit,
         BeforeRelaxing(G, dir, a, W, top, limit)
  PROVE  AfterRelaxing(G, dir, a, W, top, RelaxAllEdges(top), limit)
<1>0. /\ dir \in EdgeType /\ G = Upward(Edges, dir) /\ a \in Nodes /\ W \in SUBSET Nodes
      /\ limit \in Nat /\ limit < NO_DIST
      /\ top \in PQElements /\ top.direction = dir /\ top.node \in W /\ top.dist # NO_DIST
      /\ dists[dir][top.node] = top.dist /\ \A n \in W : dists[dir][n] <= top.dist
      /\ \A x \in pq : top.dist <= x.dist
      /\ \A e \in G : top.dist + e.dist <= limit
      /\ Frontier(G, dir, a, W, dists[dir], pq \ {top}, {e \in G : FromNode(e, dir) \in W \ {top.node}}, limit)
  BY DEF BeforeRelaxing, TurnStarts
<1> USE <1>0
<1> DEFINE r == NodeEdgesRange(top.node, top.direction)
           start == [dists |-> dists[top.direction], reset |-> reset_dists[top.direction],
                     queue |-> pq \ {top}]
           other == Part(pq, Opposite(dir))
           Rel(k) == {e \in G : FromNode(e, dir) \in W \ {top.node}} \cup ({r[j] : j \in 1..k} \cap G)
           P == {p \in Nat \X CleanStates :
                   p[1] <= Len(r) =>
                   /\ Turn(G, dir, a, W, top, p[2], Rel(p[1]), limit)
                   /\ LabelsStay(W, p[2].dists, dists[dir]) /\ NoHigher(p[2].dists, dists[dir])
                   /\ Part(p[2].queue, Opposite(dir)) = other}
<1>1. /\ r \in Seq(CHEdge)
      /\ \A k \in 1..Len(r) : r[k] \in Edges /\ FromNode(r[k], dir) = top.node
      /\ \A e \in G : FromNode(e, dir) = top.node => \E k \in 1..Len(r) : r[k] = e
  <2>1. top.node \in Nodes /\ r = NodeEdgesRange(top.node, dir)
    BY QueueTypes
  <2>2. NodeEdges(top.node, dir) = {e \in Edges : FromNode(e, dir) = top.node}
    BY DEF NodeEdges, FromNode
  <2> HIDE DEF r
  <2>3. r \in Seq(CHEdge) /\ ConsistsOf(r, NodeEdges(top.node, dir)) /\ DOMAIN r = 1..Len(r)
    BY <2>1, RangeOfNode
  <2> QED
    BY <2>2, <2>3 DEF ConsistsOf, Upward
<1>2. start \in CleanStates
  <2>1. /\ dists[dir] \in [Nodes -> Uint] /\ reset_dists[dir] \in SUBSET Nodes /\ pq \in SUBSET PQElements
        /\ \A n \in Nodes : dists[dir][n] # NO_DIST => n \in reset_dists[dir]
    BY DEF LabelsInv, LabelsWillBeReset
  <2> QED
    BY <2>1 DEF CleanStates
<1>3. G \in SUBSET CHEdge
  <2>1. Edges \in SUBSET CHEdge
    BY DEF VectorsInv, Edges
  <2> QED
    BY <2>1 DEF Upward
<1>11. TurnStarts(G, dir, a, W, top, limit)
  BY <1>3 DEF TurnStarts
<1> HIDE DEF r
<1>4. <<0, start>> \in P
  <2>1. Rel(0) = {e \in G : FromNode(e, dir) \in W \ {top.node}}
    OBVIOUS
  <2>2. Part(pq \ {top}, Opposite(dir)) = other
    BY DEF Part, Opposite, EdgeType
  <2>3. LabelsStay(W, dists[dir], dists[dir]) /\ NoHigher(dists[dir], dists[dir])
    <3>1. \A n \in Nodes : dists[dir][n] \in Nat
      BY LabelTypes
    <3> QED
      BY <3>1 DEF LabelsStay, NoHigher
  <2>4. start.dists = dists[dir] /\ start.queue = pq \ {top}
    OBVIOUS
  <2>7. \A x \in Rel(0) : FromNode(x, dir) \in W
    BY <2>1
  <2> HIDE DEF Rel, other, start
  <2>5. Turn(G, dir, a, W, top, start, Rel(0), limit)
    <3>1. Frontier(G, dir, a, W, start.dists, start.queue, Rel(0), limit)
      BY <2>1, <2>4
    <3>2. /\ start.dists[top.node] = top.dist /\ (\A n \in W : start.dists[n] <= top.dist)
          /\ \A x \in start.queue : top.dist <= x.dist
      BY <2>4
    <3> QED
      BY <2>7, <3>1, <3>2 DEF Turn
  <2>6. LabelsStay(W, start.dists, dists[dir]) /\ NoHigher(start.dists, dists[dir]) /\ Part(start.queue, Opposite(dir)) = other
    BY <2>2, <2>3, <2>4
  <2> QED
    BY <1>2, <2>5, <2>6
<1>5. ASSUME NEW k \in 1..Len(r), NEW st \in CleanStates, <<k - 1, st>> \in P
      PROVE  <<k, Relax(top, st, r[k])>> \in P
  <2> DEFINE e == r[k]
  <2>1. e \in CHEdge /\ e \in Edges /\ FromNode(e, dir) = top.node /\ k \in Nat /\ k - 1 \in Nat
        /\ k - 1 <= Len(r)
    BY <1>1
  <2>2. Rel(k) = Rel(k - 1) \cup ({e} \cap G)
    <3>1. 1..k = (1..(k - 1)) \cup {k}
      OBVIOUS
    <3> QED
      BY <3>1
  <2>3. Rel(k - 1) \in SUBSET G /\ \A x \in Rel(k - 1) : FromNode(x, dir) \in W
    <3>1. ASSUME NEW j \in 1..(k - 1) PROVE FromNode(r[j], dir) \in W
      BY <1>1, <3>1
    <3> QED
      BY <3>1
  <2> DEFINE Q == Rel(k - 1)
             next == Relax(top, st, e)
  <2>4. /\ Turn(G, dir, a, W, top, st, Rel(k - 1), limit)
        /\ LabelsStay(W, st.dists, dists[dir]) /\ NoHigher(st.dists, dists[dir])
        /\ Part(st.queue, Opposite(dir)) = other
    BY <1>5, <2>1
  <2> HIDE DEF e, Rel, other, P, start
  <2>5. next \in CleanStates
    BY <2>1, RelaxClean
  <2>7. Q \in SUBSET G /\ Turn(G, dir, a, W, top, st, Q, limit)
    BY <2>3, <2>4
  <2>8. e \in G <=> IsUp(e, dir)
    BY <2>1 DEF Upward
  <2> HIDE DEF Q
  <2>9. /\ Turn(G, dir, a, W, top, next, Q \cup ({e} \cap G), limit)
        /\ LabelsStay(W, next.dists, st.dists) /\ NoHigher(next.dists, st.dists)
        /\ Part(next.queue, Opposite(dir)) = Part(st.queue, Opposite(dir))
    <3>1. CASE IsUp(e, dir)
      <4>1. e \in G /\ Q \cup ({e} \cap G) = Q \cup {e} /\ top.dist + e.dist <= limit
        BY <2>8, <3>1
      <4>2. /\ Turn(G, dir, a, W, top, next, Q \cup {e}, limit)
            /\ LabelsStay(W, next.dists, st.dists) /\ NoHigher(next.dists, st.dists)
            /\ Part(next.queue, Opposite(dir)) = Part(st.queue, Opposite(dir))
        BY <1>11, <2>1, <2>7, <3>1, <4>1, RelaxKeeps
      <4> HIDE DEF next
      <4> QED
        BY <4>1, <4>2
    <3>2. CASE ~IsUp(e, dir)
      <4>1. next = st /\ Q \cup ({e} \cap G) = Q
        BY <2>8, <3>2 DEF Relax
      <4>2. LabelsStay(W, st.dists, st.dists) /\ NoHigher(st.dists, st.dists)
        BY LabelTypes DEF LabelsStay, NoHigher
      <4> HIDE DEF next
      <4> QED
        BY <2>7, <4>1, <4>2
    <3> QED
      BY <3>1, <3>2
  <2> HIDE DEF next
  <2>13. \A n \in Nodes : next.dists[n] \in Nat /\ st.dists[n] \in Nat /\ dists[dir][n] \in Nat
    BY <2>5, LabelTypes
  <2>10. LabelsStay(W, next.dists, dists[dir]) /\ NoHigher(next.dists, dists[dir])
         /\ Part(next.queue, Opposite(dir)) = other
    BY <2>4, <2>9, <2>13 DEF LabelsStay, NoHigher
  <2>11. Turn(G, dir, a, W, top, next, Rel(k), limit)
    BY <2>2, <2>9 DEF Q
  <2>12. <<k, next>> \in P
    BY <2>1, <2>5, <2>10, <2>11 DEF P
  <2> QED
    BY <2>12 DEF next, e
<1>6. P \in SUBSET (Nat \X CleanStates)
  OBVIOUS
<1>7. Rel(Len(r)) = {e \in G : FromNode(e, dir) \in W}
  BY <1>1
<1> HIDE DEF P, Rel, other
<1>10. KeptByRelaxing(P, top, r)
  BY <1>5 DEF KeptByRelaxing
<1>8. <<Len(r), RelaxAllEdges(top)>> \in P
  BY <1>1, <1>2, <1>4, <1>6, <1>10, RelaxInduction DEF r
<1>9. Len(r) <= Len(r)
  BY <1>1
<1> QED
  BY <1>7, <1>8, <1>9 DEF P, other, Turn, AfterRelaxing

-----------------------------------------------------------------------------
(* Where there is no way from the source to the target, only the nodes     *)
(* with a label matter: a sum may wrap around.                             *)
Found(G, dir, a, n) == \E c \in Nat : AtMost(Ways(G, dir), a, n, c)

Reaches(G, dir, a, ds, queue) ==
  /\ \A n \in Nodes : ds[n] # NO_DIST => Found(G, dir, a, n)
  /\ \A x \in queue : x.direction = dir => Found(G, dir, a, x.node)

(* Relaxing one edge reaches only what has a way from the source.          *)
LEMMA RelaxReaches ==
  ASSUME NEW G, G \in SUBSET CHEdge, NEW dir \in EdgeType, NEW a \in Nodes,
         NEW top \in PQElements, top.direction = dir, Found(G, dir, a, top.node),
         NEW st \in CleanStates, Reaches(G, dir, a, st.dists, st.queue),
         NEW e \in CHEdge, FromNode(e, dir) = top.node, e \in G <=> IsUp(e, dir)
  PROVE  /\ Reaches(G, dir, a, Relax(top, st, e).dists, Relax(top, st, e).queue)
         /\ Part(Relax(top, st, e).queue, Opposite(dir)) = Part(st.queue, Opposite(dir))
<1> DEFINE ds == st.dists
           q == st.queue
           t == OtherNode(e, dir)
           nds == Relax(top, st, e).dists
           nq == Relax(top, st, e).queue
           d == UintAdd(top.dist, e.dist)
<1>1. Reaches(G, dir, a, ds, q) /\ ds \in [Nodes -> Uint] /\ t \in Nodes
  BY QueueTypes DEF CleanStates
<1>2. CASE ~(IsUp(e, dir) /\ Better(d, ds[t]))
  <2>1. Relax(top, st, e) = st
    BY <1>2 DEF Relax
  <2> QED
    BY <1>1, <2>1
<1>3. CASE IsUp(e, dir) /\ Better(d, ds[t])
  <2> DEFINE new == PQElement(t, e.id, dir, d)
  <2>1. /\ Relax(top, st, e).dists = [ds EXCEPT ![t] = d]
        /\ Relax(top, st, e).queue = q \cup {new}
    BY <1>3 DEF Relax
  <2>2. /\ \A n \in Nodes : nds[n] = IF n = t THEN d ELSE ds[n]
        /\ nq = q \cup {new} /\ new.node = t /\ new.direction = dir
    BY <1>1, <2>1 DEF PQElement
  <2>3. Found(G, dir, a, t)
    <3>1. PICK c \in Nat : AtMost(Ways(G, dir), a, top.node, c)
      BY DEF Found
    <3>2. AtMost(Ways(G, dir), a, t, c + e.dist) /\ c + e.dist \in Nat
      <4>1. e \in G /\ e.dist \in Nat
        BY <1>3, QueueTypes
      <4> QED
        BY <3>1, <4>1, WayAndUpEdge
    <3> QED
      BY <3>2 DEF Found
  <2>4. Opposite(dir) # dir
    BY DEF Opposite, EdgeType
  <2> HIDE DEF nds, nq, ds, q, t, new, d
  <2>5. Reaches(G, dir, a, nds, nq)
    BY <1>1, <2>2, <2>3 DEF Reaches
  <2>6. Part(nq, Opposite(dir)) = Part(q, Opposite(dir))
    BY <2>2, <2>4 DEF Part
  <2> QED
    BY <2>5, <2>6 DEF nds, nq, q
<1> QED
  BY <1>2, <1>3

(* So does relaxing all edges of a node.                                   *)
LEMMA RelaxAllReaches ==
  ASSUME VectorsInv, LabelsInv, NEW dir \in EdgeType, NEW G, G = Upward(Edges, dir), NEW a \in Nodes,
         NEW top \in PQElements, top.direction = dir, Found(G, dir, a, top.node),
         Reaches(G, dir, a, dists[dir], pq)
  PROVE  LET R == RelaxAllEdges(top)
         IN  /\ Reaches(G, dir, a, R.dists, R.queue)
             /\ Part(R.queue, Opposite(dir)) = Part(pq, Opposite(dir))
<1> DEFINE r == NodeEdgesRange(top.node, top.direction)
           start == [dists |-> dists[top.direction], reset |-> reset_dists[top.direction],
                     queue |-> pq \ {top}]
           other == Part(pq, Opposite(dir))
           P == {p \in Nat \X CleanStates : /\ Reaches(G, dir, a, p[2].dists, p[2].queue)
                                            /\ Part(p[2].queue, Opposite(dir)) = other}
<1>1. r \in Seq(CHEdge) /\ \A k \in 1..Len(r) : r[k] \in Edges /\ FromNode(r[k], dir) = top.node
  <2>1. top.node \in Nodes /\ r = NodeEdgesRange(top.node, dir)
    BY QueueTypes
  <2>2. NodeEdges(top.node, dir) = {e \in Edges : FromNode(e, dir) = top.node}
    BY DEF NodeEdges, FromNode
  <2> HIDE DEF r
  <2>3. r \in Seq(CHEdge) /\ ConsistsOf(r, NodeEdges(top.node, dir)) /\ DOMAIN r = 1..Len(r)
    BY <2>1, RangeOfNode
  <2> QED
    BY <2>2, <2>3 DEF ConsistsOf
<1>2. start \in CleanStates
  <2>1. /\ dists[dir] \in [Nodes -> Uint] /\ reset_dists[dir] \in SUBSET Nodes /\ pq \in SUBSET PQElements
        /\ \A n \in Nodes : dists[dir][n] # NO_DIST => n \in reset_dists[dir]
    BY DEF LabelsInv, LabelsWillBeReset
  <2> QED
    BY <2>1 DEF CleanStates
<1>3. G \in SUBSET CHEdge
  <2>1. Edges \in SUBSET CHEdge
    BY DEF VectorsInv, Edges
  <2> QED
    BY <2>1 DEF Upward
<1> HIDE DEF r
<1>4. <<0, start>> \in P
  <2>1. Part(pq \ {top}, Opposite(dir)) = other
    BY DEF Part, Opposite, EdgeType
  <2>2. Reaches(G, dir, a, dists[dir], pq \ {top})
    BY DEF Reaches
  <2>3. start.dists = dists[dir] /\ start.queue = pq \ {top}
    OBVIOUS
  <2> HIDE DEF other, start
  <2> QED
    BY <1>2, <2>1, <2>2, <2>3
<1>5. ASSUME NEW k \in 1..Len(r), NEW st \in CleanStates, <<k - 1, st>> \in P
      PROVE  <<k, Relax(top, st, r[k])>> \in P
  <2> DEFINE e == r[k]
             next == Relax(top, st, e)
  <2>1. e \in CHEdge /\ e \in Edges /\ FromNode(e, dir) = top.node /\ k \in Nat
    BY <1>1
  <2>2. Reaches(G, dir, a, st.dists, st.queue) /\ Part(st.queue, Opposite(dir)) = other
    BY <1>5
  <2> HIDE DEF e, other, P, start
  <2>3. next \in CleanStates
    BY <2>1, RelaxClean
  <2>4. e \in G <=> IsUp(e, dir)
    BY <2>1 DEF Upward
  <2>5. /\ Reaches(G, dir, a, next.dists, next.queue)
        /\ Part(next.queue, Opposite(dir)) = Part(st.queue, Opposite(dir))
    BY <1>3, <2>1, <2>2, <2>4, RelaxReaches
  <2> HIDE DEF next
  <2>6. <<k, next>> \in P
    BY <2>1, <2>2, <2>3, <2>5 DEF P
  <2> QED
    BY <2>6 DEF next, e
<1>6. P \in SUBSET (Nat \X CleanStates)
  OBVIOUS
<1> HIDE DEF P, other
<1>7. KeptByRelaxing(P, top, r)
  BY <1>5 DEF KeptByRelaxing
<1>8. <<Len(r), RelaxAllEdges(top)>> \in P
  BY <1>1, <1>2, <1>4, <1>6, <1>7, RelaxInduction DEF r
<1> QED
  BY <1>8 DEF P, other

-----------------------------------------------------------------------------
(* One iteration of the search loop, where the lengths fit.                *)

(* Only the elements of its direction matter to a search.                  *)
LEMMA FrontierOfPart ==
  ASSUME NEW G, NEW dir, NEW a, NEW W, NEW ds, NEW q, NEW nq, NEW R, NEW limit,
         Part(nq, dir) = Part(q, dir), Frontier(G, dir, a, W, ds, q, R, limit)
  PROVE  Frontier(G, dir, a, W, ds, nq, R, limit)
<1>1. \A x : x \in nq /\ x.direction = dir <=> x \in q /\ x.direction = dir
  BY DEF Part
<1>2. \A x \in nq : x.direction = dir =>
        /\ ds[x.node] <= x.dist /\ x.dist # NO_DIST
        /\ Justified(G, dir, a, W, ds, x.node, x.found_by, x.dist)
  BY <1>1 DEF Frontier
<1>3. \A n \in Nodes \ W : ds[n] # NO_DIST =>
        \E x \in nq : x.direction = dir /\ x.node = n /\ x.dist = ds[n]
  BY <1>1 DEF Frontier
<1> QED
  BY <1>2, <1>3 DEF Frontier

(* The node of an up-to-date top is settled: its edges are left to relax.  *)
LEMMA TopSettles ==
  ASSUME NEW G, G \in SUBSET CHEdge, NEW dir \in EdgeType, NEW a \in Nodes, NEW W \in SUBSET Nodes,
         NEW ds \in [Nodes -> Uint], NEW q \in SUBSET PQElements, NEW limit,
         Frontier(G, dir, a, W, ds, q, {e \in G : FromNode(e, dir) \in W}, limit),
         NEW top \in q, top.direction = dir, ds[top.node] = top.dist
  PROVE  Frontier(G, dir, a, W \cup {top.node}, ds, q \ {top},
                  {e \in G : FromNode(e, dir) \in (W \cup {top.node}) \ {top.node}}, limit)
<1> DEFINE V == W \cup {top.node}
           rest == q \ {top}
           old == {e \in G : FromNode(e, dir) \in W}
           new == {e \in G : FromNode(e, dir) \in V \ {top.node}}
<1>1. new \subseteq old /\ W \subseteq V /\ top.node \in V /\ rest \subseteq q /\ \A x \in q : x # top => x \in rest
  OBVIOUS
<1>2. Frontier(G, dir, a, W, ds, q, old, limit)
  OBVIOUS
<1> HIDE DEF V, rest, old, new
<1>3. \A x \in rest : x.direction = dir =>
        /\ ds[x.node] <= x.dist /\ x.dist # NO_DIST
        /\ Justified(G, dir, a, V, ds, x.node, x.found_by, x.dist)
  <2> SUFFICES ASSUME NEW x \in rest, x.direction = dir
               PROVE  /\ ds[x.node] <= x.dist /\ x.dist # NO_DIST
                      /\ Justified(G, dir, a, V, ds, x.node, x.found_by, x.dist)
    OBVIOUS
  <2>1. /\ ds[x.node] <= x.dist /\ x.dist # NO_DIST
        /\ Justified(G, dir, a, W, ds, x.node, x.found_by, x.dist)
    BY <1>1, <1>2 DEF Frontier
  <2>2. Justified(G, dir, a, V, ds, x.node, x.found_by, x.dist)
    BY <1>1, <2>1 DEF Justified
  <2> QED
    BY <2>1, <2>2
<1>4. ASSUME NEW n \in Nodes \ V, ds[n] # NO_DIST
      PROVE  \E x \in rest : x.direction = dir /\ x.node = n /\ x.dist = ds[n]
  <2>1. n \in Nodes \ W
    BY <1>1
  <2>2. PICK x \in q : x.direction = dir /\ x.node = n /\ x.dist = ds[n]
    BY <1>2, <1>4, <2>1 DEF Frontier
  <2>3. x # top
    BY <1>1, <2>2
  <2> QED
    BY <1>1, <2>2, <2>3
<1>5. \A e \in new : ds[OtherNode(e, dir)] <= ds[FromNode(e, dir)] + e.dist
  BY <1>1, <1>2 DEF Frontier
<1>6. /\ ds[a] = 0
      /\ \A n \in Nodes : ds[n] # NO_DIST => AtMost(Ways(G, dir), a, n, ds[n]) /\ ds[n] <= limit
  BY <1>2 DEF Frontier
<1>7. Frontier(G, dir, a, V, ds, rest, new, limit)
  BY <1>3, <1>4, <1>5, <1>6 DEF Frontier
<1> QED
  BY <1>7 DEF V, rest, new

(* An outdated element of the queue is of no use.                          *)
LEMMA OutdatedDropped ==
  ASSUME NEW G, NEW dir, NEW a, NEW W \in SUBSET Nodes, NEW ds, NEW q, NEW R, NEW limit,
         Frontier(G, dir, a, W, ds, q, R, limit), NEW top \in q,
         top.direction = dir => ds[top.node] # top.dist
  PROVE  Frontier(G, dir, a, W, ds, q \ {top}, R, limit)
<1> DEFINE rest == q \ {top}
<1>1. \A x \in rest : x \in q
  OBVIOUS
<1>2. ASSUME NEW n \in Nodes \ W, ds[n] # NO_DIST
      PROVE  \E x \in rest : x.direction = dir /\ x.node = n /\ x.dist = ds[n]
  <2>1. PICK x \in q : x.direction = dir /\ x.node = n /\ x.dist = ds[n]
    BY <1>2 DEF Frontier
  <2>2. x # top
    BY <2>1
  <2> QED
    BY <2>1, <2>2
<1> HIDE DEF rest
<1>3. Frontier(G, dir, a, W, ds, rest, R, limit)
  BY <1>1, <1>2 DEF Frontier
<1> QED
  BY <1>3 DEF rest

(* The labels of settled nodes stay justified when one more is settled.    *)
LEMMA SettlesOneMore ==
  ASSUME NEW G, NEW dir, NEW a, NEW W, NEW ds, NEW fb \in [Nodes -> Uint],
         Settled(G, dir, a, W, ds, fb),
         NEW n \in Nodes, NEW id \in Uint, ds[n] # NO_DIST, Justified(G, dir, a, W, ds, n, id, ds[n]),
         NEW nds, LabelsStay(W \cup {n}, nds, ds), W \in SUBSET Nodes
  PROVE  Settled(G, dir, a, W \cup {n}, nds, [fb EXCEPT ![n] = id])
<1> DEFINE V == W \cup {n}
           nfb == [fb EXCEPT ![n] = id]
<1>1. \A v \in V : nds[v] = ds[v]
  BY DEF LabelsStay
<1>2. \A v \in V : nfb[v] = IF v = n THEN id ELSE fb[v]
  OBVIOUS
<1>3. W \subseteq V /\ \A v \in V : v \in W \/ v = n
  OBVIOUS
<1> HIDE DEF V, nfb
<1>4. ASSUME NEW v \in V
      PROVE  nds[v] # NO_DIST /\ Justified(G, dir, a, V, nds, v, nfb[v], nds[v])
  <2>1. ds[v] # NO_DIST /\ Justified(G, dir, a, W, ds, v, nfb[v], ds[v])
    <3>1. CASE v = n
      BY <1>2, <3>1
    <3>2. CASE v # n
      <4>1. v \in W /\ nfb[v] = fb[v]
        BY <1>2, <1>3, <3>2
      <4> QED
        BY <4>1 DEF Settled
    <3> QED
      BY <3>1, <3>2
  <2>2. Justified(G, dir, a, V, nds, v, nfb[v], nds[v])
    BY <1>1, <1>3, <2>1 DEF Justified
  <2> QED
    BY <1>1, <2>1, <2>2
<1>5. Settled(G, dir, a, V, nds, nfb)
  BY <1>4 DEF Settled
<1> QED
  BY <1>5 DEF V, nfb

-----------------------------------------------------------------------------
(* Where the searches meet.                                                *)

(* What a way backwards is.                                                *)
LEMMA WaysIn ==
  ASSUME NEW G, EdgeSet(G), NEW u, NEW v, NEW d
  PROVE  <<u, v, d>> \in Ways(G, "IN") <=> <<v, u, d>> \in Distances(G)
<1>1. Distances(G) \in SUBSET Triples
  BY DistancesTriangular DEF Triangular
<1>2. \A t \in Distances(G) : t = <<t[1], t[2], t[3]>>
  BY <1>1 DEF Triples
<1>3. Ways(G, "IN") = {<<t[2], t[1], t[3]>> : t \in Distances(G)}
  BY DEF Ways
<1>4. ASSUME <<u, v, d>> \in Ways(G, "IN") PROVE <<v, u, d>> \in Distances(G)
  <2>1. PICK t \in Distances(G) : <<u, v, d>> = <<t[2], t[1], t[3]>>
    BY <1>3, <1>4
  <2> QED
    BY <1>2, <2>1
<1>5. ASSUME <<v, u, d>> \in Distances(G) PROVE <<u, v, d>> \in Ways(G, "IN")
  BY <1>3, <1>5
<1> QED
  BY <1>4, <1>5

(* The searches from s and from t meet in m.                               *)
Meets(E, s, t, m, x, y) ==
  <<s, m, x>> \in Ways(Upward(E, "OUT"), "OUT") /\ <<t, m, y>> \in Ways(Upward(E, "IN"), "IN")

(* The two searches walk the two parts of a finished hierarchy.            *)
LEMMA UpwardParts ==
  ASSUME NEW E, Complete(E)
  PROVE  /\ UpPart(E) = Upward(E, "OUT") /\ DownPart(E) = Upward(E, "IN")
         /\ EdgeSet(UpPart(E)) /\ EdgeSet(DownPart(E))
         /\ Triangular(Distances(UpPart(E))) /\ Triangular(Distances(DownPart(E)))
<1>1. UpPart(E) = Upward(E, "OUT") /\ DownPart(E) = Upward(E, "IN")
  BY DEF UpPart, DownPart, Upward
<1>2. EdgeSet(UpPart(E)) /\ EdgeSet(DownPart(E))
  BY DEF Complete, UpPart, DownPart, EdgeSet
<1> QED
  BY <1>1, <1>2, DistancesTriangular

(* In a complete hierarchy the searches meet on a shortest way.            *)
LEMMA MeetingNode ==
  ASSUME NEW E, Complete(E), NEW s \in Nodes, NEW t \in Nodes, NEW d \in Nat,
         <<s, t, d>> \in Distances(EdgesRead)
  PROVE  \E m \in Nodes : \E x, y \in Nat : Meets(E, s, t, m, x, y) /\ x + y = d
<1> DEFINE A == Distances(UpPart(E))
           B == Distances(DownPart(E))
<1>1. A \in SUBSET Triples /\ B \in SUBSET Triples
  BY UpwardParts DEF Triangular
<1>2. <<s, t, d>> \in Joined(A, B)
  <2>1. <<s, t, d>> \in Shortest(Joined(A, B))
    BY DEF Complete
  <2> QED
    BY <2>1 DEF Shortest
<1> HIDE DEF A, B
<1>3. \A u, w \in Nodes : \A c \in Nat :
        <<u, w, c>> \in Joined(A, B) =>
          \E v \in Nodes : \E a, b \in Nat : <<u, v, a>> \in A /\ <<v, w, b>> \in B /\ c = a + b
  BY <1>1, JoinedProperties
<1>4. PICK m \in Nodes : \E a, b \in Nat : <<s, m, a>> \in A /\ <<m, t, b>> \in B /\ d = a + b
  BY <1>2, <1>3
<1>5. PICK x, y \in Nat : <<s, m, x>> \in A /\ <<m, t, y>> \in B /\ d = x + y
  BY <1>4
<1>6. <<s, m, x>> \in Ways(Upward(E, "OUT"), "OUT")
  BY <1>5, UpwardParts DEF A, Ways
<1>7. <<t, m, y>> \in Ways(Upward(E, "IN"), "IN")
  <2>1. EdgeSet(Upward(E, "IN")) /\ <<m, t, y>> \in Distances(Upward(E, "IN"))
    BY <1>5, UpwardParts DEF B
  <2> QED
    BY <2>1, WaysIn
<1> QED
  BY <1>5, <1>6, <1>7 DEF Meets

(* Wherever they meet is a way.                                            *)
LEMMA MeetingIsWay ==
  ASSUME NEW E, Complete(E), NEW s \in Nodes, NEW t \in Nodes, NEW m \in Nodes, NEW x \in Nat, NEW y \in Nat,
         AtMost(Ways(Upward(E, "OUT"), "OUT"), s, m, x), AtMost(Ways(Upward(E, "IN"), "IN"), t, m, y)
  PROVE  AtMost(Distances(EdgesRead), s, t, x + y)
<1> DEFINE A == Distances(UpPart(E))
           B == Distances(DownPart(E))
<1>1. A \in SUBSET Triples /\ B \in SUBSET Triples
  BY UpwardParts DEF Triangular
<1>2. PICK a \in Nat : <<s, m, a>> \in A /\ a <= x
  BY UpwardParts DEF AtMost, Ways
<1>3. PICK b \in Nat : <<t, m, b>> \in Ways(Upward(E, "IN"), "IN") /\ b <= y
  BY DEF AtMost
<1>4. <<m, t, b>> \in B
  <2>1. EdgeSet(Upward(E, "IN"))
    BY UpwardParts
  <2>2. <<m, t, b>> \in Distances(Upward(E, "IN"))
    BY <1>3, <2>1, WaysIn
  <2> QED
    BY <2>2, UpwardParts
<1> HIDE DEF A, B
<1>5. Joined(A, B) \in SUBSET Triples /\ <<s, t, a + b>> \in Joined(A, B)
  BY <1>1, <1>2, <1>4, JoinedProperties
<1>6. PICK J : J = Joined(A, B)
  OBVIOUS
<1>7. AtMost(Shortest(J), s, t, a + b)
  BY <1>5, <1>6, ShortestProperties
<1>8. PICK c \in Nat : <<s, t, c>> \in Distances(EdgesRead) /\ c <= a + b
  BY <1>6, <1>7 DEF AtMost, Complete, A, B
<1>9. c <= x + y
  BY <1>2, <1>3, <1>8
<1> QED
  BY <1>8, <1>9 DEF AtMost

(* What is not longer than the elements of the queue is settled.           *)
LEMMA SettledByThen ==
  ASSUME NEW G, G \in SUBSET CHEdge, NEW dir \in EdgeType, NEW a \in Nodes, NEW W \in SUBSET Nodes,
         NEW ds \in [Nodes -> Uint], NEW q \in SUBSET PQElements, NEW limit,
         Frontier(G, dir, a, W, ds, q, {e \in G : FromNode(e, dir) \in W}, limit),
         NEW d \in Nat, d < NO_DIST, \A z \in q : d < z.dist,
         NEW n \in Nodes, NEW c \in Nat, c <= d, <<a, n, c>> \in Ways(G, dir)
  PROVE  n \in W /\ ds[n] <= c
<1> DEFINE part == Part(q, dir)
           queue == {<<z.node, z.dist>> : z \in part}
           search == [dists |-> ds, queue |-> queue]
           R == {e \in G : FromNode(e, dir) \in W}
<1>1. /\ Frontier(G, dir, a, W, ds, q, R, limit)
      /\ \A z \in part : z \in q /\ z.direction = dir /\ z \in PQElements /\ z.node \in Nodes /\ z.dist \in Nat
                         /\ z.dist \in Uint
  BY QueueTypes DEF Part, PQElements
<1>2. EdgeSet(G) /\ NO_DIST \in Nat /\ \A v \in Nodes : ds[v] \in Nat
  BY NodesAreUint, SizeAssumption DEF EdgeSet, CHEdge, NO_DIST
<1>3. \A e \in G : FromNode(e, dir) \in W => e \in R
  OBVIOUS
<1> HIDE DEF part, R
<1>4. search \in SearchStates
  BY <1>1 DEF SearchStates
<1>5. search.dists = ds /\ search.queue = queue
  OBVIOUS
<1>6. \A z \in queue : z[2] # NO_DIST /\ ds[z[1]] <= z[2]
  BY <1>1 DEF Frontier
<1>7. \A z \in queue : d + 1 <= z[2]
  <2>1. \A z \in part : d + 1 <= z.dist
    BY <1>1
  <2> QED
    BY <2>1
<1>8. ASSUME NEW v \in Nodes \ W, ds[v] # NO_DIST PROVE <<v, ds[v]>> \in queue
  <2>1. PICK z \in q : z.direction = dir /\ z.node = v /\ z.dist = ds[v]
    BY <1>1, <1>8 DEF Frontier
  <2>2. z \in part
    BY <2>1 DEF part, Part
  <2> QED
    BY <2>1, <2>2
<1> HIDE DEF queue, search
<1>9. \A e \in G :
        LET v == FromNode(e, dir)
        IN  ds[v] # NO_DIST /\ <<v, ds[v]>> \notin queue => ds[OtherNode(e, dir)] <= ds[v] + e.dist
  <2> SUFFICES ASSUME NEW e \in G, ds[FromNode(e, dir)] # NO_DIST,
                      <<FromNode(e, dir), ds[FromNode(e, dir)]>> \notin queue
               PROVE  ds[OtherNode(e, dir)] <= ds[FromNode(e, dir)] + e.dist
    OBVIOUS
  <2>1. FromNode(e, dir) \in Nodes
    BY QueueTypes
  <2>2. FromNode(e, dir) \in W
    BY <1>8, <2>1
  <2> QED
    BY <1>1, <1>3, <2>2 DEF Frontier
<1>10. SearchInv(search, G, dir, a)
  <2>1. ds[a] = 0 /\ \A v \in Nodes : ds[v] # NO_DIST => AtMost(Ways(G, dir), a, v, ds[v])
    BY <1>1 DEF Frontier
  <2> QED
    BY <1>4, <1>5, <1>6, <1>9, <2>1 DEF SearchInv
<1>11. \A z \in search.queue : d + 1 <= z[2]
  BY <1>5, <1>7
<1>12. d + 1 \in Nat /\ d + 1 <= NO_DIST
  BY <1>2
<1>13. search.dists[n] <= c \/ d + 1 <= c
  BY <1>2, <1>10, <1>11, <1>12, LabelsWithinQueue
<1>14. ds[n] <= c
  BY <1>5, <1>13
<1>15. n \in W
  <2> SUFFICES ASSUME n \notin W PROVE FALSE
    OBVIOUS
  <2>1. ds[n] # NO_DIST /\ ds[n] <= d
    BY <1>2, <1>14
  <2>2. <<n, ds[n]>> \in queue
    BY <1>8, <2>1
  <2>3. d + 1 <= <<n, ds[n]>>[2]
    BY <1>7, <2>2
  <2> QED
    BY <1>2, <2>1, <2>3
<1> QED
  BY <1>14, <1>15

-----------------------------------------------------------------------------
(* Both searches together.                                                 *)

SearchTypes(a, ds, fb, q, best) ==
  /\ a \in [EdgeType -> Nodes] /\ ds \in [EdgeType -> [Nodes -> Uint]]
  /\ fb \in [EdgeType -> [Nodes -> Uint]] /\ q \in SUBSET PQElements /\ best \in Uint

OneSearch(E, dir, a, W, ds, fb, q, limit) ==
  /\ Settled(Upward(E, dir), dir, a, W, ds, fb)
  /\ Frontier(Upward(E, dir), dir, a, W, ds, q, {e \in Upward(E, dir) : FromNode(e, dir) \in W}, limit)
  /\ Ordered(W, ds, q)

(* best is the length of the shortest way found, over center; d is the     *)
(* distance.                                                               *)
Met(W, ds, best, center, d) ==
  /\ d <= best
  /\ \A n \in W["OUT"] \cap W["IN"] : best <= ds["OUT"][n] + ds["IN"][n]
  /\ best # NO_DIST => center \in Nodes /\ ds["OUT"][center] + ds["IN"][center] <= best
  /\ best = NO_DIST => center = NO_NID

TwoSearches(E, a, W, ds, fb, q, best, center, d, limit) ==
  /\ W \in [EdgeType -> SUBSET Nodes]
  /\ \A dir \in EdgeType : OneSearch(E, dir, a[dir], W[dir], ds[dir], fb[dir], q, limit)
  /\ Met(W, ds, best, center, d)

(* No length is more than bound, and three of them do not wrap around.     *)
LengthsBound(E, bound) ==
  /\ bound \in Nat /\ 3 * bound < NO_DIST
  /\ \A e \in E : e.dist <= bound
  /\ \A u, v \in Nodes : \A d \in Nat : <<u, v, d>> \in Distances(EdgesRead) => d <= bound

(* No sum of up to three lengths wraps around.                             *)
LEMMA BoundIsSmall ==
  ASSUME NEW E, NEW bound, LengthsBound(E, bound)
  PROVE  /\ bound \in Nat /\ bound + bound \in Nat /\ bound + bound < NO_DIST /\ bound < NO_DIST
         /\ bound + bound + bound < NO_DIST /\ NO_DIST \in Nat
<1>1. bound \in Nat /\ 3 * bound < NO_DIST /\ NO_DIST \in Nat
  BY SizeAssumption DEF LengthsBound, NO_DIST
<1>2. 3 * bound = bound + bound + bound
  BY <1>1
<1> QED
  BY <1>1, <1>2

(* A node within what is left in the queue is settled.                     *)
LEMMA WithinIsSettled ==
  ASSUME NEW E, E \in SUBSET CHEdge, NEW dir \in EdgeType, NEW a \in Nodes, NEW W \in SUBSET Nodes,
         NEW ds \in [Nodes -> Uint], NEW fb, NEW q \in SUBSET PQElements, NEW limit,
         OneSearch(E, dir, a, W, ds, fb, q, limit),
         NEW d \in Nat, d < NO_DIST, \A z \in q : d < z.dist,
         NEW n \in Nodes, NEW c \in Nat, c <= d, <<a, n, c>> \in Ways(Upward(E, dir), dir)
  PROVE  n \in W /\ ds[n] <= c
<1>1. PICK G : G = Upward(E, dir)
  OBVIOUS
<1>2. G \in SUBSET CHEdge
  BY <1>1 DEF Upward
<1>3. Frontier(G, dir, a, W, ds, q, {e \in G : FromNode(e, dir) \in W}, limit) /\ <<a, n, c>> \in Ways(G, dir)
  BY <1>1 DEF OneSearch
<1> QED
  BY <1>2, <1>3, SettledByThen

(* Once the queue holds nothing up to the distance, it is found.           *)
LEMMA DistanceIsFound ==
  ASSUME NEW E, E \in SUBSET CHEdge, Complete(E), NEW a, NEW W, NEW ds, NEW fb, NEW q, NEW best, NEW center,
         NEW limit, SearchTypes(a, ds, fb, q, best), NEW d \in Nat, d < NO_DIST,
         <<a["OUT"], a["IN"], d>> \in Distances(EdgesRead),
         TwoSearches(E, a, W, ds, fb, q, best, center, d, limit),
         \A z \in q : d < z.dist
  PROVE  best = d
<1>1. /\ a["OUT"] \in Nodes /\ a["IN"] \in Nodes /\ ds["OUT"] \in [Nodes -> Uint] /\ ds["IN"] \in [Nodes -> Uint]
      /\ "OUT" \in EdgeType /\ "IN" \in EdgeType /\ q \in SUBSET PQElements /\ best \in Nat
  BY NodesAreUint DEF SearchTypes, EdgeType
<1>2. PICK m \in Nodes : \E x, y \in Nat : Meets(E, a["OUT"], a["IN"], m, x, y) /\ x + y = d
  BY <1>1, MeetingNode
<1>3. PICK x, y \in Nat : Meets(E, a["OUT"], a["IN"], m, x, y) /\ x + y = d
  BY <1>2
<1>5. /\ W["OUT"] \in SUBSET Nodes /\ W["IN"] \in SUBSET Nodes
      /\ OneSearch(E, "OUT", a["OUT"], W["OUT"], ds["OUT"], fb["OUT"], q, limit)
      /\ OneSearch(E, "IN", a["IN"], W["IN"], ds["IN"], fb["IN"], q, limit)
      /\ Met(W, ds, best, center, d)
  BY <1>1 DEF TwoSearches
<1>4. ASSUME NEW dir \in EdgeType, NEW c \in Nat, c <= d, <<a[dir], m, c>> \in Ways(Upward(E, dir), dir)
      PROVE  m \in W[dir] /\ ds[dir][m] <= c
  <2>1. a[dir] \in Nodes /\ ds[dir] \in [Nodes -> Uint] /\ W[dir] \in SUBSET Nodes
    BY DEF SearchTypes, TwoSearches
  <2>2. PICK b \in Nodes, V \in SUBSET Nodes, es \in [Nodes -> Uint] :
          b = a[dir] /\ V = W[dir] /\ es = ds[dir]
    BY <2>1
  <2>3. OneSearch(E, dir, b, V, es, fb[dir], q, limit)
    BY <2>2 DEF TwoSearches
  <2>4. q \in SUBSET PQElements /\ (\A z \in q : d < z.dist) /\ d < NO_DIST
    BY <1>1
  <2>5. <<b, m, c>> \in Ways(Upward(E, dir), dir) /\ c <= d
    BY <1>4, <2>2
  <2>6. m \in V /\ es[m] <= c
    BY <2>3, <2>4, <2>5, WithinIsSettled
  <2> QED
    BY <2>2, <2>6
<1>6. m \in W["OUT"] /\ ds["OUT"][m] <= x
  <2>1. <<a["OUT"], m, x>> \in Ways(Upward(E, "OUT"), "OUT") /\ x <= d
    BY <1>3 DEF Meets
  <2> QED
    BY <1>1, <1>4, <2>1
<1>7. m \in W["IN"] /\ ds["IN"][m] <= y
  <2>1. <<a["IN"], m, y>> \in Ways(Upward(E, "IN"), "IN") /\ y <= d
    BY <1>3 DEF Meets
  <2> QED
    BY <1>1, <1>4, <2>1
<1>8. best <= ds["OUT"][m] + ds["IN"][m] /\ d <= best
  BY <1>5, <1>6, <1>7 DEF Met
<1>9. ds["OUT"][m] \in Nat /\ ds["IN"][m] \in Nat
  BY <1>1, NodesAreUint
<1> QED
  BY <1>1, <1>3, <1>6, <1>7, <1>8, <1>9

(* So the search goes on only up to the distance.                          *)
LEMMA TopWithinDistance ==
  ASSUME NEW E, E \in SUBSET CHEdge, Complete(E), NEW a, NEW W, NEW ds, NEW fb, NEW q, NEW best, NEW center,
         NEW limit, SearchTypes(a, ds, fb, q, best), NEW d \in Nat, d < NO_DIST,
         <<a["OUT"], a["IN"], d>> \in Distances(EdgesRead),
         TwoSearches(E, a, W, ds, fb, q, best, center, d, limit),
         NEW top \in q, \A z \in q : top.dist <= z.dist, top.dist <= best
  PROVE  top.dist <= d
<1>1. q \in SUBSET PQElements /\ top.dist \in Nat /\ \A z \in q : z.dist \in Nat
  BY QueueTypes DEF SearchTypes
<1> SUFFICES ASSUME ~(top.dist <= d) PROVE FALSE
  OBVIOUS
<1>2. \A z \in q : d < z.dist
  BY <1>1
<1>3. best = d
  BY <1>2, DistanceIsFound
<1> QED
  BY <1>1, <1>3

(* An outdated element is dropped.                                         *)
LEMMA OutdatedKeepsSearches ==
  ASSUME NEW E, NEW a, NEW W, NEW ds, NEW fb, NEW q, NEW best, NEW center, NEW d, NEW limit,
         TwoSearches(E, a, W, ds, fb, q, best, center, d, limit),
         NEW top \in q, ds[top.direction][top.node] # top.dist
  PROVE  TwoSearches(E, a, W, ds, fb, q \ {top}, best, center, d, limit)
<1>1. ASSUME NEW dir \in EdgeType
      PROVE  OneSearch(E, dir, a[dir], W[dir], ds[dir], fb[dir], q \ {top}, limit)
  <2>1. OneSearch(E, dir, a[dir], W[dir], ds[dir], fb[dir], q, limit) /\ W[dir] \in SUBSET Nodes
    BY DEF TwoSearches
  <2>2. PICK V \in SUBSET Nodes : V = W[dir]
    BY <2>1
  <2>3. PICK es : es = ds[dir]
    OBVIOUS
  <2>4. PICK G : G = Upward(E, dir)
    OBVIOUS
  <2>5. PICK R : R = {e \in G : FromNode(e, dir) \in V}
    OBVIOUS
  <2>6. Frontier(G, dir, a[dir], V, es, q, R, limit)
    BY <2>1, <2>2, <2>3, <2>4, <2>5 DEF OneSearch
  <2>7. top.direction = dir => es[top.node] # top.dist
    BY <2>3
  <2>8. Frontier(G, dir, a[dir], V, es, q \ {top}, R, limit)
    BY <2>6, <2>7, OutdatedDropped
  <2>9. Ordered(V, es, q \ {top})
    BY <2>1, <2>2, <2>3 DEF OneSearch, Ordered
  <2> QED
    BY <2>1, <2>2, <2>3, <2>4, <2>5, <2>8, <2>9 DEF OneSearch
<1> QED
  BY <1>1 DEF TwoSearches

(* The node of top is settled next, in its direction; and a shorter way    *)
(* over it is noted.                                                       *)
OneMore(W, top, dir, V, ds, nds) ==
  /\ V[dir] = W[dir] \cup {top.node} /\ V[Opposite(dir)] = W[Opposite(dir)]
  /\ nds[dir] \in [Nodes -> Uint] /\ nds[Opposite(dir)] = ds[Opposite(dir)]
  /\ NoHigher(nds[dir], ds[dir]) /\ LabelsStay(V[dir], nds[dir], ds[dir])

Improved(top, dir, ds, best, center, nbest, ncenter) ==
  IF ds[Opposite(dir)][top.node] # NO_DIST /\ UintAdd(top.dist, ds[Opposite(dir)][top.node]) < best
  THEN nbest = UintAdd(top.dist, ds[Opposite(dir)][top.node]) /\ ncenter = top.node
  ELSE nbest = best /\ ncenter = center

NextTop(top, dir, ds, q, d) ==
  /\ top \in q /\ dir \in EdgeType /\ dir = top.direction /\ top.dist <= d
  /\ ds[dir][top.node] = top.dist /\ \A z \in q : top.dist <= z.dist

(* What the searches found so far after top was settled.                   *)
LEMMA SettlingMeets ==
  ASSUME NEW E, E \in SUBSET CHEdge, Complete(E), NEW a, NEW W, NEW ds, NEW fb, NEW q, NEW best, NEW center,
         SearchTypes(a, ds, fb, q, best), NEW bound, LengthsBound(E, bound), NEW d \in Nat,
         <<a["OUT"], a["IN"], d>> \in Distances(EdgesRead),
         TwoSearches(E, a, W, ds, fb, q, best, center, d, bound + bound),
         NEW top, NEW dir, NextTop(top, dir, ds, q, d), NEW V, NEW nds, OneMore(W, top, dir, V, ds, nds),
         NEW nbest, NEW ncenter, Improved(top, dir, ds, best, center, nbest, ncenter)
  PROVE  Met(V, nds, nbest, ncenter, d)
<1>0. /\ top \in q /\ dir \in EdgeType /\ dir = top.direction /\ top.dist <= d /\ ds[dir][top.node] = top.dist
      /\ V[dir] = W[dir] \cup {top.node} /\ V[Opposite(dir)] = W[Opposite(dir)]
      /\ nds[dir] \in [Nodes -> Uint] /\ nds[Opposite(dir)] = ds[Opposite(dir)]
      /\ NoHigher(nds[dir], ds[dir]) /\ LabelsStay(V[dir], nds[dir], ds[dir])
      /\ IF ds[Opposite(dir)][top.node] # NO_DIST /\ UintAdd(top.dist, ds[Opposite(dir)][top.node]) < best
         THEN nbest = UintAdd(top.dist, ds[Opposite(dir)][top.node]) /\ ncenter = top.node
         ELSE nbest = best /\ ncenter = center
  BY DEF NextTop, OneMore, Improved
<1> USE <1>0
<1> DEFINE o == Opposite(dir)
           rest == ds[o][top.node]
           dist == UintAdd(top.dist, rest)
<1>1. /\ o \in EdgeType /\ top.node \in Nodes /\ top.dist \in Nat /\ best \in Nat /\ best <= NO_DIST
      /\ \A n \in Nodes : ds[dir][n] \in Nat /\ ds[o][n] \in Nat /\ nds[dir][n] \in Nat
      /\ a[dir] \in Nodes /\ a[o] \in Nodes /\ W[dir] \in SUBSET Nodes /\ W[o] \in SUBSET Nodes
  <2>1. o \in EdgeType
    BY DEF Opposite, EdgeType
  <2>2. /\ ds[dir] \in [Nodes -> Uint] /\ ds[o] \in [Nodes -> Uint] /\ nds[dir] \in [Nodes -> Uint]
        /\ a[dir] \in Nodes /\ a[o] \in Nodes /\ W[dir] \in SUBSET Nodes /\ W[o] \in SUBSET Nodes
    BY <2>1 DEF SearchTypes, TwoSearches
  <2>3. top.node \in Nodes /\ top.dist \in Nat
    BY QueueTypes DEF SearchTypes
  <2>4. best \in Nat /\ best <= NO_DIST
    BY SizeAssumption DEF SearchTypes, Uint, NO_DIST
  <2> QED
    BY <2>1, <2>2, <2>3, <2>4, NodesAreUint
<1>2. \A f, n : f["OUT"][n] \in Nat /\ f["IN"][n] \in Nat => f["OUT"][n] + f["IN"][n] = f[dir][n] + f[o][n]
  BY DEF EdgeType, Opposite
<1>3. \A S : S["OUT"] \cap S["IN"] = S[dir] \cap S[o]
  BY DEF EdgeType, Opposite
<1>4. Met(W, ds, best, center, d) /\ d <= bound
  <2>1. a["OUT"] \in Nodes /\ a["IN"] \in Nodes
    BY DEF SearchTypes, EdgeType
  <2> QED
    BY <2>1 DEF TwoSearches, LengthsBound
<1>5. /\ OneSearch(E, dir, a[dir], W[dir], ds[dir], fb[dir], q, bound + bound)
      /\ OneSearch(E, o, a[o], W[o], ds[o], fb[o], q, bound + bound)
  BY <1>1 DEF TwoSearches
<1>6. bound \in Nat /\ bound + bound \in Nat /\ bound + bound + bound < NO_DIST /\ bound < NO_DIST /\ NO_DIST \in Nat
  BY BoundIsSmall
<1>7. top.dist <= bound /\ top.dist # NO_DIST
  BY <1>1, <1>4, <1>6
<1>8. ASSUME rest # NO_DIST
      PROVE  dist = top.dist + rest /\ d <= dist
  <2>1. rest <= bound + bound /\ AtMost(Ways(Upward(E, o), o), a[o], top.node, rest)
    BY <1>1, <1>5, <1>8 DEF OneSearch, Frontier
  <2>2. AtMost(Ways(Upward(E, dir), dir), a[dir], top.node, top.dist)
    <3>1. ds[dir][top.node] # NO_DIST
      BY <1>7
    <3> QED
      BY <1>1, <1>5, <3>1 DEF OneSearch, Frontier
  <2>3. rest \in Nat
    BY <1>1
  <2> HIDE DEF rest
  <2>4. top.dist + rest < NO_DIST
    BY <1>1, <1>6, <1>7, <2>1, <2>3
  <2>5. dist = top.dist + rest
    BY <1>1, <2>3, <2>4, UintAddExact
  <2>6. AtMost(Distances(EdgesRead), a["OUT"], a["IN"], top.dist + rest)
    <3>1. CASE dir = "OUT"
      <4>1. o = "IN"
        BY <3>1 DEF Opposite
      <4> QED
        BY <1>1, <2>1, <2>2, <2>3, <3>1, <4>1, MeetingIsWay
    <3>2. CASE dir = "IN"
      <4>1. o = "OUT"
        BY <3>2 DEF Opposite
      <4>2. AtMost(Distances(EdgesRead), a["OUT"], a["IN"], rest + top.dist)
        BY <1>1, <2>1, <2>2, <2>3, <3>2, <4>1, MeetingIsWay
      <4> QED
        BY <1>1, <2>3, <4>2
    <3> QED
      BY <3>1, <3>2 DEF EdgeType
  <2>7. PICK c \in Nat : <<a["OUT"], a["IN"], c>> \in Distances(EdgesRead) /\ c <= top.dist + rest
    BY <2>6 DEF AtMost
  <2>8. c = d
    <3>1. Triangular(Distances(EdgesRead))
      <4>1. Distances(EdgesRead) = Distances(E) /\ EdgeSet(E)
        BY DEF Complete
      <4> QED
        BY <4>1, DistancesTriangular
    <3>2. a["OUT"] \in Nodes /\ a["IN"] \in Nodes
      BY DEF SearchTypes, EdgeType
    <3> QED
      BY <2>7, <3>1, <3>2 DEF Triangular, OneDistance
  <2> QED
    BY <2>5, <2>7, <2>8
<1>9. CASE rest # NO_DIST /\ dist < best
  <2>1. nbest = dist /\ ncenter = top.node /\ dist = top.dist + rest /\ d <= dist
    BY <1>8, <1>9
  <2>2. nbest \in Nat /\ nbest < best /\ nbest # NO_DIST
    BY <1>1, <1>9, <2>1
  <2>3. ASSUME NEW n \in V["OUT"] \cap V["IN"] PROVE nbest <= nds["OUT"][n] + nds["IN"][n]
    <3>1. n \in V[dir] /\ n \in W[o] /\ n \in Nodes
      BY <1>1, <1>3, <2>3
    <3>2. nds[dir][n] = ds[dir][n] /\ nds[o][n] = ds[o][n]
      BY <3>1 DEF LabelsStay
    <3>3. nds["OUT"][n] + nds["IN"][n] = ds[dir][n] + ds[o][n]
      <4>1. nds[dir][n] \in Nat /\ nds[o][n] \in Nat
        BY <1>1, <3>1, <3>2
      <4>2. nds["OUT"][n] \in Nat /\ nds["IN"][n] \in Nat
        BY <4>1 DEF EdgeType, Opposite
      <4> QED
        BY <1>2, <3>2, <4>2
    <3>4. CASE n = top.node
      BY <1>1, <2>1, <3>3, <3>4
    <3>5. CASE n \in W[dir]
      <4>1. ds["OUT"][n] \in Nat /\ ds["IN"][n] \in Nat
        BY <1>1, <3>1 DEF EdgeType, Opposite
      <4>2. best <= ds["OUT"][n] + ds["IN"][n]
        BY <1>3, <1>4, <3>1, <3>5 DEF Met
      <4>3. best <= ds[dir][n] + ds[o][n]
        BY <1>2, <4>1, <4>2
      <4> QED
        BY <1>1, <2>2, <3>1, <3>3, <4>3
    <3> QED
      BY <3>1, <3>4, <3>5
  <2>4. nds["OUT"][ncenter] + nds["IN"][ncenter] <= nbest
    <3>1. nds[dir][top.node] = ds[dir][top.node] /\ nds[o][top.node] = ds[o][top.node]
      BY DEF LabelsStay
    <3>2. nds["OUT"][top.node] \in Nat /\ nds["IN"][top.node] \in Nat
      BY <1>1, <3>1 DEF EdgeType, Opposite
    <3>3. nds["OUT"][top.node] + nds["IN"][top.node] = nds[dir][top.node] + nds[o][top.node]
      BY <1>2, <3>2
    <3> QED
      BY <1>1, <2>1, <3>1, <3>3
  <2> QED
    BY <1>1, <2>1, <2>2, <2>3, <2>4 DEF Met
<1>10. CASE ~(rest # NO_DIST /\ dist < best)
  <2>1. nbest = best /\ ncenter = center /\ d <= best
    BY <1>4, <1>10 DEF Met
  <2>2. ASSUME NEW n \in V["OUT"] \cap V["IN"] PROVE nbest <= nds["OUT"][n] + nds["IN"][n]
    <3>1. n \in V[dir] /\ n \in W[o] /\ n \in Nodes
      BY <1>1, <1>3, <2>2
    <3>2. nds[dir][n] = ds[dir][n] /\ nds[o][n] = ds[o][n]
      BY <3>1 DEF LabelsStay
    <3>3. nds["OUT"][n] + nds["IN"][n] = ds[dir][n] + ds[o][n]
      <4>1. nds["OUT"][n] \in Nat /\ nds["IN"][n] \in Nat
        BY <1>1, <3>1, <3>2 DEF EdgeType, Opposite
      <4> QED
        BY <1>2, <3>2, <4>1
    <3>4. CASE n = top.node
      <4>1. rest # NO_DIST
        BY <1>5, <3>1, <3>4 DEF OneSearch, Settled
      <4>2. dist = top.dist + rest
        BY <1>8, <4>1
      <4>3. ~(dist < best)
        BY <1>10, <4>1
      <4>4. rest \in Nat
        BY <1>1
      <4>5. best <= dist
        BY <1>1, <4>2, <4>3, <4>4
      <4> QED
        BY <2>1, <3>3, <3>4, <4>2, <4>5
    <3>5. CASE n \in W[dir]
      <4>1. ds["OUT"][n] \in Nat /\ ds["IN"][n] \in Nat
        BY <1>1, <3>1 DEF EdgeType, Opposite
      <4>2. best <= ds["OUT"][n] + ds["IN"][n]
        BY <1>3, <1>4, <3>1, <3>5 DEF Met
      <4> QED
        BY <1>2, <2>1, <3>3, <4>1, <4>2
    <3> QED
      BY <3>1, <3>4, <3>5
  <2>3. ASSUME nbest # NO_DIST
        PROVE  ncenter \in Nodes /\ nds["OUT"][ncenter] + nds["IN"][ncenter] <= nbest
    <3>1. center \in Nodes /\ ds["OUT"][center] + ds["IN"][center] <= best
      BY <1>4, <2>1, <2>3 DEF Met
    <3>2. nds[dir][center] <= ds[dir][center] /\ nds[o][center] = ds[o][center]
      BY <3>1 DEF NoHigher
    <3>3. /\ ds["OUT"][center] \in Nat /\ ds["IN"][center] \in Nat
          /\ nds["OUT"][center] \in Nat /\ nds["IN"][center] \in Nat
      BY <1>1, <3>1, <3>2 DEF EdgeType, Opposite
    <3>4. /\ ds["OUT"][center] + ds["IN"][center] = ds[dir][center] + ds[o][center]
          /\ nds["OUT"][center] + nds["IN"][center] = nds[dir][center] + nds[o][center]
      BY <1>2, <3>3
    <3>5. ds[dir][center] \in Nat /\ ds[o][center] \in Nat /\ nds[dir][center] \in Nat
      BY <1>1, <3>1
    <3> QED
      BY <1>1, <2>1, <3>1, <3>2, <3>4, <3>5
  <2>4. nbest = NO_DIST => ncenter = NO_NID
    BY <1>4, <2>1 DEF Met
  <2> QED
    BY <2>1, <2>2, <2>3, <2>4 DEF Met
<1> QED
  BY <1>9, <1>10

(* What relaxing the edges of a node leads to.                             *)
LEMMA CleanAfterRelaxing ==
  ASSUME VectorsInv, LabelsInv, NEW top \in PQElements
  PROVE  RelaxAllEdges(top) \in CleanStates
<1> DEFINE r == NodeEdgesRange(top.node, top.direction)
           start == [dists |-> dists[top.direction], reset |-> reset_dists[top.direction],
                     queue |-> pq \ {top}]
<1>1. r \in Seq(CHEdge) /\ top.direction \in EdgeType
  BY QueueTypes, RangeOfNode
<1>2. start \in CleanStates
  <2>1. PICK dir \in EdgeType : dir = top.direction
    BY <1>1
  <2>2. /\ dists[dir] \in [Nodes -> Uint] /\ reset_dists[dir] \in SUBSET Nodes /\ pq \in SUBSET PQElements
        /\ \A n \in Nodes : dists[dir][n] # NO_DIST => n \in reset_dists[dir]
    BY DEF LabelsInv, LabelsWillBeReset
  <2> QED
    BY <2>1, <2>2 DEF CleanStates
<1> HIDE DEF r, start
<1> QED
  BY <1>1, <1>2, RelaxAllClean DEF r, start

(* A query is searching: the lengths fit, and there is a way, of length d. *)
QueryInv ==
  /\ VectorsInv /\ LabelsInv /\ Complete(Edges)
  /\ SearchTypes(ends, dists, found_by, pq, shortest_dist)

WayToFind(bound, d) ==
  /\ LengthsBound(Edges, bound) /\ d \in Nat
  /\ <<ends["OUT"], ends["IN"], d>> \in Distances(EdgesRead)

BothSearch(E, a, V, ds, fb, q, limit) ==
  /\ V \in [EdgeType -> SUBSET Nodes]
  /\ \A dir \in EdgeType : OneSearch(E, dir, a[dir], V[dir], ds[dir], fb[dir], q, limit)

(* An iteration that settles a node.                                       *)
LEMMA SettlingKeepsSearches ==
  ASSUME QueryInv, NEW bound, NEW d, WayToFind(bound, d), NEW W,
         TwoSearches(Edges, ends, W, dists, found_by, pq, shortest_dist, center_node, d, bound + bound),
         NEW top, NEW dir, NextTop(top, dir, dists, pq, d),
         NEW V, V = [W EXCEPT ![dir] = W[dir] \cup {top.node}],
         NEW R, R = RelaxAllEdges(top), NEW nds, nds = [dists EXCEPT ![dir] = R.dists],
         NEW nfb, nfb = [found_by EXCEPT ![dir][top.node] = top.found_by]
  PROVE  /\ BothSearch(Edges, ends, V, nds, nfb, R.queue, bound + bound)
         /\ OneMore(W, top, dir, V, dists, nds)
<1>0. /\ VectorsInv /\ LabelsInv /\ Complete(Edges) /\ SearchTypes(ends, dists, found_by, pq, shortest_dist)
      /\ LengthsBound(Edges, bound) /\ d \in Nat /\ <<ends["OUT"], ends["IN"], d>> \in Distances(EdgesRead)
      /\ top \in pq /\ (\A z \in pq : top.dist <= z.dist) /\ top.dist <= d
      /\ dir \in EdgeType /\ dir = top.direction /\ dists[dir][top.node] = top.dist
  BY DEF QueryInv, WayToFind, NextTop
<1> USE <1>0
<1> DEFINE o == Opposite(dir)
           limit == bound + bound
<1>1. /\ o \in EdgeType /\ o # dir /\ \A type \in EdgeType : type = dir \/ type = o
      /\ W \in [EdgeType -> SUBSET Nodes] /\ W[dir] \in SUBSET Nodes /\ W[o] \in SUBSET Nodes
      /\ dists \in [EdgeType -> [Nodes -> Uint]] /\ found_by \in [EdgeType -> [Nodes -> Uint]]
      /\ ends[dir] \in Nodes /\ ends[o] \in Nodes /\ pq \in SUBSET PQElements
  <2>1. o \in EdgeType /\ o # dir /\ \A type \in EdgeType : type = dir \/ type = o
    BY DEF EdgeType, Opposite
  <2> QED
    BY <2>1 DEF SearchTypes, TwoSearches
<1>2. /\ bound \in Nat /\ limit \in Nat /\ limit < NO_DIST /\ bound < NO_DIST /\ NO_DIST \in Nat
      /\ d <= bound /\ \A e \in Edges : e.dist <= bound
  <2>1. ends["OUT"] \in Nodes /\ ends["IN"] \in Nodes
    BY DEF SearchTypes, EdgeType
  <2> QED
    BY <2>1, BoundIsSmall DEF LengthsBound
<1>3. top \in PQElements /\ top.node \in Nodes /\ top.dist \in Nat /\ top.found_by \in Uint /\ top.dist <= bound
      /\ top.dist # NO_DIST
  <2>1. top \in PQElements /\ top.node \in Nodes /\ top.dist \in Nat /\ top.found_by \in Uint
    BY <1>1, QueueTypes
  <2> QED
    BY <1>2, <2>1
<1>4. V \in [EdgeType -> SUBSET Nodes] /\ V[dir] = W[dir] \cup {top.node} /\ V[o] = W[o] /\ V[dir] \in SUBSET Nodes
  BY <1>1, <1>3
<1>5. OneSearch(Edges, dir, ends[dir], W[dir], dists[dir], found_by[dir], pq, limit)
      /\ OneSearch(Edges, o, ends[o], W[o], dists[o], found_by[o], pq, limit)
  BY <1>1 DEF TwoSearches
<1>6. PICK G : G = Upward(Edges, dir)
  OBVIOUS
<1>7. G \in SUBSET CHEdge /\ \A e \in G : top.dist + e.dist <= limit
  <2>1. Edges \in SUBSET CHEdge
    BY DEF VectorsInv, Edges
  <2>2. G \in SUBSET Edges
    BY <1>6 DEF Upward
  <2>3. \A e \in G : e.dist \in Nat /\ e.dist <= bound
    BY <1>2, <2>1, <2>2, QueueTypes
  <2> QED
    BY <1>2, <1>3, <2>1, <2>2, <2>3
<1>8. PICK X \in SUBSET Nodes : X = V[dir]
  BY <1>4
<1>9. PICK es \in [Nodes -> Uint] : es = dists[dir]
  BY <1>1
<1>10. PICK Y \in SUBSET Nodes : Y = W[dir]
  BY <1>1
<1>11. X = Y \cup {top.node} /\ top.node \in X
  BY <1>4, <1>8, <1>10
<1>12. PICK s \in Nodes : s = ends[dir]
  BY <1>1
<1>13. /\ Settled(G, dir, s, Y, es, found_by[dir])
       /\ Frontier(G, dir, s, Y, es, pq, {e \in G : FromNode(e, dir) \in Y}, limit)
       /\ Ordered(Y, es, pq)
  BY <1>5, <1>6, <1>9, <1>10, <1>12 DEF OneSearch
<1> HIDE DEF limit
<1>14. Frontier(G, dir, s, X, es, pq \ {top}, {e \in G : FromNode(e, dir) \in X \ {top.node}}, limit)
  <2>1. es[top.node] = top.dist /\ top.direction = dir
    BY <1>9
  <2>2. Frontier(G, dir, s, Y \cup {top.node}, es, pq \ {top},
                 {e \in G : FromNode(e, dir) \in (Y \cup {top.node}) \ {top.node}}, limit)
    BY <1>1, <1>7, <1>13, <2>1, TopSettles
  <2> QED
    BY <1>11, <2>2
<1>15. \A n \in X : es[n] <= top.dist
  BY <1>3, <1>9, <1>11, <1>13 DEF Ordered
<1>16. /\ Frontier(G, dir, s, X, R.dists, R.queue, {e \in G : FromNode(e, dir) \in X}, limit)
       /\ LabelsStay(X, R.dists, es) /\ NoHigher(R.dists, es)
       /\ Part(R.queue, o) = Part(pq, o)
       /\ \A x \in R.queue : top.dist <= x.dist
  <2>1. dists[dir][top.node] = top.dist /\ \A n \in X : dists[dir][n] <= top.dist
    BY <1>9, <1>15
  <2>2. Frontier(G, dir, s, X, dists[dir], pq \ {top}, {e \in G : FromNode(e, dir) \in X \ {top.node}}, limit)
    BY <1>9, <1>14
  <2>3. TurnStarts(G, dir, s, X, top, limit)
    BY <1>2, <1>3, <1>7, <1>11 DEF TurnStarts
  <2>4. BeforeRelaxing(G, dir, s, X, top, limit)
    BY <1>6, <1>7, <2>1, <2>2, <2>3 DEF BeforeRelaxing
  <2>5. AfterRelaxing(G, dir, s, X, top, R, limit)
    BY <2>4, RelaxAllKeeps
  <2> QED
    BY <1>9, <2>5 DEF AfterRelaxing
<1>17. R.dists \in [Nodes -> Uint] /\ \A x \in R.queue : x.dist \in Nat
  <2>1. R \in CleanStates
    BY <1>3, CleanAfterRelaxing
  <2> QED
    BY <2>1, QueueTypes DEF CleanStates
<1>18. nds[dir] = R.dists /\ nds[o] = dists[o]
  BY <1>1
<1>19. nfb[dir] = [found_by[dir] EXCEPT ![top.node] = top.found_by] /\ nfb[o] = found_by[o]
  BY <1>1
<1>20. OneSearch(Edges, dir, ends[dir], V[dir], nds[dir], nfb[dir], R.queue, limit)
  <2>1. Ordered(X, R.dists, R.queue)
    <3> SUFFICES ASSUME NEW n \in X, NEW x \in R.queue PROVE R.dists[n] <= x.dist
      BY DEF Ordered
    <3>1. R.dists[n] = es[n] /\ es[n] <= top.dist /\ top.dist <= x.dist /\ es[n] \in Nat
      BY <1>9, <1>15, <1>16, NodesAreUint DEF LabelsStay
    <3>2. x.dist \in Nat
      BY <1>17
    <3> QED
      BY <1>3, <3>1, <3>2
  <2>2. Settled(G, dir, s, X, R.dists, nfb[dir])
    <3>1. PICK fb \in [Nodes -> Uint] : fb = found_by[dir]
      BY <1>1
    <3>2. es[top.node] = top.dist /\ Justified(G, dir, s, Y, es, top.node, top.found_by, top.dist)
      BY <1>9, <1>13 DEF Frontier
    <3>3. Settled(G, dir, s, Y, es, fb) /\ LabelsStay(Y \cup {top.node}, R.dists, es)
          /\ es[top.node] # NO_DIST /\ Justified(G, dir, s, Y, es, top.node, top.found_by, es[top.node])
      BY <1>3, <1>11, <1>13, <1>16, <3>1, <3>2
    <3>4. Settled(G, dir, s, Y \cup {top.node}, R.dists, [fb EXCEPT ![top.node] = top.found_by])
      BY <1>3, <3>3, SettlesOneMore
    <3> QED
      BY <1>11, <1>19, <3>1, <3>4
  <2> QED
    BY <1>6, <1>8, <1>12, <1>16, <1>18, <2>1, <2>2 DEF OneSearch
<1>21. OneSearch(Edges, o, ends[o], V[o], nds[o], nfb[o], R.queue, limit)
  <2>1. PICK H : H = Upward(Edges, o)
    OBVIOUS
  <2>2. PICK Z \in SUBSET Nodes : Z = W[o]
    BY <1>1
  <2>3. PICK S : S = {e \in H : FromNode(e, o) \in Z}
    OBVIOUS
  <2>4. PICK ls \in [Nodes -> Uint] : ls = dists[o]
    BY <1>1
  <2>5. /\ Settled(H, o, ends[o], Z, ls, found_by[o]) /\ Frontier(H, o, ends[o], Z, ls, pq, S, limit)
        /\ Ordered(Z, ls, pq)
    BY <1>5, <2>1, <2>2, <2>3, <2>4 DEF OneSearch
  <2>6. Frontier(H, o, ends[o], Z, ls, R.queue, S, limit)
    BY <1>16, <2>5, FrontierOfPart
  <2>7. Ordered(Z, ls, R.queue)
    <3> SUFFICES ASSUME NEW n \in Z, NEW x \in R.queue PROVE ls[n] <= x.dist
      BY DEF Ordered
    <3>1. ls[n] <= top.dist /\ top.dist <= x.dist /\ ls[n] \in Nat
      BY <1>16, <2>5, NodesAreUint DEF Ordered
    <3>2. x.dist \in Nat
      BY <1>17
    <3> QED
      BY <1>3, <3>1, <3>2
  <2> QED
    BY <1>4, <1>18, <1>19, <2>1, <2>2, <2>3, <2>4, <2>5, <2>6, <2>7 DEF OneSearch
<1>22. NoHigher(nds[dir], dists[dir]) /\ LabelsStay(V[dir], nds[dir], dists[dir])
  BY <1>8, <1>9, <1>16, <1>18
<1> QED
  BY <1>1, <1>4, <1>17, <1>18, <1>20, <1>21, <1>22 DEF limit, BothSearch, OneMore

(* The types of what an iteration changes.                                 *)
LEMMA SearchStepTypes ==
  ASSUME QueryInv, SearchStep
  PROVE  SearchTypes(ends, dists', found_by', pq', shortest_dist')
<1>1. /\ VectorsInv /\ LabelsInv /\ ends \in [EdgeType -> Nodes] /\ shortest_dist \in Uint
      /\ found_by \in [EdgeType -> [Nodes -> Uint]] /\ dists \in [EdgeType -> [Nodes -> Uint]]
      /\ pq \in SUBSET PQElements
  BY DEF QueryInv, SearchTypes
<1>2. pq' \in SUBSET PQElements /\ dists' \in [EdgeType -> [Nodes -> Uint]]
  BY <1>1, SearchStepClean
<1>3. PICK top \in pq :
        \/ /\ found_by' = [found_by EXCEPT ![top.direction][top.node] = top.found_by]
           /\ \/ shortest_dist' = UintAdd(top.dist, dists[Opposite(top.direction)][top.node])
              \/ shortest_dist' = shortest_dist
        \/ UNCHANGED <<found_by, shortest_dist>>
  BY DEF SearchStep, Tops
<1>4. /\ top.node \in Nodes /\ top.dist \in Uint /\ top.direction \in EdgeType /\ top.found_by \in Uint
  BY <1>1 DEF PQElements
<1>5. Opposite(top.direction) \in EdgeType
  BY DEF Opposite, EdgeType
<1>6. dists[Opposite(top.direction)][top.node] \in Uint
  BY <1>1, <1>4, <1>5
<1>7. UintAdd(top.dist, dists[Opposite(top.direction)][top.node]) \in Uint
  BY <1>4, <1>6, UintAddType
<1>8. shortest_dist' \in Uint
  BY <1>1, <1>3, <1>7
<1>9. [found_by EXCEPT ![top.direction][top.node] = top.found_by] \in [EdgeType -> [Nodes -> Uint]]
  BY <1>1, <1>4
<1>10. found_by' \in [EdgeType -> [Nodes -> Uint]]
  BY <1>1, <1>3, <1>9
<1> QED
  BY <1>1, <1>2, <1>8, <1>10 DEF SearchTypes

(* An iteration, where there is a way.                                     *)
LEMMA SearchStepMeets ==
  ASSUME QueryInv, SearchStep, NEW bound, NEW d, WayToFind(bound, d), NEW W,
         TwoSearches(Edges, ends, W, dists, found_by, pq, shortest_dist, center_node, d, bound + bound)
  PROVE  \E V : TwoSearches(Edges, ends, V, dists', found_by', pq', shortest_dist', center_node', d, bound + bound)
<1> DEFINE limit == bound + bound
<1>1. /\ VectorsInv /\ LabelsInv /\ Complete(Edges) /\ SearchTypes(ends, dists, found_by, pq, shortest_dist)
      /\ LengthsBound(Edges, bound) /\ d \in Nat /\ <<ends["OUT"], ends["IN"], d>> \in Distances(EdgesRead)
  BY DEF QueryInv, WayToFind
<1>2. PICK top \in Tops :
        /\ SearchGoesOn(top.dist)
        /\ IF dists[top.direction][top.node] = top.dist
           THEN LET dir == top.direction
                    relaxed == RelaxAllEdges(top)
                    rest == dists[Opposite(dir)][top.node]
                    dist == UintAdd(top.dist, rest)
                IN  /\ found_by' = [found_by EXCEPT ![dir][top.node] = top.found_by]
                    /\ dists' = [dists EXCEPT ![dir] = relaxed.dists]
                    /\ pq' = relaxed.queue
                    /\ IF rest # NO_DIST /\ dist < shortest_dist
                       THEN shortest_dist' = dist /\ center_node' = top.node
                       ELSE UNCHANGED <<shortest_dist, center_node>>
           ELSE /\ pq' = pq \ {top}
                /\ UNCHANGED <<found_by, dists, shortest_dist, center_node>>
  BY DEF SearchStep
<1>3. top \in pq /\ (\A z \in pq : top.dist <= z.dist) /\ top.dist <= shortest_dist
  BY <1>2 DEF Tops, SearchGoesOn
<1>4. Edges \in SUBSET CHEdge
  BY <1>1 DEF VectorsInv, Edges
<1>5. d < NO_DIST
  <2>1. ends["OUT"] \in Nodes /\ ends["IN"] \in Nodes
    BY <1>1 DEF SearchTypes, EdgeType
  <2>2. d <= bound
    BY <1>1, <2>1 DEF LengthsBound
  <2> QED
    BY <1>1, <2>2, BoundIsSmall
<1>6. PICK E : E = Edges
  OBVIOUS
<1>7. E \in SUBSET CHEdge /\ Complete(E) /\ LengthsBound(E, bound)
      /\ TwoSearches(E, ends, W, dists, found_by, pq, shortest_dist, center_node, d, bound + bound)
  BY <1>1, <1>4, <1>6
<1>8. top.dist <= d
  BY <1>1, <1>3, <1>5, <1>7, TopWithinDistance
<1>9. CASE dists[top.direction][top.node] # top.dist
  <2>1. TwoSearches(E, ends, W, dists, found_by, pq \ {top}, shortest_dist, center_node, d, bound + bound)
    BY <1>3, <1>7, <1>9, OutdatedKeepsSearches
  <2>2. pq' = pq \ {top} /\ UNCHANGED <<found_by, dists, shortest_dist, center_node>>
    BY <1>2, <1>9
  <2>3. TwoSearches(Edges, ends, W, dists', found_by', pq', shortest_dist', center_node', d, bound + bound)
    BY <1>6, <2>1, <2>2
  <2> QED
    BY <2>3
<1>10. CASE dists[top.direction][top.node] = top.dist
  <2>1. PICK dir \in EdgeType : dir = top.direction
    BY <1>1, <1>3, QueueTypes DEF SearchTypes
  <2>2. PICK V : V = [W EXCEPT ![dir] = W[dir] \cup {top.node}]
    OBVIOUS
  <2>3. PICK R : R = RelaxAllEdges(top)
    OBVIOUS
  <2>4. PICK nds : nds = [dists EXCEPT ![dir] = R.dists]
    OBVIOUS
  <2>5. PICK nfb : nfb = [found_by EXCEPT ![dir][top.node] = top.found_by]
    OBVIOUS
  <2>12. NextTop(top, dir, dists, pq, d)
    BY <1>3, <1>8, <1>10, <2>1 DEF NextTop
  <2>6. BothSearch(Edges, ends, V, nds, nfb, R.queue, bound + bound) /\ OneMore(W, top, dir, V, dists, nds)
    BY <2>2, <2>3, <2>4, <2>5, <2>12, SettlingKeepsSearches
  <2>7. PICK nbest, ncenter : nbest = shortest_dist' /\ ncenter = center_node'
    OBVIOUS
  <2>8. /\ nfb = found_by' /\ nds = dists' /\ R.queue = pq'
        /\ Improved(top, dir, dists, shortest_dist, center_node, nbest, ncenter)
    BY <1>2, <1>10, <2>1, <2>3, <2>4, <2>5, <2>7 DEF Improved
  <2>9. Met(V, nds, nbest, ncenter, d)
    BY <1>1, <1>7, <2>6, <2>8, <2>12, SettlingMeets
  <2>10. TwoSearches(Edges, ends, V, nds, nfb, R.queue, nbest, ncenter, d, bound + bound)
    BY <2>6, <2>9 DEF TwoSearches, BothSearch
  <2>11. TwoSearches(Edges, ends, V, dists', found_by', pq', shortest_dist', center_node', d, bound + bound)
    BY <2>7, <2>8, <2>10
  <2> QED
    BY <2>11
<1> QED
  BY <1>9, <1>10

(* There is no way; the searches find this out.                            *)
NoWay == \A d \in Nat : <<ends["OUT"], ends["IN"], d>> \notin Distances(EdgesRead)

InVain(E, a, ds, q, best, center) ==
  /\ best = NO_DIST /\ center = NO_NID
  /\ \A dir \in EdgeType : Reaches(Upward(E, dir), dir, a[dir], ds[dir], q)

(* No node is found in both directions, then.                              *)
LEMMA NoMeeting ==
  ASSUME NEW E, Complete(E), NEW s \in Nodes, NEW t \in Nodes,
         \A d \in Nat : <<s, t, d>> \notin Distances(EdgesRead),
         NEW m \in Nodes, Found(Upward(E, "OUT"), "OUT", s, m), Found(Upward(E, "IN"), "IN", t, m)
  PROVE  FALSE
<1>1. PICK x \in Nat : AtMost(Ways(Upward(E, "OUT"), "OUT"), s, m, x)
  BY DEF Found
<1>2. PICK y \in Nat : AtMost(Ways(Upward(E, "IN"), "IN"), t, m, y)
  BY DEF Found
<1>3. AtMost(Distances(EdgesRead), s, t, x + y)
  BY <1>1, <1>2, MeetingIsWay
<1> QED
  BY <1>3 DEF AtMost

(* Relaxing the edges of a node in vain.                                   *)
LEMMA RelaxesInVain ==
  ASSUME QueryInv, InVain(Edges, ends, dists, pq, shortest_dist, center_node),
         NEW top \in pq, NEW dir \in EdgeType, dir = top.direction,
         NEW nds, nds = [dists EXCEPT ![dir] = RelaxAllEdges(top).dists]
  PROVE  \A type \in EdgeType : Reaches(Upward(Edges, type), type, ends[type], nds[type], RelaxAllEdges(top).queue)
<1>1. PICK R : R = RelaxAllEdges(top)
  OBVIOUS
<1>2. /\ top \in PQElements /\ VectorsInv /\ LabelsInv /\ dists \in [EdgeType -> [Nodes -> Uint]]
      /\ ends \in [EdgeType -> Nodes]
  BY DEF QueryInv, SearchTypes
<1>3. nds[dir] = R.dists /\ \A type \in EdgeType : type # dir => nds[type] = dists[type]
  BY <1>1, <1>2
<1>4. \A type \in EdgeType : Reaches(Upward(Edges, type), type, ends[type], dists[type], pq)
  BY DEF InVain
<1>5. PICK G : G = Upward(Edges, dir)
  OBVIOUS
<1>6. PICK s \in Nodes : s = ends[dir]
  BY <1>2
<1>7. Reaches(G, dir, s, dists[dir], pq) /\ top.direction = dir
  BY <1>4, <1>5, <1>6
<1>8. Found(G, dir, s, top.node)
  BY <1>7 DEF Reaches
<1>9. /\ Reaches(G, dir, s, RelaxAllEdges(top).dists, RelaxAllEdges(top).queue)
      /\ Part(RelaxAllEdges(top).queue, Opposite(dir)) = Part(pq, Opposite(dir))
  BY <1>2, <1>5, <1>7, <1>8, RelaxAllReaches
<1>10. ASSUME NEW type \in EdgeType
       PROVE  Reaches(Upward(Edges, type), type, ends[type], nds[type], R.queue)
  <2>1. CASE type = dir
    BY <1>1, <1>3, <1>5, <1>6, <1>9, <2>1
  <2>2. CASE type # dir
    <3>1. type = Opposite(dir)
      BY <2>2 DEF EdgeType, Opposite
    <3>2. Part(R.queue, type) = Part(pq, type)
      BY <1>1, <1>9, <3>1
    <3>3. \A x \in R.queue : x.direction = type => x \in pq
      BY <3>2 DEF Part
    <3>4. Reaches(Upward(Edges, type), type, ends[type], dists[type], pq)
      BY <1>4
    <3>5. Reaches(Upward(Edges, type), type, ends[type], dists[type], R.queue)
      BY <3>3, <3>4 DEF Reaches
    <3> QED
      BY <1>3, <2>2, <3>5
  <2> QED
    BY <2>1, <2>2
<1> QED
  BY <1>1, <1>10

(* An iteration, where there is no way.                                    *)
LEMMA SearchStepInVain ==
  ASSUME QueryInv, SearchStep, NoWay, InVain(Edges, ends, dists, pq, shortest_dist, center_node)
  PROVE  InVain(Edges, ends, dists', pq', shortest_dist', center_node')
<1>1. PICK top \in pq :
        IF dists[top.direction][top.node] = top.dist
        THEN LET dir == top.direction
                 relaxed == RelaxAllEdges(top)
                 rest == dists[Opposite(dir)][top.node]
             IN  /\ dists' = [dists EXCEPT ![dir] = relaxed.dists]
                 /\ pq' = relaxed.queue
                 /\ rest # NO_DIST \/ UNCHANGED <<shortest_dist, center_node>>
        ELSE /\ pq' = pq \ {top}
             /\ UNCHANGED <<dists, shortest_dist, center_node>>
  BY DEF SearchStep, Tops
<1>2. /\ top \in PQElements /\ Complete(Edges) /\ ends["OUT"] \in Nodes /\ ends["IN"] \in Nodes
  BY DEF QueryInv, SearchTypes, EdgeType
<1>3. top.node \in Nodes /\ top.direction \in EdgeType
  BY <1>2, QueueTypes
<1>4. PICK dir \in EdgeType : dir = top.direction
  BY <1>3
<1>5. /\ shortest_dist = NO_DIST /\ center_node = NO_NID
      /\ \A type \in EdgeType : Reaches(Upward(Edges, type), type, ends[type], dists[type], pq)
  BY DEF InVain
<1>6. CASE dists[top.direction][top.node] # top.dist
  <2>1. pq' = pq \ {top} /\ UNCHANGED <<dists, shortest_dist, center_node>>
    BY <1>1, <1>6
  <2>2. ASSUME NEW type \in EdgeType
        PROVE  Reaches(Upward(Edges, type), type, ends[type], dists'[type], pq')
    BY <1>5, <2>1 DEF Reaches
  <2> QED
    BY <1>5, <2>1, <2>2 DEF InVain
<1>7. CASE dists[top.direction][top.node] = top.dist
  <2>1. /\ dists' = [dists EXCEPT ![dir] = RelaxAllEdges(top).dists] /\ pq' = RelaxAllEdges(top).queue
        /\ dists[Opposite(dir)][top.node] # NO_DIST \/ UNCHANGED <<shortest_dist, center_node>>
    BY <1>1, <1>4, <1>7
  <2>2. dists[Opposite(dir)][top.node] = NO_DIST
    <3> SUFFICES ASSUME dists[Opposite(dir)][top.node] # NO_DIST PROVE FALSE
      OBVIOUS
    <3>1. Opposite(dir) \in EdgeType
      BY DEF EdgeType, Opposite
    <3>2. Found(Upward(Edges, Opposite(dir)), Opposite(dir), ends[Opposite(dir)], top.node)
      BY <1>3, <1>5, <3>1 DEF Reaches
    <3>3. Found(Upward(Edges, dir), dir, ends[dir], top.node)
      BY <1>4, <1>5 DEF Reaches
    <3>4. /\ Found(Upward(Edges, "OUT"), "OUT", ends["OUT"], top.node)
          /\ Found(Upward(Edges, "IN"), "IN", ends["IN"], top.node)
      BY <3>2, <3>3 DEF EdgeType, Opposite
    <3> QED
      BY <1>2, <1>3, <3>4, NoMeeting DEF NoWay
  <2>3. UNCHANGED <<shortest_dist, center_node>>
    BY <2>1, <2>2
  <2>4. PICK nds : nds = [dists EXCEPT ![dir] = RelaxAllEdges(top).dists]
    OBVIOUS
  <2>5. \A type \in EdgeType : Reaches(Upward(Edges, type), type, ends[type], nds[type], RelaxAllEdges(top).queue)
    BY <1>4, <2>4, RelaxesInVain
  <2> QED
    BY <1>5, <2>1, <2>3, <2>4, <2>5 DEF InVain
<1> QED
  BY <1>6, <1>7

-----------------------------------------------------------------------------
(* The start and the end of a search.                                      *)

(* A search that knows its start only.                                     *)
Fresh(dir, a, ds, q) ==
  /\ ds[a] = 0 /\ \A n \in Nodes : n # a => ds[n] = NO_DIST
  /\ Part(q, dir) = {PQElement(a, NO_EID, dir, 0)}

(* The start of a search satisfies its invariant.                          *)
LEMMA FreshSearch ==
  ASSUME NEW E, EdgeSet(E), NEW dir \in EdgeType, NEW a \in Nodes, NEW ds, NEW q, Fresh(dir, a, ds, q), NEW fb
  PROVE  /\ Reaches(Upward(E, dir), dir, a, ds, q)
         /\ \A limit \in Nat : 0 < NO_DIST => OneSearch(E, dir, a, {}, ds, fb, q, limit)
<1>1. PICK G : G = Upward(E, dir)
  OBVIOUS
<1>2. EdgeSet(G)
  BY <1>1 DEF Upward, EdgeSet
<1>3. AtMost(Ways(G, dir), a, a, 0)
  <2>1. <<a, a, 0>> \in Ways(G, dir)
    BY <1>2, WaysAreDistances DEF Triangular
  <2> QED
    BY <2>1 DEF AtMost
<1>4. PICK new : new = PQElement(a, NO_EID, dir, 0)
  OBVIOUS
<1>5. new.node = a /\ new.direction = dir /\ new.dist = 0
  BY <1>4 DEF PQElement
<1>6. new \in q /\ \A x \in q : x.direction = dir => x = new
  BY <1>4 DEF Fresh, Part
<1>7. ds[a] = 0 /\ \A n \in Nodes : n # a => ds[n] = NO_DIST
  BY DEF Fresh
<1>8. Reaches(G, dir, a, ds, q)
  <2>1. Found(G, dir, a, a)
    BY <1>3 DEF Found
  <2> QED
    BY <1>5, <1>6, <1>7, <2>1 DEF Reaches
<1>9. ASSUME NEW limit \in Nat, 0 < NO_DIST PROVE OneSearch(E, dir, a, {}, ds, fb, q, limit)
  <2>1. Settled(G, dir, a, {}, ds, fb) /\ Ordered({}, ds, q)
    BY DEF Settled, Ordered
  <2>2. \A x \in q : x.direction = dir =>
          /\ ds[x.node] <= x.dist /\ x.dist # NO_DIST
          /\ Justified(G, dir, a, {}, ds, x.node, x.found_by, x.dist)
    BY <1>5, <1>6, <1>7, <1>9 DEF Justified
  <2>3. \A n \in Nodes : ds[n] # NO_DIST =>
          /\ \E x \in q : x.direction = dir /\ x.node = n /\ x.dist = ds[n]
          /\ AtMost(Ways(G, dir), a, n, ds[n]) /\ ds[n] <= limit
    BY <1>3, <1>5, <1>6, <1>7, <1>9
  <2>4. \A e \in {} : ds[OtherNode(e, dir)] <= ds[FromNode(e, dir)] + e.dist
    OBVIOUS
  <2>5. Frontier(G, dir, a, {}, ds, q, {}, limit)
    BY <1>7, <2>2, <2>3, <2>4 DEF Frontier
  <2>6. {e \in G : FromNode(e, dir) \in {}} = {}
    OBVIOUS
  <2> QED
    BY <1>1, <2>1, <2>5, <2>6 DEF OneSearch
<1> QED
  BY <1>1, <1>8, <1>9

(* calcShopa() starts with two such searches.                              *)
LEMMA CalcShopaFresh ==
  ASSUME LabelsInv, NEW src \in Nodes, NEW tgt \in Nodes, CalcShopa(src, tgt)
  PROVE  /\ ends' \in [EdgeType -> Nodes] /\ ends'["OUT"] = src /\ ends'["IN"] = tgt
         /\ shortest_dist' = NO_DIST /\ center_node' = NO_NID /\ UNCHANGED found_by
         /\ task' = "search" /\ path' = <<>>
         /\ \A dir \in EdgeType : Fresh(dir, ends'[dir], dists'[dir], pq')
<1>1. /\ ends' = [type \in EdgeType |-> IF type = "OUT" THEN src ELSE tgt]
      /\ pq' = {PQElement(ends'[type], NO_EID, type, 0) : type \in EdgeType}
      /\ dists' = [type \in EdgeType |-> [ResetDists(type) EXCEPT ![ends'[type]] = 0]]
      /\ shortest_dist' = NO_DIST /\ center_node' = NO_NID /\ UNCHANGED found_by
      /\ task' = "search" /\ path' = <<>>
  BY DEF CalcShopa
<1>2. ends' \in [EdgeType -> Nodes] /\ ends'["OUT"] = src /\ ends'["IN"] = tgt
  BY <1>1 DEF EdgeType
<1>3. ASSUME NEW dir \in EdgeType PROVE Fresh(dir, ends'[dir], dists'[dir], pq')
  <2>1. ResetDists(dir) \in [Nodes -> Uint] /\ \A n \in Nodes : ResetDists(dir)[n] = NO_DIST
    BY NoValueTypes DEF LabelsInv, LabelsWillBeReset, ResetDists
  <2>2. dists'[dir] = [ResetDists(dir) EXCEPT ![ends'[dir]] = 0] /\ ends'[dir] \in Nodes
    BY <1>1, <1>2
  <2>3. dists'[dir][ends'[dir]] = 0 /\ \A n \in Nodes : n # ends'[dir] => dists'[dir][n] = NO_DIST
    BY <2>1, <2>2
  <2>4. Part(pq', dir) = {PQElement(ends'[dir], NO_EID, dir, 0)}
    <3>1. \A type \in EdgeType : PQElement(ends'[type], NO_EID, type, 0).direction = type
      BY DEF PQElement
    <3> QED
      BY <1>1, <3>1 DEF Part
  <2> QED
    BY <2>3, <2>4 DEF Fresh
<1> QED
  BY <1>1, <1>2, <1>3

(* Both searches with what is known at the start.                          *)
LEMMA FreshSearches ==
  ASSUME NEW E, Complete(E), NEW a \in [EdgeType -> Nodes], NEW ds, NEW fb, NEW q,
         \A dir \in EdgeType : Fresh(dir, a[dir], ds[dir], q)
  PROVE  /\ InVain(E, a, ds, q, NO_DIST, NO_NID)
         /\ \A bound : \A d \in Nat :
              LengthsBound(E, bound) /\ <<a["OUT"], a["IN"], d>> \in Distances(EdgesRead) =>
                TwoSearches(E, a, [type \in EdgeType |-> {}], ds, fb, q, NO_DIST, NO_NID, d, bound + bound)
<1>1. EdgeSet(E)
  BY DEF Complete
<1>2. ASSUME NEW dir \in EdgeType
      PROVE  /\ Reaches(Upward(E, dir), dir, a[dir], ds[dir], q)
             /\ \A limit \in Nat : 0 < NO_DIST => OneSearch(E, dir, a[dir], {}, ds[dir], fb[dir], q, limit)
  BY <1>1, FreshSearch
<1>3. InVain(E, a, ds, q, NO_DIST, NO_NID)
  BY <1>2 DEF InVain
<1>4. ASSUME NEW bound, NEW d \in Nat, LengthsBound(E, bound), <<a["OUT"], a["IN"], d>> \in Distances(EdgesRead)
      PROVE  TwoSearches(E, a, [type \in EdgeType |-> {}], ds, fb, q, NO_DIST, NO_NID, d, bound + bound)
  <2>1. PICK W : W = [type \in EdgeType |-> {}]
    OBVIOUS
  <2>2. /\ bound \in Nat /\ bound + bound \in Nat /\ bound < NO_DIST /\ NO_DIST \in Nat
    BY <1>4, BoundIsSmall
  <2>3. d <= bound
    <3>1. a["OUT"] \in Nodes /\ a["IN"] \in Nodes
      BY DEF EdgeType
    <3> QED
      BY <1>4, <3>1 DEF LengthsBound
  <2>4. 0 < NO_DIST /\ d <= NO_DIST
    BY <2>2, <2>3
  <2>5. W \in [EdgeType -> SUBSET Nodes] /\ W["OUT"] = {} /\ W["IN"] = {} /\ \A dir \in EdgeType : W[dir] = {}
    BY <2>1 DEF EdgeType
  <2>6. Met(W, ds, NO_DIST, NO_NID, d)
    BY <2>4, <2>5 DEF Met
  <2>7. \A dir \in EdgeType : OneSearch(E, dir, a[dir], W[dir], ds[dir], fb[dir], q, bound + bound)
    BY <1>2, <2>2, <2>4, <2>5
  <2> QED
    BY <2>1, <2>5, <2>6, <2>7 DEF TwoSearches
<1> QED
  BY <1>3, <1>4

(* When the loop ends, the distance is found, over a node that is settled  *)
(* in both directions.                                                     *)
LEMMA SearchFound ==
  ASSUME QueryInv, SearchEnded, NEW bound, NEW d, WayToFind(bound, d), NEW W,
         TwoSearches(Edges, ends, W, dists, found_by, pq, shortest_dist, center_node, d, bound + bound)
  PROVE  /\ shortest_dist = d /\ d < NO_DIST
         /\ center_node \in Nodes /\ center_node \in W["OUT"] /\ center_node \in W["IN"]
         /\ dists["OUT"][center_node] + dists["IN"][center_node] = d
<1>1. /\ VectorsInv /\ Complete(Edges) /\ SearchTypes(ends, dists, found_by, pq, shortest_dist)
      /\ LengthsBound(Edges, bound) /\ d \in Nat /\ <<ends["OUT"], ends["IN"], d>> \in Distances(EdgesRead)
  BY DEF QueryInv, WayToFind
<1>2. /\ pq \in SUBSET PQElements /\ shortest_dist \in Nat /\ "OUT" \in EdgeType /\ "IN" \in EdgeType
      /\ (\A z \in pq : z.dist \in Nat)
      /\ \A dir \in EdgeType : dists[dir] \in [Nodes -> Uint] /\ ends[dir] \in Nodes
      /\ \A dir \in EdgeType, n \in Nodes : dists[dir][n] \in Nat
  BY <1>1, QueueTypes, NodesAreUint DEF SearchTypes, EdgeType
<1>3. \A z \in pq : shortest_dist < z.dist
  <2> SUFFICES ASSUME pq # {} PROVE \A z \in pq : shortest_dist < z.dist
    OBVIOUS
  <2> DEFINE S == {z.dist : z \in pq}
  <2>1. S \in SUBSET Nat /\ S # {}
    BY <1>2
  <2>2. \E x \in S : \A y \in S : x <= y
    BY <2>1, LeastNumber
  <2>3. PICK e \in pq : \A o \in pq : e.dist <= o.dist
    BY <2>2
  <2>4. ~(e.dist <= shortest_dist)
    BY <2>3 DEF SearchEnded, Tops, SearchGoesOn
  <2> QED
    BY <1>2, <2>3, <2>4
<1>4. d < NO_DIST
  <2>1. d <= bound
    BY <1>1, <1>2 DEF LengthsBound
  <2> QED
    BY <1>1, <2>1, BoundIsSmall
<1>5. Met(W, dists, shortest_dist, center_node, d)
  BY DEF TwoSearches
<1>6. \A z \in pq : d < z.dist
  BY <1>1, <1>2, <1>3, <1>5 DEF Met
<1>7. PICK E : E = Edges
  OBVIOUS
<1>8. E \in SUBSET CHEdge /\ Complete(E)
      /\ TwoSearches(E, ends, W, dists, found_by, pq, shortest_dist, center_node, d, bound + bound)
  BY <1>1, <1>7 DEF VectorsInv, Edges
<1>9. shortest_dist = d
  BY <1>1, <1>4, <1>6, <1>8, DistanceIsFound
<1>10. center_node \in Nodes /\ dists["OUT"][center_node] + dists["IN"][center_node] <= d
  <2>1. d # NO_DIST
    BY <1>1, <1>4, BoundIsSmall
  <2> QED
    BY <1>5, <1>9, <2>1 DEF Met
<1>11. ASSUME NEW dir \in EdgeType PROVE center_node \in W[dir]
  <2>1. dists[dir][center_node] \in Nat /\ dists[dir][center_node] <= d
    <3>1. dists["OUT"][center_node] \in Nat /\ dists["IN"][center_node] \in Nat
      BY <1>2, <1>10
    <3>2. dists["OUT"][center_node] <= d /\ dists["IN"][center_node] <= d
      BY <1>1, <1>10, <3>1
    <3> QED
      BY <3>1, <3>2 DEF EdgeType
  <2>2. dists[dir][center_node] # NO_DIST
    BY <1>1, <1>4, <2>1
  <2> SUFFICES ASSUME center_node \notin W[dir] PROVE FALSE
    OBVIOUS
  <2>3. PICK V : V = W[dir]
    OBVIOUS
  <2>4. PICK es : es = dists[dir]
    OBVIOUS
  <2>5. PICK G, R : Frontier(G, dir, ends[dir], V, es, pq, R, bound + bound)
    BY <2>3, <2>4 DEF TwoSearches, OneSearch
  <2>6. \E x \in pq : x.direction = dir /\ x.node = center_node /\ x.dist = es[center_node]
    BY <1>10, <2>2, <2>3, <2>4, <2>5 DEF Frontier
  <2>7. PICK x \in pq : x.dist = dists[dir][center_node]
    BY <2>4, <2>6
  <2> QED
    BY <1>1, <1>2, <1>6, <2>1, <2>7
<1>12. center_node \in W["OUT"] /\ center_node \in W["IN"]
  BY <1>2, <1>11
<1>13. d <= dists["OUT"][center_node] + dists["IN"][center_node]
  BY <1>5, <1>9, <1>12 DEF Met
<1>14. dists["OUT"][center_node] + dists["IN"][center_node] \in Nat
  BY <1>2, <1>10
<1> QED
  BY <1>1, <1>4, <1>9, <1>10, <1>12, <1>13, <1>14

-----------------------------------------------------------------------------
(* The walk back.                                                          *)

(* The edges the walk from c in a direction took, at the positions a to b  *)
(* of p: each is as long as the labels of its ends are apart.              *)
Leg(p, dir, ds, c, a, b) ==
  \A i \in a..b :
    /\ GetEdge(p[i]) \in Edges
    /\ OtherNode(GetEdge(p[i]), dir) = IF i = a THEN c ELSE FromNode(GetEdge(p[i - 1]), dir)
    /\ ds[FromNode(GetEdge(p[i]), dir)] + GetEdge(p[i]).dist = ds[OtherNode(GetEdge(p[i]), dir)]

(* Where it leads.                                                         *)
LegEnd(p, dir, c, a, b) == IF b < a THEN c ELSE FromNode(GetEdge(p[b]), dir)

(* What was walked stays as it is when the path grows.                     *)
LEMMA LegStays ==
  ASSUME NEW p \in Seq(Uint), NEW id \in Uint, NEW dir, NEW ds, NEW c, NEW a \in Nat \ {0}, NEW b \in 0..Len(p),
         Leg(p, dir, ds, c, a, b)
  PROVE  /\ Leg(Append(p, id), dir, ds, c, a, b)
         /\ LegEnd(Append(p, id), dir, c, a, b) = LegEnd(p, dir, c, a, b)
<1> DEFINE q == Append(p, id)
<1>1. \A i \in 1..Len(p) : q[i] = p[i]
  OBVIOUS
<1>2. Len(p) \in Nat
  OBVIOUS
<1> HIDE DEF q
<1>3. ASSUME NEW i \in a..b PROVE q[i] = p[i] /\ (i # a => q[i - 1] = p[i - 1])
  <2>1. i \in 1..Len(p) /\ (i # a => i - 1 \in 1..Len(p))
    BY <1>2
  <2> QED
    BY <1>1, <2>1
<1>4. Leg(q, dir, ds, c, a, b)
  <2> SUFFICES ASSUME NEW i \in a..b
               PROVE  /\ GetEdge(q[i]) \in Edges
                      /\ OtherNode(GetEdge(q[i]), dir) = IF i = a THEN c ELSE FromNode(GetEdge(q[i - 1]), dir)
                      /\ ds[FromNode(GetEdge(q[i]), dir)] + GetEdge(q[i]).dist = ds[OtherNode(GetEdge(q[i]), dir)]
    BY DEF Leg
  <2>1. /\ GetEdge(p[i]) \in Edges
        /\ OtherNode(GetEdge(p[i]), dir) = IF i = a THEN c ELSE FromNode(GetEdge(p[i - 1]), dir)
        /\ ds[FromNode(GetEdge(p[i]), dir)] + GetEdge(p[i]).dist = ds[OtherNode(GetEdge(p[i]), dir)]
    BY DEF Leg
  <2> QED
    BY <1>3, <2>1
<1>5. LegEnd(q, dir, c, a, b) = LegEnd(p, dir, c, a, b)
  <2>1. CASE b < a
    BY <2>1 DEF LegEnd
  <2>2. CASE ~(b < a)
    <3>1. q[b] = p[b]
      <4>1. b \in a..b
        BY <2>2
      <4> QED
        BY <1>3, <4>1
    <3> QED
      BY <2>2, <3>1 DEF LegEnd
  <2> QED
    BY <2>1, <2>2
<1> QED
  BY <1>4, <1>5 DEF q

(* One more edge.                                                          *)
LEMMA LegGrows ==
  ASSUME NEW p \in Seq(Uint), NEW id \in Uint, NEW dir, NEW ds, NEW c, NEW a \in Nat \ {0}, a <= Len(p) + 1,
         Leg(p, dir, ds, c, a, Len(p)), NEW e \in Edges, GetEdge(id) = e,
         OtherNode(e, dir) = LegEnd(p, dir, c, a, Len(p)), ds[FromNode(e, dir)] + e.dist = ds[OtherNode(e, dir)]
  PROVE  /\ Leg(Append(p, id), dir, ds, c, a, Len(p) + 1)
         /\ LegEnd(Append(p, id), dir, c, a, Len(p) + 1) = FromNode(e, dir)
<1> DEFINE q == Append(p, id)
           n == Len(p)
<1>1. n \in Nat /\ q[n + 1] = id /\ \A i \in 1..n : q[i] = p[i]
  OBVIOUS
<1>2. Leg(q, dir, ds, c, a, n)
  <2>1. n \in 0..Len(p)
    BY <1>1
  <2> QED
    BY <2>1, LegStays
<1>3. Leg(p, dir, ds, c, a, n) /\ OtherNode(e, dir) = LegEnd(p, dir, c, a, n) /\ a <= n + 1
  OBVIOUS
<1> HIDE DEF q, n
<1>4. OtherNode(e, dir) = IF n + 1 = a THEN c ELSE FromNode(GetEdge(q[(n + 1) - 1]), dir)
  <2>1. CASE n + 1 = a
    <3>1. n < a
      BY <1>1, <2>1
    <3> QED
      BY <1>3, <2>1, <3>1 DEF LegEnd
  <2>2. CASE n + 1 # a
    <3>1. ~(n < a) /\ (n + 1) - 1 = n /\ q[n] = p[n]
      BY <1>1, <1>3, <2>2
    <3> QED
      BY <1>3, <2>2, <3>1 DEF LegEnd
  <2> QED
    BY <2>1, <2>2
<1>5. ASSUME NEW i \in a..(n + 1)
      PROVE  /\ GetEdge(q[i]) \in Edges
             /\ OtherNode(GetEdge(q[i]), dir) = IF i = a THEN c ELSE FromNode(GetEdge(q[i - 1]), dir)
             /\ ds[FromNode(GetEdge(q[i]), dir)] + GetEdge(q[i]).dist = ds[OtherNode(GetEdge(q[i]), dir)]
  <2>1. CASE i \in a..n
    BY <1>2, <2>1 DEF Leg
  <2>2. CASE i = n + 1
    BY <1>1, <1>4, <2>2
  <2> QED
    BY <1>1, <2>1, <2>2
<1>6. LegEnd(q, dir, c, a, n + 1) = FromNode(e, dir)
  <2>1. ~(n + 1 < a)
    BY <1>1, <1>3
  <2> QED
    BY <1>1, <2>1 DEF LegEnd
<1>7. Leg(q, dir, ds, c, a, n + 1)
  BY <1>5 DEF Leg
<1> QED
  BY <1>6, <1>7 DEF q, n

(* The node at the end of a walk is one where labels end: from there an    *)
(* edge noted in _found_by leads on.                                       *)
LEMMA EdgeBack ==
  ASSUME EdgesFoundById, ~is_dirty, NEW dir \in EdgeType, NEW a, NEW W, NEW ds, NEW fb \in [Nodes -> Uint],
         Settled(Upward(Edges, dir), dir, a, W, ds, fb), NEW n \in W, n \in Nodes, n # a
  PROVE  \E e \in Edges :
           /\ GetEdge(fb[n]) = e /\ fb[n] \in Uint /\ OtherNode(e, dir) = n /\ FromNode(e, dir) \in W
           /\ ds[FromNode(e, dir)] + e.dist = ds[OtherNode(e, dir)]
<1>1. Justified(Upward(Edges, dir), dir, a, W, ds, n, fb[n], ds[n])
  BY DEF Settled
<1>2. PICK e \in Upward(Edges, dir) :
        /\ e.id = fb[n] /\ OtherNode(e, dir) = n /\ FromNode(e, dir) \in W
        /\ ds[FromNode(e, dir)] + e.dist = ds[n]
  BY <1>1 DEF Justified
<1>3. e \in Edges
  BY <1>2 DEF Upward
<1>4. GetEdge(fb[n]) = e
  BY <1>2, <1>3 DEF EdgesFoundById
<1>5. fb[n] \in Uint
  OBVIOUS
<1> QED
  BY <1>2, <1>3, <1>4, <1>5

-----------------------------------------------------------------------------
(* The invariant of the queries.                                           *)

(* The searches met in a node of a shortest way.                           *)
WayFound ==
  /\ center_node \in Nodes /\ dists["OUT"][center_node] + dists["IN"][center_node] = shortest_dist
  /\ dists["OUT"][ends["OUT"]] = 0 /\ dists["IN"][ends["IN"]] = 0
  /\ shortest_dist \in Nat /\ <<ends["OUT"], ends["IN"], shortest_dist>> \in Distances(EdgesRead)

(* The first k edges of the path lead back to the source, the others on to *)
(* the target.                                                             *)
Legs(k) ==
  /\ path \in Seq(Uint) /\ k \in 0..Len(path)
  /\ Leg(path, "OUT", dists["OUT"], center_node, 1, k)
  /\ Leg(path, "IN", dists["IN"], center_node, k + 1, Len(path))

SourceEnd(k) == LegEnd(path, "OUT", center_node, 1, k)

TargetEnd(k) == LegEnd(path, "IN", center_node, k + 1, Len(path))

SettledIn(W, dir) ==
  /\ Settled(Upward(Edges, dir), dir, ends[dir], W[dir], dists[dir], found_by[dir])
  /\ center_node \in W[dir]

SearchingInv ==
  task = "search" =>
    /\ path = <<>>
    /\ NoWay => InVain(Edges, ends, dists, pq, shortest_dist, center_node)
    /\ \A bound, d :
         WayToFind(bound, d) =>
           \E W : TwoSearches(Edges, ends, W, dists, found_by, pq, shortest_dist, center_node, d, bound + bound)

WalkingInv ==
  task = "backtrack" =>
    /\ WayFound
    /\ \E W \in [EdgeType -> SUBSET Nodes] :
         /\ \A dir \in EdgeType : SettledIn(W, dir)
         /\ bt_direction \in EdgeType /\ bt_node \in W[bt_direction]
    /\ \E k \in Nat :
         /\ Legs(k)
         /\ bt_direction = "OUT" => k = Len(path) /\ bt_node = SourceEnd(k)
         /\ bt_direction = "IN" => ends["OUT"] = SourceEnd(k) /\ bt_node = TargetEnd(k)

AnsweredInv ==
  task = "answered" =>
    \/ answer = NO_DIST /\ NoWay
    \/ /\ WayFound /\ answer = shortest_dist
       /\ \E k \in Nat : Legs(k) /\ ends["OUT"] = SourceEnd(k) /\ ends["IN"] = TargetEnd(k)

QueryVarTypes ==
  /\ found_by \in [EdgeType -> [Nodes -> Uint]] /\ shortest_dist \in Uint /\ answer \in Uint
  /\ task # "none" => ends \in [EdgeType -> Nodes]

QueriesInv ==
  /\ ~is_dirty /\ \E bound : LengthsBound(Edges, bound)
  /\ SearchingInv /\ WalkingInv /\ AnsweredInv

AnswersInv ==
  /\ FileInv /\ QueryVarTypes
  /\ stage = "construct" => task = "none"
  /\ stage = "query" => QueriesInv

-----------------------------------------------------------------------------
(* The steps keep it.                                                      *)

(* The same statements about the state after a step.                       *)
LEMMA SearchesLater ==
  ASSUME UNCHANGED node_levels, NEW V, NEW bound, NEW d,
         TwoSearches(Edges', ends', V, dists', found_by', pq', shortest_dist', center_node', d, bound + bound)
  PROVE  TwoSearches(Edges, ends, V, dists, found_by, pq, shortest_dist, center_node, d, bound + bound)'
BY DEF TwoSearches, OneSearch, Upward, IsUp

(* The same for two nodes without a way.                                   *)
LEMMA InVainLater ==
  ASSUME UNCHANGED node_levels, InVain(Edges', ends', dists', pq', shortest_dist', center_node')
  PROVE  InVain(Edges, ends, dists, pq, shortest_dist, center_node)'
BY DEF InVain, Upward, IsUp

(* The graph while the object is used.                                     *)
GraphStays == UNCHANGED <<out_edges, id_to_index, is_dirty, node_levels, input_edges>>

(* A query reads the graph and does not change it.                         *)
LEMMA SameGraphSameWays ==
  ASSUME GraphStays
  PROVE  /\ Edges' = Edges /\ EdgesRead' = EdgesRead /\ UNCHANGED <<node_levels, is_dirty>>
         /\ \A id : GetEdge(id)' = GetEdge(id)
BY DEF GraphStays, Edges, EdgesRead, GetEdge

(* What a step of the search has to show.                                  *)
LEMMA SearchingLater ==
  ASSUME GraphStays,
         (\A d \in Nat : <<ends'["OUT"], ends'["IN"], d>> \notin Distances(EdgesRead))
           => InVain(Edges, ends', dists', pq', shortest_dist', center_node'),
         \A bound, d : LengthsBound(Edges, bound) /\ d \in Nat /\ <<ends'["OUT"], ends'["IN"], d>> \in Distances(EdgesRead) =>
           \E W : TwoSearches(Edges, ends', W, dists', found_by', pq', shortest_dist', center_node', d, bound + bound),
         path' = <<>>
  PROVE  SearchingInv'
<1>1. Edges' = Edges /\ EdgesRead' = EdgesRead /\ UNCHANGED node_levels
  BY SameGraphSameWays
<1>2. NoWay' => InVain(Edges, ends, dists, pq, shortest_dist, center_node)'
  <2> SUFFICES ASSUME NoWay' PROVE InVain(Edges, ends, dists, pq, shortest_dist, center_node)'
    OBVIOUS
  <2>1. \A d \in Nat : <<ends'["OUT"], ends'["IN"], d>> \notin Distances(EdgesRead)
    BY <1>1 DEF NoWay
  <2>2. InVain(Edges', ends', dists', pq', shortest_dist', center_node')
    BY <1>1, <2>1
  <2> QED
    BY <1>1, <2>2, InVainLater
<1>3. ASSUME NEW bound, NEW d, WayToFind(bound, d)'
      PROVE  (\E W : TwoSearches(Edges, ends, W, dists, found_by, pq, shortest_dist, center_node, d, bound + bound))'
  <2>1. LengthsBound(Edges, bound) /\ d \in Nat /\ <<ends'["OUT"], ends'["IN"], d>> \in Distances(EdgesRead)
    BY <1>1, <1>3 DEF WayToFind, LengthsBound
  <2>2. PICK W : TwoSearches(Edges, ends', W, dists', found_by', pq', shortest_dist', center_node', d, bound + bound)
    BY <2>1
  <2>3. TwoSearches(Edges', ends', W, dists', found_by', pq', shortest_dist', center_node', d, bound + bound)
    BY <1>1, <2>2
  <2>4. TwoSearches(Edges, ends, W, dists, found_by, pq, shortest_dist, center_node, d, bound + bound)'
    BY <1>1, <2>3, SearchesLater
  <2> QED
    BY <2>4
<1> QED
  BY <1>2, <1>3 DEF SearchingInv

(* A step that leaves the graph alone; what is left to show is what the    *)
(* object does.                                                            *)
LEMMA QueriesStay ==
  ASSUME QueriesInv, GraphStays, SearchingInv', WalkingInv', AnsweredInv'
  PROVE  QueriesInv'
<1>1. Edges' = Edges /\ EdgesRead' = EdgesRead /\ UNCHANGED is_dirty
  BY SameGraphSameWays
<1>2. (\E bound : LengthsBound(Edges, bound))'
  <2>1. PICK bound : LengthsBound(Edges, bound)
    BY DEF QueriesInv
  <2>2. LengthsBound(Edges, bound)'
    BY <1>1, <2>1 DEF LengthsBound
  <2> QED
    BY <2>2
<1> QED
  BY <1>1, <1>2 DEF QueriesInv

(* calcShopa() begins.                                                     *)
LEMMA AskKeepsQueries ==
  ASSUME QueriesInv, LabelsInv, Complete(Edges), GraphStays,
         NEW src \in Nodes, NEW tgt \in Nodes, CalcShopa(src, tgt)
  PROVE  QueriesInv'
<1>1. /\ ends' \in [EdgeType -> Nodes]
      /\ shortest_dist' = NO_DIST /\ center_node' = NO_NID
      /\ task' = "search" /\ path' = <<>>
      /\ \A dir \in EdgeType : Fresh(dir, ends'[dir], dists'[dir], pq')
  BY CalcShopaFresh
<1>2. PICK a \in [EdgeType -> Nodes] : a = ends'
  BY <1>1
<1>3. PICK ds, q : ds = dists' /\ q = pq'
  OBVIOUS
<1>4. PICK fb : fb = found_by'
  OBVIOUS
<1>5. PICK E : E = Edges
  OBVIOUS
<1>6. Complete(E) /\ \A dir \in EdgeType : Fresh(dir, a[dir], ds[dir], q)
  BY <1>1, <1>2, <1>3, <1>5
<1>7. /\ InVain(E, a, ds, q, NO_DIST, NO_NID)
      /\ \A bound : \A d \in Nat :
           LengthsBound(E, bound) /\ <<a["OUT"], a["IN"], d>> \in Distances(EdgesRead) =>
             TwoSearches(E, a, [type \in EdgeType |-> {}], ds, fb, q, NO_DIST, NO_NID, d, bound + bound)
  BY <1>6, FreshSearches
<1>8. InVain(Edges, ends', dists', pq', shortest_dist', center_node')
  BY <1>1, <1>2, <1>3, <1>5, <1>7
<1>9. ASSUME NEW bound, NEW d, LengthsBound(Edges, bound), d \in Nat,
             <<ends'["OUT"], ends'["IN"], d>> \in Distances(EdgesRead)
      PROVE  \E W : TwoSearches(Edges, ends', W, dists', found_by', pq', shortest_dist', center_node', d, bound + bound)
  <2>1. PICK W : W = [type \in EdgeType |-> {}]
    OBVIOUS
  <2>2. TwoSearches(E, a, W, ds, fb, q, NO_DIST, NO_NID, d, bound + bound)
    BY <1>2, <1>5, <1>7, <1>9, <2>1
  <2>3. TwoSearches(Edges, ends', W, dists', found_by', pq', shortest_dist', center_node', d, bound + bound)
    BY <1>1, <1>2, <1>3, <1>4, <1>5, <2>2
  <2> QED
    BY <2>3
<1>10. SearchingInv'
  BY <1>1, <1>8, <1>9, SearchingLater
<1> QED
  BY <1>1, <1>10, QueriesStay DEF WalkingInv, AnsweredInv

(* An iteration of the loop.                                               *)
LEMMA SearchKeepsQueries ==
  ASSUME QueriesInv, QueryInv, GraphStays, SearchStep
  PROVE  QueriesInv'
<1>1. task = "search" /\ task' = "search" /\ path' = path /\ ends' = ends
  BY DEF SearchStep
<1>2. /\ path = <<>>
      /\ NoWay => InVain(Edges, ends, dists, pq, shortest_dist, center_node)
      /\ \A bound, d : WayToFind(bound, d) =>
           \E W : TwoSearches(Edges, ends, W, dists, found_by, pq, shortest_dist, center_node, d, bound + bound)
  BY <1>1 DEF QueriesInv, SearchingInv
<1>3. NoWay => InVain(Edges, ends', dists', pq', shortest_dist', center_node')
  <2> SUFFICES ASSUME NoWay PROVE InVain(Edges, ends', dists', pq', shortest_dist', center_node')
    OBVIOUS
  <2>1. InVain(Edges, ends, dists', pq', shortest_dist', center_node')
    BY <1>2, SearchStepInVain
  <2> QED
    BY <1>1, <2>1
<1>4. ASSUME NEW bound, NEW d, LengthsBound(Edges, bound), d \in Nat,
             <<ends'["OUT"], ends'["IN"], d>> \in Distances(EdgesRead)
      PROVE  \E W : TwoSearches(Edges, ends', W, dists', found_by', pq', shortest_dist', center_node', d, bound + bound)
  <2>1. WayToFind(bound, d)
    BY <1>1, <1>4 DEF WayToFind
  <2>2. PICK W : TwoSearches(Edges, ends, W, dists, found_by, pq, shortest_dist, center_node, d, bound + bound)
    BY <1>2, <2>1
  <2>3. \E V : TwoSearches(Edges, ends, V, dists', found_by', pq', shortest_dist', center_node', d, bound + bound)
    BY <2>1, <2>2, SearchStepMeets
  <2> QED
    BY <1>1, <2>3
<1>5. SearchingInv'
  <2>1. (\A d \in Nat : <<ends'["OUT"], ends'["IN"], d>> \notin Distances(EdgesRead)) => NoWay
    BY <1>1 DEF NoWay
  <2> QED
    BY <1>1, <1>2, <1>3, <1>4, <2>1, SearchingLater
<1> QED
  BY <1>1, <1>5, QueriesStay DEF WalkingInv, AnsweredInv

(* What the walk back leaves alone.                                        *)
LabelsFixed == UNCHANGED <<ends, found_by, dists, shortest_dist, center_node>>

(* So what the searches found stays as it is.                              *)
LEMMA SameLabelsSameWay ==
  ASSUME GraphStays, LabelsFixed
  PROVE  /\ WayFound => WayFound'
         /\ NoWay => NoWay'
         /\ \A W, dir : SettledIn(W, dir) => SettledIn(W, dir)'
<1>1. Edges' = Edges /\ EdgesRead' = EdgesRead /\ UNCHANGED node_levels
  BY SameGraphSameWays
<1>2. UNCHANGED <<ends, found_by, dists, shortest_dist, center_node>>
  BY DEF LabelsFixed
<1>3. ASSUME WayFound PROVE WayFound'
  BY <1>1, <1>2, <1>3 DEF WayFound
<1>4. ASSUME NoWay PROVE NoWay'
  BY <1>1, <1>2, <1>4 DEF NoWay
<1>5. ASSUME NEW W, NEW dir, SettledIn(W, dir) PROVE SettledIn(W, dir)'
  <2>1. PICK G : G = Upward(Edges, dir)
    OBVIOUS
  <2>2. Upward(Edges, dir)' = G
    BY <1>1, <2>1 DEF Upward, IsUp
  <2>3. Settled(G, dir, ends[dir], W[dir], dists[dir], found_by[dir]) /\ center_node \in W[dir]
    BY <1>5, <2>1 DEF SettledIn
  <2>4. Settled(G, dir, ends'[dir], W[dir], dists'[dir], found_by'[dir]) /\ center_node' \in W[dir]
    BY <1>2, <2>3
  <2> QED
    BY <2>2, <2>4 DEF SettledIn
<1> QED
  BY <1>3, <1>4, <1>5

(* The legs that are walked stay as they are.                              *)
LEMMA SameGraphSameLegs ==
  ASSUME GraphStays, NEW p, NEW dir, NEW ds, NEW c, NEW a, NEW b
  PROVE  /\ Leg(p, dir, ds, c, a, b) => Leg(p, dir, ds, c, a, b)'
         /\ LegEnd(p, dir, c, a, b)' = LegEnd(p, dir, c, a, b)
<1>1. UNCHANGED <<out_edges, id_to_index>>
  BY DEF GraphStays
<1>2. ASSUME Leg(p, dir, ds, c, a, b) PROVE Leg(p, dir, ds, c, a, b)'
  BY <1>1, <1>2 DEF Leg, GetEdge, Edges
<1>3. LegEnd(p, dir, c, a, b)' = LegEnd(p, dir, c, a, b)
  BY <1>1 DEF LegEnd, GetEdge
<1> QED
  BY <1>2, <1>3

(* The search has ended: there is a way if and only if the searches met.   *)
LEMMA LoopEnds ==
  ASSUME QueriesInv, QueryInv, SearchEnded
  PROVE  \/ NoWay /\ center_node = NO_NID
         \/ /\ center_node \in Nodes /\ WayFound
            /\ \E W \in [EdgeType -> SUBSET Nodes] : \A dir \in EdgeType : SettledIn(W, dir)
<1>1. task = "search"
  BY DEF SearchEnded
<1>2. /\ NoWay => InVain(Edges, ends, dists, pq, shortest_dist, center_node)
      /\ \A bound, d : WayToFind(bound, d) =>
           \E W : TwoSearches(Edges, ends, W, dists, found_by, pq, shortest_dist, center_node, d, bound + bound)
  BY <1>1 DEF QueriesInv, SearchingInv
<1>3. CASE NoWay
  BY <1>2, <1>3 DEF InVain
<1>4. CASE ~NoWay
  <2>1. PICK d \in Nat : <<ends["OUT"], ends["IN"], d>> \in Distances(EdgesRead)
    BY <1>4 DEF NoWay
  <2>2. PICK bound : LengthsBound(Edges, bound)
    BY DEF QueriesInv
  <2>3. WayToFind(bound, d)
    BY <2>1, <2>2 DEF WayToFind
  <2>4. PICK W : TwoSearches(Edges, ends, W, dists, found_by, pq, shortest_dist, center_node, d, bound + bound)
    BY <1>2, <2>3
  <2>5. /\ shortest_dist = d /\ d < NO_DIST
        /\ center_node \in Nodes /\ center_node \in W["OUT"] /\ center_node \in W["IN"]
        /\ dists["OUT"][center_node] + dists["IN"][center_node] = d
    BY <2>3, <2>4, SearchFound
  <2>6. W \in [EdgeType -> SUBSET Nodes]
        /\ \A dir \in EdgeType : OneSearch(Edges, dir, ends[dir], W[dir], dists[dir], found_by[dir], pq, bound + bound)
    BY <2>4 DEF TwoSearches
  <2>7. ASSUME NEW dir \in EdgeType PROVE SettledIn(W, dir) /\ dists[dir][ends[dir]] = 0
    <3>1. OneSearch(Edges, dir, ends[dir], W[dir], dists[dir], found_by[dir], pq, bound + bound)
      BY <2>6
    <3>2. center_node \in W[dir]
      BY <2>5 DEF EdgeType
    <3>3. Settled(Upward(Edges, dir), dir, ends[dir], W[dir], dists[dir], found_by[dir])
      BY <3>1 DEF OneSearch
    <3>4. dists[dir][ends[dir]] = 0
      <4>1. PICK R : R = {e \in Upward(Edges, dir) : FromNode(e, dir) \in W[dir]}
        OBVIOUS
      <4>2. Frontier(Upward(Edges, dir), dir, ends[dir], W[dir], dists[dir], pq, R, bound + bound)
        BY <3>1, <4>1 DEF OneSearch
      <4> QED
        BY <4>2 DEF Frontier
    <3> QED
      BY <3>2, <3>3, <3>4 DEF SettledIn
  <2>8. dists["OUT"][ends["OUT"]] = 0 /\ dists["IN"][ends["IN"]] = 0
    BY <2>7 DEF EdgeType
  <2>9. WayFound
    BY <2>1, <2>5, <2>8 DEF WayFound
  <2> QED
    BY <2>5, <2>6, <2>7, <2>9
<1> QED
  BY <1>3, <1>4

(* The object gives up.                                                    *)
LEMMA NoPathKeepsQueries ==
  ASSUME QueriesInv, QueryInv, GraphStays, NoPathFound
  PROVE  QueriesInv'
<1>1. /\ SearchEnded /\ center_node = NO_NID /\ task' = "answered" /\ answer' = NO_DIST
      /\ LabelsFixed
  BY DEF NoPathFound, LabelsFixed
<1>2. NoWay
  BY <1>1, LoopEnds, NodesAreUint
<1>3. NoWay'
  BY <1>1, <1>2, SameLabelsSameWay
<1> QED
  BY <1>1, <1>3, QueriesStay DEF SearchingInv, WalkingInv, AnsweredInv

(* It starts to walk back.                                                 *)
LEMMA StartKeepsQueries ==
  ASSUME QueriesInv, QueryInv, GraphStays, StartBacktracking
  PROVE  QueriesInv'
<1>1. /\ SearchEnded /\ center_node # NO_NID /\ task' = "backtrack" /\ path' = path
      /\ bt_direction' = "OUT" /\ bt_node' = center_node /\ center_node' = center_node
      /\ LabelsFixed
  BY DEF StartBacktracking, LabelsFixed
<1>2. path = <<>>
  BY <1>1 DEF SearchEnded, QueriesInv, SearchingInv
<1>3. WayFound
  BY <1>1, LoopEnds
<1>4. PICK W \in [EdgeType -> SUBSET Nodes] : \A dir \in EdgeType : SettledIn(W, dir)
  BY <1>1, LoopEnds
<1>5. WayFound' /\ \A dir \in EdgeType : SettledIn(W, dir)'
  BY <1>1, <1>3, <1>4, SameLabelsSameWay
<1>6. "OUT" \in EdgeType /\ center_node \in W["OUT"]
  BY <1>4 DEF SettledIn, EdgeType
<1>7. Legs(0)' /\ Len(path') = 0 /\ bt_node' = SourceEnd(0)'
  <2>1. path' = <<>> /\ Len(path') = 0 /\ path' \in Seq(Uint)
    BY <1>1, <1>2
  <2>2. \A i \in Int : i \notin 1..0 /\ i \notin (0 + 1)..0
    OBVIOUS
  <2>3. Legs(0)'
    BY <2>1, <2>2 DEF Legs, Leg
  <2>4. SourceEnd(0)' = center_node'
    BY DEF SourceEnd, LegEnd
  <2> QED
    BY <1>1, <2>1, <2>3, <2>4
<1>8. (\E V \in [EdgeType -> SUBSET Nodes] :
         /\ \A dir \in EdgeType : SettledIn(V, dir)
         /\ bt_direction \in EdgeType /\ bt_node \in V[bt_direction])'
  BY <1>1, <1>5, <1>6
<1>9. (\E k \in Nat :
         /\ Legs(k)
         /\ bt_direction = "OUT" => k = Len(path) /\ bt_node = SourceEnd(k)
         /\ bt_direction = "IN" => ends["OUT"] = SourceEnd(k) /\ bt_node = TargetEnd(k))'
  <2>1. 0 \in Nat /\ bt_direction' # "IN"
    BY <1>1
  <2> QED
    BY <1>7, <2>1
<1>10. WalkingInv'
  BY <1>5, <1>8, <1>9 DEF WalkingInv
<1> QED
  BY <1>1, <1>10, QueriesStay DEF SearchingInv, AnsweredInv

(* It turns to the other direction.                                        *)
LEMMA TurnKeepsQueries ==
  ASSUME QueriesInv, GraphStays, OtherDirection
  PROVE  QueriesInv'
<1>1. /\ task = "backtrack" /\ task' = "backtrack" /\ bt_node = ends["OUT"] /\ bt_direction = "OUT"
      /\ bt_direction' = "IN" /\ bt_node' = center_node /\ path' = path /\ UNCHANGED <<center_node, dists, ends>>
      /\ LabelsFixed
  BY DEF OtherDirection, LabelsFixed
<1>2. WalkingInv
  BY DEF QueriesInv
<1>3. PICK W \in [EdgeType -> SUBSET Nodes] : \A dir \in EdgeType : SettledIn(W, dir)
  BY <1>1, <1>2 DEF WalkingInv
<1>4. PICK k \in Nat : Legs(k) /\ k = Len(path) /\ bt_node = SourceEnd(k)
  BY <1>1, <1>2 DEF WalkingInv
<1>5. WayFound' /\ \A dir \in EdgeType : SettledIn(W, dir)'
  BY <1>1, <1>2, <1>3, SameLabelsSameWay DEF WalkingInv
<1>6. "IN" \in EdgeType /\ center_node \in W["IN"]
  BY <1>3 DEF SettledIn, EdgeType
<1>7. Legs(k)' /\ ends'["OUT"] = SourceEnd(k)' /\ bt_node' = TargetEnd(k)'
  <2>1. Legs(k)' /\ SourceEnd(k)' = SourceEnd(k)
    BY <1>1, <1>4, SameGraphSameLegs DEF Legs, SourceEnd
  <2>2. Len(path') < k + 1
    BY <1>1, <1>4
  <2>3. TargetEnd(k)' = center_node'
    BY <2>2 DEF TargetEnd, LegEnd
  <2> QED
    BY <1>1, <1>4, <2>1, <2>3
<1>8. (\E V \in [EdgeType -> SUBSET Nodes] :
         /\ \A dir \in EdgeType : SettledIn(V, dir)
         /\ bt_direction \in EdgeType /\ bt_node \in V[bt_direction])'
  BY <1>1, <1>5, <1>6
<1>9. (\E j \in Nat :
         /\ Legs(j)
         /\ bt_direction = "OUT" => j = Len(path) /\ bt_node = SourceEnd(j)
         /\ bt_direction = "IN" => ends["OUT"] = SourceEnd(j) /\ bt_node = TargetEnd(j))'
  <2>1. bt_direction' # "OUT"
    BY <1>1
  <2> QED
    BY <1>7, <2>1
<1>10. WalkingInv'
  BY <1>5, <1>8, <1>9 DEF WalkingInv
<1> QED
  BY <1>1, <1>10, QueriesStay DEF SearchingInv, AnsweredInv

(* It has arrived at both ends.                                            *)
LEMMA FoundKeepsQueries ==
  ASSUME QueriesInv, GraphStays, PathFound
  PROVE  QueriesInv'
<1>1. /\ task = "backtrack" /\ task' = "answered" /\ bt_node = ends["IN"] /\ bt_direction = "IN"
      /\ answer' = shortest_dist /\ shortest_dist' = shortest_dist /\ path' = path /\ UNCHANGED <<center_node, dists, ends>>
      /\ LabelsFixed
  BY DEF PathFound, LabelsFixed
<1>2. WalkingInv
  BY DEF QueriesInv
<1>3. PICK k \in Nat : Legs(k) /\ ends["OUT"] = SourceEnd(k) /\ bt_node = TargetEnd(k)
  BY <1>1, <1>2 DEF WalkingInv
<1>4. WayFound'
  BY <1>1, <1>2, SameLabelsSameWay DEF WalkingInv
<1>5. Legs(k)' /\ ends'["OUT"] = SourceEnd(k)' /\ ends'["IN"] = TargetEnd(k)'
  BY <1>1, <1>3, SameGraphSameLegs DEF Legs, SourceEnd, TargetEnd
<1> QED
  BY <1>1, <1>4, <1>5, QueriesStay DEF SearchingInv, WalkingInv, AnsweredInv

(* One edge further back.                                                  *)
LEMMA BacktrackKeepsQueries ==
  ASSUME QueriesInv, QueryVarTypes, EdgesFoundById, GraphStays, Backtrack
  PROVE  QueriesInv'
<1>1. /\ task = "backtrack" /\ task' = "backtrack" /\ bt_node # ends[bt_direction]
      /\ bt_node' = OtherNode(GetEdge(found_by[bt_direction][bt_node]), Opposite(bt_direction))
      /\ path' = Append(path, found_by[bt_direction][bt_node])
      /\ UNCHANGED <<bt_direction, center_node, dists, ends>> /\ LabelsFixed
  BY DEF Backtrack, LabelsFixed
<1>2. WalkingInv /\ ~is_dirty /\ found_by \in [EdgeType -> [Nodes -> Uint]]
  BY DEF QueriesInv, QueryVarTypes
<1>3. PICK W \in [EdgeType -> SUBSET Nodes] :
        /\ \A dir \in EdgeType : SettledIn(W, dir)
        /\ bt_direction \in EdgeType /\ bt_node \in W[bt_direction]
  BY <1>1, <1>2 DEF WalkingInv
<1>4. PICK k \in Nat :
        /\ Legs(k)
        /\ bt_direction = "OUT" => k = Len(path) /\ bt_node = SourceEnd(k)
        /\ bt_direction = "IN" => ends["OUT"] = SourceEnd(k) /\ bt_node = TargetEnd(k)
  BY <1>1, <1>2 DEF WalkingInv
<1>5. WayFound' /\ \A dir \in EdgeType : SettledIn(W, dir)'
  BY <1>1, <1>2, <1>3, SameLabelsSameWay DEF WalkingInv
<1>6. PICK dir \in EdgeType : dir = bt_direction
  BY <1>3
<1>7. PICK n \in Nodes : n = bt_node
  BY <1>3
<1>8. PICK ds : ds = dists[dir]
  OBVIOUS
<1>9. PICK fb \in [Nodes -> Uint] : fb = found_by[dir]
  BY <1>2
<1>10. PICK V, a : V = W[dir] /\ a = ends[dir]
  OBVIOUS
<1>11. PICK e \in Edges :
         /\ GetEdge(fb[n]) = e /\ fb[n] \in Uint /\ OtherNode(e, dir) = n /\ FromNode(e, dir) \in V
         /\ ds[FromNode(e, dir)] + e.dist = ds[OtherNode(e, dir)]
  <2>1. Settled(Upward(Edges, dir), dir, a, V, ds, fb)
    BY <1>3, <1>8, <1>9, <1>10 DEF SettledIn
  <2>2. n \in V /\ n # a
    BY <1>1, <1>3, <1>6, <1>7, <1>10
  <2> QED
    BY <1>2, <2>1, <2>2, EdgeBack
<1>12. PICK id \in Uint : id = fb[n]
  BY <1>11
<1>13. path' = Append(path, id) /\ bt_node' = FromNode(e, dir) /\ bt_node' \in W[dir]
  <2>1. id = found_by[bt_direction][bt_node]
    BY <1>6, <1>7, <1>9, <1>12
  <2>2. GetEdge(found_by[bt_direction][bt_node]) = e
    BY <1>11, <1>12, <2>1
  <2> QED
    BY <1>1, <1>6, <1>10, <1>11, <2>1, <2>2 DEF FromNode
<1>14. /\ path \in Seq(Uint) /\ k \in 0..Len(path) /\ Len(path) \in Nat
       /\ Leg(path, "OUT", dists["OUT"], center_node, 1, k)
       /\ Leg(path, "IN", dists["IN"], center_node, k + 1, Len(path))
  BY <1>4 DEF Legs
<1>15. Append(path, id) \in Seq(Uint) /\ Len(Append(path, id)) = Len(path) + 1
  BY <1>14
<1>16. \E j \in Nat :
         /\ Leg(path', "OUT", dists["OUT"], center_node, 1, j) /\ j \in 0..Len(path')
         /\ Leg(path', "IN", dists["IN"], center_node, j + 1, Len(path'))
         /\ dir = "OUT" => j = Len(path') /\ bt_node' = LegEnd(path', "OUT", center_node, 1, j)
         /\ dir = "IN" => /\ ends["OUT"] = LegEnd(path', "OUT", center_node, 1, j)
                          /\ bt_node' = LegEnd(path', "IN", center_node, j + 1, Len(path'))
  <2>1. CASE dir = "OUT"
    <3>1. k = Len(path) /\ n = LegEnd(path, "OUT", center_node, 1, Len(path))
      BY <1>4, <1>6, <1>7, <2>1 DEF SourceEnd
    <3>2. /\ Leg(Append(path, id), "OUT", ds, center_node, 1, Len(path) + 1)
          /\ LegEnd(Append(path, id), "OUT", center_node, 1, Len(path) + 1) = FromNode(e, "OUT")
      <4>1. /\ Leg(path, "OUT", ds, center_node, 1, Len(path)) /\ GetEdge(id) = e
            /\ OtherNode(e, "OUT") = LegEnd(path, "OUT", center_node, 1, Len(path))
            /\ ds[FromNode(e, "OUT")] + e.dist = ds[OtherNode(e, "OUT")]
        BY <1>8, <1>11, <1>12, <1>14, <2>1, <3>1
      <4>2. 1 \in Nat \ {0} /\ 1 <= Len(path) + 1
        BY <1>14
      <4> QED
        BY <1>14, <4>1, <4>2, LegGrows
    <3>3. Leg(path', "IN", dists["IN"], center_node, (Len(path) + 1) + 1, Len(path) + 1)
      <4>1. \A i : i \notin ((Len(path) + 1) + 1)..(Len(path) + 1)
        BY <1>14
      <4> QED
        BY <4>1 DEF Leg
    <3>4. Len(path) + 1 \in Nat /\ Len(path') = Len(path) + 1 /\ Len(path) + 1 \in 0..Len(path')
      BY <1>13, <1>14, <1>15
    <3> QED
      BY <1>8, <1>13, <2>1, <3>2, <3>3, <3>4
  <2>2. CASE dir = "IN"
    <3>1. ends["OUT"] = LegEnd(path, "OUT", center_node, 1, k) /\ n = LegEnd(path, "IN", center_node, k + 1, Len(path))
      BY <1>4, <1>6, <1>7, <2>2 DEF SourceEnd, TargetEnd
    <3>2. /\ Leg(Append(path, id), "OUT", dists["OUT"], center_node, 1, k)
          /\ LegEnd(Append(path, id), "OUT", center_node, 1, k) = LegEnd(path, "OUT", center_node, 1, k)
      <4>1. 1 \in Nat \ {0}
        OBVIOUS
      <4> QED
        BY <1>14, <4>1, LegStays
    <3>3. /\ Leg(Append(path, id), "IN", ds, center_node, k + 1, Len(path) + 1)
          /\ LegEnd(Append(path, id), "IN", center_node, k + 1, Len(path) + 1) = FromNode(e, "IN")
      <4>1. /\ Leg(path, "IN", ds, center_node, k + 1, Len(path)) /\ GetEdge(id) = e
            /\ OtherNode(e, "IN") = LegEnd(path, "IN", center_node, k + 1, Len(path))
            /\ ds[FromNode(e, "IN")] + e.dist = ds[OtherNode(e, "IN")]
        BY <1>8, <1>11, <1>12, <1>14, <2>2, <3>1
      <4>2. k + 1 \in Nat \ {0} /\ k + 1 <= Len(path) + 1
        BY <1>14
      <4> QED
        BY <1>14, <4>1, <4>2, LegGrows
    <3>4. Len(path') = Len(path) + 1 /\ k \in 0..Len(path')
      BY <1>13, <1>14, <1>15
    <3> QED
      BY <1>8, <1>13, <2>2, <3>1, <3>2, <3>3, <3>4
  <2> QED
    BY <2>1, <2>2 DEF EdgeType
<1>17. PICK j \in Nat :
         /\ Leg(path', "OUT", dists["OUT"], center_node, 1, j) /\ j \in 0..Len(path')
         /\ Leg(path', "IN", dists["IN"], center_node, j + 1, Len(path'))
         /\ dir = "OUT" => j = Len(path') /\ bt_node' = LegEnd(path', "OUT", center_node, 1, j)
         /\ dir = "IN" => /\ ends["OUT"] = LegEnd(path', "OUT", center_node, 1, j)
                          /\ bt_node' = LegEnd(path', "IN", center_node, j + 1, Len(path'))
  BY <1>16
<1>18. PICK p, c, dd : p = path' /\ c = center_node /\ dd = dists
  OBVIOUS
<1>19. p \in Seq(Uint) /\ c = center_node' /\ dd = dists'
  BY <1>1, <1>13, <1>15, <1>18
<1>20. Legs(j)'
  <2>1. Leg(p, "OUT", dd["OUT"], c, 1, j)' /\ Leg(p, "IN", dd["IN"], c, j + 1, Len(p))'
    BY <1>17, <1>18, SameGraphSameLegs
  <2> QED
    BY <1>17, <1>18, <1>19, <2>1 DEF Legs
<1>21. /\ dir = "OUT" => j = Len(path') /\ bt_node' = SourceEnd(j)'
       /\ dir = "IN" => ends'["OUT"] = SourceEnd(j)' /\ bt_node' = TargetEnd(j)'
  <2>1. /\ LegEnd(p, "OUT", c, 1, j)' = LegEnd(p, "OUT", c, 1, j)
        /\ LegEnd(p, "IN", c, j + 1, Len(p))' = LegEnd(p, "IN", c, j + 1, Len(p))
    BY SameGraphSameLegs
  <2> QED
    BY <1>1, <1>17, <1>18, <1>19, <2>1 DEF SourceEnd, TargetEnd
<1>22. (\E i \in Nat :
         /\ Legs(i)
         /\ bt_direction = "OUT" => i = Len(path) /\ bt_node = SourceEnd(i)
         /\ bt_direction = "IN" => ends["OUT"] = SourceEnd(i) /\ bt_node = TargetEnd(i))'
  BY <1>1, <1>6, <1>20, <1>21
<1>23. (\E X \in [EdgeType -> SUBSET Nodes] :
         /\ \A type \in EdgeType : SettledIn(X, type)
         /\ bt_direction \in EdgeType /\ bt_node \in X[bt_direction])'
  BY <1>1, <1>5, <1>6, <1>13
<1>24. WalkingInv'
  BY <1>5, <1>22, <1>23 DEF WalkingInv
<1> QED
  BY <1>1, <1>24, QueriesStay DEF SearchingInv, AnsweredInv

(* Nothing happens.                                                        *)
LEMMA StutterKeepsQueries ==
  ASSUME QueriesInv, GraphStays, LabelsFixed, UNCHANGED <<task, pq, bt_direction, bt_node, path, answer>>
  PROVE  QueriesInv'
<1>1. /\ task' = task /\ pq' = pq /\ bt_direction' = bt_direction /\ bt_node' = bt_node /\ path' = path
      /\ answer' = answer
      /\ UNCHANGED <<ends, found_by, dists, shortest_dist, center_node>>
  BY DEF LabelsFixed
<1>2. /\ WayFound => WayFound'
      /\ NoWay => NoWay'
      /\ \A W, dir : SettledIn(W, dir) => SettledIn(W, dir)'
  BY SameLabelsSameWay
<1>3. \A k : Legs(k) => Legs(k)' /\ SourceEnd(k)' = SourceEnd(k) /\ TargetEnd(k)' = TargetEnd(k)
  BY <1>1, SameGraphSameLegs DEF Legs, SourceEnd, TargetEnd
<1>4. SearchingInv'
  <2>1. CASE task = "search"
    <3>1. /\ path = <<>>
          /\ NoWay => InVain(Edges, ends, dists, pq, shortest_dist, center_node)
          /\ \A bound, d : WayToFind(bound, d) =>
               \E W : TwoSearches(Edges, ends, W, dists, found_by, pq, shortest_dist, center_node, d, bound + bound)
      BY <2>1 DEF QueriesInv, SearchingInv
    <3>2. ASSUME NEW bound, NEW d, LengthsBound(Edges, bound), d \in Nat,
                 <<ends'["OUT"], ends'["IN"], d>> \in Distances(EdgesRead)
          PROVE  \E W : TwoSearches(Edges, ends', W, dists', found_by', pq', shortest_dist', center_node', d, bound + bound)
      <4>1. WayToFind(bound, d)
        BY <1>1, <3>2 DEF WayToFind
      <4> QED
        BY <1>1, <3>1, <4>1
    <3>3. (\A d \in Nat : <<ends'["OUT"], ends'["IN"], d>> \notin Distances(EdgesRead))
            => InVain(Edges, ends', dists', pq', shortest_dist', center_node')
      BY <1>1, <3>1 DEF NoWay
    <3> QED
      BY <1>1, <3>1, <3>2, <3>3, SearchingLater
  <2>2. CASE task # "search"
    BY <1>1, <2>2 DEF SearchingInv
  <2> QED
    BY <2>1, <2>2
<1>5. WalkingInv'
  <2>1. CASE task = "backtrack"
    <3>1. WalkingInv
      BY DEF QueriesInv
    <3>2. PICK W \in [EdgeType -> SUBSET Nodes] :
            /\ \A dir \in EdgeType : SettledIn(W, dir)
            /\ bt_direction \in EdgeType /\ bt_node \in W[bt_direction]
      BY <2>1, <3>1 DEF WalkingInv
    <3>3. PICK k \in Nat :
            /\ Legs(k)
            /\ bt_direction = "OUT" => k = Len(path) /\ bt_node = SourceEnd(k)
            /\ bt_direction = "IN" => ends["OUT"] = SourceEnd(k) /\ bt_node = TargetEnd(k)
      BY <2>1, <3>1 DEF WalkingInv
    <3>4. (\E X \in [EdgeType -> SUBSET Nodes] :
             /\ \A type \in EdgeType : SettledIn(X, type)
             /\ bt_direction \in EdgeType /\ bt_node \in X[bt_direction])'
      BY <1>1, <1>2, <3>2
    <3>5. (\E i \in Nat :
             /\ Legs(i)
             /\ bt_direction = "OUT" => i = Len(path) /\ bt_node = SourceEnd(i)
             /\ bt_direction = "IN" => ends["OUT"] = SourceEnd(i) /\ bt_node = TargetEnd(i))'
      BY <1>1, <1>3, <3>3
    <3> QED
      BY <1>2, <2>1, <3>1, <3>4, <3>5 DEF WalkingInv
  <2>2. CASE task # "backtrack"
    BY <1>1, <2>2 DEF WalkingInv
  <2> QED
    BY <2>1, <2>2
<1>6. AnsweredInv'
  BY <1>1, <1>2, <1>3 DEF QueriesInv, AnsweredInv
<1> QED
  BY <1>4, <1>5, <1>6, QueriesStay

(* rebuildCompleteGraph() hands over a graph whose lengths fit.            *)
LEMMA RebuildKeepsQueries ==
  ASSUME QueriesFit, FileInv, Rebuild, task = "none"
  PROVE  QueriesInv'
<1>1. /\ phase = "contracted" /\ RebuildCompleteGraph /\ ConstructionInv /\ DistanceInv /\ UNCHANGED task
  BY DEF FileInv, PipelineInv, Rebuild, query_vars
<1>2. Edges' = edges_dump /\ UNCHANGED input_edges
  BY <1>1, RebuildKeeps DEF RebuildCompleteGraph
<1>3. ~is_dirty'
  BY <1>1 DEF RebuildCompleteGraph, Update
<1>4. PICK bound \in [0..QuickMaxRounds -> Uint] : BoundsLengths(bound, EdgesRead) /\ LengthsWithin(bound)
  BY <1>1 DEF DistanceInv, Bounded
<1>5. PICK last : last = bound[QuickMaxRounds]
  OBVIOUS
<1>6. last \in Nat /\ 3 * last < NO_DIST
  <2>1. last \in Uint
    BY <1>4, <1>5, QuickAssumption
  <2>2. last \in Nat
    BY <2>1, NodesAreUint
  <2> QED
    BY <1>4, <1>5, <2>2 DEF LengthsWithin
<1>7. \A e \in edges_dump : e.dist <= last
  BY <1>4, <1>5 DEF LengthsWithin
<1>8. \A u, v \in Nodes : \A d \in Nat : <<u, v, d>> \in Distances(EdgesRead) => d <= last
  <2>1. \A t \in Distances(EdgesRead) : t[3] <= last
    BY <1>4, <1>5 DEF BoundsLengths
  <2> QED
    BY <2>1
<1>9. LengthsBound(Edges, last)'
  <2>1. EdgesRead' = EdgesRead
    BY <1>2 DEF EdgesRead
  <2> QED
    BY <1>2, <1>6, <1>7, <1>8, <2>1 DEF LengthsBound
<1>10. (\E b : LengthsBound(Edges, b))'
  BY <1>9
<1> QED
  BY <1>1, <1>3, <1>10 DEF QueriesInv, SearchingInv, WalkingInv, AnsweredInv

(* Initially.                                                              *)
LEMMA InitAnswers ==
  ASSUME QueriesFit
  PROVE  PipelineInit => AnswersInv
<1> SUFFICES ASSUME PipelineInit PROVE AnswersInv
  OBVIOUS
<1>1. LengthsFit
  BY DEF QueriesFit, LengthsFit
<1>2. FileInv
  BY <1>1, InitFile
<1>3. stage = "construct" /\ task = "none"
  BY DEF PipelineInit, QueryInit
<1>4. QueryVarTypes
  <2>1. 0 \in Uint
    BY SizeAssumption DEF Uint
  <2> QED
    BY <1>3, <2>1, NoValueTypes DEF QueryVarTypes, PipelineInit, QueryInit
<1> QED
  BY <1>2, <1>3, <1>4 DEF AnswersInv

(* The variables of the query keep their types.                            *)
LEMMA QueryTypesStay ==
  ASSUME AnswersInv, [PipelineNext]_pipeline_vars
  PROVE  QueryVarTypes'
<1>1. FileInv /\ QueryVarTypes
  BY DEF AnswersInv
<1>2. CASE UNCHANGED query_vars
  BY <1>1, <1>2 DEF QueryVarTypes, query_vars
<1>3. CASE AskQuery
  <2>1. PICK src, tgt \in Nodes : CalcShopa(src, tgt)
    BY <1>3 DEF AskQuery
  <2>2. LabelsInv
    BY <1>1 DEF FileInv, PipelineInv
  <2>3. ends' \in [EdgeType -> Nodes] /\ shortest_dist' = NO_DIST /\ UNCHANGED found_by
    BY <2>1, <2>2, CalcShopaFresh
  <2>4. UNCHANGED answer
    BY <2>1 DEF CalcShopa
  <2> QED
    BY <1>1, <2>3, <2>4, NoValueTypes DEF QueryVarTypes
<1>4. CASE SearchStep /\ UNCHANGED <<vars, vector_vars, usage_vars>>
  <2>1. stage = "query" /\ task = "search" /\ task' = "search" /\ UNCHANGED <<ends, answer>>
    BY <1>1, <1>4 DEF SearchStep, FileInv, PipelineInv, LabelsInv
  <2>2. QueryInv
    BY <1>1, <2>1 DEF FileInv, PipelineInv, LabelsInv, QueryInv, SearchTypes, QueryVarTypes
  <2>3. found_by' \in [EdgeType -> [Nodes -> Uint]] /\ shortest_dist' \in Uint
    BY <1>4, <2>2, SearchStepTypes DEF SearchTypes
  <2> QED
    BY <1>1, <2>1, <2>3 DEF QueryVarTypes
<1>5. CASE NoPathFound \/ StartBacktracking \/ Backtrack \/ OtherDirection \/ PathFound
  <2>1. /\ UNCHANGED <<found_by, shortest_dist, ends>> /\ task \in {"search", "backtrack"}
        /\ answer' \in {answer, NO_DIST, shortest_dist}
    BY <1>5 DEF NoPathFound, StartBacktracking, Backtrack, OtherDirection, PathFound, SearchEnded
  <2>2. ends \in [EdgeType -> Nodes]
    BY <1>1, <2>1 DEF QueryVarTypes
  <2>3. answer' \in Uint
    BY <1>1, <2>1, NoValueTypes DEF QueryVarTypes
  <2> QED
    BY <1>1, <2>1, <2>2, <2>3 DEF QueryVarTypes
<1> QED
  BY <1>2, <1>3, <1>4, <1>5
  DEF PipelineNext, Construct, Rebuild, Answer, AnswerQuery, Export, Write, Done, pipeline_vars

(* Every step keeps the invariant of the queries.                          *)
LEMMA NextKeepsAnswers ==
  ASSUME QueriesFit, AnswersInv, [PipelineNext]_pipeline_vars
  PROVE  AnswersInv'
<1>1. /\ FileInv /\ QueryVarTypes /\ (stage = "construct" => task = "none")
      /\ (stage = "query" => QueriesInv)
  BY DEF AnswersInv
<1>2. FileInv' /\ QueryVarTypes'
  BY <1>1, NextKeepsFile, QueryTypesStay
<1>3. CASE Construct
  <2>1. stage' = "construct" /\ task' = "none"
    BY <1>1, <1>3 DEF Construct, usage_vars, query_vars
  <2> QED
    BY <1>2, <2>1 DEF AnswersInv
<1>4. CASE Rebuild
  <2>1. stage = "construct" /\ stage' = "query"
    BY <1>4 DEF Rebuild
  <2>2. QueriesInv'
    BY <1>1, <1>4, <2>1, RebuildKeepsQueries
  <2> QED
    BY <1>2, <2>1, <2>2 DEF AnswersInv
<1>5. CASE AskQuery
  <2>1. stage = "query" /\ stage' = "query" /\ UNCHANGED <<vars, vector_vars>>
    BY <1>5 DEF AskQuery
  <2>2. GraphStays
    BY <2>1 DEF GraphStays, vars, graph_vars, vector_vars
  <2>3. QueriesInv /\ LabelsInv /\ Complete(Edges)
    BY <1>1, <2>1 DEF FileInv, PipelineInv
  <2>4. QueriesInv'
    BY <1>5, <2>2, <2>3, AskKeepsQueries DEF AskQuery
  <2> QED
    BY <1>2, <2>1, <2>4 DEF AnswersInv
<1>6. CASE Answer
  <2>1. UNCHANGED <<vars, vector_vars, stage>> /\ AnswerQuery
    BY <1>6 DEF Answer, usage_vars
  <2>2. GraphStays
    BY <2>1 DEF GraphStays, vars, graph_vars, vector_vars
  <2>3. task \in {"search", "backtrack"}
    BY <2>1 DEF AnswerQuery, SearchStep, NoPathFound, SearchEnded, StartBacktracking, Backtrack, OtherDirection,
         PathFound
  <2>4. stage = "query"
    BY <1>1, <2>3 DEF FileInv, PipelineInv, LabelsInv
  <2>5. QueriesInv /\ EdgesFoundById
    BY <1>1, <2>4 DEF FileInv, PipelineInv
  <2>6. QueryInv
    BY <1>1, <2>3, <2>4 DEF FileInv, PipelineInv, LabelsInv, QueryInv, SearchTypes, QueryVarTypes
  <2>7. QueriesInv'
    BY <1>1, <2>1, <2>2, <2>5, <2>6, SearchKeepsQueries, NoPathKeepsQueries, StartKeepsQueries,
       BacktrackKeepsQueries, TurnKeepsQueries, FoundKeepsQueries DEF AnswerQuery
  <2> QED
    BY <1>2, <2>1, <2>4, <2>7 DEF AnswersInv
<1>7. CASE Export \/ Write
  <2>1. stage' \in {"exported", "written"}
    BY <1>7 DEF Export, Write
  <2> QED
    BY <1>2, <2>1 DEF AnswersInv
<1>8. CASE UNCHANGED pipeline_vars
  <2>1. UNCHANGED <<vars, vector_vars, query_vars, stage>>
    BY <1>8 DEF pipeline_vars, usage_vars
  <2>2. GraphStays /\ LabelsFixed /\ UNCHANGED <<task, pq, bt_direction, bt_node, path, answer>>
    BY <2>1 DEF GraphStays, LabelsFixed, vars, graph_vars, vector_vars, query_vars
  <2>3. QueriesInv => QueriesInv'
    BY <2>2, StutterKeepsQueries
  <2> QED
    BY <1>1, <1>2, <2>1, <2>2, <2>3 DEF AnswersInv
<1> QED
  BY <1>3, <1>4, <1>5, <1>6, <1>7, <1>8 DEF PipelineNext, Done

-----------------------------------------------------------------------------
(* The path that was walked back.                                          *)

(* A height that grows by the lengths of the edges.                        *)
Heights(w, n, h) ==
  /\ DOMAIN w = 1..n /\ Len(w) = n /\ h[0] = 0
  /\ \A k \in 1..n : w[k].dist \in Nat /\ h[k] = h[k - 1] + w[k].dist

(* Heights add up to the length of the way.                                *)
LEMMA LengthByHeights ==
  ASSUME NEW w, NEW n \in Nat, NEW h, Heights(w, n, h)
  PROVE  LengthOf(w) = h[n]
<1>0. /\ DOMAIN w = 1..n /\ Len(w) = n /\ h[0] = 0
      /\ (\A k \in 1..n : w[k].dist \in Nat) /\ \A k \in 1..n : h[k] = h[k - 1] + w[k].dist
  BY DEF Heights
<1> USE <1>0
<1>1. PICK sum \in [0..n -> Nat] :
        /\ sum[0] = 0 /\ sum[n] = LengthOf(w)
        /\ \A k \in 1..n : sum[k] = sum[k - 1] + w[k].dist
  BY SumOneByOne
<1> DEFINE S == {k \in Nat : k <= n => sum[k] = h[k]}
<1>2. 0 \in S
  BY <1>1
<1>3. ASSUME NEW k \in Nat, k \in S PROVE k + 1 \in S
  <2> SUFFICES ASSUME k + 1 <= n PROVE sum[k + 1] = h[k + 1]
    OBVIOUS
  <2>1. k + 1 \in 1..n /\ (k + 1) - 1 = k /\ k <= n
    OBVIOUS
  <2>2. sum[k + 1] = sum[k] + w[k + 1].dist /\ h[k + 1] = h[k] + w[k + 1].dist
    BY <1>1, <2>1
  <2> QED
    BY <1>3, <2>1, <2>2
<1> HIDE DEF S
<1>4. Nat \subseteq S
  BY <1>2, <1>3, NatSetInduction
<1>5. sum[n] = h[n]
  BY <1>4 DEF S
<1> QED
  BY <1>1, <1>5

(* Edges that join one node to the next.                                   *)
LEMMA LeadsByNodes ==
  ASSUME NEW w, NEW n \in Nat, Len(w) = n, w = <<>> <=> n = 0, NEW node,
         \A i \in 1..n : w[i].src = node[i - 1] /\ w[i].tgt = node[i]
  PROVE  Leads(w, node[0], node[n])
<1>1. ASSUME NEW i \in 1..(n - 1) PROVE w[i].tgt = w[i + 1].src
  <2>1. i \in 1..n /\ i + 1 \in 1..n /\ (i + 1) - 1 = i
    OBVIOUS
  <2>2. w[i].tgt = node[i] /\ w[i + 1].src = node[(i + 1) - 1]
    BY <2>1
  <2> QED
    BY <2>1, <2>2
<1>2. CASE n = 0
  BY <1>1, <1>2 DEF Leads
<1>3. CASE n # 0
  <2>1. 1 \in 1..n /\ n \in 1..n /\ 1 - 1 = 0
    BY <1>3
  <2>2. w[1].src = node[0] /\ w[n].tgt = node[n]
    BY <2>1
  <2> QED
    BY <1>1, <1>3, <2>2 DEF Leads
<1> QED
  BY <1>2, <1>3

(* The ids of the path in the order of the walk: those of the first search *)
(* backwards, then those of the second.                                    *)
WalkIds(p, k) == Reverse(SubSeq(p, 1, k)) \o SubSeq(p, k + 1, Len(p))

(* The ids at each position of the walk.                                   *)
LEMMA WalkIdsAt ==
  ASSUME NEW p \in Seq(Uint), NEW k \in 0..Len(p)
  PROVE  /\ DOMAIN WalkIds(p, k) = 1..Len(p)
         /\ \A i \in 1..k : WalkIds(p, k)[i] = p[(k - i) + 1]
         /\ \A i \in (k + 1)..Len(p) : WalkIds(p, k)[i] = p[i]
<1> DEFINE n == Len(p)
           f == SubSeq(p, 1, k)
           r == Reverse(f)
           l == SubSeq(p, k + 1, n)
<1>1. n \in Nat /\ k \in Nat /\ k <= n
  OBVIOUS
<1>2. f \in Seq(Uint) /\ Len(f) = k /\ \A i \in 1..k : f[i] = p[i]
  OBVIOUS
<1>3. l \in Seq(Uint) /\ Len(l) = n - k /\ \A i \in 1..(n - k) : l[i] = p[k + i]
  OBVIOUS
<1> HIDE DEF f, l
<1>4. r \in Seq(Uint) /\ Len(r) = k /\ \A i \in 1..k : r[i] = f[(k - i) + 1]
  <2>1. r = [i \in 1..k |-> f[(k - i) + 1]]
    BY <1>2 DEF Reverse
  <2>2. \A i \in 1..k : (k - i) + 1 \in 1..k
    BY <1>1
  <2>3. \A i \in 1..k : f[(k - i) + 1] \in Uint
    BY <1>2, <2>2
  <2> HIDE DEF r
  <2>4. r \in [1..k -> Uint]
    BY <2>1, <2>3
  <2> QED
    BY <1>1, <2>1, <2>4
<1> HIDE DEF r, n
<1>5. r \o l \in Seq(Uint) /\ Len(r \o l) = n
  <2>1. r \o l \in Seq(Uint) /\ Len(r \o l) = Len(r) + Len(l)
    BY <1>3, <1>4, ConcatProperties
  <2>2. k + (n - k) = n
    BY <1>1
  <2> QED
    BY <1>3, <1>4, <2>1, <2>2
<1>6. \A i \in 1..k : (r \o l)[i] = r[i]
  BY <1>3, <1>4
<1>7. \A i \in (k + 1)..n : (r \o l)[i] = l[i - k]
  <2> SUFFICES ASSUME NEW i \in (k + 1)..n PROVE (r \o l)[i] = l[i - k]
    OBVIOUS
  <2>3. i \in (k + 1)..(k + (n - k)) /\ i \in Nat
    BY <1>1
  <2>1. i \in (Len(r) + 1)..(Len(r) + Len(l)) /\ i \in Nat
    BY <1>3, <1>4, <2>3
  <2>2. (r \o l)[i] = l[i - Len(r)]
    BY <1>3, <1>4, <2>1
  <2> QED
    BY <1>4, <2>2
<1>8. WalkIds(p, k) = r \o l
  BY DEF WalkIds, r, l, f, n
<1>9. \A i \in 1..k : (r \o l)[i] = p[(k - i) + 1]
  <2> SUFFICES ASSUME NEW i \in 1..k PROVE (r \o l)[i] = p[(k - i) + 1]
    OBVIOUS
  <2>1. (k - i) + 1 \in 1..k
    BY <1>1
  <2> QED
    BY <1>2, <1>4, <1>6, <2>1
<1>10. \A i \in (k + 1)..n : (r \o l)[i] = p[i]
  <2> SUFFICES ASSUME NEW i \in (k + 1)..n PROVE (r \o l)[i] = p[i]
    OBVIOUS
  <2>1. i - k \in 1..(n - k) /\ k + (i - k) = i
    BY <1>1
  <2> QED
    BY <1>3, <1>7, <2>1
<1>11. DOMAIN (r \o l) = 1..n
  BY <1>1, <1>5
<1> QED
  BY <1>8, <1>9, <1>10, <1>11 DEF n

(* What the edges of the legs say of their ends.                           *)
LEMMA OutLegEdges ==
  ASSUME NEW p, NEW ds, NEW c, NEW k \in Nat, Leg(p, "OUT", ds, c, 1, k), NEW i \in 1..k
  PROVE  /\ GetEdge(p[i]) \in Edges
         /\ GetEdge(p[i]).tgt = IF i = 1 THEN c ELSE GetEdge(p[i - 1]).src
         /\ ds[GetEdge(p[i]).src] + GetEdge(p[i]).dist = ds[GetEdge(p[i]).tgt]
<1>1. /\ GetEdge(p[i]) \in Edges
      /\ OtherNode(GetEdge(p[i]), "OUT") = IF i = 1 THEN c ELSE FromNode(GetEdge(p[i - 1]), "OUT")
      /\ ds[FromNode(GetEdge(p[i]), "OUT")] + GetEdge(p[i]).dist = ds[OtherNode(GetEdge(p[i]), "OUT")]
  BY DEF Leg
<1>2. \A e : OtherNode(e, "OUT") = e.tgt /\ FromNode(e, "OUT") = e.src
  BY DEF OtherNode, FromNode, Opposite
<1> QED
  BY <1>1, <1>2

(* The edges of the second leg follow each other to the target.            *)
LEMMA InLegEdges ==
  ASSUME NEW p, NEW ds, NEW c, NEW a \in Nat, NEW b \in Nat, Leg(p, "IN", ds, c, a, b), NEW i \in a..b
  PROVE  /\ GetEdge(p[i]) \in Edges
         /\ GetEdge(p[i]).src = IF i = a THEN c ELSE GetEdge(p[i - 1]).tgt
         /\ ds[GetEdge(p[i]).tgt] + GetEdge(p[i]).dist = ds[GetEdge(p[i]).src]
<1>1. /\ GetEdge(p[i]) \in Edges
      /\ OtherNode(GetEdge(p[i]), "IN") = IF i = a THEN c ELSE FromNode(GetEdge(p[i - 1]), "IN")
      /\ ds[FromNode(GetEdge(p[i]), "IN")] + GetEdge(p[i]).dist = ds[OtherNode(GetEdge(p[i]), "IN")]
  BY DEF Leg
<1>2. \A e : OtherNode(e, "IN") = e.src /\ FromNode(e, "IN") = e.tgt
  BY DEF OtherNode, FromNode, Opposite
<1> QED
  BY <1>1, <1>2

(* The walk along both legs: the heights of its nodes are the labels of the*)
(* first search, then what those of the second leave of the whole length.  *)
LEMMA LegsLead ==
  ASSUME Edges \in SUBSET CHEdge, NEW p \in Seq(Uint), NEW k \in 0..Len(p),
         NEW lo \in [Nodes -> Uint], NEW li \in [Nodes -> Uint], NEW c \in Nodes, NEW d \in Nat, lo[c] + li[c] = d,
         Leg(p, "OUT", lo, c, 1, k), Leg(p, "IN", li, c, k + 1, Len(p)),
         NEW s, NEW t, s = LegEnd(p, "OUT", c, 1, k), t = LegEnd(p, "IN", c, k + 1, Len(p)),
         lo[s] = 0, li[t] = 0,
         NEW walk, walk = [i \in DOMAIN WalkIds(p, k) |-> GetEdge(WalkIds(p, k)[i])]
  PROVE  Leads(walk, s, t) /\ LengthOf(walk) = d
<1> DEFINE n == Len(p)
           node == [i \in 0..n |-> IF i = 0 THEN s ELSE walk[i].tgt]
           h == [i \in 0..n |-> IF i <= k THEN lo[node[i]] ELSE d - li[node[i]]]
<1>1. n \in Nat /\ k \in Nat /\ k <= n /\ k + 1 \in Nat
  OBVIOUS
<1>2. /\ DOMAIN walk = 1..n
      /\ \A i \in 1..k : walk[i] = GetEdge(p[(k - i) + 1]) /\ (k - i) + 1 \in 1..k
      /\ \A i \in (k + 1)..n : walk[i] = GetEdge(p[i])
  <2>1. /\ DOMAIN WalkIds(p, k) = 1..n
        /\ \A i \in 1..k : WalkIds(p, k)[i] = p[(k - i) + 1]
        /\ \A i \in (k + 1)..n : WalkIds(p, k)[i] = p[i]
    BY WalkIdsAt
  <2>2. \A i \in 1..n : walk[i] = GetEdge(WalkIds(p, k)[i])
    BY <2>1
  <2>3. \A i \in 1..k : i \in 1..n /\ (k - i) + 1 \in 1..k
    BY <1>1
  <2>4. \A i \in (k + 1)..n : i \in 1..n
    BY <1>1
  <2> QED
    BY <2>1, <2>2, <2>3, <2>4
<1>3. Len(walk) = n /\ (walk = <<>> <=> n = 0)
  <2>1. walk = [i \in 1..n |-> walk[i]]
    BY <1>2
  <2>2. Len(walk) = n
    BY <1>1, <2>1
  <2> QED
    BY <1>1, <1>2, <2>2
<1>4. \A x \in Nodes : lo[x] \in Nat /\ li[x] \in Nat
  BY NodesAreUint
<1>5. \A e \in Edges : e.src \in Nodes /\ e.tgt \in Nodes /\ e.dist \in Nat
  BY NodesAreUint DEF CHEdge
<1> HIDE DEF n
<1>6. ASSUME NEW i \in 1..k
      PROVE  /\ walk[i] \in Edges /\ lo[walk[i].src] + walk[i].dist = lo[walk[i].tgt]
             /\ i = k => walk[i].tgt = c
             /\ i # k => walk[i].tgt = walk[i + 1].src
             /\ i = 1 => walk[i].src = s
  <2>1. PICK j \in 1..k : j = (k - i) + 1
    BY <1>2
  <2>2. walk[i] = GetEdge(p[j])
    BY <1>2, <2>1
  <2>3. /\ GetEdge(p[j]) \in Edges
        /\ GetEdge(p[j]).tgt = IF j = 1 THEN c ELSE GetEdge(p[j - 1]).src
        /\ lo[GetEdge(p[j]).src] + GetEdge(p[j]).dist = lo[GetEdge(p[j]).tgt]
    BY <1>1, OutLegEdges
  <2>4. i = k => walk[i].tgt = c
    BY <1>1, <2>1, <2>2, <2>3
  <2>5. i # k => walk[i].tgt = walk[i + 1].src
    <3> SUFFICES ASSUME i # k PROVE walk[i].tgt = walk[i + 1].src
      OBVIOUS
    <3>1. i + 1 \in 1..k /\ (k - (i + 1)) + 1 = j - 1 /\ j # 1
      BY <1>1, <2>1
    <3>2. walk[i + 1] = GetEdge(p[j - 1])
      BY <1>2, <3>1
    <3> QED
      BY <2>2, <2>3, <3>1, <3>2
  <2>6. i = 1 => walk[i].src = s
    <3> SUFFICES ASSUME i = 1 PROVE walk[i].src = s
      OBVIOUS
    <3>1. j = k /\ ~(k < 1)
      BY <1>1, <2>1
    <3>2. s = FromNode(GetEdge(p[k]), "OUT")
      BY <3>1 DEF LegEnd
    <3> QED
      BY <2>2, <3>1, <3>2 DEF FromNode, OtherNode, Opposite
  <2> QED
    BY <2>2, <2>3, <2>4, <2>5, <2>6
<1>7. ASSUME NEW i \in (k + 1)..n
      PROVE  /\ walk[i] \in Edges /\ li[walk[i].tgt] + walk[i].dist = li[walk[i].src]
             /\ i = k + 1 => walk[i].src = c
             /\ i # k + 1 => walk[i].src = walk[i - 1].tgt
             /\ i = n => walk[i].tgt = t
  <2>1. walk[i] = GetEdge(p[i])
    BY <1>2
  <2>2. /\ GetEdge(p[i]) \in Edges
        /\ GetEdge(p[i]).src = IF i = k + 1 THEN c ELSE GetEdge(p[i - 1]).tgt
        /\ li[GetEdge(p[i]).tgt] + GetEdge(p[i]).dist = li[GetEdge(p[i]).src]
    BY <1>1, InLegEdges DEF n
  <2>3. i # k + 1 => walk[i].src = walk[i - 1].tgt
    <3> SUFFICES ASSUME i # k + 1 PROVE walk[i].src = walk[i - 1].tgt
      OBVIOUS
    <3>1. i - 1 \in (k + 1)..n
      BY <1>1
    <3> QED
      BY <1>2, <2>1, <2>2, <3>1
  <2>4. i = n => walk[i].tgt = t
    <3> SUFFICES ASSUME i = n PROVE walk[i].tgt = t
      OBVIOUS
    <3>1. ~(n < k + 1)
      BY <1>1
    <3>2. t = FromNode(GetEdge(p[n]), "IN")
      BY <3>1 DEF LegEnd, n
    <3> QED
      BY <2>1, <3>2 DEF FromNode, OtherNode, Opposite
  <2> QED
    BY <2>1, <2>2, <2>3, <2>4
<1>8. k = 0 => s = c
  BY DEF LegEnd
<1>9. k = n => t = c
  BY <1>1 DEF LegEnd, n
<1>10. /\ node[0] = s /\ \A i \in 1..n : node[i] = walk[i].tgt
  BY <1>1
<1>11. \A i \in 0..n : h[i] = IF i <= k THEN lo[node[i]] ELSE d - li[node[i]]
  OBVIOUS
<1> HIDE DEF node, h
<1>12. node[k] = c
  <2>1. CASE k = 0
    BY <1>8, <1>10, <2>1
  <2>2. CASE k # 0
    <3>1. k \in 1..k /\ k \in 1..n
      BY <1>1, <2>2
    <3>2. walk[k].tgt = c
      BY <1>6, <3>1
    <3> QED
      BY <1>10, <3>1, <3>2
  <2> QED
    BY <2>1, <2>2
<1>13. node[n] = t
  <2>1. CASE k = n
    BY <1>9, <1>12, <2>1
  <2>2. CASE k # n
    <3>1. n \in (k + 1)..n /\ n \in 1..n
      BY <1>1, <2>2
    <3>2. walk[n].tgt = t
      BY <1>7, <3>1
    <3> QED
      BY <1>10, <3>1, <3>2
  <2> QED
    BY <2>1, <2>2
<1>14. ASSUME NEW i \in 1..n PROVE walk[i] \in Edges /\ walk[i].src = node[i - 1] /\ walk[i].tgt = node[i]
  <2>1. i - 1 \in 0..n /\ (i # 1 => i - 1 \in 1..n)
    BY <1>1
  <2>2. CASE i \in 1..k
    <3>1. CASE i = 1
      <4>1. i - 1 = 0
        BY <3>1
      <4>2. walk[i].src = s /\ walk[i] \in Edges
        BY <1>6, <2>2, <3>1
      <4> QED
        BY <1>10, <4>1, <4>2
    <3>2. CASE i # 1
      <4>1. i - 1 \in 1..k /\ i - 1 # k /\ (i - 1) + 1 = i
        BY <1>1, <2>2, <3>2
      <4> QED
        BY <1>6, <1>10, <2>1, <2>2, <3>2, <4>1
    <3> QED
      BY <3>1, <3>2
  <2>3. CASE i \in (k + 1)..n
    <3>1. CASE i = k + 1
      <4>1. i - 1 = k
        BY <1>1, <3>1
      <4> QED
        BY <1>7, <1>10, <1>12, <2>3, <3>1, <4>1
    <3>2. CASE i # k + 1
      <4>1. i # 1
        BY <1>1, <2>3, <3>2
      <4> QED
        BY <1>7, <1>10, <2>1, <2>3, <3>2, <4>1
    <3> QED
      BY <3>1, <3>2
  <2>4. i \in 1..k \/ i \in (k + 1)..n
    BY <1>1
  <2> QED
    BY <2>2, <2>3, <2>4
<1>15. h[0] = 0
  BY <1>1, <1>10, <1>11
<1>16. h[n] = d
  <2>1. CASE k = n
    <3>1. h[n] = lo[c] /\ li[c] = 0
      BY <1>1, <1>9, <1>11, <1>12, <2>1
    <3> QED
      BY <1>4, <3>1
  <2>2. CASE k # n
    <3>1. ~(n <= k) /\ n \in 0..n
      BY <1>1, <2>2
    <3>2. h[n] = d - li[t]
      BY <1>11, <1>13, <3>1
    <3> QED
      BY <3>2
  <2> QED
    BY <2>1, <2>2
<1>17. ASSUME NEW i \in 1..n PROVE walk[i].dist \in Nat /\ h[i] = h[i - 1] + walk[i].dist
  <2>1. /\ walk[i].dist \in Nat /\ node[i] \in Nodes /\ node[i - 1] \in Nodes
        /\ i \in 0..n /\ i - 1 \in 0..n
    <3>1. walk[i] \in Edges /\ walk[i].src = node[i - 1] /\ walk[i].tgt = node[i]
      BY <1>14
    <3>2. i \in 0..n /\ i - 1 \in 0..n
      BY <1>1
    <3> QED
      BY <1>5, <3>1, <3>2
  <2>2. /\ lo[node[i]] \in Nat /\ lo[node[i - 1]] \in Nat /\ li[node[i]] \in Nat /\ li[node[i - 1]] \in Nat
        /\ lo[c] \in Nat /\ li[c] \in Nat
    BY <1>4, <2>1
  <2>3. CASE i <= k
    <3>1. i \in 1..k /\ i - 1 <= k
      BY <1>1, <2>3
    <3>2. lo[node[i - 1]] + walk[i].dist = lo[node[i]]
      BY <1>6, <1>14, <3>1
    <3>3. h[i] = lo[node[i]] /\ h[i - 1] = lo[node[i - 1]]
      BY <1>11, <2>1, <2>3, <3>1
    <3> QED
      BY <2>1, <3>2, <3>3
  <2>4. CASE ~(i <= k)
    <3>1. i \in (k + 1)..n
      BY <1>1, <2>4
    <3>2. li[node[i]] + walk[i].dist = li[node[i - 1]]
      BY <1>7, <1>14, <3>1
    <3>3. h[i] = d - li[node[i]]
      BY <1>11, <2>1, <2>4
    <3>4. h[i - 1] = d - li[node[i - 1]]
      <4>1. CASE i = k + 1
        <5>1. i - 1 = k /\ i - 1 <= k
          BY <1>1, <4>1
        <5>2. h[i - 1] = lo[c] /\ node[i - 1] = c
          BY <1>11, <1>12, <2>1, <5>1
        <5> QED
          BY <2>2, <5>2
      <4>2. CASE i # k + 1
        <5>1. ~(i - 1 <= k)
          BY <1>1, <3>1, <4>2
        <5> QED
          BY <1>11, <2>1, <5>1
      <4> QED
        BY <4>1, <4>2
    <3>5. PICK x, y, l \in Nat : x = li[node[i]] /\ y = li[node[i - 1]] /\ l = walk[i].dist
      BY <2>1, <2>2
    <3>6. x + l = y /\ h[i] = d - x /\ h[i - 1] = d - y
      BY <3>2, <3>3, <3>4, <3>5
    <3>7. d - x = (d - y) + l
      BY <3>6
    <3> QED
      BY <2>1, <3>5, <3>6, <3>7
  <2> QED
    BY <2>3, <2>4
<1>18. Leads(walk, node[0], node[n])
  BY <1>1, <1>3, <1>14, LeadsByNodes
<1>19. LengthOf(walk) = h[n]
  <2>1. \A i \in 1..n : walk[i].dist \in Nat
    BY <1>17
  <2>2. \A i \in 1..n : h[i] = h[i - 1] + walk[i].dist
    BY <1>17
  <2>3. PICK m \in Nat : m = n
    BY <1>1
  <2>4. DOMAIN walk = 1..m /\ Len(walk) = m /\ h[0] = 0
    BY <1>2, <1>3, <1>15, <2>3
  <2>5. \A i \in 1..m : walk[i].dist \in Nat
    BY <2>1, <2>3
  <2>6. \A i \in 1..m : h[i] = h[i - 1] + walk[i].dist
    BY <2>2, <2>3
  <2>7. LengthOf(walk) = h[m]
    <3>1. Heights(walk, m, h)
      BY <2>4, <2>5, <2>6 DEF Heights
    <3> QED
      BY <3>1, LengthByHeights
  <2> QED
    BY <2>3, <2>7
<1> QED
  BY <1>10, <1>13, <1>16, <1>18, <1>19

(* The path of an answer.                                                  *)
LEMMA PathOfAnswer ==
  ASSUME AnswersInv, stage = "query", task = "answered", answer # NO_DIST
  PROVE  PathsLead
<1>1. QueriesInv /\ VectorsInv /\ LabelsInv /\ ends \in [EdgeType -> Nodes]
  BY DEF AnswersInv, FileInv, PipelineInv, QueryVarTypes
<1>2. WayFound /\ answer = shortest_dist
      /\ \E k \in Nat : Legs(k) /\ ends["OUT"] = SourceEnd(k) /\ ends["IN"] = TargetEnd(k)
  BY <1>1 DEF QueriesInv, AnsweredInv
<1>3. PICK k \in Nat : Legs(k) /\ ends["OUT"] = SourceEnd(k) /\ ends["IN"] = TargetEnd(k)
  BY <1>2
<1>4. /\ path \in Seq(Uint) /\ k \in 0..Len(path)
      /\ Leg(path, "OUT", dists["OUT"], center_node, 1, k)
      /\ Leg(path, "IN", dists["IN"], center_node, k + 1, Len(path))
      /\ ends["OUT"] = LegEnd(path, "OUT", center_node, 1, k)
      /\ ends["IN"] = LegEnd(path, "IN", center_node, k + 1, Len(path))
  BY <1>3 DEF Legs, SourceEnd, TargetEnd
<1>5. /\ center_node \in Nodes /\ dists["OUT"][center_node] + dists["IN"][center_node] = shortest_dist
      /\ dists["OUT"][ends["OUT"]] = 0 /\ dists["IN"][ends["IN"]] = 0 /\ shortest_dist \in Nat
  BY <1>2 DEF WayFound
<1>6. Edges \in SUBSET CHEdge
  BY <1>1 DEF VectorsInv, Edges
<1>7. PICK lo, li \in [Nodes -> Uint] : lo = dists["OUT"] /\ li = dists["IN"]
  BY <1>1 DEF LabelsInv, EdgeType
<1>8. PICK p \in Seq(Uint) : p = path
  BY <1>4
<1>9. PICK c \in Nodes : c = center_node
  BY <1>5
<1>10. PICK d \in Nat : d = shortest_dist
  BY <1>5
<1>11. PICK walk : walk = [i \in DOMAIN WalkIds(p, k) |-> GetEdge(WalkIds(p, k)[i])]
  OBVIOUS
<1>12. PICK s, t : s = ends["OUT"] /\ t = ends["IN"]
  OBVIOUS
<1>13. /\ k \in 0..Len(p) /\ Leg(p, "OUT", lo, c, 1, k) /\ Leg(p, "IN", li, c, k + 1, Len(p))
       /\ s = LegEnd(p, "OUT", c, 1, k) /\ t = LegEnd(p, "IN", c, k + 1, Len(p))
       /\ lo[c] + li[c] = d /\ lo[s] = 0 /\ li[t] = 0
  BY <1>4, <1>5, <1>7, <1>8, <1>9, <1>10, <1>12
<1>14. Leads(walk, s, t) /\ LengthOf(walk) = d
  BY <1>6, <1>11, <1>13, LegsLead
<1>15. /\ Leads([i \in DOMAIN WalkIds(path, k) |-> GetEdge(WalkIds(path, k)[i])], ends["OUT"], ends["IN"])
       /\ LengthOf([i \in DOMAIN WalkIds(path, k) |-> GetEdge(WalkIds(path, k)[i])]) = answer
  BY <1>2, <1>8, <1>10, <1>11, <1>12, <1>14
<1> QED
  BY <1>4, <1>15 DEF PathsLead, WalkIds

(* The path of every query of a hierarchy leads from its source to its     *)
(* target and is as long as the answer says.                               *)
THEOREM PathsOfQueriesLead ==
  ASSUME QueriesFit
  PROVE  PipelineSpec => []PathsLead
<1>1. PipelineInit => AnswersInv
  BY InitAnswers
<1>2. AnswersInv /\ [PipelineNext]_pipeline_vars => AnswersInv'
  BY NextKeepsAnswers
<1>3. AnswersInv => PathsLead
  BY PathOfAnswer DEF PathsLead
<1> QED
  BY <1>1, <1>2, <1>3, PTL DEF PipelineSpec

-----------------------------------------------------------------------------
(* Queries of the hierarchy keep the promise of every query object.        *)

(* The graph that was read stays.                                          *)
LEMMA ReadEdgesStay ==
  ASSUME [PipelineNext]_pipeline_vars
  PROVE  EdgesRead' = EdgesRead
<1>1. CASE Construct
  <2>1. ASSUME EndRound PROVE UNCHANGED input_edges
    BY <2>1 DEF EndRound, FinishRestructure
  <2>2. ASSUME Restructure PROVE UNCHANGED input_edges
    BY <2>2 DEF Restructure, MergeShortcut, MergeEdge
  <2>3. ASSUME ChooseRemoveNodes PROVE UNCHANGED input_edges
    BY <2>3 DEF ChooseRemoveNodes, BeginRestructure
  <2>4. ASSUME NEW t \in Threads, ContractNode(t) \/ LockInsert(t) \/ FinishInsert(t) PROVE UNCHANGED input_edges
    BY <2>4 DEF ContractNode, LockInsert, FinishInsert, graph_vars
  <2>5. ASSUME StartRound \/ QuickContractReturns \/ ContractReturns \/ SelectNode \/ EnterParallelLoop
        PROVE  UNCHANGED input_edges
    BY <2>5 DEF StartRound, QuickContractReturns, ContractReturns, SelectNode, EnterParallelLoop, graph_vars
  <2>6. UNCHANGED input_edges
    BY <1>1, <2>1, <2>2, <2>3, <2>4, <2>5 DEF Construct, StepWithinRound
  <2> QED
    BY <2>6 DEF EdgesRead
<1>2. CASE Rebuild
  BY <1>2 DEF Rebuild, RebuildCompleteGraph, EdgesRead
<1>3. CASE Export
  BY <1>3 DEF Export, ExportData, EdgesRead
<1>4. CASE AskQuery \/ Answer \/ Write \/ Done \/ UNCHANGED pipeline_vars
  <2>1. UNCHANGED vars
    BY <1>4 DEF AskQuery, Answer, Write, Done, pipeline_vars
  <2> QED
    BY <2>1 DEF vars, graph_vars, EdgesRead
<1> QED
  BY <1>1, <1>2, <1>3, <1>4 DEF PipelineNext

(* The abstract specification speaks of the same distances.                *)
LEMMA SameDistance ==
  ASSUME NEW E, NEW s, NEW t
  PROVE  Queries!DistanceOrNone(E, s, t) = DistanceOrNone(E, s, t)
BY DEF Queries!DistanceOrNone, DistanceOrNone, Queries!Distances, Distances, Queries!Direct,
       Direct, Queries!AllowNode, AllowNode, Queries!Shortest, Shortest, Queries!Joined, Joined,
       Queries!Nodes, Nodes, Queries!NO_DIST, NO_DIST

(* What is answered is the distance.                                       *)
LEMMA AnswersAreDistances ==
  ASSUME AnswersInv, Answer, task' = "answered"
  PROVE  /\ task \in {"search", "backtrack"} /\ UNCHANGED ends
         /\ answer' = DistanceOrNone(EdgesRead, ends["OUT"], ends["IN"])
<1>1. NoPathFound \/ PathFound
  BY DEF Answer, AnswerQuery, SearchStep, StartBacktracking, Backtrack, OtherDirection
<1>2. task \in {"search", "backtrack"} /\ UNCHANGED ends
  BY <1>1 DEF NoPathFound, SearchEnded, PathFound
<1>3. /\ stage = "query" /\ QueriesInv /\ QueryVarTypes
      /\ VectorsInv /\ LabelsInv /\ Complete(Edges)
  <2>1. stage = "query"
    BY <1>2 DEF AnswersInv, FileInv, PipelineInv, LabelsInv
  <2> QED
    BY <2>1 DEF AnswersInv, FileInv, PipelineInv
<1>4. PICK s, t \in Nodes : s = ends["OUT"] /\ t = ends["IN"]
  BY <1>2, <1>3 DEF QueryVarTypes, EdgeType
<1>5. EdgeSet(Edges) /\ Distances(Edges) = Distances(EdgesRead)
  BY <1>3 DEF Complete
<1>6. DistanceOrNone(EdgesRead, s, t) = DistanceOrNone(Edges, s, t)
  BY <1>5 DEF DistanceOrNone
<1>7. CASE NoPathFound
  <2>1. SearchEnded /\ center_node = NO_NID /\ answer' = NO_DIST /\ task = "search"
    BY <1>7 DEF NoPathFound, SearchEnded
  <2>2. QueryInv
    BY <1>2, <1>3 DEF QueryInv, SearchTypes, QueryVarTypes, LabelsInv
  <2>3. NoWay
    BY <1>3, <2>1, <2>2, LoopEnds, NodesAreUint
  <2>4. \A d \in Nat : <<s, t, d>> \notin Distances(EdgesRead)
    BY <1>4, <2>3 DEF NoWay
  <2>5. DistanceOrNone(Edges, s, t) = NO_DIST
    BY <1>5, <2>4, DistanceMissing
  <2> QED
    BY <1>2, <1>4, <1>6, <2>1, <2>5
<1>8. CASE PathFound
  <2>1. answer' = shortest_dist /\ task = "backtrack"
    BY <1>8 DEF PathFound
  <2>2. <<s, t, shortest_dist>> \in Distances(EdgesRead)
    BY <1>3, <1>4, <2>1 DEF QueriesInv, WalkingInv, WayFound
  <2>3. DistanceOrNone(Edges, s, t) = shortest_dist
    BY <1>5, <2>2, DistanceFound
  <2> QED
    BY <1>2, <1>4, <1>6, <2>1, <2>3
<1> QED
  BY <1>1, <1>7, <1>8

(* The replies are the distances of the graph that was read, whatever was  *)
(* asked before.                                                           *)
THEOREM QueriesAreDistances ==
  ASSUME QueriesFit
  PROVE  PipelineSpec => ImplementsQueries
<1>1. PipelineInit => Queries!Init
  <2> SUFFICES ASSUME PipelineInit PROVE Queries!Init
    OBVIOUS
  <2>1. input_edges \in InputGraphs /\ task = "none"
    BY DEF PipelineInit, Init, GraphInit, QueryInit
  <2> QED
    BY <2>1 DEF Queries!Init, EdgesRead
<1>2. AnswersInv /\ [PipelineNext]_pipeline_vars => [Queries!Next]_Queries!query_vars
  <2> SUFFICES ASSUME AnswersInv, [PipelineNext]_pipeline_vars PROVE [Queries!Next]_Queries!query_vars
    OBVIOUS
  <2> DEFINE question == IF task = "none" THEN <<>> ELSE <<ends["OUT"], ends["IN"]>>
             reply == IF task = "answered" THEN answer ELSE -1
  <2>1. /\ task \in {"none", "search", "backtrack", "answered"}
        /\ answer \in Nat /\ LabelsInv
    BY NodesAreUint DEF AnswersInv, QueryVarTypes, FileInv, PipelineInv, LabelsInv
  <2>2. EdgesRead' = EdgesRead
    BY ReadEdgesStay
  <2>3. CASE AskQuery
    <3>1. PICK src, tgt \in Nodes : CalcShopa(src, tgt)
      BY <2>3 DEF AskQuery
    <3>2. task' = "search" /\ ends'["OUT"] = src /\ ends'["IN"] = tgt
      BY <2>1, <3>1, CalcShopaFresh
    <3>3. task \in {"none", "answered"}
      BY <3>1 DEF CalcShopa
    <3>4. question = <<>> \/ reply # -1
      BY <2>1, <3>3
    <3>5. question' \in Nodes \X Nodes /\ reply' = -1
      BY <3>2
    <3>6. Queries!Ask
      BY <2>2, <3>2, <3>4, <3>5 DEF Queries!Ask, Queries!Nodes, Nodes
    <3> QED
      BY <3>6 DEF Queries!Next
  <2>4. CASE Answer
    <3>1. CASE task' = "answered"
      <4>1. /\ task \in {"search", "backtrack"} /\ UNCHANGED ends
            /\ answer' = Queries!DistanceOrNone(EdgesRead, ends["OUT"], ends["IN"])
        BY <2>4, <3>1, AnswersAreDistances, SameDistance
      <4>2. question # <<>> /\ reply = -1 /\ question' = question /\ reply' = answer'
        BY <3>1, <4>1
      <4>3. question[1] = ends["OUT"] /\ question[2] = ends["IN"]
        BY <4>1
      <4>4. Queries!Reply
        BY <2>2, <4>1, <4>2, <4>3 DEF Queries!Reply
      <4> QED
        BY <4>4 DEF Queries!Next
    <3>2. CASE task' # "answered"
      <4>1. task \in {"search", "backtrack"} /\ task' \in {"search", "backtrack"} /\ UNCHANGED ends
        BY <2>4, <3>2 DEF Answer, AnswerQuery, SearchStep, NoPathFound, SearchEnded, StartBacktracking, Backtrack,
           OtherDirection, PathFound
      <4> QED
        BY <2>2, <4>1 DEF Queries!query_vars
    <3> QED
      BY <3>1, <3>2
  <2>5. CASE UNCHANGED query_vars
    <3>1. UNCHANGED <<task, ends, answer>>
      BY <2>5 DEF query_vars
    <3> QED
      BY <2>2, <3>1 DEF Queries!query_vars
  <2>6. AskQuery \/ Answer \/ UNCHANGED query_vars
    BY DEF PipelineNext, Construct, Rebuild, Export, Write, Done, pipeline_vars
  <2> QED
    BY <2>3, <2>4, <2>5, <2>6
<1>3. PipelineInit => AnswersInv
  BY InitAnswers
<1>4. AnswersInv /\ [PipelineNext]_pipeline_vars => AnswersInv'
  BY NextKeepsAnswers
<1> QED
  BY <1>1, <1>2, <1>3, <1>4, PTL DEF PipelineSpec, ImplementsQueries, Queries!Spec
=============================================================================
