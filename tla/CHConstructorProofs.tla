------------------------ MODULE CHConstructorProofs ------------------------
(***************************************************************************)
(* Proofs about the construction of a contraction hierarchy, for every     *)
(* number of nodes and threads, every input graph and every bound of       *)
(* quickContract().                                                        *)
(*                                                                         *)
(* The second part is about the merge of restructure(): whichever order    *)
(* the sort leaves the shortcuts in, the vectors stay sorted, and the ids  *)
(* of the edges stay 0, 1, ..                                              *)
(*                                                                         *)
(* The third part: the finished hierarchy answers every query, and the     *)
(* construction implements Contraction, for every graph whose lengths fit  *)
(* (LengthsFit).  Where no sum wraps around, the search of                 *)
(* _calcShortcuts() finds the shortest distances within its radius         *)
(* (SearchFinds), so it keeps a way over a node exactly if no way is       *)
(* shorter (SearchDecides).  A graph that replaces the edges and the       *)
(* shortest ways over the removed nodes keeps the distances of the others  *)
(* (StayingKeepDistances), and what leaves it leads up on the one side and *)
(* down on the other (StillUpAndDown).  The merge of restructure() makes   *)
(* such a graph (MergedMakeUp).  DistanceInv carries this from round to    *)
(* round.                                                                  *)
(*                                                                         *)
(* Nothing of this depends on how a round chooses its nodes, as long as    *)
(* they are independent of each other.  The invariants are shown for       *)
(* AnyNext, whose rounds choose freely: PrioritizersProofs uses that.      *)
(***************************************************************************)
EXTENDS CHConstructorProperties, RecursionProofs

-----------------------------------------------------------------------------
(* Constructions that choose their nodes freely.                           *)

(* Before the first round of either function.                              *)
AnyInit ==
  /\ GraphInit
  /\ mode \in {"quick", "contract"} /\ phase = "round" /\ round = 1
  /\ nodes = Nodes
  /\ unvisited = {} /\ marked = {} /\ independent_set = <<>>
  /\ next_index = 1
  /\ pc = [t \in Threads |-> "idle"]
  /\ found = [t \in Threads |-> {}]
  /\ seen = [t \in Threads |-> {}]
  /\ mutex = NoThread
  /\ new_shortcuts = {}
  /\ edge_diffs = [n \in Nodes |-> 0]
  /\ to_remove = {}

(* Some nodes are looked at.                                               *)
ConsiderNodes ==
  /\ phase = "round" /\ UNCHANGED phase
  /\ independent_set' \in Seq(Nodes)
  /\ new_shortcuts' = {} /\ to_remove' = {}
  /\ UNCHANGED <<graph_vars, mode, round, nodes, unvisited, marked, next_index, pc, found,
                 seen, mutex, edge_diffs>>

(* The parallel loop is entered with some nodes no edge joins.             *)
IndependentNodes(v) ==
  /\ v \in Seq(nodes)
  /\ \A e \in Edges : e.src \notin Range(v) \/ e.tgt \notin Range(v)

EnterWithNodes ==
  /\ mode = "contract" /\ phase = "round" /\ phase' = "parallel"
  /\ IndependentNodes(independent_set')
  /\ next_index' = 1 /\ new_shortcuts' = {} /\ to_remove' = {}
  /\ UNCHANGED <<graph_vars, mode, round, nodes, unvisited, marked, pc, found, seen, mutex,
                 edge_diffs>>

(* Some of them are removed.                                               *)
RemoveSome ==
  /\ phase = "parallel" /\ LoopDone
  /\ to_remove' \in SUBSET Chosen
  /\ nodes' = nodes \ to_remove'
  /\ BeginRestructure(to_remove', new_shortcuts)
  /\ phase' = "restructure"
  /\ UNCHANGED <<mode, round, select_vars, thread_vars>>

AnyNext == Next \/ ConsiderNodes \/ EnterWithNodes \/ RemoveSome

-----------------------------------------------------------------------------
(* Numbers and edges.                                                      *)

(* The "no value" of a node is not a node.                                 *)
LEMMA NodesAreUint == Nodes \subseteq Uint /\ NO_NID \notin Nodes /\ Uint \subseteq Nat
BY SizeAssumption DEF Nodes, Uint, NO_NID

(* The "no value" constants are unsigned integers.                         *)
LEMMA NoValueTypes ==
  NO_EID \in Uint /\ NO_NID \in Uint /\ NO_DIST \in Uint /\ NO_LVL \in Uint
BY SizeAssumption DEF Uint, NO_EID, NO_NID, NO_DIST, NO_LVL

(* Sums of distances stay in range, whether they overflow or not.          *)
LEMMA UintAddType ==
  ASSUME NEW a \in Uint, NEW b \in Uint
  PROVE  UintAdd(a, b) \in Uint
<1> DEFINE m == MaxUint + 1
<1>1. m \in Nat /\ m > 0 /\ a + b \in Nat
  BY SizeAssumption DEF Uint
<1>2. (a + b) % m \in 0..(m - 1)
  BY <1>1
<1> QED
  BY <1>2, SizeAssumption DEF UintAdd, Uint

(* A shortcut of two edges is an edge from the source of the first to the  *)
(* target of the second, over the node in the middle.                      *)
LEMMA MakeShortcutType ==
  ASSUME NEW a \in CHEdge, NEW b \in CHEdge
  PROVE  /\ MakeShortcut(a, b) \in CHEdge
         /\ MakeShortcut(a, b).src = a.src
         /\ MakeShortcut(a, b).tgt = b.tgt
         /\ MakeShortcut(a, b).center_node = a.tgt
<1>1. UintAdd(a.dist, b.dist) \in Uint
  BY UintAddType DEF CHEdge
<1> QED
  BY <1>1, NodesAreUint, NoValueTypes DEF MakeShortcut, CHEdge

(* There are finitely many edges: an edge is determined by its fields.     *)
LEMMA CHEdgeFinite == IsFiniteSet(CHEdge)
<1> DEFINE T == (Uint \X Nodes) \X ((Nodes \X Uint) \X ((Uint \X Uint) \X Uint))
           code == [e \in CHEdge |->
                      <<<<e.id, e.src>>, <<<<e.tgt, e.dist>>,
                        <<<<e.child_edge1, e.child_edge2>>, e.center_node>>>>>>]
<1>1. IsFiniteSet(Uint) /\ IsFiniteSet(Nodes)
  BY SizeAssumption, FS_Interval DEF Uint, Nodes
<1>2. IsFiniteSet(T)
  <2>1. IsFiniteSet(Uint \X Nodes) /\ IsFiniteSet(Nodes \X Uint) /\ IsFiniteSet(Uint \X Uint)
    BY <1>1, FS_Product
  <2>2. IsFiniteSet((Uint \X Uint) \X Uint)
    BY <1>1, <2>1, FS_Product
  <2>3. IsFiniteSet((Nodes \X Uint) \X ((Uint \X Uint) \X Uint))
    BY <2>1, <2>2, FS_Product
  <2> QED
    BY <2>1, <2>3, FS_Product
<1>3. code \in [CHEdge -> T]
  BY DEF CHEdge
<1>4. ASSUME NEW d \in CHEdge, NEW e \in CHEdge, code[d] = code[e]
      PROVE  d = e
  BY <1>4 DEF CHEdge
<1>5. code \in Injection(CHEdge, T)
  BY <1>3, <1>4 DEF Injection, IsInjective
<1> QED
  BY <1>2, <1>5, FS_Injection

(* So every set of edges can be counted.                                   *)
LEMMA EdgeSetsFinite ==
  ASSUME NEW S \in SUBSET CHEdge
  PROVE  IsFiniteSet(S) /\ Cardinality(S) \in Nat
BY CHEdgeFinite, FS_Subset, FS_CardinalityType

-----------------------------------------------------------------------------
(* Contracting a node.                                                     *)

(* The edges of the graph and those already merged are edges.              *)
LEMMA EdgesType ==
  ASSUME out_edges \in Seq(CHEdge), new_edge_vec \in Seq(CHEdge)
  PROVE  Edges \subseteq CHEdge /\ MergedEdges \subseteq CHEdge
BY DEF Edges, MergedEdges

(* The incoming edges of a node end at it, the outgoing ones start there.  *)
LEMMA NodeEdgesEnds ==
  ASSUME NEW n \in Nodes
  PROVE  /\ \A e \in NodeEdges(n, "IN") : e \in Edges /\ e.tgt = n
         /\ \A e \in NodeEdges(n, "OUT") : e \in Edges /\ e.src = n
BY DEF NodeEdges, Opposite, OtherNode

(* A shortcut of two edges that meet in n, and that are not each other's   *)
(* reverse, leads over n.                                                  *)
LEMMA JoinOver ==
  ASSUME NEW n \in Nodes, Edges \subseteq CHEdge,
         NEW a \in NodeEdges(n, "IN"), NEW b \in NodeEdges(n, "OUT"),
         a.src # b.tgt
  PROVE  MakeShortcut(a, b) \in CHEdge /\ ShortcutOver(MakeShortcut(a, b), {n})
<1>1. a \in Edges /\ b \in Edges /\ a.tgt = n /\ b.src = n
  BY NodeEdgesEnds
<1>2. a \in CHEdge /\ b \in CHEdge
  BY <1>1
<1> QED
  BY <1>1, <1>2, MakeShortcutType DEF ShortcutOver, NoLoop

(* Every shortcut found for a node leads over that node along two edges of *)
(* the graph, whichever function runs and whichever direction it searches. *)
LEMMA ShortcutsOver ==
  ASSUME NEW n \in Nodes, out_edges \in Seq(CHEdge), new_edge_vec \in Seq(CHEdge)
  PROVE  /\ Shortcuts(n) \subseteq CHEdge
         /\ \A s \in Shortcuts(n) : ShortcutOver(s, {n})
<1>0. Edges \subseteq CHEdge
  BY EdgesType
<1>1. \A s \in QuickShortcutsOf(n) : s \in CHEdge /\ ShortcutOver(s, {n})
  BY <1>0, JoinOver DEF QuickShortcutsOf, CreateShortcut
<1>2. ASSUME NEW type \in EdgeType, NEW e \in NodeEdges(n, Opposite(type)),
             NEW s \in CalcShortcuts(e, n, type)
      PROVE  s \in CHEdge /\ ShortcutOver(s, {n})
  <2>1. PICK t \in Targets(e, n, type) : s = CreateShortcut(e, t, type)
    BY DEF CalcShortcuts
  <2>2. t \in NodeEdges(n, type) /\ OtherNode(t, type) # OtherNode(e, Opposite(type))
    BY DEF Targets
  <2>3. CASE type = "OUT"
    BY <1>0, <2>1, <2>2, <2>3, JoinOver DEF CreateShortcut, OtherNode, Opposite
  <2>4. CASE type = "IN"
    BY <1>0, <2>1, <2>2, <2>4, JoinOver DEF CreateShortcut, OtherNode, Opposite
  <2> QED
    BY <2>3, <2>4 DEF EdgeType
<1>3. \A s \in ShortcutsOf(n) : s \in CHEdge /\ ShortcutOver(s, {n})
  BY <1>2 DEF ShortcutsOf, SearchDirection, EdgeType
<1> QED
  BY <1>1, <1>3 DEF Shortcuts

(* The number of edges of a node and of its shortcuts are numbers.         *)
LEMMA EdgeDiffType ==
  ASSUME NEW n \in Nodes, out_edges \in Seq(CHEdge), new_edge_vec \in Seq(CHEdge)
  PROVE  Cardinality(Shortcuts(n)) - NrOfEdges(n) \in Int
<1>1. Shortcuts(n) \subseteq CHEdge
  BY ShortcutsOver
<1>2. NodeEdges(n, "OUT") \subseteq CHEdge /\ NodeEdges(n, "IN") \subseteq CHEdge
  BY EdgesType DEF NodeEdges
<1> QED
  BY <1>1, <1>2, EdgeSetsFinite DEF NrOfEdges, NrOfEdgesOf

-----------------------------------------------------------------------------
(* The merge of restructure().                                             *)

(* Adding an edge adds no endpoints but those of that edge.                *)
LEMMA AddNewEdgeKeeps ==
  ASSUME NEW e \in CHEdge, new_edge_vec \in Seq(CHEdge), edge_count \in Uint,
         AddNewEdge(e)
  PROVE  /\ new_edge_vec' \in Seq(CHEdge)
         /\ edge_count' \in Uint
         /\ \A x \in MergedEdges' :
              x \in MergedEdges \/ (x.src = e.src /\ x.tgt = e.tgt)
<1>1. CASE IgnoreEdge(e)
  BY <1>1 DEF IgnoreEdge, MergedEdges
<1>2. CASE ReplaceEdge(e)
  <2> DEFINE n == Len(new_edge_vec)
             r == [e EXCEPT !.id = LastEdge.id]
  <2>1. n \in 1..Len(new_edge_vec) /\ LastEdge \in CHEdge
    BY <1>2, LenProperties, EmptySeq DEF ReplaceEdge, Duplicates, LastEdge
  <2>2. r \in CHEdge /\ r.src = e.src /\ r.tgt = e.tgt
    BY <2>1 DEF CHEdge
  <2>3. new_edge_vec' = [new_edge_vec EXCEPT ![n] = r] /\ edge_count' = edge_count
    BY <1>2 DEF ReplaceEdge
  <2>4. /\ new_edge_vec' \in Seq(CHEdge)
        /\ Len(new_edge_vec') = Len(new_edge_vec)
        /\ \A j \in 1..Len(new_edge_vec) :
             new_edge_vec'[j] = IF j = n THEN r ELSE new_edge_vec[j]
    BY <2>1, <2>2, <2>3, ExceptSeq
  <2>5. DOMAIN new_edge_vec' = 1..Len(new_edge_vec) /\ DOMAIN new_edge_vec = 1..Len(new_edge_vec)
    BY <2>4, LenProperties
  <2>6. \A x \in MergedEdges' : x \in MergedEdges \/ x = r
    BY <2>4, <2>5 DEF MergedEdges
  <2> QED
    BY <2>2, <2>3, <2>4, <2>6
<1>3. CASE AppendEdge(e)
  <2>1. PICK x \in CHEdge : /\ new_edge_vec' = Append(new_edge_vec, x)
                            /\ x.src = e.src /\ x.tgt = e.tgt
    BY <1>3 DEF AppendEdge, CHEdge
  <2>2. edge_count' \in Uint
    BY <1>3, SizeAssumption DEF AppendEdge, EdgeIdsLeft, NO_EID, Uint
  <2> QED
    BY <2>1, <2>2 DEF MergedEdges
<1> QED
  BY <1>1, <1>2, <1>3 DEF AddNewEdge

-----------------------------------------------------------------------------
(* The inductive invariant.                                                *)

(* quickContract() comes first.                                            *)
LEMMA InitIsAny == Init => AnyInit
BY DEF Init, AnyInit

(* The readers deliver a graph that satisfies the invariant: no node is    *)
(* contracted and no edge is a loop.                                       *)
LEMMA InitIInv == AnyInit => IInv
<1> SUFFICES ASSUME AnyInit PROVE IInv
  OBVIOUS
<1> USE DEF AnyInit, GraphInit
<1>1. input_edges \in Seq(CHEdge) /\ Len(input_edges) < NO_EID
  BY InputAssumption DEF IsInputGraph
<1>2. \A e \in Edges : e \in CHEdge /\ e.src # e.tgt
  BY <1>1, InputAssumption DEF Edges, IsInputGraph
<1>3. VariableTypes
  <2>1. edge_count \in Uint
    BY <1>1, SizeAssumption, LenProperties DEF Uint, NO_EID
  <2>2. merge_pos \in 0..(Len(out_edges) + 1)
    BY <1>1, LenProperties
  <2>3. next_lvl \in Uint
    BY SizeAssumption DEF Uint
  <2>4. round \in 1..(QuickMaxRounds + 1)
    BY QuickAssumption
  <2>5. <<>> \in Seq(CHEdge) /\ <<>> \in Seq(Nodes)
    BY EmptySeq
  <2>6. GraphTypeOK
    BY <1>1, <2>1, <2>2, <2>3, <2>5, NoValueTypes DEF GraphTypeOK
  <2> QED
    BY <2>4, <2>5, <2>6 DEF VariableTypes
<1>4. LocalsScoped
  BY DEF LocalsScoped, Restructuring
<1>5. NoLoops
  BY <1>2 DEF NoLoops, NoLoop, MergedEdges
<1>6. ShortcutsOverChosen /\ Independent
  BY DEF ShortcutsOverChosen, Independent, Restructuring
<1>7. LevelsGiven
  BY DEF LevelsGiven, Contracted, Restructuring
<1>8. EdgesJoinNodes /\ DumpSeparate
  BY <1>2 DEF EdgesJoinNodes, DumpSeparate, Restructuring, CHEdge, MergedEdges
<1> QED
  BY <1>3, <1>4, <1>5, <1>6, <1>7, <1>8 DEF IInv

(* Appending to a sequence adds one element to its range.                  *)
LEMMA AppendRange ==
  ASSUME NEW S, NEW q \in Seq(S), NEW x \in S
  PROVE  /\ Append(q, x) \in Seq(S)
         /\ {Append(q, x)[i] : i \in DOMAIN Append(q, x)} = {q[i] : i \in DOMAIN q} \cup {x}
<1>1. /\ Append(q, x) \in Seq(S)
      /\ DOMAIN q = 1..Len(q) /\ DOMAIN Append(q, x) = 1..(Len(q) + 1)
      /\ Len(q) \in Nat
  BY LenProperties
<1>2. /\ \A i \in 1..Len(q) : Append(q, x)[i] = q[i]
      /\ Append(q, x)[Len(q) + 1] = x
  OBVIOUS
<1>3. 1..(Len(q) + 1) = 1..Len(q) \cup {Len(q) + 1}
  BY <1>1
<1> QED
  BY <1>1, <1>2, <1>3

(* Actions that leave the graph alone, apart from SelectNode and the steps *)
(* of the threads.                                                         *)
LEMMA SameGraph ==
  ASSUME UNCHANGED graph_vars
  PROVE  /\ Edges' = Edges /\ MergedEdges' = MergedEdges
         /\ GraphTypeOK => GraphTypeOK'
         /\ NoLoops => NoLoops'
         /\ DumpSeparate => DumpSeparate'
         /\ \A n : Contracted(n)' <=> Contracted(n)
BY DEF graph_vars, Edges, MergedEdges, GraphTypeOK, NoLoops, DumpSeparate, Contracted

(* A round starts with empty vectors; nothing is chosen yet.               *)
LEMMA StartRoundKeeps == IInv /\ StartRound => IInv'
<1> SUFFICES ASSUME IInv, StartRound PROVE IInv'
  OBVIOUS
<1> USE DEF IInv, StartRound
<1>0. UNCHANGED graph_vars
  OBVIOUS
<1>1. VariableTypes'
  BY <1>0, SameGraph, EmptySeq DEF VariableTypes
<1>2. LocalsScoped'
  BY <1>0 DEF LocalsScoped, Restructuring, graph_vars
<1>3. ShortcutsOverChosen' /\ Independent'
  BY DEF ShortcutsOverChosen, Independent, Restructuring, Chosen
<1>4. LevelsGiven'
  BY <1>0 DEF LevelsGiven, Contracted, Restructuring, Chosen, graph_vars
<1>5. EdgesJoinNodes'
  BY <1>0, SameGraph DEF EdgesJoinNodes, Restructuring
<1> QED
  BY <1>0, <1>1, <1>2, <1>3, <1>4, <1>5, SameGraph

(* Going over from quickContract() to contract() changes no data.          *)
LEMMA QuickContractReturnsKeeps == IInv /\ QuickContractReturns => IInv'
<1> SUFFICES ASSUME IInv, QuickContractReturns PROVE IInv'
  OBVIOUS
<1> USE DEF IInv, QuickContractReturns, select_vars, thread_vars
<1>0. UNCHANGED graph_vars /\ Chosen' = Chosen
  BY DEF Chosen
<1>1. VariableTypes'
  BY <1>0, SameGraph DEF VariableTypes
<1>2. LocalsScoped'
  BY <1>0 DEF LocalsScoped, Restructuring, graph_vars
<1>3. ShortcutsOverChosen' /\ Independent'
  BY DEF ShortcutsOverChosen, Independent, Restructuring
<1>4. LevelsGiven'
  BY <1>0 DEF LevelsGiven, Contracted, Restructuring, graph_vars
<1>5. EdgesJoinNodes'
  BY <1>0, SameGraph DEF EdgesJoinNodes, Restructuring
<1> QED
  BY <1>0, <1>1, <1>2, <1>3, <1>4, <1>5, SameGraph

(* Neither does the end of contract().                                     *)
LEMMA ContractReturnsKeeps == IInv /\ ContractReturns => IInv'
<1> SUFFICES ASSUME IInv, ContractReturns PROVE IInv'
  OBVIOUS
<1> USE DEF IInv, ContractReturns, select_vars, thread_vars
<1>0. UNCHANGED graph_vars /\ Chosen' = Chosen
  BY DEF Chosen
<1>1. VariableTypes'
  BY <1>0, SameGraph DEF VariableTypes
<1>2. LocalsScoped'
  BY <1>0 DEF LocalsScoped, Restructuring, graph_vars
<1>3. ShortcutsOverChosen' /\ Independent'
  BY DEF ShortcutsOverChosen, Independent, Restructuring
<1>4. LevelsGiven'
  BY <1>0 DEF LevelsGiven, Contracted, Restructuring, graph_vars
<1>5. EdgesJoinNodes'
  BY <1>0, SameGraph DEF EdgesJoinNodes, Restructuring
<1> QED
  BY <1>0, <1>1, <1>2, <1>3, <1>4, <1>5, SameGraph

(* A node that is not marked is no neighbour of a chosen node; its own     *)
(* neighbours get marked with it.                                          *)
LEMMA SelectNodeKeeps == IInv /\ SelectNode => IInv'
<1> SUFFICES ASSUME IInv, SelectNode PROVE IInv'
  OBVIOUS
<1> USE DEF IInv
<1>1. PICK n \in unvisited :
        /\ unvisited' = unvisited \ {n}
        /\ IF n \notin marked /\ DegreeAccepted(n)
           THEN /\ marked' = marked \cup {n} \cup Neighbours(n)
                /\ independent_set' = Append(independent_set, n)
           ELSE UNCHANGED <<marked, independent_set>>
  BY DEF SelectNode
<1>2. /\ phase = "select" /\ phase' = "select"
      /\ UNCHANGED <<graph_vars, loop_vars, thread_vars, to_remove>>
  BY DEF SelectNode, loop_vars
<1>3. n \in Nodes /\ n \in nodes
  BY <1>2 DEF VariableTypes, LevelsGiven
<1>4. CASE n \in marked \/ ~DegreeAccepted(n)
  <2>1. UNCHANGED <<marked, independent_set>> /\ Chosen' = Chosen
    BY <1>1, <1>4 DEF Chosen
  <2>2. VariableTypes'
    BY <1>1, <1>2, <2>1, SameGraph DEF VariableTypes, loop_vars, thread_vars
  <2>3. LocalsScoped' /\ ShortcutsOverChosen'
    BY <1>2 DEF LocalsScoped, ShortcutsOverChosen, Restructuring, graph_vars, loop_vars, thread_vars
  <2>4. Independent'
    BY <1>2, <2>1, SameGraph DEF Independent
  <2>5. LevelsGiven'
    BY <1>1, <1>2, <2>1 DEF LevelsGiven, Contracted, Restructuring, graph_vars, loop_vars
  <2>6. EdgesJoinNodes'
    BY <1>2, SameGraph DEF EdgesJoinNodes, Restructuring, loop_vars
  <2> QED
    BY <1>2, <2>2, <2>3, <2>4, <2>5, <2>6, SameGraph
<1>5. CASE n \notin marked /\ DegreeAccepted(n)
  <2>1. /\ marked' = marked \cup {n} \cup Neighbours(n)
        /\ independent_set' = Append(independent_set, n)
    BY <1>1, <1>5
  <2>2. independent_set' \in Seq(Nodes) /\ Chosen' = Chosen \cup {n}
    <3>1. independent_set \in Seq(Nodes)
      BY DEF VariableTypes
    <3> HIDE DEF IInv
    <3> QED
      BY <1>3, <2>1, <3>1, AppendRange DEF Chosen
  <2>3. /\ Edges' = Edges /\ Edges \subseteq CHEdge
    BY <1>2, SameGraph, EdgesType DEF VariableTypes, GraphTypeOK
  <2>4. \A e \in Edges : /\ e.src = n => e.tgt \in Neighbours(n)
                         /\ e.tgt = n => e.src \in Neighbours(n)
    BY DEF Neighbours, NodeEdges, OtherNode, Opposite, EdgeType
  <2>5. Neighbours(n) \subseteq Nodes
    BY <2>3 DEF Neighbours, NodeEdges, OtherNode, CHEdge
  <2>6. VariableTypes'
    BY <1>1, <1>2, <1>3, <2>1, <2>2, <2>5, SameGraph DEF VariableTypes, loop_vars, thread_vars
  <2>7. LocalsScoped' /\ ShortcutsOverChosen'
    BY <1>2 DEF LocalsScoped, ShortcutsOverChosen, Restructuring, graph_vars, loop_vars, thread_vars
  <2>8. Independent'
    <3>1. Chosen' \subseteq marked'
      BY <1>2, <2>1, <2>2 DEF Independent
    <3>2. ASSUME NEW e \in Edges
          PROVE  /\ e.src \in Chosen' => e.tgt \in marked'
                 /\ e.tgt \in Chosen' => e.src \in marked'
                 /\ e.src \notin Chosen' \/ e.tgt \notin Chosen'
      <4>1. /\ e.src \in Chosen => e.tgt \in marked
            /\ e.tgt \in Chosen => e.src \in marked
            /\ e.src \notin Chosen \/ e.tgt \notin Chosen
        BY <1>2 DEF Independent
      <4>2. e.src # e.tgt
        BY DEF NoLoops, NoLoop
      <4> QED
        BY <1>5, <2>1, <2>2, <2>4, <4>1, <4>2
    <3> QED
      BY <1>2, <2>3, <3>1, <3>2 DEF Independent
  <2>9. LevelsGiven'
    BY <1>1, <1>2, <1>3, <2>2 DEF LevelsGiven, Contracted, Restructuring, graph_vars, loop_vars
  <2>10. EdgesJoinNodes'
    BY <1>2, SameGraph DEF EdgesJoinNodes, Restructuring, loop_vars
  <2> QED
    BY <1>2, <2>6, <2>7, <2>8, <2>9, <2>10, SameGraph
<1> QED
  BY <1>4, <1>5

(* The parallel loop starts with an independent set and no shortcuts.      *)
LEMMA EnterParallelLoopKeeps == IInv /\ EnterParallelLoop => IInv'
<1> SUFFICES ASSUME IInv, EnterParallelLoop PROVE IInv'
  OBVIOUS
<1> USE DEF IInv, EnterParallelLoop, select_vars
<1>0. UNCHANGED graph_vars /\ Chosen' = Chosen
  BY DEF Chosen
<1>1. VariableTypes'
  BY <1>0, SameGraph DEF VariableTypes
<1>2. LocalsScoped'
  BY <1>0 DEF LocalsScoped, Restructuring, graph_vars
<1>3. ShortcutsOverChosen'
  BY DEF ShortcutsOverChosen, LocalsScoped, Restructuring
<1>4. Independent'
  BY <1>0, SameGraph DEF Independent
<1>5. LevelsGiven'
  BY <1>0 DEF LevelsGiven, Contracted, Restructuring, graph_vars
<1>6. EdgesJoinNodes'
  BY <1>0, SameGraph DEF EdgesJoinNodes, Restructuring
<1> QED
  BY <1>0, <1>1, <1>2, <1>3, <1>4, <1>5, <1>6, SameGraph

(* A thread contracts a node of the independent set: what it finds leads   *)
(* over that node.                                                         *)
LEMMA ContractNodeKeeps ==
  ASSUME IInv, NEW t \in Threads, ContractNode(t)
  PROVE  IInv'
<1> DEFINE node == independent_set[next_index]
<1>1. /\ phase = "parallel" /\ pc[t] = "idle"
      /\ found' = [found EXCEPT ![t] = Shortcuts(node)]
      /\ next_index \in 1..Len(independent_set) /\ next_index' = next_index + 1
      /\ pc' = [pc EXCEPT ![t] = "insert"]
      /\ UNCHANGED <<graph_vars, loop_vars, select_vars, seen, mutex, new_shortcuts, to_remove>>
  BY DEF ContractNode, IInv, VariableTypes
<1>2. /\ independent_set \in Seq(Nodes)
      /\ out_edges \in Seq(CHEdge) /\ new_edge_vec \in Seq(CHEdge)
  BY DEF IInv, VariableTypes, GraphTypeOK
<1>3. node \in Nodes /\ node \in Chosen
  BY <1>1, <1>2, LenProperties DEF Chosen
<1>4. /\ Shortcuts(node) \subseteq CHEdge
      /\ \A s \in Shortcuts(node) : ShortcutOver(s, Chosen)
  BY <1>2, <1>3, ShortcutsOver DEF ShortcutOver
<1>5. UNCHANGED <<graph_vars, mode, phase, round, nodes, independent_set, unvisited, marked>>
      /\ Chosen' = Chosen
  BY <1>1 DEF loop_vars, select_vars, Chosen
<1>6. edge_diffs' \in [Nodes -> Int]
  <2>1. Cardinality(Shortcuts(node)) - NrOfEdges(node) \in Int
    BY <1>2, <1>3, EdgeDiffType
  <2> QED
    BY <1>3, <2>1 DEF ContractNode, IInv, VariableTypes
<1>7. VariableTypes'
  BY <1>1, <1>4, <1>5, <1>6, SameGraph DEF IInv, VariableTypes
<1>8. LocalsScoped'
  BY <1>1, <1>5 DEF IInv, VariableTypes, LocalsScoped, Restructuring, graph_vars
<1>9. ShortcutsOverChosen'
  <2>1. Edges' = Edges
    BY <1>5, SameGraph
  <2>3. \A u \in Threads : \A s \in found'[u] \cup seen'[u] : ShortcutOver(s, Chosen)
    BY <1>1, <1>4 DEF IInv, VariableTypes, ShortcutsOverChosen
  <2>4. \A s \in new_shortcuts' : ShortcutOver(s, Chosen)
    BY <1>1 DEF IInv, ShortcutsOverChosen
  <2> QED
    BY <1>1, <1>5, <2>1, <2>3, <2>4 DEF ShortcutsOverChosen, ShortcutOver, Restructuring
<1>10. Independent' /\ LevelsGiven' /\ EdgesJoinNodes'
  BY <1>1, <1>5, SameGraph DEF IInv, Independent, LevelsGiven, EdgesJoinNodes, Contracted,
     Restructuring, graph_vars
<1> QED
  BY <1>5, <1>7, <1>8, <1>9, <1>10, SameGraph DEF IInv

(* A thread locks the mutex and sees the shortcuts inserted so far: they   *)
(* all lead over chosen nodes.                                             *)
LEMMA LockInsertKeeps ==
  ASSUME IInv, NEW t \in Threads, LockInsert(t)
  PROVE  IInv'
<1>1. /\ pc[t] = "insert" /\ phase = "parallel"
      /\ mutex' = t /\ seen' = [seen EXCEPT ![t] = new_shortcuts]
      /\ pc' = [pc EXCEPT ![t] = "inserting"]
      /\ UNCHANGED <<graph_vars, loop_vars, select_vars, next_index, found, new_shortcuts,
                     edge_diffs, to_remove>>
  BY DEF LockInsert, IInv, LocalsScoped
<1>2. UNCHANGED <<graph_vars, mode, phase, round, nodes, independent_set, unvisited, marked>>
      /\ Chosen' = Chosen
  BY <1>1 DEF loop_vars, select_vars, Chosen
<1>3. VariableTypes'
  BY <1>1, <1>2, SameGraph DEF IInv, VariableTypes
<1>4. LocalsScoped'
  BY <1>1, <1>2 DEF IInv, VariableTypes, LocalsScoped, Restructuring, graph_vars
<1>5. ShortcutsOverChosen'
  <2>1. Edges' = Edges
    BY <1>2, SameGraph
  <2>2. \A u \in Threads : \A s \in found'[u] \cup seen'[u] : ShortcutOver(s, Chosen)
    BY <1>1 DEF IInv, VariableTypes, ShortcutsOverChosen
  <2> QED
    BY <1>1, <1>2, <2>1, <2>2 DEF IInv, ShortcutsOverChosen, ShortcutOver, Restructuring
<1>6. Independent' /\ LevelsGiven' /\ EdgesJoinNodes'
  BY <1>1, <1>2, SameGraph DEF IInv, Independent, LevelsGiven, EdgesJoinNodes, Contracted,
     Restructuring, graph_vars
<1> QED
  BY <1>2, <1>3, <1>4, <1>5, <1>6, SameGraph DEF IInv

(* It writes them back together with its own.                              *)
LEMMA FinishInsertKeeps ==
  ASSUME IInv, NEW t \in Threads, FinishInsert(t)
  PROVE  IInv'
<1>1. /\ pc[t] = "inserting" /\ phase = "parallel"
      /\ new_shortcuts' = seen[t] \cup found[t]
      /\ found' = [found EXCEPT ![t] = {}] /\ seen' = [seen EXCEPT ![t] = {}]
      /\ mutex' = NoThread
      /\ pc' = [pc EXCEPT ![t] = "idle"]
      /\ UNCHANGED <<graph_vars, loop_vars, select_vars, next_index, edge_diffs, to_remove>>
  BY DEF FinishInsert, IInv, LocalsScoped
<1>2. UNCHANGED <<graph_vars, mode, phase, round, nodes, independent_set, unvisited, marked>>
      /\ Chosen' = Chosen
  BY <1>1 DEF loop_vars, select_vars, Chosen
<1>3. VariableTypes'
  BY <1>1, <1>2, SameGraph DEF IInv, VariableTypes
<1>4. LocalsScoped'
  BY <1>1, <1>2 DEF IInv, VariableTypes, LocalsScoped, Restructuring, graph_vars
<1>5. ShortcutsOverChosen'
  <2>1. Edges' = Edges
    BY <1>2, SameGraph
  <2>2. /\ \A u \in Threads : \A s \in found'[u] \cup seen'[u] : ShortcutOver(s, Chosen)
        /\ \A s \in new_shortcuts' : ShortcutOver(s, Chosen)
    BY <1>1 DEF IInv, VariableTypes, ShortcutsOverChosen
  <2> QED
    BY <1>1, <1>2, <2>1, <2>2 DEF IInv, ShortcutsOverChosen, ShortcutOver, Restructuring
<1>6. Independent' /\ LevelsGiven' /\ EdgesJoinNodes'
  BY <1>1, <1>2, SameGraph DEF IInv, Independent, LevelsGiven, EdgesJoinNodes, Contracted,
     Restructuring, graph_vars
<1> QED
  BY <1>2, <1>3, <1>4, <1>5, <1>6, SameGraph DEF IInv

(* Nodes are only looked at.                                               *)
LEMMA ConsiderNodesKeeps == IInv /\ ConsiderNodes => IInv'
<1> SUFFICES ASSUME IInv, ConsiderNodes PROVE IInv'
  OBVIOUS
<1> USE DEF IInv, ConsiderNodes
<1>1. /\ UNCHANGED <<graph_vars, mode, phase, round, nodes, unvisited, marked, next_index, pc,
                     found, seen, mutex, edge_diffs>>
      /\ phase = "round" /\ new_shortcuts' = {} /\ to_remove' = {}
      /\ independent_set' \in Seq(Nodes)
  OBVIOUS
<1>2. VariableTypes'
  BY <1>1, SameGraph DEF VariableTypes
<1>3. LocalsScoped'
  BY <1>1 DEF LocalsScoped, Restructuring, graph_vars
<1>4. ShortcutsOverChosen' /\ Independent'
  BY <1>1 DEF ShortcutsOverChosen, Independent, Restructuring
<1>5. LevelsGiven' /\ EdgesJoinNodes'
  BY <1>1, SameGraph DEF LevelsGiven, EdgesJoinNodes, Restructuring, graph_vars
<1> QED
  BY <1>1, <1>2, <1>3, <1>4, <1>5, SameGraph

(* However they are found, no edge joins two nodes that are contracted in  *)
(* the same round.                                                         *)
LEMMA EnterWithNodesKeeps == IInv /\ EnterWithNodes => IInv'
<1> SUFFICES ASSUME IInv, EnterWithNodes PROVE IInv'
  OBVIOUS
<1> USE DEF IInv, EnterWithNodes
<1>1. /\ UNCHANGED <<graph_vars, mode, round, nodes, unvisited, marked, pc, found, seen,
                     mutex, edge_diffs>>
      /\ mode = "contract" /\ phase = "round" /\ phase' = "parallel"
      /\ next_index' = 1 /\ new_shortcuts' = {} /\ to_remove' = {}
      /\ IndependentNodes(independent_set')
  OBVIOUS
<1>2. /\ independent_set' \in Seq(Nodes) /\ Chosen' \subseteq nodes
      /\ \A e \in Edges : e.src \notin Chosen' \/ e.tgt \notin Chosen'
  <2>1. nodes \subseteq Nodes /\ independent_set' \in Seq(nodes)
    BY <1>1 DEF VariableTypes, IndependentNodes
  <2>2. Chosen' = Range(independent_set')
    BY DEF Chosen, Range
  <2>3. Range(independent_set') \subseteq nodes
    BY <2>1 DEF Range
  <2>4. independent_set' \in Seq(Nodes)
    BY <2>1, LenProperties
  <2> QED
    BY <1>1, <2>2, <2>3, <2>4 DEF IndependentNodes
<1>3. /\ Edges' = Edges /\ \A t \in Threads : pc[t] = "idle" /\ found[t] = {} /\ seen[t] = {}
  BY <1>1, SameGraph DEF LocalsScoped
<1>4. VariableTypes'
  BY <1>1, <1>2, SameGraph DEF VariableTypes
<1>5. LocalsScoped'
  BY <1>1, <1>3 DEF LocalsScoped, Restructuring, graph_vars
<1>6. ShortcutsOverChosen' /\ Independent'
  BY <1>1, <1>2, <1>3 DEF ShortcutsOverChosen, Independent, Restructuring
<1>7. LevelsGiven' /\ EdgesJoinNodes'
  BY <1>1, <1>2, SameGraph DEF LevelsGiven, EdgesJoinNodes, Restructuring, graph_vars
<1> QED
  BY <1>1, <1>4, <1>5, <1>6, <1>7, SameGraph

(* Both functions remove nodes they have chosen.                           *)
LEMMA ChooseIsRemoveSome == IInv /\ ChooseRemoveNodes => RemoveSome
<1> SUFFICES ASSUME IInv, ChooseRemoveNodes PROVE RemoveSome
  OBVIOUS
<1>1. to_remove = {} /\ NodesToRemove \subseteq Chosen
  BY DEF ChooseRemoveNodes, IInv, LocalsScoped, NodesToRemove, LowEdgeDiffs
<1>2. to_remove' = NodesToRemove /\ to_remove \cup NodesToRemove = NodesToRemove
  BY <1>1 DEF ChooseRemoveNodes
<1> QED
  BY <1>1, <1>2 DEF ChooseRemoveNodes, RemoveSome

(* The nodes that are removed get the next level; a laid aside edge keeps  *)
(* ends of different levels, because at most one of them had none.         *)
LEMMA RemoveSomeKeeps == IInv /\ RemoveSome => IInv'
<1> SUFFICES ASSUME IInv, RemoveSome PROVE IInv'
  OBVIOUS
<1>0. PICK R \in SUBSET Chosen : R = to_remove'
  BY DEF RemoveSome
<1>1. /\ phase = "parallel" /\ phase' = "restructure"
      /\ to_remove' = R /\ nodes' = nodes \ R
      /\ next_lvl < NO_LVL /\ next_lvl' = next_lvl + 1
      /\ is_dirty' = TRUE
      /\ node_levels' = [n \in Nodes |-> IF n \in R THEN next_lvl ELSE node_levels[n]]
      /\ rest_shortcuts' = new_shortcuts /\ merge_pos' = 1
      /\ UNCHANGED <<input_edges, out_edges, edges_dump, edge_count, new_edge_vec,
                     mode, round, select_vars, thread_vars>>
  BY <1>0 DEF RemoveSome, BeginRestructure, LevelsLeft
<1>2. R \subseteq Chosen /\ Chosen \subseteq nodes
  BY <1>1 DEF IInv, LevelsGiven
<1>3. /\ Edges' = Edges /\ MergedEdges' = MergedEdges /\ Chosen' = Chosen
  BY <1>1 DEF Edges, MergedEdges, Chosen, select_vars
<1>4. /\ node_levels \in [Nodes -> Uint] /\ next_lvl \in Uint /\ nodes \subseteq Nodes
      /\ \A n \in Nodes : n \in nodes <=> node_levels[n] = NO_LVL
      /\ \A n \in Nodes : n \notin nodes => node_levels[n] < next_lvl
  BY DEF IInv, VariableTypes, GraphTypeOK, LevelsGiven, Contracted
<1>5. VariableTypes'
  <2>1. next_lvl' \in Uint /\ node_levels' \in [Nodes -> Uint]
    BY <1>1, <1>4, SizeAssumption DEF Uint, NO_LVL
  <2>2. merge_pos' \in 0..(Len(out_edges') + 1)
    BY <1>1, LenProperties DEF IInv, VariableTypes, GraphTypeOK
  <2>3. R \in SUBSET Nodes
    BY <1>2, <1>4
  <2>4. GraphTypeOK'
    BY <1>1, <2>1, <2>2 DEF IInv, VariableTypes, GraphTypeOK
  <2> QED
    BY <1>1, <2>3, <2>4 DEF IInv, VariableTypes, select_vars, thread_vars
<1>6. LocalsScoped'
  <2>1. \A u \in Threads : pc[u] = "idle"
    BY DEF RemoveSome, LoopDone
  <2> QED
    BY <1>1, <2>1 DEF IInv, LocalsScoped, Restructuring, thread_vars
<1>7. NoLoops' /\ Independent'
  BY <1>1, <1>3 DEF IInv, NoLoops, Independent
<1>8. ShortcutsOverChosen'
  <2>1. \A s \in rest_shortcuts' : ShortcutOver(s, Chosen)
    BY <1>1 DEF IInv, ShortcutsOverChosen
  <2> QED
    BY <1>1, <1>3, <2>1 DEF ShortcutsOverChosen, ShortcutOver, Restructuring
<1>9. LevelsGiven'
  <2>1. \A n \in Nodes : node_levels'[n] = NO_LVL <=> n \in nodes'
    BY <1>1, <1>2, <1>4 DEF Uint
  <2>2. ASSUME NEW n \in Nodes, n \notin nodes'
        PROVE  node_levels'[n] < next_lvl'
    <3>1. next_lvl \in Nat /\ node_levels[n] \in Nat
      BY <1>4, NodesAreUint
    <3>2. CASE n \in R
      BY <1>1, <3>1, <3>2
    <3>3. CASE n \notin R
      <4>1. node_levels'[n] = node_levels[n] /\ node_levels[n] < next_lvl
        BY <1>1, <1>4, <2>2, <3>3
      <4> QED
        BY <1>1, <3>1, <4>1
    <3> QED
      BY <3>2, <3>3
  <2>3. \A n \in R : node_levels'[n] = next_lvl' - 1
    BY <1>1, <1>2, <1>4, NodesAreUint
  <2> QED
    BY <1>1, <1>2, <1>3, <1>4, <2>1, <2>2, <2>3 DEF LevelsGiven, Contracted, Restructuring
<1>10. EdgesJoinNodes'
  <2>1. \A e \in Edges : {e.src, e.tgt} \subseteq nodes
    BY <1>1 DEF IInv, EdgesJoinNodes, Restructuring
  <2>2. MergedEdges = {}
    BY <1>1 DEF IInv, LocalsScoped, Restructuring, MergedEdges
  <2> QED
    BY <1>1, <1>3, <2>1, <2>2 DEF EdgesJoinNodes, Restructuring
<1>11. DumpSeparate'
  <2> SUFFICES ASSUME NEW e \in edges_dump
               PROVE  node_levels'[e.src] # node_levels'[e.tgt]
    BY <1>1 DEF DumpSeparate
  <2>1. e.src \in Nodes /\ e.tgt \in Nodes
    BY DEF IInv, VariableTypes, GraphTypeOK, CHEdge
  <2>2. node_levels[e.src] # node_levels[e.tgt]
    BY DEF IInv, DumpSeparate
  <2>3. e.src \notin nodes \/ e.tgt \notin nodes
    BY <1>4, <2>1, <2>2
  <2>4. /\ next_lvl \in Nat
        /\ e.src \notin nodes => node_levels[e.src] # next_lvl
        /\ e.tgt \notin nodes => node_levels[e.tgt] # next_lvl
    <3>1. next_lvl \in Nat /\ node_levels[e.src] \in Nat /\ node_levels[e.tgt] \in Nat
      BY <1>4, <2>1, NodesAreUint
    <3>2. /\ e.src \notin nodes => node_levels[e.src] < next_lvl
          /\ e.tgt \notin nodes => node_levels[e.tgt] < next_lvl
      BY <1>4, <2>1
    <3> QED
      BY <3>1, <3>2
  <2>5. e.src \notin R \/ e.tgt \notin R
    BY <1>2, <2>3
  <2>6. /\ e.src \in R => node_levels'[e.src] = next_lvl /\ e.tgt \notin nodes
        /\ e.tgt \in R => node_levels'[e.tgt] = next_lvl /\ e.src \notin nodes
        /\ e.src \notin R => node_levels'[e.src] = node_levels[e.src]
        /\ e.tgt \notin R => node_levels'[e.tgt] = node_levels[e.tgt]
    BY <1>1, <1>2, <2>1, <2>3
  <2> QED
    BY <2>2, <2>4, <2>5, <2>6
<1> QED
  BY <1>5, <1>6, <1>7, <1>8, <1>9, <1>10, <1>11 DEF IInv

(* One step of the merge leaves the edges of the graph and the levels      *)
(* alone.  A shortcut that is accepted leads over a node that is removed,  *)
(* so its ends, which are neighbours of that node, are not chosen.         *)
LEMMA MergeShortcutKeeps ==
  ASSUME IInv, Restructuring, MergeShortcut(to_remove),
         UNCHANGED <<loop_vars, select_vars, thread_vars, to_remove>>
  PROVE  IInv'
<1>1. PICK s \in rest_shortcuts :
        /\ rest_shortcuts' = rest_shortcuts \ {s}
        /\ IF AcceptsShortcut(s, to_remove)
           THEN AddNewEdge(s)
           ELSE UNCHANGED <<new_edge_vec, edge_count>>
  BY DEF MergeShortcut
<1>2. /\ UNCHANGED <<input_edges, out_edges, edges_dump, node_levels, next_lvl,
                     is_dirty, merge_pos>>
      /\ UNCHANGED <<mode, phase, round, nodes, unvisited, marked, independent_set,
                     next_index, pc, found, seen, mutex, new_shortcuts, edge_diffs,
                     to_remove>>
  BY DEF MergeShortcut, loop_vars, select_vars, thread_vars
<1>3. /\ s \in CHEdge /\ new_edge_vec \in Seq(CHEdge) /\ edge_count \in Uint
      /\ out_edges \in Seq(CHEdge)
  BY DEF IInv, VariableTypes, GraphTypeOK
<1>4. Edges' = Edges /\ Chosen' = Chosen /\ phase = "restructure" /\ phase' = "restructure"
  BY <1>2 DEF Edges, Chosen, Restructuring
<1>5. ShortcutOver(s, Chosen)
  BY DEF IInv, ShortcutsOverChosen
<1>6. /\ new_edge_vec' \in Seq(CHEdge) /\ edge_count' \in Uint
      /\ \A x \in MergedEdges' :
           \/ x \in MergedEdges
           \/ AcceptsShortcut(s, to_remove) /\ x.src = s.src /\ x.tgt = s.tgt
  <2>1. CASE AcceptsShortcut(s, to_remove)
    BY <1>1, <1>3, <2>1, AddNewEdgeKeeps
  <2>2. CASE ~AcceptsShortcut(s, to_remove)
    BY <1>1, <1>3, <2>2 DEF MergedEdges
  <2> QED
    BY <2>1, <2>2
<1>7. ASSUME AcceptsShortcut(s, to_remove)
      PROVE  {s.src, s.tgt} \subseteq nodes
  <2>1. PICK a, b \in Edges : /\ a.src = s.src /\ a.tgt = s.center_node
                              /\ b.src = s.center_node /\ b.tgt = s.tgt
    BY <1>5 DEF ShortcutOver
  <2>2. s.center_node \in Chosen /\ to_remove \subseteq Chosen
    BY <1>5 DEF IInv, LevelsGiven, ShortcutOver
  <2>3. s.src \notin Chosen /\ s.tgt \notin Chosen
    BY <1>4, <2>1, <2>2 DEF IInv, Independent
  <2>4. {s.src, s.tgt} \subseteq nodes \cup to_remove
    BY <2>1 DEF IInv, EdgesJoinNodes
  <2> QED
    BY <2>2, <2>3, <2>4
<1>8. VariableTypes'
  <2>1. GraphTypeOK'
    BY <1>1, <1>2, <1>6 DEF IInv, VariableTypes, GraphTypeOK
  <2> QED
    BY <1>2, <2>1 DEF IInv, VariableTypes
<1>9. LocalsScoped'
  BY <1>2, <1>4 DEF IInv, LocalsScoped, Restructuring
<1>10. NoLoops'
  BY <1>4, <1>5, <1>6 DEF IInv, NoLoops, NoLoop, ShortcutOver
<1>11. ShortcutsOverChosen' /\ Independent'
  <2>1. \A x \in rest_shortcuts' : ShortcutOver(x, Chosen)
    BY <1>1 DEF IInv, ShortcutsOverChosen
  <2> QED
    BY <1>2, <1>4, <2>1 DEF IInv, ShortcutsOverChosen, ShortcutOver, Independent, Restructuring
<1>12. LevelsGiven' /\ DumpSeparate'
  BY <1>2, <1>4 DEF IInv, LevelsGiven, DumpSeparate, Contracted, Restructuring
<1>13. EdgesJoinNodes'
  BY <1>2, <1>4, <1>6, <1>7 DEF IInv, EdgesJoinNodes, Restructuring
<1> QED
  BY <1>8, <1>9, <1>10, <1>11, <1>12, <1>13 DEF IInv

(* An edge is laid aside when exactly one of its ends is removed: that end *)
(* has the newest level, the other none.                                   *)
LEMMA MergeEdgeKeeps ==
  ASSUME IInv, Restructuring, MergeEdge(to_remove),
         UNCHANGED <<loop_vars, select_vars, thread_vars, to_remove>>
  PROVE  IInv'
<1> DEFINE edge == out_edges[merge_pos]
<1>1. /\ merge_pos \in 1..Len(out_edges)
      /\ merge_pos' = merge_pos + 1
      /\ \/ /\ Stays(edge, to_remove)
            /\ AddNewEdge(edge)
            /\ UNCHANGED edges_dump
         \/ /\ ~Stays(edge, to_remove)
            /\ edges_dump' = edges_dump \cup {edge}
            /\ UNCHANGED <<new_edge_vec, edge_count>>
  BY DEF MergeEdge
<1>2. /\ UNCHANGED <<input_edges, out_edges, node_levels, next_lvl, is_dirty,
                     rest_shortcuts>>
      /\ UNCHANGED <<mode, phase, round, nodes, unvisited, marked, independent_set,
                     next_index, pc, found, seen, mutex, new_shortcuts, edge_diffs,
                     to_remove>>
  BY DEF MergeEdge, loop_vars, select_vars, thread_vars
<1>3. /\ new_edge_vec \in Seq(CHEdge) /\ edge_count \in Uint
      /\ out_edges \in Seq(CHEdge)
  BY DEF IInv, VariableTypes, GraphTypeOK
<1>4. edge \in Edges /\ edge \in CHEdge
  BY <1>1, <1>3, LenProperties, EdgesType DEF Edges
<1>5. Edges' = Edges /\ Chosen' = Chosen /\ phase = "restructure" /\ phase' = "restructure"
  BY <1>2 DEF Edges, Chosen, Restructuring
<1>6. /\ new_edge_vec' \in Seq(CHEdge) /\ edge_count' \in Uint
      /\ edges_dump' \in SUBSET CHEdge
      /\ \A x \in MergedEdges' :
           \/ x \in MergedEdges
           \/ Stays(edge, to_remove) /\ x.src = edge.src /\ x.tgt = edge.tgt
  <2>1. edges_dump \in SUBSET CHEdge
    BY DEF IInv, VariableTypes, GraphTypeOK
  <2> HIDE DEF edge
  <2>2. CASE Stays(edge, to_remove)
    BY <1>1, <1>3, <1>4, <2>1, <2>2, AddNewEdgeKeeps
  <2>3. CASE ~Stays(edge, to_remove)
    BY <1>1, <1>3, <1>4, <2>1, <2>3 DEF MergedEdges
  <2> QED
    BY <2>2, <2>3
<1> HIDE DEF edge
<1>7. {edge.src, edge.tgt} \subseteq nodes \cup to_remove
  BY <1>4 DEF IInv, EdgesJoinNodes
<1>8. VariableTypes'
  <2>1. merge_pos' \in 0..(Len(out_edges') + 1)
    BY <1>1, <1>2, <1>3, LenProperties
  <2>2. GraphTypeOK'
    BY <1>2, <1>6, <2>1 DEF IInv, VariableTypes, GraphTypeOK
  <2> QED
    BY <1>2, <2>2 DEF IInv, VariableTypes
<1>9. LocalsScoped'
  <2>1. merge_pos' # 0
    BY <1>1, <1>3, LenProperties
  <2> QED
    BY <1>2, <1>5, <2>1 DEF IInv, LocalsScoped, Restructuring
<1>10. NoLoops'
  BY <1>4, <1>5, <1>6 DEF IInv, NoLoops, NoLoop
<1>11. ShortcutsOverChosen' /\ Independent'
  BY <1>2, <1>5 DEF IInv, ShortcutsOverChosen, ShortcutOver, Independent, Restructuring
<1>12. LevelsGiven'
  BY <1>2, <1>5 DEF IInv, LevelsGiven, Contracted, Restructuring
<1>13. EdgesJoinNodes'
  BY <1>2, <1>5, <1>6, <1>7 DEF IInv, EdgesJoinNodes, Restructuring, Stays
<1>14. DumpSeparate'
  <2>1. ASSUME ~Stays(edge, to_remove)
        PROVE  node_levels[edge.src] # node_levels[edge.tgt]
    <3>1. /\ nodes = {n \in Nodes : node_levels[n] = NO_LVL}
          /\ to_remove \subseteq Chosen
          /\ \A n \in to_remove : node_levels[n] = next_lvl - 1
          /\ to_remove \subseteq Nodes
      BY <1>5 DEF IInv, LevelsGiven, Contracted, Restructuring, VariableTypes
    <3>2. edge.src \notin to_remove \/ edge.tgt \notin to_remove
      BY <1>4, <1>5, <3>1 DEF IInv, Independent
    <3>3. next_lvl - 1 < NO_LVL
      BY SizeAssumption DEF IInv, VariableTypes, GraphTypeOK, Uint, NO_LVL
    <3>4. next_lvl - 1 # NO_LVL
      BY <3>3, SizeAssumption DEF IInv, VariableTypes, GraphTypeOK, Uint, NO_LVL
    <3> QED
      BY <1>7, <2>1, <3>1, <3>2, <3>4 DEF Stays
  <2> QED
    BY <1>1, <1>2, <2>1 DEF IInv, DumpSeparate
<1> QED
  BY <1>8, <1>9, <1>10, <1>11, <1>12, <1>13, <1>14 DEF IInv

(* When the vectors are swapped, the graph is what was merged.             *)
LEMMA EndRoundKeeps == IInv /\ EndRound => IInv'
<1> SUFFICES ASSUME IInv, EndRound PROVE IInv'
  OBVIOUS
<1>1. /\ phase = "restructure" /\ phase' = "round"
      /\ round' = IF mode = "quick" THEN round + 1 ELSE round
      /\ out_edges' = new_edge_vec /\ new_edge_vec' = <<>> /\ merge_pos' = 0
      /\ rest_shortcuts = {} /\ rest_shortcuts' = {}
      /\ UNCHANGED <<input_edges, edges_dump, node_levels, next_lvl, edge_count,
                     is_dirty, mode, nodes, unvisited, marked, independent_set,
                     next_index, pc, found, seen, mutex, new_shortcuts, edge_diffs,
                     to_remove>>
  BY DEF EndRound, FinishRestructure, select_vars, thread_vars
<1>2. Edges' = MergedEdges /\ MergedEdges' = {} /\ Chosen' = Chosen
  BY <1>1 DEF Edges, MergedEdges, Chosen
<1>3. VariableTypes'
  <2>1. new_edge_vec \in Seq(CHEdge) /\ <<>> \in Seq(CHEdge)
    BY EmptySeq DEF IInv, VariableTypes, GraphTypeOK
  <2>2. merge_pos' \in 0..(Len(out_edges') + 1)
    BY <1>1, <2>1, LenProperties
  <2>3. GraphTypeOK'
    BY <1>1, <2>1, <2>2 DEF IInv, VariableTypes, GraphTypeOK
  <2>4. round' \in 1..(QuickMaxRounds + 1)
    BY <1>1, QuickAssumption DEF IInv, VariableTypes, LocalsScoped
  <2> QED
    BY <1>1, <2>3, <2>4 DEF IInv, VariableTypes
<1>4. LocalsScoped'
  BY <1>1 DEF IInv, LocalsScoped, Restructuring
<1>5. NoLoops'
  BY <1>2 DEF IInv, NoLoops, NoLoop
<1>6. ShortcutsOverChosen' /\ Independent'
  BY <1>1 DEF ShortcutsOverChosen, Independent, Restructuring
<1>7. LevelsGiven'
  BY <1>1 DEF IInv, LevelsGiven, Contracted, Restructuring
<1>8. EdgesJoinNodes'
  BY <1>1, <1>2 DEF IInv, EdgesJoinNodes, Restructuring
<1>9. DumpSeparate'
  BY <1>1 DEF IInv, DumpSeparate
<1> QED
  BY <1>3, <1>4, <1>5, <1>6, <1>7, <1>8, <1>9 DEF IInv

(* Nothing changes after the last node was contracted.                     *)
LEMMA StutterKeeps == IInv /\ UNCHANGED vars => IInv'
<1> SUFFICES ASSUME IInv, UNCHANGED vars PROVE IInv'
  OBVIOUS
<1>0. /\ UNCHANGED graph_vars
      /\ UNCHANGED <<mode, phase, round, nodes, unvisited, marked, independent_set,
                     next_index, pc, found, seen, mutex, new_shortcuts, edge_diffs,
                     to_remove>>
  BY DEF vars, loop_vars, select_vars, thread_vars
<1>1. VariableTypes'
  BY <1>0, SameGraph DEF IInv, VariableTypes
<1>2. LocalsScoped'
  BY <1>0 DEF IInv, LocalsScoped, Restructuring, graph_vars
<1>3. Edges' = Edges /\ MergedEdges' = MergedEdges /\ Chosen' = Chosen
  BY <1>0, SameGraph DEF Chosen
<1>4. ShortcutsOverChosen' /\ Independent'
  BY <1>0, <1>3 DEF IInv, ShortcutsOverChosen, ShortcutOver, Independent, Restructuring, graph_vars
<1>5. LevelsGiven'
  BY <1>0, <1>3 DEF IInv, LevelsGiven, Contracted, Restructuring, graph_vars
<1>6. EdgesJoinNodes'
  BY <1>0, <1>3 DEF IInv, EdgesJoinNodes, Restructuring
<1> QED
  BY <1>0, <1>1, <1>2, <1>4, <1>5, <1>6, SameGraph DEF IInv

-----------------------------------------------------------------------------
(* IInv is inductive: every step of a construction preserves it.           *)
LEMMA AnyKeeps == IInv /\ [AnyNext]_vars => IInv'
<1> SUFFICES ASSUME IInv, [AnyNext]_vars PROVE IInv'
  OBVIOUS
<1>1. CASE StartRound
  BY <1>1, StartRoundKeeps
<1>2. CASE QuickContractReturns
  BY <1>2, QuickContractReturnsKeeps
<1>3. CASE ContractReturns
  BY <1>3, ContractReturnsKeeps
<1>4. CASE SelectNode
  BY <1>4, SelectNodeKeeps
<1>5. CASE EnterParallelLoop
  BY <1>5, EnterParallelLoopKeeps
<1>6. ASSUME NEW t \in Threads, ContractNode(t) \/ LockInsert(t) \/ FinishInsert(t)
      PROVE  IInv'
  BY <1>6, ContractNodeKeeps, LockInsertKeeps, FinishInsertKeeps
<1>7. CASE ChooseRemoveNodes \/ RemoveSome
  BY <1>7, ChooseIsRemoveSome, RemoveSomeKeeps
<1>8. CASE Restructure
  BY <1>8, MergeShortcutKeeps, MergeEdgeKeeps DEF Restructure, Restructuring
<1>9. CASE EndRound
  BY <1>9, EndRoundKeeps
<1>10. CASE Terminated \/ UNCHANGED vars
  BY <1>10, StutterKeeps DEF Terminated
<1>11. CASE ConsiderNodes \/ EnterWithNodes
  BY <1>11, ConsiderNodesKeeps, EnterWithNodesKeeps
<1> QED
  BY <1>1, <1>2, <1>3, <1>4, <1>5, <1>6, <1>7, <1>8, <1>9, <1>10, <1>11
     DEF AnyNext, Next, StepWithinRound

(* The steps of the program are among them.                                *)
LEMMA NextIsAny == [Next]_vars => [AnyNext]_vars
BY DEF AnyNext

(* They preserve the invariant.                                            *)
LEMMA NextKeeps == IInv /\ [Next]_vars => IInv'
BY AnyKeeps, NextIsAny

(* In every reachable state the inductive invariant holds.                 *)
THEOREM Invariant == Spec => []IInv
<1>1. Init => IInv
  BY InitIInv, InitIsAny
<1>2. IInv /\ [Next]_vars => IInv'
  BY NextKeeps
<1> QED
  BY <1>1, <1>2, PTL DEF Spec

(* The invariant says so of every shortcut over a chosen node.             *)
LEMMA IInvStays == IInv => AcceptedShortcutsStay
<1> SUFFICES ASSUME IInv, Restructuring,
                    NEW s \in rest_shortcuts, s.center_node \in to_remove
             PROVE  {s.src, s.tgt} \cap to_remove = {}
  BY DEF AcceptedShortcutsStay
<1>1. PICK a, b \in Edges : /\ a.src = s.src /\ a.tgt = s.center_node
                            /\ b.src = s.center_node /\ b.tgt = s.tgt
  BY DEF IInv, ShortcutsOverChosen, ShortcutOver
<1>2. to_remove \subseteq Chosen
  BY DEF IInv, LevelsGiven
<1>3. s.src \notin Chosen /\ s.tgt \notin Chosen
  BY <1>1, <1>2 DEF IInv, Independent, Restructuring
<1> QED
  BY <1>2, <1>3

(* No shortcut that restructure() takes into the graph ends at a node that *)
(* is removed in the same round.                                           *)
THEOREM ShortcutsStay == Spec => []AcceptedShortcutsStay
BY Invariant, IInvStays, PTL

(* The edges of the graph never touch a contracted node, and isUp() finds  *)
(* a direction for every edge that was laid aside.                         *)
THEOREM LevelsDiffer == Spec => []LevelsSeparate
<1>1. IInv => LevelsSeparate
  BY DEF IInv, LevelsSeparate, LevelsGiven, EdgesJoinNodes, DumpSeparate
<1> QED
  BY <1>1, Invariant, PTL

(* A step never changes the level of a contracted node, and never drops or *)
(* changes an edge that was laid aside.                                    *)
THEOREM ContractedStays == Spec => ContractedIsFinal
<1> DEFINE A == /\ \A n \in Nodes : Contracted(n) => node_levels'[n] = node_levels[n]
                /\ edges_dump \subseteq edges_dump'
<1>1. IInv /\ [Next]_vars => [A]_vars
  <2> SUFFICES ASSUME IInv, Next PROVE A
    OBVIOUS
  <2>1. CASE UNCHANGED graph_vars
    BY <2>1 DEF graph_vars
  <2>2. CASE ChooseRemoveNodes
    <3>1. /\ nodes = {n \in Nodes : ~Contracted(n)}
          /\ to_remove \cup NodesToRemove \subseteq nodes
      BY <2>2 DEF IInv, LevelsGiven, LocalsScoped, ChooseRemoveNodes, NodesToRemove, LowEdgeDiffs
    <3> QED
      BY <2>2, <3>1 DEF ChooseRemoveNodes, BeginRestructure
  <2>3. CASE Restructure
    BY <2>3 DEF Restructure, MergeShortcut, MergeEdge
  <2>4. CASE EndRound
    BY <2>4 DEF EndRound, FinishRestructure
  <2> QED
    BY <2>1, <2>2, <2>3, <2>4
    DEF Next, StepWithinRound, StartRound, QuickContractReturns, ContractReturns, SelectNode, EnterParallelLoop,
        ContractNode, LockInsert, FinishInsert, Terminated, vars
<1> QED
  BY <1>1, Invariant, PTL DEF Spec, ContractedIsFinal

-----------------------------------------------------------------------------
(* The parallel loop of a round, for every number of threads and every set *)
(* of nodes: the mutex keeps the shortcuts of all nodes.                   *)

(* The shortcuts of the nodes whose iterations the threads have taken.     *)
ShortcutsTaken == UNION {Shortcuts(independent_set[i]) : i \in 1..(next_index - 1)}

(* The shortcuts in the shared vector and in the hands of the threads.     *)
ShortcutsThere == new_shortcuts \cup UNION {found[t] : t \in Threads}

(* A thread that inserts holds the mutex, and what it has read is still    *)
(* what is in the vector.                                                  *)
InsertingAlone ==
  \A t \in Threads : pc[t] = "inserting" => mutex = t /\ seen[t] = new_shortcuts

NoneLost ==
  phase = "parallel" =>
    1..(next_index - 1) \subseteq DOMAIN independent_set /\ ShortcutsThere = ShortcutsTaken

LoopInv == IInv /\ InsertingAlone /\ NoneLost

-----------------------------------------------------------------------------
(* The shortcuts of a node depend on the graph and on the function that    *)
(* runs, and on nothing the threads change.                                *)
LEMMA SameEdgesSameShortcuts ==
  ASSUME UNCHANGED <<out_edges, mode>>
  PROVE  \A n \in Nodes : Shortcuts(n)' = Shortcuts(n)
<1>1. Edges' = Edges
  BY DEF Edges
<1>2. \A n, type : NodeEdges(n, type)' = NodeEdges(n, type)
  BY <1>1 DEF NodeEdges
<1>3. \A n : QuickShortcutsOf(n)' = QuickShortcutsOf(n)
  BY <1>2 DEF QuickShortcutsOf
<1>4. \A e, n, type : CalcShortcuts(e, n, type)' = CalcShortcuts(e, n, type)
  <2> TAKE e, n, type
  <2>1. Targets(e, n, type)' = Targets(e, n, type)
    BY <1>2 DEF Targets
  <2>2. SearchDists(e, n, type)' = SearchDists(e, n, type)
    BY <1>1, <2>1 DEF SearchDists
  <2> QED
    BY <2>1, <2>2 DEF CalcShortcuts
<1>5. \A n : SearchDirection(n)' = SearchDirection(n)
  BY <1>2 DEF SearchDirection, NrOfEdgesOf
<1>6. \A n : ShortcutsOf(n)' = ShortcutsOf(n)
  BY <1>2, <1>4, <1>5 DEF ShortcutsOf
<1> QED
  BY <1>3, <1>6 DEF Shortcuts

(* So they stay the same while the graph does.                             *)
LEMMA SameShortcuts ==
  ASSUME UNCHANGED <<graph_vars, mode>>
  PROVE  \A n \in Nodes : Shortcuts(n)' = Shortcuts(n)
BY SameEdgesSameShortcuts DEF graph_vars

(* Taking an iteration adds the shortcuts of its node on both sides.       *)
LEMMA ContractNodeLoses ==
  ASSUME LoopInv, NEW t \in Threads, ContractNode(t)
  PROVE  InsertingAlone' /\ NoneLost'
<1> DEFINE node == independent_set[next_index]
<1>1. /\ phase = "parallel" /\ pc[t] = "idle" /\ next_index <= Len(independent_set)
      /\ found' = [found EXCEPT ![t] = Shortcuts(node)]
      /\ next_index' = next_index + 1
      /\ pc' = [pc EXCEPT ![t] = "insert"]
      /\ UNCHANGED <<graph_vars, mode, phase, independent_set, seen, mutex, new_shortcuts>>
  BY DEF ContractNode, loop_vars, select_vars
<1>2. /\ independent_set \in Seq(Nodes) /\ next_index \in Nat \ {0}
      /\ pc \in [Threads -> {"idle", "insert", "inserting"}]
      /\ found \in [Threads -> SUBSET CHEdge] /\ found[t] = {}
  BY <1>1 DEF LoopInv, IInv, VariableTypes, LocalsScoped
<1>3. InsertingAlone'
  BY <1>1, <1>2 DEF LoopInv, InsertingAlone
<1>4. /\ DOMAIN independent_set = 1..Len(independent_set) /\ Len(independent_set) \in Nat
      /\ \A i \in DOMAIN independent_set : independent_set[i] \in Nodes
  BY <1>2, LenProperties
<1>5. 1..(next_index' - 1) = 1..(next_index - 1) \cup {next_index}
  BY <1>1, <1>2
<1>6. 1..(next_index' - 1) \subseteq DOMAIN independent_set
  BY <1>1, <1>2, <1>4
<1>7. ShortcutsTaken' = ShortcutsTaken \cup Shortcuts(node)
  <2>1. \A i \in 1..(next_index' - 1) :
          Shortcuts(independent_set[i])' = Shortcuts(independent_set[i])
    BY <1>1, <1>4, <1>6, SameShortcuts
  <2>2. ShortcutsTaken' = UNION {Shortcuts(independent_set[i]) : i \in 1..(next_index' - 1)}
    BY <1>1, <2>1 DEF ShortcutsTaken
  <2> QED
    BY <1>5, <2>2 DEF ShortcutsTaken
<1>8. ShortcutsThere' = ShortcutsThere \cup Shortcuts(node)
  <2>1. \A u \in Threads : found'[u] = IF u = t THEN Shortcuts(node) ELSE found[u]
    BY <1>1, <1>2
  <2> QED
    BY <1>1, <1>2, <2>1 DEF ShortcutsThere
<1> QED
  BY <1>1, <1>3, <1>6, <1>7, <1>8 DEF LoopInv, NoneLost

(* While the mutex is free nobody inserts; the thread that takes it reads  *)
(* the vector.                                                             *)
LEMMA LockInsertLoses ==
  ASSUME LoopInv, NEW t \in Threads, LockInsert(t)
  PROVE  InsertingAlone' /\ NoneLost'
<1>1. /\ mutex = NoThread /\ mutex' = t
      /\ seen' = [seen EXCEPT ![t] = new_shortcuts]
      /\ pc' = [pc EXCEPT ![t] = "inserting"]
      /\ UNCHANGED <<graph_vars, mode, phase, independent_set, next_index, found, new_shortcuts>>
  BY DEF LockInsert, loop_vars, select_vars
<1>2. /\ pc \in [Threads -> {"idle", "insert", "inserting"}]
      /\ seen \in [Threads -> SUBSET CHEdge]
      /\ independent_set \in Seq(Nodes)
  BY DEF LoopInv, IInv, VariableTypes
<1>3. \A u \in Threads : pc[u] # "inserting"
  BY <1>1, ThreadsAssumption DEF LoopInv, InsertingAlone
<1>4. InsertingAlone'
  BY <1>1, <1>2, <1>3 DEF InsertingAlone
<1>5. ASSUME phase = "parallel"
      PROVE  ShortcutsTaken' = ShortcutsTaken
  <2>1. \A i \in 1..(next_index - 1) : independent_set[i] \in Nodes
    BY <1>2, <1>5 DEF LoopInv, NoneLost
  <2> QED
    BY <1>1, <2>1, SameShortcuts DEF ShortcutsTaken
<1>6. ShortcutsThere' = ShortcutsThere
  BY <1>1 DEF ShortcutsThere
<1> QED
  BY <1>1, <1>4, <1>5, <1>6 DEF LoopInv, NoneLost

(* The vector still holds what the thread has read, so that writing it back*)
(* with the thread's shortcuts loses nothing.                              *)
LEMMA FinishInsertLoses ==
  ASSUME LoopInv, NEW t \in Threads, FinishInsert(t)
  PROVE  InsertingAlone' /\ NoneLost'
<1>1. /\ pc[t] = "inserting"
      /\ new_shortcuts' = seen[t] \cup found[t]
      /\ found' = [found EXCEPT ![t] = {}]
      /\ pc' = [pc EXCEPT ![t] = "idle"]
      /\ UNCHANGED <<graph_vars, mode, phase, independent_set, next_index>>
  BY DEF FinishInsert, loop_vars, select_vars
<1>2. /\ pc \in [Threads -> {"idle", "insert", "inserting"}]
      /\ found \in [Threads -> SUBSET CHEdge]
      /\ independent_set \in Seq(Nodes)
  BY DEF LoopInv, IInv, VariableTypes
<1>3. mutex = t /\ seen[t] = new_shortcuts
  BY <1>1 DEF LoopInv, InsertingAlone
<1>4. InsertingAlone'
  <2>1. \A u \in Threads : pc'[u] # "inserting"
    BY <1>1, <1>2, <1>3 DEF LoopInv, InsertingAlone
  <2> QED
    BY <2>1 DEF InsertingAlone
<1>5. ASSUME phase = "parallel"
      PROVE  ShortcutsTaken' = ShortcutsTaken
  <2>1. \A i \in 1..(next_index - 1) : independent_set[i] \in Nodes
    BY <1>2, <1>5 DEF LoopInv, NoneLost
  <2> QED
    BY <1>1, <2>1, SameShortcuts DEF ShortcutsTaken
<1>6. ShortcutsThere' = ShortcutsThere
  <2>1. \A u \in Threads : found'[u] = IF u = t THEN {} ELSE found[u]
    BY <1>1, <1>2
  <2> QED
    BY <1>1, <1>3, <2>1 DEF ShortcutsThere
<1> QED
  BY <1>1, <1>4, <1>5, <1>6 DEF LoopInv, NoneLost

(* A round enters the loop with no shortcuts anywhere.                     *)
LEMMA EnterLoses ==
  ASSUME LoopInv, EnterParallelLoop
  PROVE  InsertingAlone' /\ NoneLost'
<1>1. /\ phase = "select" /\ next_index' = 1
      /\ UNCHANGED <<pc, found, seen, mutex, new_shortcuts>>
  BY DEF EnterParallelLoop
<1>2. new_shortcuts = {} /\ \A t \in Threads : found[t] = {}
  BY <1>1 DEF LoopInv, IInv, LocalsScoped
<1>3. InsertingAlone'
  BY <1>1 DEF LoopInv, InsertingAlone
<1>4. ShortcutsThere' = {}
  BY <1>1, <1>2 DEF ShortcutsThere
<1>5. 1..(next_index' - 1) = {}
  BY <1>1
<1> QED
  BY <1>3, <1>4, <1>5 DEF NoneLost, ShortcutsTaken

(* So does one that is entered with other nodes.                           *)
LEMMA EnterWithNodesLoses ==
  ASSUME LoopInv, EnterWithNodes
  PROVE  InsertingAlone' /\ NoneLost'
<1>1. /\ phase = "round" /\ next_index' = 1 /\ new_shortcuts' = {}
      /\ UNCHANGED <<pc, found, seen, mutex>>
  BY DEF EnterWithNodes
<1>2. \A t \in Threads : pc[t] = "idle" /\ found[t] = {}
  BY <1>1 DEF LoopInv, IInv, LocalsScoped
<1>3. InsertingAlone'
  BY <1>1, <1>2 DEF InsertingAlone
<1>4. ShortcutsThere' = {}
  BY <1>1, <1>2 DEF ShortcutsThere
<1>5. 1..(next_index' - 1) = {}
  BY <1>1
<1> QED
  BY <1>3, <1>4, <1>5 DEF NoneLost, ShortcutsTaken

(* Outside of the loop no thread inserts and there is nothing to lose.     *)
LEMMA OutsideLoses ==
  ASSUME IInv', phase' # "parallel"
  PROVE  InsertingAlone' /\ NoneLost'
BY DEF IInv, LocalsScoped, InsertingAlone, NoneLost

(* Nothing happens after the last node was contracted.                    *)
LEMMA StutterLoses ==
  ASSUME LoopInv, UNCHANGED vars
  PROVE  InsertingAlone' /\ NoneLost'
<1>1. UNCHANGED <<graph_vars, mode, phase, independent_set, next_index, pc, found, seen, mutex,
                  new_shortcuts>>
  BY DEF vars, loop_vars, select_vars, thread_vars
<1>2. InsertingAlone'
  BY <1>1 DEF LoopInv, InsertingAlone
<1>3. ASSUME phase = "parallel"
      PROVE  ShortcutsTaken' = ShortcutsTaken
  <2>1. \A i \in 1..(next_index - 1) : independent_set[i] \in Nodes
    BY <1>3 DEF LoopInv, NoneLost, IInv, VariableTypes
  <2> QED
    BY <1>1, <2>1, SameShortcuts DEF ShortcutsTaken
<1> QED
  BY <1>1, <1>2, <1>3 DEF LoopInv, NoneLost, ShortcutsThere

-----------------------------------------------------------------------------
(* At the beginning nothing is lost.                                       *)
LEMMA InitLoop == AnyInit => LoopInv
<1>1. AnyInit => InsertingAlone /\ NoneLost
  BY DEF AnyInit, InsertingAlone, NoneLost
<1> QED
  BY <1>1, InitIInv DEF LoopInv

(* Every step keeps the shortcuts that were found.                         *)
LEMMA AnyKeepsLoop == LoopInv /\ [AnyNext]_vars => LoopInv'
<1> SUFFICES ASSUME LoopInv, [AnyNext]_vars PROVE InsertingAlone' /\ NoneLost'
  BY AnyKeeps DEF LoopInv
<1>0. IInv'
  BY AnyKeeps DEF LoopInv
<1>1. CASE StartRound \/ QuickContractReturns \/ ContractReturns \/ SelectNode
           \/ ChooseRemoveNodes \/ EndRound \/ ConsiderNodes \/ RemoveSome
  <2>1. phase' # "parallel"
    BY <1>1 DEF StartRound, QuickContractReturns, ContractReturns, SelectNode, loop_vars,
                ChooseRemoveNodes, EndRound, ConsiderNodes, RemoveSome
  <2> QED
    BY <1>0, <2>1, OutsideLoses
<1>2. CASE Restructure
  <2>1. phase' # "parallel"
    BY <1>2 DEF Restructure, loop_vars
  <2> QED
    BY <1>0, <2>1, OutsideLoses
<1>3. CASE EnterParallelLoop
  BY <1>3, EnterLoses
<1>4. ASSUME NEW t \in Threads, ContractNode(t) \/ LockInsert(t) \/ FinishInsert(t)
      PROVE  InsertingAlone' /\ NoneLost'
  BY <1>4, ContractNodeLoses, LockInsertLoses, FinishInsertLoses
<1>5. CASE Terminated \/ UNCHANGED vars
  BY <1>5, StutterLoses DEF Terminated
<1>6. CASE EnterWithNodes
  BY <1>6, EnterWithNodesLoses
<1> QED
  BY <1>1, <1>2, <1>3, <1>4, <1>5, <1>6 DEF AnyNext, Next, StepWithinRound

(* After the loop the vector holds them all.                               *)
LEMMA LoopLosesNothing == LoopInv => NoShortcutLost
<1> SUFFICES ASSUME LoopInv, phase = "parallel", LoopDone
             PROVE  new_shortcuts = UNION {Shortcuts(n) : n \in Chosen}
  BY DEF NoShortcutLost
<1>1. \A t \in Threads : found[t] = {}
  BY DEF LoopDone, LoopInv, IInv, LocalsScoped
<1>2. ShortcutsThere = new_shortcuts
  BY <1>1 DEF ShortcutsThere
<1>3. DOMAIN independent_set = 1..(next_index - 1)
  <2>1. /\ DOMAIN independent_set = 1..Len(independent_set) /\ Len(independent_set) \in Nat
        /\ next_index \in Nat \ {0}
    BY LenProperties DEF LoopInv, IInv, VariableTypes
  <2>2. next_index > Len(independent_set)
    BY DEF LoopDone
  <2>3. 1..(next_index - 1) \subseteq DOMAIN independent_set
    BY DEF LoopInv, NoneLost
  <2> QED
    BY <2>1, <2>2, <2>3
<1> QED
  BY <1>2, <1>3 DEF LoopInv, NoneLost, ShortcutsTaken, Chosen

(* When the threads have met, the shared vector holds the shortcuts of all *)
(* nodes of the independent set and no others, for any number of threads.  *)
THEOREM NothingLost == Spec => []NoShortcutLost
<1>1. Init => LoopInv
  BY InitLoop, InitIsAny
<1>2. LoopInv /\ [Next]_vars => LoopInv'
  BY AnyKeepsLoop, NextIsAny
<1> QED
  BY <1>1, <1>2, LoopLosesNothing, PTL DEF Spec

-----------------------------------------------------------------------------
(* The merge.                                                              *)

(* The order of the merged vector.                                         *)
Before(a, b) == SrcTgtLess(a, b) \/ (EqualEndpoints(a, b) /\ a.dist > b.dist)

(* A shortcut gets its id only when it is put into the graph.              *)
NewIds ==
  /\ \A s \in new_shortcuts \cup rest_shortcuts : s.id = NO_EID
  /\ \A t \in Threads : \A s \in found[t] \cup seen[t] : s.id = NO_EID

(* What is still to be merged comes after what is merged.                  *)
MergeAhead ==
  new_edge_vec # <<>> =>
    /\ \A s \in rest_shortcuts : ~SrcTgtLess(s, LastEdge)
    /\ merge_pos <= Len(out_edges) => Before(LastEdge, out_edges[merge_pos])

OrderInv == IInv /\ NewIds /\ MergeSorts /\ MergeAhead

-----------------------------------------------------------------------------
(* New shortcuts.                                                          *)

(* Whichever function runs, the shortcuts it finds have no id.             *)
LEMMA ShortcutsAreNew == \A n : \A s \in Shortcuts(n) : s.id = NO_EID
BY DEF Shortcuts, QuickShortcutsOf, ShortcutsOf, CalcShortcuts, CreateShortcut, MakeShortcut

(* No step makes up an id for a shortcut outside of the graph.             *)
LEMMA NewIdsKept == IInv /\ NewIds /\ [AnyNext]_vars => NewIds'
<1> SUFFICES ASSUME IInv, NewIds, [AnyNext]_vars PROVE NewIds'
  OBVIOUS
<1> USE DEF NewIds
<1>1. CASE StartRound
  BY <1>1 DEF StartRound, graph_vars
<1>2. CASE QuickContractReturns \/ ContractReturns \/ SelectNode
  BY <1>2 DEF QuickContractReturns, ContractReturns, SelectNode, graph_vars, select_vars,
              thread_vars, loop_vars
<1>3. CASE EnterParallelLoop \/ ConsiderNodes \/ EnterWithNodes
  BY <1>3 DEF EnterParallelLoop, ConsiderNodes, EnterWithNodes, graph_vars, select_vars
<1>4. ASSUME NEW t \in Threads, ContractNode(t)
      PROVE  NewIds'
  <2>1. /\ found' = [found EXCEPT ![t] = Shortcuts(independent_set[next_index])]
        /\ UNCHANGED <<new_shortcuts, rest_shortcuts, seen>>
    BY <1>4 DEF ContractNode, graph_vars
  <2>2. \A u \in Threads : \A s \in found'[u] : s.id = NO_EID
    BY <2>1, ShortcutsAreNew DEF IInv, VariableTypes
  <2> QED
    BY <2>1, <2>2
<1>5. ASSUME NEW t \in Threads, LockInsert(t)
      PROVE  NewIds'
  BY <1>5 DEF LockInsert, graph_vars, IInv, VariableTypes
<1>6. ASSUME NEW t \in Threads, FinishInsert(t)
      PROVE  NewIds'
  <2>1. /\ new_shortcuts' = seen[t] \cup found[t]
        /\ found' = [found EXCEPT ![t] = {}] /\ seen' = [seen EXCEPT ![t] = {}]
        /\ rest_shortcuts' = rest_shortcuts
    BY <1>6 DEF FinishInsert, graph_vars
  <2>2. \A u \in Threads : found'[u] \subseteq found[u] /\ seen'[u] \subseteq seen[u]
    BY <2>1 DEF IInv, VariableTypes
  <2> QED
    BY <2>1, <2>2
<1>7. CASE ChooseRemoveNodes \/ RemoveSome
  BY <1>7 DEF ChooseRemoveNodes, RemoveSome, BeginRestructure, select_vars, thread_vars
<1>8. CASE Restructure
  BY <1>8 DEF Restructure, MergeShortcut, MergeEdge, thread_vars, select_vars
<1>9. CASE EndRound
  BY <1>9 DEF EndRound, FinishRestructure, thread_vars, select_vars
<1>10. CASE Terminated \/ UNCHANGED vars
  BY <1>10 DEF Terminated, vars, graph_vars, thread_vars
<1> QED
  BY <1>1, <1>2, <1>3, <1>4, <1>5, <1>6, <1>7, <1>8, <1>9, <1>10
     DEF AnyNext, Next, StepWithinRound

-----------------------------------------------------------------------------
(* Adding an edge leaves the vector alone, takes the place of the last edge*)
(* or comes after it; a new edge gets an id if it does not take a place.   *)
Replaces(e) ==
  /\ Duplicates(e) /\ e.dist < LastEdge.dist
  /\ Len(new_edge_vec') = Len(new_edge_vec)
  /\ \A j \in 1..Len(new_edge_vec) :
       new_edge_vec'[j] = IF j = Len(new_edge_vec) THEN [e EXCEPT !.id = LastEdge.id]
                          ELSE new_edge_vec[j]
  /\ edge_count' = edge_count

ComesLast(e) ==
  /\ Duplicates(e) => e.dist < LastEdge.dist
  /\ Len(new_edge_vec') = Len(new_edge_vec) + 1
  /\ \A j \in 1..Len(new_edge_vec) : new_edge_vec'[j] = new_edge_vec[j]
  /\ new_edge_vec'[Len(new_edge_vec) + 1] = [e EXCEPT !.id = IF e.id = NO_EID THEN edge_count ELSE e.id]
  /\ edge_count' = IF e.id = NO_EID THEN edge_count + 1 ELSE edge_count

(* These are the outcomes of _addNewEdge().                                *)
LEMMA AddNewEdgeForms ==
  ASSUME NEW e \in CHEdge, new_edge_vec \in Seq(CHEdge), AddNewEdge(e)
  PROVE  \/ Duplicates(e) /\ e.dist >= LastEdge.dist /\ UNCHANGED <<new_edge_vec, edge_count>>
         \/ Replaces(e)
         \/ ComesLast(e)
<1>1. CASE IgnoreEdge(e)
  BY <1>1 DEF IgnoreEdge
<1>2. CASE ReplaceEdge(e)
  <2> DEFINE n == Len(new_edge_vec)
             r == [e EXCEPT !.id = LastEdge.id]
  <2>1. n \in 1..Len(new_edge_vec) /\ LastEdge \in CHEdge
    BY <1>2, LenProperties, EmptySeq DEF ReplaceEdge, Duplicates, LastEdge
  <2>2. r \in CHEdge
    BY <2>1 DEF CHEdge
  <2>3. new_edge_vec' = [new_edge_vec EXCEPT ![n] = r] /\ edge_count' = edge_count
    BY <1>2 DEF ReplaceEdge
  <2>4. /\ Len(new_edge_vec') = Len(new_edge_vec)
        /\ \A j \in 1..Len(new_edge_vec) :
             new_edge_vec'[j] = IF j = n THEN r ELSE new_edge_vec[j]
    BY <2>1, <2>2, <2>3, ExceptSeq
  <2> QED
    BY <1>2, <2>3, <2>4 DEF ReplaceEdge, Replaces
<1>3. CASE AppendEdge(e)
  <2> DEFINE x == [e EXCEPT !.id = IF e.id = NO_EID THEN edge_count ELSE e.id]
  <2>1. e.id # NO_EID => x = e
    BY DEF CHEdge
  <2>2. new_edge_vec' = Append(new_edge_vec, x)
    BY <1>3, <2>1 DEF AppendEdge
  <2>3. /\ Len(new_edge_vec') = Len(new_edge_vec) + 1
        /\ \A j \in 1..Len(new_edge_vec) : new_edge_vec'[j] = new_edge_vec[j]
        /\ new_edge_vec'[Len(new_edge_vec) + 1] = x
    <3> HIDE DEF x
    <3> QED
      BY <2>2
  <2> QED
    BY <1>3, <2>3 DEF AppendEdge, ComesLast
<1> QED
  BY <1>1, <1>2, <1>3 DEF AddNewEdge

-----------------------------------------------------------------------------
(* The order of the merge.                                                 *)

(* Endpoints and distances are numbers, so the order is transitive.        *)
LEMMA BeforeTransitive ==
  ASSUME NEW a \in CHEdge, NEW b \in CHEdge, NEW c \in CHEdge, Before(a, b), Before(b, c)
  PROVE  Before(a, c)
<1>1. \A e \in CHEdge : e.src \in Int /\ e.tgt \in Int /\ e.dist \in Int
  BY DEF CHEdge, Nodes, Uint
<1> QED
  BY <1>1 DEF Before, SrcTgtLess, EqualEndpoints

(* InMergeOrder compares neighbours with this order.                       *)
LEMMA MergeOrderIsBefore ==
  ASSUME NEW v
  PROVE  InMergeOrder(v) <=> \A i \in 1..(Len(v) - 1) : Before(v[i], v[i + 1])
BY DEF InMergeOrder, Before, SrcTgtLess

(* Adding an edge that does not precede the last one keeps the vector      *)
(* sorted: if it has the same ends, it is shorter or it is ignored.        *)
LEMMA AddNewEdgeSorts ==
  ASSUME NEW e \in CHEdge, new_edge_vec \in Seq(CHEdge), new_edge_vec' \in Seq(CHEdge),
         edge_count \in Uint,
         AddNewEdge(e), InMergeOrder(new_edge_vec),
         new_edge_vec # <<>> =>
           \/ Before(LastEdge, e)
           \/ EqualEndpoints(LastEdge, e) /\ e.id = NO_EID
  PROVE  /\ InMergeOrder(new_edge_vec')
         /\ new_edge_vec' # <<>>
         /\ EqualEndpoints(LastEdge', e)
         /\ LastEdge'.dist = e.dist \/ (LastEdge' = LastEdge /\ new_edge_vec # <<>>)
<1> DEFINE n == Len(new_edge_vec)
<1>0. /\ n \in Nat
      /\ new_edge_vec # <<>> <=> n > 0
      /\ new_edge_vec' # <<>> <=> Len(new_edge_vec') > 0
      /\ \A j \in 1..n : new_edge_vec[j] \in CHEdge
      /\ n > 0 => LastEdge = new_edge_vec[n] /\ LastEdge \in CHEdge
  BY EmptySeq, LenProperties DEF LastEdge
<1>1. CASE Duplicates(e) /\ UNCHANGED <<new_edge_vec, edge_count>>
  BY <1>1 DEF Duplicates, EqualEndpoints, LastEdge
<1>2. CASE Replaces(e)
  <2> DEFINE r == [e EXCEPT !.id = LastEdge.id]
  <2>1. /\ n > 0 /\ Len(new_edge_vec') = n
        /\ \A j \in 1..(n - 1) : new_edge_vec'[j] = new_edge_vec[j]
        /\ new_edge_vec'[n] = r /\ LastEdge' = r
    BY <1>0, <1>2 DEF Replaces, Duplicates, LastEdge
  <2>2. r \in CHEdge /\ r.src = e.src /\ r.tgt = e.tgt /\ r.dist = e.dist
    BY <1>0, <2>1 DEF CHEdge
  <2>3. Before(LastEdge, r)
    <3>1. EqualEndpoints(LastEdge, r) /\ LastEdge.dist > r.dist
      BY <1>2, <2>2 DEF Replaces, Duplicates, EqualEndpoints
    <3> QED
      BY <3>1 DEF Before
  <2> HIDE DEF r
  <2>4. ASSUME NEW i \in 1..(n - 1)
        PROVE  Before(new_edge_vec'[i], new_edge_vec'[i + 1])
    <3>1. Before(new_edge_vec[i], new_edge_vec[i + 1])
      BY <1>0, MergeOrderIsBefore
    <3>2. CASE i + 1 = n
      BY <1>0, <2>1, <2>2, <2>3, <3>1, <3>2, BeforeTransitive
    <3>3. CASE i + 1 # n
      BY <1>0, <2>1, <3>1, <3>3
    <3> QED
      BY <3>2, <3>3
  <2>5. InMergeOrder(new_edge_vec')
    BY <2>1, <2>4, MergeOrderIsBefore
  <2> QED
    BY <1>0, <2>1, <2>2, <2>5 DEF EqualEndpoints
<1>3. CASE ComesLast(e)
  <2> DEFINE x == [e EXCEPT !.id = IF e.id = NO_EID THEN edge_count ELSE e.id]
  <2>1. /\ Len(new_edge_vec') = n + 1
        /\ \A j \in 1..n : new_edge_vec'[j] = new_edge_vec[j]
        /\ new_edge_vec'[n + 1] = x
        /\ LastEdge' = x
    BY <1>3 DEF ComesLast, LastEdge
  <2>2. x.src = e.src /\ x.tgt = e.tgt /\ x.dist = e.dist
    BY DEF CHEdge
  <2>3. n > 0 => Before(LastEdge, x)
    <3> SUFFICES ASSUME n > 0 PROVE Before(LastEdge, x)
      OBVIOUS
    <3>1. CASE Before(LastEdge, e)
      BY <2>2, <3>1 DEF Before, SrcTgtLess, EqualEndpoints
    <3>2. CASE EqualEndpoints(LastEdge, e) /\ e.id = NO_EID
      <4>1. Duplicates(e)
        BY <1>0, <3>2 DEF Duplicates, EqualEndpoints
      <4>2. e.dist < LastEdge.dist
        BY <1>3, <4>1 DEF ComesLast
      <4> QED
        BY <2>2, <3>2, <4>2 DEF Before, EqualEndpoints
    <3> QED
      BY <1>0, <3>1, <3>2
  <2> HIDE DEF x
  <2>4. ASSUME NEW i \in 1..n
        PROVE  Before(new_edge_vec'[i], new_edge_vec'[i + 1])
    <3>1. CASE i = n
      BY <1>0, <2>1, <2>3, <3>1
    <3>2. CASE i # n
      <4>1. i \in 1..(n - 1) /\ i + 1 \in 1..n
        BY <1>0, <3>2
      <4> QED
        BY <2>1, <4>1, MergeOrderIsBefore
    <3> QED
      BY <3>1, <3>2
  <2>5. InMergeOrder(new_edge_vec')
    <3>1. Len(new_edge_vec') - 1 = n
      BY <1>0, <2>1
    <3> QED
      BY <2>4, <3>1, MergeOrderIsBefore
  <2>6. new_edge_vec' # <<>>
    BY <1>0, <2>1
  <2>7. EqualEndpoints(LastEdge', e) /\ LastEdge'.dist = e.dist
    BY <2>1, <2>2 DEF EqualEndpoints
  <2> QED
    BY <2>5, <2>6, <2>7
<1> QED
  BY <1>1, <1>2, <1>3, AddNewEdgeForms

(* The edges ahead of the merge and the ends of what it has added last.    *)
LEMMA MergeTypes ==
  ASSUME IInv
  PROVE  /\ out_edges \in Seq(CHEdge) /\ new_edge_vec \in Seq(CHEdge)
         /\ Len(out_edges) \in Nat /\ Len(new_edge_vec) \in Nat /\ edge_count \in Uint
         /\ \A j \in 1..Len(out_edges) : out_edges[j] \in CHEdge
         /\ \A j \in 1..Len(new_edge_vec) : new_edge_vec[j] \in CHEdge
         /\ new_edge_vec # <<>> => LastEdge \in CHEdge
         /\ rest_shortcuts \subseteq CHEdge
         /\ merge_pos \in 0..(Len(out_edges) + 1)
<1>1. /\ out_edges \in Seq(CHEdge) /\ new_edge_vec \in Seq(CHEdge) /\ edge_count \in Uint
      /\ rest_shortcuts \subseteq CHEdge /\ merge_pos \in 0..(Len(out_edges) + 1)
  BY DEF IInv, VariableTypes, GraphTypeOK
<1> QED
  BY <1>1, LenProperties, EmptySeq DEF LastEdge

(* A shortcut is merged when none of those left, and no edge of the graph  *)
(* that is left, precedes it.                                              *)
LEMMA MergeShortcutSorts ==
  ASSUME OrderInv, IInv', Restructuring, MergeShortcut(to_remove)
  PROVE  MergeSorts' /\ MergeAhead'
<1>1. PICK s \in rest_shortcuts :
        /\ \A o \in rest_shortcuts : ~SrcTgtLess(o, s)
        /\ merge_pos <= Len(out_edges) => SrcTgtLess(s, out_edges[merge_pos])
        /\ rest_shortcuts' = rest_shortcuts \ {s}
        /\ IF AcceptsShortcut(s, to_remove)
           THEN AddNewEdge(s)
           ELSE UNCHANGED <<new_edge_vec, edge_count>>
        /\ UNCHANGED <<out_edges, merge_pos>>
  BY DEF MergeShortcut
<1>2. InMergeOrder(out_edges) /\ InMergeOrder(new_edge_vec) /\ InMergeOrder(out_edges')
  BY <1>1 DEF OrderInv, MergeSorts
<1>3. /\ new_edge_vec' \in Seq(CHEdge) /\ s \in CHEdge /\ s.id = NO_EID
      /\ merge_pos \in 1..(Len(out_edges) + 1)
  BY MergeTypes DEF OrderInv, IInv, VariableTypes, GraphTypeOK, NewIds, LocalsScoped
<1>4. CASE AcceptsShortcut(s, to_remove)
  <2>1. new_edge_vec # <<>> => Before(LastEdge, s) \/ EqualEndpoints(LastEdge, s)
    <3> SUFFICES ASSUME new_edge_vec # <<>>
                 PROVE  Before(LastEdge, s) \/ EqualEndpoints(LastEdge, s)
      OBVIOUS
    <3>1. LastEdge \in CHEdge /\ ~SrcTgtLess(s, LastEdge)
      BY MergeTypes DEF OrderInv, MergeAhead
    <3> QED
      BY <1>3, <3>1 DEF Before, SrcTgtLess, EqualEndpoints, CHEdge, Nodes
  <2>2. InMergeOrder(new_edge_vec') /\ EqualEndpoints(LastEdge', s)
    BY <1>1, <1>2, <1>3, <1>4, <2>1, MergeTypes, AddNewEdgeSorts DEF OrderInv
  <2>3. \A o \in rest_shortcuts' : ~SrcTgtLess(o, LastEdge')
    BY <1>1, <2>2 DEF SrcTgtLess, EqualEndpoints
  <2>4. merge_pos' <= Len(out_edges') => Before(LastEdge', out_edges'[merge_pos'])
    BY <1>1, <2>2 DEF Before, SrcTgtLess, EqualEndpoints
  <2> QED
    BY <1>2, <2>2, <2>3, <2>4 DEF MergeSorts, MergeAhead
<1>5. CASE ~AcceptsShortcut(s, to_remove)
  <2>1. UNCHANGED new_edge_vec /\ LastEdge' = LastEdge
    BY <1>1, <1>5 DEF LastEdge
  <2> QED
    BY <1>1, <1>2, <2>1 DEF OrderInv, MergeSorts, MergeAhead
<1> QED
  BY <1>4, <1>5

(* An edge of the graph is merged when no shortcut that is left precedes   *)
(* it; it precedes the next one.                                           *)
LEMMA MergeEdgeSorts ==
  ASSUME OrderInv, IInv', Restructuring, MergeEdge(to_remove)
  PROVE  MergeSorts' /\ MergeAhead'
<1> DEFINE edge == out_edges[merge_pos]
           next == out_edges[merge_pos + 1]
<1>1. /\ merge_pos \in 1..Len(out_edges)
      /\ \A s \in rest_shortcuts : ~SrcTgtLess(s, edge)
      /\ AddNewEdge(edge) \/ UNCHANGED <<new_edge_vec, edge_count>>
      /\ merge_pos' = merge_pos + 1
      /\ UNCHANGED <<out_edges, rest_shortcuts>>
  BY DEF MergeEdge
<1>2. InMergeOrder(out_edges) /\ InMergeOrder(new_edge_vec) /\ InMergeOrder(out_edges')
  BY <1>1 DEF OrderInv, MergeSorts
<1>3. /\ new_edge_vec' \in Seq(CHEdge) /\ edge \in CHEdge
      /\ merge_pos + 1 <= Len(out_edges) => next \in CHEdge /\ Before(edge, next)
  <2>1. edge \in CHEdge /\ Len(out_edges) \in Nat /\ merge_pos \in Nat
    BY <1>1, MergeTypes DEF OrderInv
  <2>2. ASSUME merge_pos + 1 <= Len(out_edges)
        PROVE  next \in CHEdge /\ Before(edge, next)
    <3>1. merge_pos \in 1..(Len(out_edges) - 1) /\ merge_pos + 1 \in 1..Len(out_edges)
      BY <1>1, <2>1, <2>2
    <3> QED
      BY <1>2, <3>1, MergeTypes, MergeOrderIsBefore DEF OrderInv
  <2> QED
    BY <2>1, <2>2 DEF IInv, VariableTypes, GraphTypeOK
<1>4. new_edge_vec # <<>> => LastEdge \in CHEdge /\ Before(LastEdge, edge)
  BY <1>1, MergeTypes DEF OrderInv, MergeAhead
<1> HIDE DEF edge, next
<1>5. CASE AddNewEdge(edge)
  <2>1. /\ InMergeOrder(new_edge_vec') /\ EqualEndpoints(LastEdge', edge)
        /\ LastEdge'.dist = edge.dist \/ (LastEdge' = LastEdge /\ new_edge_vec # <<>>)
    BY <1>2, <1>3, <1>4, <1>5, MergeTypes, AddNewEdgeSorts DEF OrderInv
  <2>2. \A s \in rest_shortcuts' : ~SrcTgtLess(s, LastEdge')
    BY <1>1, <2>1 DEF SrcTgtLess, EqualEndpoints
  <2>3. ASSUME merge_pos' <= Len(out_edges')
        PROVE  Before(LastEdge', next)
    <3>1. merge_pos + 1 <= Len(out_edges)
      BY <1>1, <2>3
    <3>2. CASE LastEdge'.dist = edge.dist
      BY <1>3, <2>1, <3>1, <3>2 DEF Before, SrcTgtLess, EqualEndpoints
    <3>3. CASE LastEdge' = LastEdge /\ new_edge_vec # <<>>
      BY <1>3, <1>4, <3>1, <3>3, BeforeTransitive
    <3> QED
      BY <2>1, <3>2, <3>3
  <2> QED
    BY <1>1, <1>2, <2>1, <2>2, <2>3 DEF MergeSorts, MergeAhead, next
<1>6. CASE UNCHANGED <<new_edge_vec, edge_count>>
  <2>1. UNCHANGED new_edge_vec /\ LastEdge' = LastEdge
    BY <1>6 DEF LastEdge
  <2>2. ASSUME new_edge_vec # <<>>, merge_pos' <= Len(out_edges')
        PROVE  Before(LastEdge, next)
    BY <1>1, <1>3, <1>4, <2>2, BeforeTransitive
  <2>3. new_edge_vec # <<>> => \A s \in rest_shortcuts' : ~SrcTgtLess(s, LastEdge)
    BY <1>1 DEF OrderInv, MergeAhead
  <2> QED
    BY <1>1, <1>2, <2>1, <2>2, <2>3 DEF MergeSorts, MergeAhead, next
<1> QED
  BY <1>1, <1>5, <1>6 DEF edge

(* Only the merge and the swap at its end change the vectors.              *)
LEMMA OutsideMerge ==
  ASSUME OrderInv, IInv', UNCHANGED <<out_edges, new_edge_vec>>, new_edge_vec = <<>>
  PROVE  MergeSorts' /\ MergeAhead'
BY DEF OrderInv, MergeSorts, MergeAhead

(* The reader delivers a sorted vector.                                    *)
LEMMA InitOrder == AnyInit => OrderInv
<1> SUFFICES ASSUME AnyInit PROVE NewIds /\ MergeSorts /\ MergeAhead
  BY InitIInv DEF OrderInv
<1>1. NewIds /\ MergeAhead
  BY DEF AnyInit, GraphInit, NewIds, MergeAhead
<1>2. InMergeOrder(out_edges)
  <2>1. /\ Len(out_edges) \in Nat
        /\ \A i, j \in 1..Len(out_edges) : i < j => SrcTgtLess(out_edges[i], out_edges[j])
    BY InputAssumption, LenProperties DEF AnyInit, GraphInit, IsInputGraph
  <2>2. \A i \in 1..(Len(out_edges) - 1) : Before(out_edges[i], out_edges[i + 1])
    BY <2>1 DEF Before
  <2> QED
    BY <2>2, MergeOrderIsBefore
<1>3. InMergeOrder(new_edge_vec)
  BY DEF AnyInit, GraphInit, InMergeOrder
<1> QED
  BY <1>1, <1>2, <1>3 DEF MergeSorts

(* Every step keeps the vectors sorted.                                    *)
LEMMA AnyKeepsOrder == OrderInv /\ [AnyNext]_vars => OrderInv'
<1> SUFFICES ASSUME OrderInv, [AnyNext]_vars PROVE MergeSorts' /\ MergeAhead'
  BY AnyKeeps, NewIdsKept DEF OrderInv
<1>0. IInv'
  BY AnyKeeps DEF OrderInv
<1>1. CASE UNCHANGED graph_vars
  BY <1>1 DEF OrderInv, MergeSorts, MergeAhead, graph_vars, LastEdge
<1>2. CASE ChooseRemoveNodes \/ RemoveSome
  <2>1. new_edge_vec = <<>> /\ UNCHANGED <<out_edges, new_edge_vec>>
    BY <1>2 DEF ChooseRemoveNodes, RemoveSome, BeginRestructure, OrderInv, IInv, LocalsScoped, Restructuring
  <2> QED
    BY <1>0, <2>1, OutsideMerge
<1>3. CASE Restructure
  BY <1>0, <1>3, MergeShortcutSorts, MergeEdgeSorts DEF Restructure, Restructuring
<1>4. CASE EndRound
  BY <1>4 DEF EndRound, FinishRestructure, OrderInv, MergeSorts, MergeAhead, InMergeOrder
<1> QED
  BY <1>1, <1>2, <1>3, <1>4
  DEF AnyNext, Next, StepWithinRound, StartRound, QuickContractReturns, ContractReturns, SelectNode,
      EnterParallelLoop, ContractNode, LockInsert, FinishInsert, Terminated, vars,
      ConsiderNodes, EnterWithNodes

(* The steps of the program are among them.                                *)
LEMMA NextKeepsOrder == OrderInv /\ [Next]_vars => OrderInv'
BY AnyKeepsOrder, NextIsAny

(* The vectors of edges are sorted at all times, over all rounds and for   *)
(* every order the new shortcuts come in.                                  *)
THEOREM MergeKeepsOrder == Spec => []MergeSorts
<1>1. OrderInv => MergeSorts
  BY DEF OrderInv
<1> QED
  BY <1>1, InitIsAny, InitOrder, NextKeepsOrder, PTL DEF Spec

-----------------------------------------------------------------------------
(* The ids of the edges.                                                   *)
Ids(S) == {e.id : e \in S}

DistinctIds(v) == \A j, k \in DOMAIN v : v[j].id = v[k].id => j = k

(* An edge is in one place: not merged yet, merged, or laid aside.         *)
IdsApart ==
  /\ DistinctIds(out_edges) /\ DistinctIds(new_edge_vec)
  /\ \A a, b \in edges_dump : a.id = b.id => a = b
  /\ Ids(UnmergedEdges) \cap Ids(MergedEdges) = {}
  /\ Ids(UnmergedEdges) \cap Ids(edges_dump) = {}
  /\ Ids(MergedEdges) \cap Ids(edges_dump) = {}

IdsUsed ==
  Ids(UnmergedEdges) \cup Ids(MergedEdges) \cup Ids(edges_dump) = 0..(edge_count - 1)

IdsInv == IInv /\ NewIds /\ IdsApart /\ IdsUsed

(* Ids that are used are none of the value that stands for no id, and the  *)
(* next one is not used.                                                   *)
LEMMA UsedIds ==
  ASSUME IdsInv
  PROVE  /\ NO_EID \notin 0..(edge_count - 1) /\ edge_count \notin 0..(edge_count - 1)
         /\ 0..edge_count = 0..(edge_count - 1) \cup {edge_count}
         /\ edge_count \in Nat
BY MergeTypes, SizeAssumption DEF IdsInv, NO_EID, Uint

(* Replacing the last edge keeps the ids, coming after it adds one.        *)
LEMMA AddNewEdgeIds ==
  ASSUME IInv, NEW e \in CHEdge, AddNewEdge(e), DistinctIds(new_edge_vec),
         IF e.id = NO_EID THEN edge_count \notin Ids(MergedEdges) ELSE e.id \notin Ids(MergedEdges)
  PROVE  /\ DistinctIds(new_edge_vec')
         /\ \/ Ids(MergedEdges') = Ids(MergedEdges) /\ edge_count' = edge_count /\ e.id = NO_EID
            \/ /\ e.id = NO_EID
               /\ Ids(MergedEdges') = Ids(MergedEdges) \cup {edge_count}
               /\ edge_count' = edge_count + 1
            \/ /\ e.id # NO_EID
               /\ Ids(MergedEdges') = Ids(MergedEdges) \cup {e.id}
               /\ edge_count' = edge_count
<1> DEFINE n == Len(new_edge_vec)
<1>0. /\ n \in Nat /\ DOMAIN new_edge_vec = 1..n /\ new_edge_vec \in Seq(CHEdge)
      /\ new_edge_vec # <<>> => n > 0
  BY MergeTypes, LenProperties, EmptySeq
<1>1. CASE Duplicates(e) /\ UNCHANGED <<new_edge_vec, edge_count>>
  BY <1>1 DEF Duplicates, MergedEdges
<1>2. ASSUME new_edge_vec' \in Seq(CHEdge)
      PROVE  DOMAIN new_edge_vec' = 1..Len(new_edge_vec')
  BY <1>2, LenProperties
<1>3. new_edge_vec' \in Seq(CHEdge)
  BY MergeTypes, AddNewEdgeKeeps
<1>4. CASE Replaces(e)
  <2>1. DOMAIN new_edge_vec' = 1..n
    BY <1>2, <1>3, <1>4 DEF Replaces
  <2>2. \A j \in 1..n : new_edge_vec'[j].id = new_edge_vec[j].id
    <3>1. [e EXCEPT !.id = LastEdge.id].id = LastEdge.id
      BY DEF CHEdge
    <3> QED
      BY <1>4, <3>1 DEF Replaces, LastEdge
  <2>3. DistinctIds(new_edge_vec')
    BY <1>0, <2>1, <2>2 DEF DistinctIds
  <2>4. Ids(MergedEdges') = Ids(MergedEdges)
    BY <1>0, <2>1, <2>2 DEF Ids, MergedEdges
  <2> QED
    BY <1>4, <2>3, <2>4 DEF Replaces, Duplicates
<1>5. CASE ComesLast(e)
  <2> DEFINE id == IF e.id = NO_EID THEN edge_count ELSE e.id
  <2>1. /\ DOMAIN new_edge_vec' = 1..(n + 1)
        /\ \A j \in 1..n : new_edge_vec'[j] = new_edge_vec[j]
        /\ new_edge_vec'[n + 1].id = id
    <3>1. [e EXCEPT !.id = id].id = id
      BY DEF CHEdge
    <3> QED
      BY <1>2, <1>3, <1>5, <3>1 DEF ComesLast
  <2>2. 1..(n + 1) = 1..n \cup {n + 1} /\ n + 1 \notin 1..n
    BY <1>0
  <2>3. id \notin Ids(MergedEdges)
    OBVIOUS
  <2> HIDE DEF id
  <2>4. \A j \in 1..n : new_edge_vec[j].id \in Ids(MergedEdges)
    BY <1>0 DEF Ids, MergedEdges
  <2>5. DistinctIds(new_edge_vec')
    BY <1>0, <2>1, <2>2, <2>3, <2>4 DEF DistinctIds
  <2>6. Ids(MergedEdges') = Ids(MergedEdges) \cup {id}
    <3>1. MergedEdges' = {new_edge_vec[j] : j \in 1..n} \cup {new_edge_vec'[n + 1]}
      BY <2>1, <2>2 DEF MergedEdges
    <3>2. MergedEdges = {new_edge_vec[j] : j \in 1..n}
      BY <1>0 DEF MergedEdges
    <3> QED
      BY <2>1, <3>1, <3>2 DEF Ids
  <2> QED
    BY <1>5, <2>5, <2>6 DEF ComesLast, id
<1> QED
  BY <1>0, <1>1, <1>4, <1>5, AddNewEdgeForms

(* One shortcut is added: it gets a new id or that of the edge it replaces.*)
LEMMA MergeShortcutIds ==
  ASSUME IdsInv, Restructuring, MergeShortcut(to_remove)
  PROVE  IdsApart' /\ IdsUsed'
<1>1. PICK s \in rest_shortcuts :
        /\ IF AcceptsShortcut(s, to_remove)
           THEN AddNewEdge(s)
           ELSE UNCHANGED <<new_edge_vec, edge_count>>
        /\ UNCHANGED <<out_edges, merge_pos, edges_dump>>
  BY DEF MergeShortcut
<1>2. UnmergedEdges' = UnmergedEdges /\ Ids(edges_dump') = Ids(edges_dump)
  BY <1>1 DEF UnmergedEdges, Ids
<1>3. s \in CHEdge /\ s.id = NO_EID
  BY MergeTypes DEF IdsInv, NewIds
<1>4. edge_count \notin Ids(UnmergedEdges) \cup Ids(MergedEdges) \cup Ids(edges_dump)
  BY UsedIds DEF IdsInv, IdsUsed
<1>5. /\ DistinctIds(new_edge_vec')
      /\ \/ Ids(MergedEdges') = Ids(MergedEdges) /\ edge_count' = edge_count
         \/ Ids(MergedEdges') = Ids(MergedEdges) \cup {edge_count} /\ edge_count' = edge_count + 1
  <2>1. CASE AcceptsShortcut(s, to_remove)
    BY <1>1, <1>3, <1>4, <2>1, AddNewEdgeIds DEF IdsInv, IdsApart
  <2>2. CASE ~AcceptsShortcut(s, to_remove)
    BY <1>1, <2>2 DEF MergedEdges, IdsInv, IdsApart
  <2> QED
    BY <2>1, <2>2
<1>6. IdsApart'
  <2>1. Ids(UnmergedEdges') = Ids(UnmergedEdges)
    BY <1>2
  <2> QED
    BY <1>1, <1>2, <1>4, <1>5, <2>1 DEF IdsInv, IdsApart
<1>7. IdsUsed'
  <2>1. Ids(UnmergedEdges') = Ids(UnmergedEdges)
    BY <1>2
  <2>2. edge_count + 1 - 1 = edge_count
    BY UsedIds
  <2> QED
    BY <1>2, <1>5, <2>1, <2>2, UsedIds DEF IdsInv, IdsUsed
<1> QED
  BY <1>6, <1>7

(* One edge of the graph goes on with its id, or is laid aside with it.    *)
LEMMA MergeEdgeIds ==
  ASSUME IdsInv, Restructuring, MergeEdge(to_remove)
  PROVE  IdsApart' /\ IdsUsed'
<1> DEFINE edge == out_edges[merge_pos]
<1>1. /\ merge_pos \in 1..Len(out_edges)
      /\ \/ AddNewEdge(edge) /\ UNCHANGED edges_dump
         \/ edges_dump' = edges_dump \cup {edge} /\ UNCHANGED <<new_edge_vec, edge_count>>
      /\ merge_pos' = merge_pos + 1
      /\ UNCHANGED out_edges
  BY DEF MergeEdge
<1>2. /\ DOMAIN out_edges = 1..Len(out_edges) /\ Len(out_edges) \in Nat /\ edge \in CHEdge
  BY <1>1, MergeTypes, LenProperties DEF IdsInv
<1>3. UnmergedEdges = UnmergedEdges' \cup {edge} /\ edge.id \notin Ids(UnmergedEdges')
  <2>1. {k \in DOMAIN out_edges : k >= merge_pos}
          = {k \in DOMAIN out_edges : k >= merge_pos + 1} \cup {merge_pos}
    BY <1>1, <1>2
  <2>2. UnmergedEdges' = {out_edges[j] : j \in {k \in DOMAIN out_edges : k >= merge_pos + 1}}
    BY <1>1 DEF UnmergedEdges
  <2>3. UnmergedEdges = UnmergedEdges' \cup {edge}
    BY <2>1, <2>2 DEF UnmergedEdges
  <2>4. \A j \in {k \in DOMAIN out_edges : k >= merge_pos + 1} : out_edges[j].id # edge.id
    <3>1. DistinctIds(out_edges)
      BY DEF IdsInv, IdsApart
    <3> QED
      BY <1>1, <1>2, <3>1 DEF DistinctIds
  <2> QED
    BY <2>2, <2>3, <2>4 DEF Ids
<1> HIDE DEF edge
<1>4. Ids(UnmergedEdges) = Ids(UnmergedEdges') \cup {edge.id}
  BY <1>3 DEF Ids
<1>5. edge.id \notin Ids(MergedEdges) /\ edge.id \notin Ids(edges_dump) /\ edge.id # NO_EID
  <2>1. edge.id \in 0..(edge_count - 1)
    BY <1>4 DEF IdsInv, IdsUsed
  <2> QED
    BY <1>4, <2>1, UsedIds DEF IdsInv, IdsApart
<1>6. CASE AddNewEdge(edge) /\ UNCHANGED edges_dump
  <2>1. /\ DistinctIds(new_edge_vec')
        /\ Ids(MergedEdges') = Ids(MergedEdges) \cup {edge.id}
        /\ edge_count' = edge_count
    BY <1>2, <1>5, <1>6, AddNewEdgeIds DEF IdsInv, IdsApart
  <2>2. IdsApart'
    <3>1. Ids(edges_dump') = Ids(edges_dump) /\ DistinctIds(out_edges')
      BY <1>1, <1>6 DEF IdsInv, IdsApart
    <3>2. /\ Ids(UnmergedEdges') \cap Ids(MergedEdges') = {}
          /\ Ids(UnmergedEdges') \cap Ids(edges_dump') = {}
          /\ Ids(MergedEdges') \cap Ids(edges_dump') = {}
      BY <1>3, <1>4, <1>5, <2>1, <3>1 DEF IdsInv, IdsApart
    <3> QED
      BY <1>6, <2>1, <3>1, <3>2 DEF IdsInv, IdsApart
  <2>3. IdsUsed'
    BY <1>4, <1>6, <2>1 DEF IdsInv, IdsUsed
  <2> QED
    BY <2>2, <2>3
<1>7. CASE edges_dump' = edges_dump \cup {edge} /\ UNCHANGED <<new_edge_vec, edge_count>>
  <2>1. /\ MergedEdges' = MergedEdges /\ Ids(MergedEdges') = Ids(MergedEdges)
        /\ Ids(edges_dump') = Ids(edges_dump) \cup {edge.id}
    BY <1>7 DEF MergedEdges, Ids
  <2>2. \A a, b \in edges_dump' : a.id = b.id => a = b
    <3>1. \A a \in edges_dump : a.id # edge.id
      BY <1>5 DEF Ids
    <3> QED
      BY <1>7, <3>1 DEF IdsInv, IdsApart
  <2>3. IdsApart'
    <3>1. DistinctIds(out_edges') /\ DistinctIds(new_edge_vec')
      BY <1>1, <1>7 DEF IdsInv, IdsApart
    <3>2. /\ Ids(UnmergedEdges') \cap Ids(MergedEdges') = {}
          /\ Ids(UnmergedEdges') \cap Ids(edges_dump') = {}
          /\ Ids(MergedEdges') \cap Ids(edges_dump') = {}
      BY <1>3, <1>4, <1>5, <2>1 DEF IdsInv, IdsApart
    <3> QED
      BY <2>2, <3>1, <3>2 DEF IdsApart
  <2>4. IdsUsed'
    BY <1>4, <1>7, <2>1 DEF IdsInv, IdsUsed
  <2> QED
    BY <2>3, <2>4
<1> QED
  BY <1>1, <1>6, <1>7 DEF edge

(* The merge begins with everything unmerged, and ends with everything     *)
(* merged or laid aside.                                                   *)
LEMMA SwapIds ==
  ASSUME IdsInv, ChooseRemoveNodes \/ RemoveSome \/ EndRound
  PROVE  IdsApart' /\ IdsUsed'
<1>1. DOMAIN out_edges = 1..Len(out_edges) /\ Len(out_edges) \in Nat /\ new_edge_vec \in Seq(CHEdge)
  BY MergeTypes, LenProperties DEF IdsInv
<1>2. CASE ChooseRemoveNodes \/ RemoveSome
  <2>1. /\ merge_pos = 0 /\ merge_pos' = 1
        /\ UNCHANGED <<out_edges, new_edge_vec, edges_dump, edge_count>>
    BY <1>2 DEF ChooseRemoveNodes, RemoveSome, BeginRestructure, IdsInv, IInv, LocalsScoped, Restructuring
  <2>2. {k \in DOMAIN out_edges : k >= 1} = {k \in DOMAIN out_edges : k >= 0}
    BY <1>1
  <2>3. UnmergedEdges' = UnmergedEdges /\ MergedEdges' = MergedEdges
    BY <2>1, <2>2 DEF UnmergedEdges, MergedEdges
  <2> QED
    BY <2>1, <2>3 DEF IdsInv, IdsApart, IdsUsed
<1>3. CASE EndRound
  <2>1. /\ merge_pos = Len(out_edges) + 1 /\ merge_pos' = 0
        /\ out_edges' = new_edge_vec /\ new_edge_vec' = <<>>
        /\ UNCHANGED <<edges_dump, edge_count>>
    BY <1>3 DEF EndRound, FinishRestructure
  <2>2. UnmergedEdges = {} /\ MergedEdges' = {}
    BY <1>1, <2>1 DEF UnmergedEdges, MergedEdges
  <2>3. UnmergedEdges' = MergedEdges
    <3>1. DOMAIN new_edge_vec \subseteq Nat
      BY <1>1, LenProperties
    <3>2. {k \in DOMAIN new_edge_vec : k >= 0} = DOMAIN new_edge_vec
      BY <3>1
    <3> QED
      BY <2>1, <3>2 DEF UnmergedEdges, MergedEdges
  <2>4. DistinctIds(out_edges') /\ DistinctIds(new_edge_vec')
    BY <2>1 DEF IdsInv, IdsApart, DistinctIds
  <2>5. Ids({}) = {}
    BY DEF Ids
  <2> QED
    BY <2>1, <2>2, <2>3, <2>4, <2>5 DEF IdsInv, IdsApart, IdsUsed
<1> QED
  BY <1>2, <1>3

(* The reader gives the ids 0, 1, .. to the edges.                         *)
LEMMA InitIds == AnyInit => IdsInv
<1> SUFFICES ASSUME AnyInit PROVE IdsInv
  OBVIOUS
<1>0. IInv
  BY InitIInv
<1>1. /\ out_edges \in Seq(CHEdge) /\ Len(out_edges) \in Nat /\ edge_count = Len(out_edges)
      /\ DOMAIN out_edges = 1..Len(out_edges)
      /\ new_edge_vec = <<>> /\ edges_dump = {} /\ merge_pos = 0
      /\ \A j \in 1..Len(out_edges) : out_edges[j].id \in 0..(Len(out_edges) - 1)
      /\ \A j, k \in 1..Len(out_edges) : j < k => out_edges[j].id # out_edges[k].id
  <2>1. IsInputGraph(out_edges)
    BY InputAssumption DEF AnyInit, GraphInit
  <2>2. \A j \in 1..Len(out_edges) : out_edges[j].id \in Nat
    BY <1>0, MergeTypes, NodesAreUint DEF CHEdge
  <2> QED
    BY <2>1, <2>2, LenProperties DEF AnyInit, GraphInit, IsInputGraph
<1>2. NewIds
  BY DEF AnyInit, GraphInit, NewIds
<1>3. DistinctIds(out_edges) /\ DistinctIds(new_edge_vec)
  <2>1. \A j, k \in 1..Len(out_edges) : j < k \/ k < j \/ j = k
    OBVIOUS
  <2> QED
    BY <1>1, <2>1 DEF DistinctIds
<1>4. /\ UnmergedEdges = {out_edges[j] : j \in 1..Len(out_edges)}
      /\ MergedEdges = {} /\ Ids(MergedEdges) = {} /\ Ids(edges_dump) = {}
  <2>1. {k \in DOMAIN out_edges : k >= merge_pos} = 1..Len(out_edges)
    BY <1>1
  <2> QED
    BY <1>1, <2>1 DEF UnmergedEdges, MergedEdges, Ids
<1>5. Ids(UnmergedEdges) = 0..(edge_count - 1)
  <2> DEFINE n == Len(out_edges)
             ids == [j \in 1..n |-> out_edges[j].id]
  <2>1. ids \in Injection(1..n, 0..(n - 1))
    BY <1>1, <1>3 DEF Injection, IsInjective, DistinctIds
  <2>2. ids \in Surjection(1..n, 0..(n - 1))
    <3>1. n \in Nat /\ 1 \in Int /\ 0 \in Int /\ n \in Int /\ n - 1 \in Int
      BY <1>1
    <3> HIDE DEF n, ids
    <3>2. IsFiniteSet(1..n) /\ Cardinality(1..n) = IF 1 > n THEN 0 ELSE n - 1 + 1
      BY <3>1, FS_Interval
    <3>3. /\ IsFiniteSet(0..(n - 1))
          /\ Cardinality(0..(n - 1)) = IF 0 > n - 1 THEN 0 ELSE n - 1 - 0 + 1
      BY <3>1, FS_Interval
    <3>4. Cardinality(1..n) = Cardinality(0..(n - 1))
      BY <3>1, <3>2, <3>3
    <3> QED
      BY <2>1, <3>2, <3>3, <3>4, FS_Injection
  <2>3. {ids[j] : j \in 1..n} = 0..(n - 1)
    BY <2>2 DEF Surjection
  <2>4. Ids(UnmergedEdges) = {ids[j] : j \in 1..n}
    BY <1>4 DEF Ids
  <2> QED
    BY <1>1, <2>3, <2>4
<1>6. IdsApart /\ IdsUsed
  BY <1>1, <1>3, <1>4, <1>5 DEF IdsApart, IdsUsed
<1> QED
  BY <1>0, <1>2, <1>6 DEF IdsInv

(* Every step keeps the ids apart.                                         *)
LEMMA AnyKeepsIds == IdsInv /\ [AnyNext]_vars => IdsInv'
<1> SUFFICES ASSUME IdsInv, [AnyNext]_vars PROVE IdsApart' /\ IdsUsed'
  BY AnyKeeps, NewIdsKept DEF IdsInv
<1>1. CASE UNCHANGED graph_vars
  <2>1. /\ UnmergedEdges' = UnmergedEdges /\ MergedEdges' = MergedEdges
        /\ UNCHANGED <<out_edges, new_edge_vec, edges_dump, edge_count>>
    BY <1>1 DEF graph_vars, UnmergedEdges, MergedEdges
  <2> QED
    BY <2>1 DEF IdsInv, IdsApart, IdsUsed
<1>2. CASE ChooseRemoveNodes \/ RemoveSome \/ EndRound
  BY <1>2, SwapIds
<1>3. CASE Restructure
  BY <1>3, MergeShortcutIds, MergeEdgeIds DEF Restructure, Restructuring
<1> QED
  BY <1>1, <1>2, <1>3
  DEF AnyNext, Next, StepWithinRound, StartRound, QuickContractReturns, ContractReturns, SelectNode,
      EnterParallelLoop, ContractNode, LockInsert, FinishInsert, Terminated, vars,
      ConsiderNodes, EnterWithNodes

(* The steps of the program are among them.                                *)
LEMMA NextKeepsIds == IdsInv /\ [Next]_vars => IdsInv'
BY AnyKeepsIds, NextIsAny

(* The ids of the hierarchy are 0, 1, .., each used once, over any number  *)
(* of rounds: a shortcut that replaces an edge takes over its id, every    *)
(* other new edge gets the next one, and an edge keeps its id when it is   *)
(* laid aside.                                                             *)
THEOREM IdsStayDense == Spec => []IdsDense
<1>1. IdsInv => IdsDense
  <2> SUFFICES ASSUME IdsInv PROVE IdsDense
    OBVIOUS
  <2> DEFINE id == [e \in AllEdges |-> e.id]
  <2>1. Ids(AllEdges) = 0..(edge_count - 1)
    BY DEF IdsInv, IdsUsed, Ids, AllEdges
  <2>2. ASSUME NEW a \in AllEdges, NEW b \in AllEdges, a.id = b.id
        PROVE  a = b
    <3>1. \/ a \in UnmergedEdges /\ b \in UnmergedEdges
          \/ a \in MergedEdges /\ b \in MergedEdges
          \/ a \in edges_dump /\ b \in edges_dump
      BY <2>2 DEF IdsInv, IdsApart, AllEdges, Ids
    <3> QED
      BY <2>2, <3>1 DEF IdsInv, IdsApart, DistinctIds, UnmergedEdges, MergedEdges
  <2>3. id \in Bijection(AllEdges, 0..(edge_count - 1))
    BY <2>1, <2>2 DEF Bijection, Injection, IsInjective, Surjection, Ids
  <2>4. IsFiniteSet(AllEdges)
    <3>1. AllEdges \subseteq CHEdge
      BY DEF AllEdges, UnmergedEdges, MergedEdges, IdsInv, IInv, VariableTypes, GraphTypeOK
    <3> QED
      BY <3>1, EdgeSetsFinite
  <2>5. Cardinality(0..(edge_count - 1)) = Cardinality(AllEdges)
    BY <2>3, <2>4, FS_Bijection DEF ExistsBijection
  <2>6. Cardinality(0..(edge_count - 1)) = edge_count
    <3>1. edge_count \in Nat /\ 0 \in Int /\ edge_count - 1 \in Int
      BY UsedIds
    <3>2. Cardinality(0..(edge_count - 1)) = IF 0 > edge_count - 1 THEN 0 ELSE edge_count - 1 - 0 + 1
      BY <3>1, FS_Interval
    <3> QED
      BY <3>1, <3>2
  <2> QED
    BY <2>1, <2>5, <2>6 DEF IdsDense, Ids
<1> QED
  BY <1>1, InitIsAny, InitIds, NextKeepsIds, PTL DEF Spec

(* No id, level or distance leaves the range of an unsigned integer, every *)
(* edge joins nodes of the graph, and for any number of rounds the edges   *)
(* of the hierarchy have ids and pending shortcuts have none but a center  *)
(* node: _addNewEdge() can tell them apart.                                *)
THEOREM TypeCorrect == Spec => []TypeOK
<1>1. IdsInv => TypeOK
  <2> SUFFICES ASSUME IdsInv PROVE TypeOK
    OBVIOUS
  <2>1. VariableTypes
    BY DEF IdsInv, IInv
  <2>2. ASSUME NEW e \in AllEdges
        PROVE  e.id # NO_EID
    <3>1. e.id \in 0..(edge_count - 1)
      BY DEF IdsInv, IdsUsed, Ids, AllEdges
    <3> QED
      BY <3>1, UsedIds
  <2>3. ASSUME NEW s \in PendingShortcuts
        PROVE  s.id = NO_EID /\ IsShortcut(s)
    <3>1. \/ s \in rest_shortcuts
          \/ \E t \in Threads : s \in found[t] \cup seen[t]
          \/ phase = "parallel" /\ s \in new_shortcuts
      BY DEF PendingShortcuts
    <3>2. s.id = NO_EID
      BY <3>1 DEF IdsInv, NewIds
    <3>3. /\ rest_shortcuts # {} => Restructuring
          /\ \A t \in Threads : found[t] \cup seen[t] # {} => phase = "parallel"
      BY DEF IdsInv, IInv, LocalsScoped
    <3>4. s.center_node \in Chosen
      BY <3>1, <3>3 DEF IdsInv, IInv, ShortcutsOverChosen, ShortcutOver
    <3>5. Chosen \subseteq Nodes
      BY <2>1 DEF VariableTypes, Chosen
    <3>6. s.center_node # NO_NID
      BY <3>4, <3>5, SizeAssumption DEF Nodes, NO_NID
    <3> QED
      BY <3>2, <3>6 DEF IsShortcut
  <2> QED
    BY <2>1, <2>2, <2>3 DEF TypeOK
<1> QED
  BY <1>1, InitIsAny, InitIds, NextKeepsIds, PTL DEF Spec

-----------------------------------------------------------------------------
(* Every shortcut can be unpacked.  The children of a shortcut end at a    *)
(* node that is removed with it, so they are on their way out of the graph *)
(* when the shortcut gets into it: nothing the merge replaces is ever a    *)
(* child.                                                                  *)

Unpackable(s, E) == \E a, b \in E : Unpacks(s, a, b)

(* New shortcuts stand for two edges of the graph as it is.                *)
FoundUnpack ==
  /\ phase = "parallel" =>
       /\ \A s \in new_shortcuts : Unpackable(s, Edges)
       /\ \A t \in Threads : \A s \in found[t] \cup seen[t] : Unpackable(s, Edges)
  /\ Restructuring => \A s \in rest_shortcuts : Unpackable(s, Edges)

(* The edges restructure() lays aside in this round, sooner or later.      *)
Leaving == IF Restructuring THEN {e \in Edges : ~Stays(e, to_remove)} ELSE {}

LaidAside ==
  \A k \in DOMAIN out_edges :
    k < merge_pos /\ ~Stays(out_edges[k], to_remove) => out_edges[k] \in edges_dump

(* The node a shortcut leads over was contracted before its ends.          *)
LowCenter(x) ==
  /\ x.center_node \in Nodes /\ Contracted(x.center_node)
  /\ node_levels[x.center_node] < node_levels[x.src]
  /\ node_levels[x.center_node] < node_levels[x.tgt]

KeptUnpack ==
  \A x \in Edges \cup MergedEdges \cup edges_dump :
    IsShortcut(x) => LowCenter(x) /\ Unpackable(x, edges_dump \cup Leaving)

UnpackInv == IInv /\ FoundUnpack /\ LaidAside /\ KeptUnpack

-----------------------------------------------------------------------------
(* New shortcuts.                                                          *)

(* A shortcut of two edges that meet in a node unpacks into them.          *)
LEMMA JoinUnpacks ==
  ASSUME NEW n \in Nodes, NEW a \in NodeEdges(n, "IN"), NEW b \in NodeEdges(n, "OUT")
  PROVE  Unpackable(MakeShortcut(a, b), Edges)
<1>1. a \in Edges /\ b \in Edges /\ a.tgt = n /\ b.src = n
  BY NodeEdgesEnds
<1>2. Unpacks(MakeShortcut(a, b), a, b)
  BY <1>1 DEF Unpacks, MakeShortcut
<1> QED
  BY <1>1, <1>2 DEF Unpackable

(* So do all shortcuts that are found for a node.                          *)
LEMMA ShortcutsOfNodeUnpack ==
  ASSUME NEW n \in Nodes
  PROVE  \A s \in Shortcuts(n) : Unpackable(s, Edges)
<1>1. \A s \in QuickShortcutsOf(n) : Unpackable(s, Edges)
  BY JoinUnpacks DEF QuickShortcutsOf, CreateShortcut
<1>2. ASSUME NEW type \in EdgeType, NEW e \in NodeEdges(n, Opposite(type)),
             NEW s \in CalcShortcuts(e, n, type)
      PROVE  Unpackable(s, Edges)
  <2>1. PICK t \in NodeEdges(n, type) : s = CreateShortcut(e, t, type)
    BY DEF CalcShortcuts, Targets
  <2>2. CASE type = "OUT"
    BY <2>1, <2>2, JoinUnpacks DEF CreateShortcut, Opposite
  <2>3. CASE type = "IN"
    BY <2>1, <2>3, JoinUnpacks DEF CreateShortcut, Opposite
  <2> QED
    BY <2>2, <2>3 DEF EdgeType
<1>3. \A s \in ShortcutsOf(n) : Unpackable(s, Edges)
  BY <1>2 DEF ShortcutsOf, SearchDirection, EdgeType
<1> QED
  BY <1>1, <1>3 DEF Shortcuts

(* The threads pass on what they have found.                               *)
LEMMA ThreadsUnpack ==
  ASSUME UnpackInv, NEW t \in Threads, ContractNode(t) \/ LockInsert(t) \/ FinishInsert(t)
  PROVE  FoundUnpack'
<1>1. /\ phase = "parallel" /\ phase' = "parallel" /\ UNCHANGED graph_vars
      /\ found \in [Threads -> SUBSET CHEdge] /\ seen \in [Threads -> SUBSET CHEdge]
      /\ pc[t] # "idle" => phase = "parallel"
  BY DEF ContractNode, LockInsert, FinishInsert, UnpackInv, IInv, VariableTypes, LocalsScoped, loop_vars
<1>2. Edges' = Edges
  BY <1>1, SameGraph
<1>3. /\ \A s \in new_shortcuts : Unpackable(s, Edges)
      /\ \A u \in Threads : \A s \in found[u] \cup seen[u] : Unpackable(s, Edges)
  BY <1>1 DEF UnpackInv, FoundUnpack
<1>4. /\ \A s \in new_shortcuts' : Unpackable(s, Edges)
      /\ \A u \in Threads : \A s \in found'[u] \cup seen'[u] : Unpackable(s, Edges)
  <2>1. CASE ContractNode(t)
    <3> DEFINE node == independent_set[next_index]
    <3>1. node \in Nodes
      BY <2>1, LenProperties DEF ContractNode, UnpackInv, IInv, VariableTypes
    <3>2. /\ found' = [found EXCEPT ![t] = Shortcuts(node)]
          /\ UNCHANGED <<seen, new_shortcuts>>
      BY <2>1 DEF ContractNode
    <3>3. \A s \in Shortcuts(node) : Unpackable(s, Edges)
      BY <3>1, ShortcutsOfNodeUnpack
    <3> QED
      BY <1>1, <1>3, <3>2, <3>3
  <2>2. CASE LockInsert(t)
    BY <1>1, <1>3, <2>2 DEF LockInsert
  <2>3. CASE FinishInsert(t)
    BY <1>1, <1>3, <2>3 DEF FinishInsert
  <2> QED
    BY <2>1, <2>2, <2>3
<1> QED
  BY <1>1, <1>2, <1>4 DEF FoundUnpack, Unpackable, Restructuring

-----------------------------------------------------------------------------
(* What is kept.                                                           *)

(* Outside of the merge nothing leaves, and all that left is laid aside.   *)
LEMMA SameKept ==
  ASSUME UnpackInv, UNCHANGED graph_vars, ~Restructuring, ~Restructuring'
  PROVE  LaidAside' /\ KeptUnpack'
<1>1. /\ Edges' = Edges /\ MergedEdges' = MergedEdges /\ Leaving' = {} /\ Leaving = {}
      /\ UNCHANGED <<edges_dump, node_levels, out_edges, merge_pos>>
  BY SameGraph DEF Leaving, graph_vars
<1>2. \A k \in DOMAIN out_edges : ~(k < merge_pos)
  <2>1. merge_pos = 0 /\ DOMAIN out_edges = 1..Len(out_edges) /\ Len(out_edges) \in Nat
    BY MergeTypes, LenProperties DEF UnpackInv, IInv, LocalsScoped
  <2> QED
    BY <2>1
<1>3. LaidAside'
  BY <1>1, <1>2 DEF LaidAside
<1>4. KeptUnpack'
  BY <1>1 DEF UnpackInv, KeptUnpack, LowCenter, Contracted, Unpackable
<1> QED
  BY <1>3, <1>4

(* Nodes that are removed now get a level above those of all others; the   *)
(* shortcuts of this round go to the merge.                                *)
LEMMA RemoveSomeUnpacks ==
  ASSUME UnpackInv, RemoveSome
  PROVE  FoundUnpack' /\ LaidAside' /\ KeptUnpack'
<1>0. PICK R \in SUBSET Chosen : R = to_remove'
  BY DEF RemoveSome
<1>1. /\ phase = "parallel" /\ phase' = "restructure" /\ merge_pos' = 1
      /\ rest_shortcuts' = new_shortcuts
      /\ node_levels' = [n \in Nodes |-> IF n \in R THEN next_lvl ELSE node_levels[n]]
      /\ UNCHANGED <<out_edges, new_edge_vec, edges_dump>>
      /\ next_lvl \in Nat
  BY <1>0, NodesAreUint DEF RemoveSome, BeginRestructure, UnpackInv, IInv, VariableTypes, GraphTypeOK
<1>2. Edges' = Edges /\ MergedEdges' = MergedEdges /\ Leaving = {}
  BY <1>1 DEF Edges, MergedEdges, Leaving, Restructuring
<1>3. FoundUnpack'
  BY <1>1, <1>2 DEF UnpackInv, FoundUnpack, Unpackable, Restructuring
<1>4. LaidAside'
  BY <1>1, LenProperties, MergeTypes DEF LaidAside, UnpackInv
<1>5. R \subseteq nodes /\ nodes = {n \in Nodes : ~Contracted(n)}
  BY <1>1 DEF UnpackInv, IInv, LevelsGiven
<1>6. ASSUME NEW x \in Edges \cup MergedEdges \cup edges_dump, LowCenter(x)
      PROVE  LowCenter(x)'
  <2>1. x \in CHEdge /\ x.src \in Nodes /\ x.tgt \in Nodes
    BY MergeTypes, EdgesType DEF UnpackInv, IInv, VariableTypes, GraphTypeOK, CHEdge
  <2>2. x.center_node \in Nodes \ R /\ node_levels[x.center_node] < next_lvl
    BY <1>5, <1>6 DEF LowCenter, UnpackInv, IInv, LevelsGiven
  <2>3. node_levels'[x.center_node] = node_levels[x.center_node]
    BY <1>1, <2>2
  <2>4. \A n \in Nodes : node_levels'[n] = IF n \in R THEN next_lvl ELSE node_levels[n]
    BY <1>1
  <2> QED
    BY <1>6, <2>1, <2>2, <2>3, <2>4 DEF LowCenter, Contracted
<1>7. KeptUnpack'
  BY <1>1, <1>2, <1>6 DEF UnpackInv, KeptUnpack, Unpackable
<1> QED
  BY <1>3, <1>4, <1>7

(* _addNewEdge() changes nothing but the id of an edge.                    *)
LEMMA AddNewEdgeRenumbers ==
  ASSUME IInv, NEW e \in CHEdge, AddNewEdge(e)
  PROVE  \A x \in MergedEdges' : x \in MergedEdges \/ \E id : x = [e EXCEPT !.id = id]
<1>1. /\ new_edge_vec' \in Seq(CHEdge) /\ Len(new_edge_vec) \in Nat
      /\ DOMAIN new_edge_vec = 1..Len(new_edge_vec) /\ DOMAIN new_edge_vec' = 1..Len(new_edge_vec')
  BY MergeTypes, AddNewEdgeKeeps, LenProperties
<1>2. CASE UNCHANGED <<new_edge_vec, edge_count>>
  BY <1>2 DEF MergedEdges
<1>3. CASE Replaces(e)
  <2>1. \A j \in 1..Len(new_edge_vec) :
          new_edge_vec'[j] \in MergedEdges \/ \E id : new_edge_vec'[j] = [e EXCEPT !.id = id]
    BY <1>1, <1>3 DEF Replaces, MergedEdges
  <2> QED
    BY <1>1, <1>3, <2>1 DEF Replaces, MergedEdges
<1>4. CASE ComesLast(e)
  <2>1. \A j \in 1..Len(new_edge_vec) : new_edge_vec'[j] \in MergedEdges
    BY <1>1, <1>4 DEF ComesLast, MergedEdges
  <2>2. \E id : new_edge_vec'[Len(new_edge_vec) + 1] = [e EXCEPT !.id = id]
    BY <1>4 DEF ComesLast
  <2>3. DOMAIN new_edge_vec' = 1..Len(new_edge_vec) \cup {Len(new_edge_vec) + 1}
    BY <1>1, <1>4 DEF ComesLast
  <2> QED
    BY <2>1, <2>2, <2>3 DEF MergedEdges
<1> QED
  BY <1>2, <1>3, <1>4, MergeTypes, AddNewEdgeForms

(* Neither its levels nor its children depend on the id of a shortcut.     *)
LEMMA RenumberedUnpacks ==
  ASSUME NEW e \in CHEdge, NEW id, NEW E
  PROVE  LET x == [e EXCEPT !.id = id]
         IN  /\ IsShortcut(x) => IsShortcut(e)
             /\ LowCenter(e) => LowCenter(x)
             /\ Unpackable(e, E) => Unpackable(x, E)
<1> DEFINE x == [e EXCEPT !.id = id]
<1>1. /\ x.src = e.src /\ x.tgt = e.tgt /\ x.dist = e.dist
      /\ x.child_edge1 = e.child_edge1 /\ x.child_edge2 = e.child_edge2
      /\ x.center_node = e.center_node
  BY DEF CHEdge
<1> HIDE DEF x
<1>2. /\ IsShortcut(x) => IsShortcut(e)
      /\ LowCenter(e) => LowCenter(x)
      /\ Unpackable(e, E) => Unpackable(x, E)
  BY <1>1 DEF IsShortcut, LowCenter, Unpackable, Unpacks
<1> QED
  BY <1>2 DEF x

-----------------------------------------------------------------------------
(* The merge.                                                              *)

(* A shortcut that is accepted leads over a node that is being removed: so *)
(* its children are leaving, and that node has the newest level.           *)
LEMMA AcceptedUnpacks ==
  ASSUME UnpackInv, Restructuring, NEW s \in rest_shortcuts, AcceptsShortcut(s, to_remove)
  PROVE  LowCenter(s) /\ Unpackable(s, Leaving)
<1>1. PICK a, b \in Edges : Unpacks(s, a, b)
  BY DEF UnpackInv, FoundUnpack, Unpackable
<1>2. s.center_node \in to_remove
  BY DEF AcceptsShortcut
<1>3. a \in Leaving /\ b \in Leaving
  BY <1>1, <1>2 DEF Unpacks, Leaving, Stays
<1>4. s.src \in nodes /\ s.tgt \in nodes
  <2>1. s.src \notin Chosen /\ s.tgt \notin Chosen
    <3>1. a.tgt \in Chosen /\ b.src \in Chosen
      BY <1>1, <1>2 DEF UnpackInv, IInv, LevelsGiven, Unpacks
    <3> QED
      BY <1>1, <3>1 DEF UnpackInv, IInv, Independent, Restructuring, Unpacks
  <2>2. {s.src, s.tgt} \subseteq nodes \cup to_remove /\ to_remove \subseteq Chosen
    BY <1>1 DEF UnpackInv, IInv, EdgesJoinNodes, LevelsGiven, Unpacks
  <2> QED
    BY <2>1, <2>2
<1>5. /\ node_levels[s.src] = NO_LVL /\ node_levels[s.tgt] = NO_LVL
      /\ node_levels[s.center_node] = next_lvl - 1 /\ s.center_node \in Nodes
  BY <1>2, <1>4 DEF UnpackInv, IInv, LevelsGiven, Contracted, VariableTypes
<1>6. next_lvl - 1 < NO_LVL /\ next_lvl - 1 # NO_LVL
  <2>1. next_lvl \in 0..NO_LVL /\ NO_LVL \in Nat
    BY SizeAssumption DEF UnpackInv, IInv, VariableTypes, GraphTypeOK, Uint, NO_LVL
  <2> QED
    BY <2>1
<1> QED
  BY <1>1, <1>3, <1>5, <1>6 DEF LowCenter, Contracted, Unpackable

(* What _addNewEdge() is given can be unpacked, so what it adds can.       *)
LEMMA AddNewEdgeUnpacks ==
  ASSUME UnpackInv, NEW e \in CHEdge, AddNewEdge(e), UNCHANGED node_levels,
         IsShortcut(e) => LowCenter(e) /\ Unpackable(e, edges_dump \cup Leaving)
  PROVE  \A x \in MergedEdges' :
           IsShortcut(x) => LowCenter(x) /\ Unpackable(x, edges_dump \cup Leaving)
<1> SUFFICES ASSUME NEW x \in MergedEdges', IsShortcut(x)
             PROVE  LowCenter(x) /\ Unpackable(x, edges_dump \cup Leaving)
  OBVIOUS
<1>1. CASE x \in MergedEdges
  BY <1>1 DEF UnpackInv, KeptUnpack
<1>2. ASSUME NEW id, x = [e EXCEPT !.id = id]
      PROVE  LowCenter(x) /\ Unpackable(x, edges_dump \cup Leaving)
  BY <1>2, RenumberedUnpacks
<1> QED
  BY <1>1, <1>2, AddNewEdgeRenumbers DEF UnpackInv

(* One shortcut is merged.                                                 *)
LEMMA MergeShortcutUnpacks ==
  ASSUME UnpackInv, Restructuring, MergeShortcut(to_remove), UNCHANGED <<loop_vars, to_remove>>
  PROVE  FoundUnpack' /\ LaidAside' /\ KeptUnpack'
<1>1. PICK s \in rest_shortcuts :
        /\ rest_shortcuts' = rest_shortcuts \ {s}
        /\ IF AcceptsShortcut(s, to_remove)
           THEN AddNewEdge(s)
           ELSE UNCHANGED <<new_edge_vec, edge_count>>
        /\ UNCHANGED <<out_edges, edges_dump, node_levels, merge_pos>>
  BY DEF MergeShortcut
<1>2. /\ phase = "restructure" /\ phase' = "restructure" /\ Edges' = Edges
      /\ Leaving' = Leaving
  BY <1>1 DEF Restructuring, loop_vars, Edges, Leaving
<1>3. s \in CHEdge
  BY MergeTypes DEF UnpackInv
<1>4. FoundUnpack' /\ LaidAside'
  BY <1>1, <1>2 DEF UnpackInv, FoundUnpack, LaidAside, Unpackable, Restructuring
<1>5. \A x \in MergedEdges' :
        IsShortcut(x) => LowCenter(x) /\ Unpackable(x, edges_dump \cup Leaving)
  <2>1. CASE AcceptsShortcut(s, to_remove)
    <3>1. LowCenter(s) /\ Unpackable(s, edges_dump \cup Leaving)
      BY <2>1, AcceptedUnpacks DEF Unpackable
    <3> QED
      BY <1>1, <1>3, <2>1, <3>1, AddNewEdgeUnpacks
  <2>2. CASE ~AcceptsShortcut(s, to_remove)
    BY <1>1, <2>2 DEF MergedEdges, UnpackInv, KeptUnpack
  <2> QED
    BY <2>1, <2>2
<1>6. KeptUnpack'
  BY <1>1, <1>2, <1>5 DEF UnpackInv, KeptUnpack, LowCenter, Contracted, Unpackable
<1> QED
  BY <1>4, <1>6

(* One edge goes on, or is laid aside with whatever it is a child of.      *)
LEMMA MergeEdgeUnpacks ==
  ASSUME UnpackInv, Restructuring, MergeEdge(to_remove), UNCHANGED <<loop_vars, to_remove>>
  PROVE  FoundUnpack' /\ LaidAside' /\ KeptUnpack'
<1> DEFINE edge == out_edges[merge_pos]
<1>1. /\ merge_pos \in 1..Len(out_edges)
      /\ \/ Stays(edge, to_remove) /\ AddNewEdge(edge) /\ UNCHANGED edges_dump
         \/ edges_dump' = edges_dump \cup {edge} /\ UNCHANGED <<new_edge_vec, edge_count>>
      /\ merge_pos' = merge_pos + 1
      /\ UNCHANGED <<out_edges, rest_shortcuts, node_levels>>
  BY DEF MergeEdge
<1>2. /\ phase = "restructure" /\ phase' = "restructure" /\ Edges' = Edges
      /\ Leaving' = Leaving
  BY <1>1 DEF Restructuring, loop_vars, Edges, Leaving
<1>3. edge \in CHEdge /\ edge \in Edges /\ DOMAIN out_edges = 1..Len(out_edges)
  BY <1>1, MergeTypes, LenProperties DEF UnpackInv, Edges
<1>4. FoundUnpack'
  BY <1>1, <1>2 DEF UnpackInv, FoundUnpack, Unpackable, Restructuring
<1>5. LaidAside'
  <2> SUFFICES ASSUME NEW k \in DOMAIN out_edges,
                      k < merge_pos + 1, ~Stays(out_edges[k], to_remove)
               PROVE  out_edges[k] \in edges_dump'
    BY <1>1 DEF LaidAside
  <2>1. CASE k = merge_pos
    BY <1>1, <2>1
  <2>2. CASE k # merge_pos
    <3>1. k < merge_pos
      BY <1>1, <1>3, <2>2
    <3>2. out_edges[k] \in edges_dump
      BY <3>1 DEF UnpackInv, LaidAside
    <3> QED
      BY <1>1, <3>2
  <2> QED
    BY <2>1, <2>2
<1>6. IsShortcut(edge) => LowCenter(edge) /\ Unpackable(edge, edges_dump \cup Leaving)
  BY <1>3 DEF UnpackInv, KeptUnpack
<1> HIDE DEF edge
<1>7. \A x \in MergedEdges' \cup edges_dump' :
        IsShortcut(x) => LowCenter(x) /\ Unpackable(x, edges_dump \cup Leaving)
  <2>1. CASE AddNewEdge(edge) /\ UNCHANGED edges_dump
    BY <1>1, <1>3, <1>6, <2>1, AddNewEdgeUnpacks DEF UnpackInv, KeptUnpack
  <2>2. CASE edges_dump' = edges_dump \cup {edge} /\ UNCHANGED <<new_edge_vec, edge_count>>
    <3>1. MergedEdges' = MergedEdges
      BY <2>2 DEF MergedEdges
    <3> QED
      BY <1>6, <2>2, <3>1 DEF UnpackInv, KeptUnpack
  <2> QED
    BY <1>1, <2>1, <2>2
<1>8. edges_dump \subseteq edges_dump'
  BY <1>1
<1>9. KeptUnpack'
  <2>1. \A x : Unpackable(x, edges_dump \cup Leaving) => Unpackable(x, edges_dump' \cup Leaving)
    BY <1>8 DEF Unpackable
  <2>2. \A x \in Edges : IsShortcut(x) => LowCenter(x) /\ Unpackable(x, edges_dump \cup Leaving)
    BY DEF UnpackInv, KeptUnpack
  <2> QED
    BY <1>1, <1>2, <1>7, <2>1, <2>2 DEF KeptUnpack, LowCenter, Contracted, Unpackable
<1> QED
  BY <1>4, <1>5, <1>9

(* When the merge is over, all that was to leave has left.                 *)
LEMMA EndRoundUnpacks ==
  ASSUME UnpackInv, EndRound
  PROVE  FoundUnpack' /\ LaidAside' /\ KeptUnpack'
<1>1. /\ phase = "restructure" /\ phase' = "round"
      /\ merge_pos = Len(out_edges) + 1 /\ merge_pos' = 0
      /\ out_edges' = new_edge_vec /\ new_edge_vec' = <<>>
      /\ UNCHANGED <<edges_dump, node_levels>>
  BY DEF EndRound, FinishRestructure
<1>2. Edges' = MergedEdges /\ MergedEdges' = {} /\ Leaving' = {}
  BY <1>1 DEF Edges, MergedEdges, Leaving, Restructuring
<1>3. FoundUnpack'
  BY <1>1 DEF FoundUnpack, Restructuring
<1>4. LaidAside'
  <2>1. DOMAIN new_edge_vec = 1..Len(new_edge_vec) /\ Len(new_edge_vec) \in Nat
    BY MergeTypes, LenProperties DEF UnpackInv
  <2>2. \A k \in DOMAIN new_edge_vec : ~(k < 0)
    BY <2>1
  <2> QED
    BY <1>1, <2>2 DEF LaidAside
<1>5. Leaving \subseteq edges_dump
  <2>1. DOMAIN out_edges = 1..Len(out_edges) /\ Len(out_edges) \in Nat
    BY MergeTypes, LenProperties DEF UnpackInv
  <2>2. \A k \in DOMAIN out_edges : k < merge_pos
    BY <1>1, <2>1
  <2> QED
    BY <2>2 DEF Leaving, Edges, UnpackInv, LaidAside
<1>6. KeptUnpack'
  <2>1. \A x : Unpackable(x, edges_dump \cup Leaving) => Unpackable(x, edges_dump)
    BY <1>5 DEF Unpackable
  <2> QED
    BY <1>1, <1>2, <2>1 DEF UnpackInv, KeptUnpack, LowCenter, Contracted, Unpackable
<1> QED
  BY <1>3, <1>4, <1>6

(* The graph that was read has no shortcuts.                               *)
LEMMA InitUnpacks == AnyInit => UnpackInv
<1> SUFFICES ASSUME AnyInit PROVE FoundUnpack /\ LaidAside /\ KeptUnpack
  BY InitIInv DEF UnpackInv
<1>1. FoundUnpack
  BY DEF AnyInit, FoundUnpack, Restructuring
<1>2. IsInputGraph(out_edges)
  BY InputAssumption DEF AnyInit, GraphInit
<1>3. DOMAIN out_edges = 1..Len(out_edges) /\ Len(out_edges) \in Nat
  BY <1>2, LenProperties DEF IsInputGraph
<1>4. LaidAside
  <2>1. \A k \in DOMAIN out_edges : ~(k < 0)
    BY <1>3
  <2> QED
    BY <2>1 DEF AnyInit, GraphInit, LaidAside
<1>5. \A x \in Edges : ~IsShortcut(x)
  BY <1>2, <1>3 DEF Edges, IsInputGraph, InputEdge, IsShortcut
<1>6. MergedEdges = {} /\ edges_dump = {}
  BY DEF AnyInit, GraphInit, MergedEdges
<1> QED
  BY <1>1, <1>4, <1>5, <1>6 DEF KeptUnpack

(* Every step keeps what a shortcut unpacks into.                          *)
LEMMA AnyKeepsUnpacking == UnpackInv /\ [AnyNext]_vars => UnpackInv'
<1> SUFFICES ASSUME UnpackInv, [AnyNext]_vars PROVE FoundUnpack' /\ LaidAside' /\ KeptUnpack'
  BY AnyKeeps DEF UnpackInv
<1>1. CASE StartRound \/ QuickContractReturns \/ ContractReturns \/ SelectNode \/ ConsiderNodes
  <2>1. /\ UNCHANGED graph_vars /\ ~Restructuring /\ ~Restructuring' /\ phase' # "parallel"
    BY <1>1 DEF StartRound, QuickContractReturns, ContractReturns, SelectNode, ConsiderNodes,
                loop_vars, Restructuring
  <2> QED
    BY <2>1, SameKept DEF FoundUnpack
<1>2. CASE EnterParallelLoop \/ EnterWithNodes
  <2>1. /\ UNCHANGED graph_vars /\ ~Restructuring /\ ~Restructuring'
        /\ new_shortcuts' = {} /\ \A t \in Threads : found'[t] = {} /\ seen'[t] = {}
    BY <1>2 DEF EnterParallelLoop, EnterWithNodes, Restructuring, UnpackInv, IInv, LocalsScoped
  <2> QED
    BY <2>1, SameKept DEF FoundUnpack
<1>3. ASSUME NEW t \in Threads, ContractNode(t) \/ LockInsert(t) \/ FinishInsert(t)
      PROVE  FoundUnpack' /\ LaidAside' /\ KeptUnpack'
  <2>1. /\ UNCHANGED graph_vars /\ ~Restructuring /\ ~Restructuring'
    BY <1>3 DEF ContractNode, LockInsert, FinishInsert, loop_vars, Restructuring,
                UnpackInv, IInv, LocalsScoped
  <2> QED
    BY <1>3, <2>1, SameKept, ThreadsUnpack
<1>4. CASE ChooseRemoveNodes \/ RemoveSome
  BY <1>4, ChooseIsRemoveSome, RemoveSomeUnpacks DEF UnpackInv
<1>5. CASE Restructure
  BY <1>5, MergeShortcutUnpacks, MergeEdgeUnpacks DEF Restructure, Restructuring
<1>6. CASE EndRound
  BY <1>6, EndRoundUnpacks
<1>7. CASE Terminated \/ UNCHANGED vars
  <2>1. UNCHANGED vars
    BY <1>7 DEF Terminated
  <2>2. /\ Edges' = Edges /\ MergedEdges' = MergedEdges
        /\ UNCHANGED <<phase, to_remove, edges_dump, node_levels, out_edges, merge_pos,
                       new_shortcuts, rest_shortcuts, found, seen>>
    BY <2>1, SameGraph DEF vars, graph_vars, loop_vars, thread_vars
  <2>3. Leaving' = Leaving
    BY <2>2 DEF Leaving, Restructuring
  <2> QED
    BY <2>2, <2>3 DEF UnpackInv, FoundUnpack, LaidAside, KeptUnpack, LowCenter, Contracted,
                      Unpackable, Restructuring
<1> QED
  BY <1>1, <1>2, <1>3, <1>4, <1>5, <1>6, <1>7 DEF AnyNext, Next, StepWithinRound

(* The steps of the program are among them.                                *)
LEMMA NextKeepsUnpacking == UnpackInv /\ [Next]_vars => UnpackInv'
BY AnyKeepsUnpacking, NextIsAny

(* The edges a shortcut unpacks into are in the hierarchy.                 *)
LEMMA UnpackInvUnpacks == UnpackInv => ShortcutsUnpack
<1> SUFFICES ASSUME UnpackInv, NEW x \in AllEdges, IsShortcut(x)
             PROVE  /\ \E a, b \in AllEdges : Unpacks(x, a, b)
                    /\ node_levels[x.center_node] < node_levels[x.src]
                    /\ node_levels[x.center_node] < node_levels[x.tgt]
  BY DEF ShortcutsUnpack
<1>1. x \in Edges \cup MergedEdges \cup edges_dump
  BY DEF AllEdges, UnmergedEdges, Edges
<1>2. LowCenter(x) /\ Unpackable(x, edges_dump \cup Leaving)
  BY <1>1 DEF UnpackInv, KeptUnpack
<1>3. Leaving \subseteq AllEdges
  <2> SUFFICES ASSUME NEW k \in DOMAIN out_edges, ~Stays(out_edges[k], to_remove)
               PROVE  out_edges[k] \in AllEdges
    BY DEF Leaving, Edges
  <2>1. CASE k < merge_pos
    BY <2>1 DEF UnpackInv, LaidAside, AllEdges
  <2>2. CASE ~(k < merge_pos)
    <3>1. k \in Int /\ merge_pos \in Int
      BY MergeTypes, LenProperties DEF UnpackInv
    <3>2. k >= merge_pos
      BY <2>2, <3>1
    <3> QED
      BY <3>2 DEF AllEdges, UnmergedEdges
  <2> QED
    BY <2>1, <2>2
<1> QED
  BY <1>2, <1>3 DEF LowCenter, Unpackable, AllEdges

(* Every shortcut of the hierarchy, in the graph or laid aside, unpacks    *)
(* into two edges of the hierarchy whose lengths add up to its own, and    *)
(* the node in its middle is below both of its ends.                       *)
THEOREM EveryShortcutUnpacks == Spec => []ShortcutsUnpack
BY InitIsAny, InitUnpacks, NextKeepsUnpacking, UnpackInvUnpacks, PTL DEF Spec

-----------------------------------------------------------------------------
(* What one search finds.                                                  *)

(* Where an edge leads from and to, in the direction of a search.          *)
FromNode(e, type) == OtherNode(e, Opposite(type))

(* The distances in the direction of a search.                             *)
Ways(E, type) ==
  IF type = "OUT" THEN Distances(E) ELSE {<<t[2], t[1], t[3]>> : t \in Distances(E)}

PotentialAlong(p, E, type) ==
  p \in [Nodes -> Int] /\ \A e \in E : p[OtherNode(e, type)] <= p[FromNode(e, type)] + e.dist

(* Ways backwards are distances as well.                                   *)
LEMMA WaysAreDistances ==
  ASSUME NEW E, EdgeSet(E), NEW type \in EdgeType
  PROVE  /\ Triangular(Ways(E, type))
         /\ \A e \in E : AtMost(Ways(E, type), FromNode(e, type), OtherNode(e, type), e.dist)
         /\ \A p : PotentialAlong(p, E, type) => Bounds(p, Ways(E, type))
<1>1. /\ Triangular(Distances(E))
      /\ \A e \in E : AtMost(Distances(E), e.src, e.tgt, e.dist)
      /\ \A p : Potential(p, E) => Bounds(p, Distances(E))
  BY DistancesTriangular
<1>2. CASE type = "OUT"
  BY <1>1, <1>2 DEF Ways, PotentialAlong, FromNode, OtherNode, Opposite, Potential
<1>3. CASE type = "IN"
  <2> DEFINE W == Ways(E, type)
             D == Distances(E)
  <2>1. D \in SUBSET Triples
    BY <1>1 DEF Triangular
  <2>2. \A u, v, d : <<u, v, d>> \in W <=> <<v, u, d>> \in D
    <3>1. W = {<<t[2], t[1], t[3]>> : t \in D}
      BY <1>3 DEF Ways
    <3>2. \A t \in D : t = <<t[1], t[2], t[3]>>
      BY <2>1 DEF Triples
    <3> HIDE DEF W, D
    <3> QED
      BY <3>1, <3>2
  <2>3. W \in SUBSET Triples
    <3>1. W = {<<t[2], t[1], t[3]>> : t \in D}
      BY <1>3 DEF Ways
    <3> HIDE DEF W, D
    <3> QED
      BY <2>1, <3>1 DEF Triples
  <2> HIDE DEF W, D
  <2>4. \A u, v, d : AtMost(W, u, v, d) <=> AtMost(D, v, u, d)
    BY <2>2 DEF AtMost
  <2>5. Triangular(D)
    BY <1>1 DEF D
  <2>6. OneDistance(W)
    BY <2>2, <2>5 DEF Triangular, OneDistance
  <2>7. \A u, v, w \in Nodes : \A c, d \in Nat :
          AtMost(W, u, v, c) /\ AtMost(W, v, w, d) => AtMost(W, u, w, c + d)
    <3> SUFFICES ASSUME NEW u \in Nodes, NEW v \in Nodes, NEW w \in Nodes, NEW c \in Nat, NEW d \in Nat,
                        AtMost(W, u, v, c), AtMost(W, v, w, d)
                 PROVE  AtMost(W, u, w, c + d)
      OBVIOUS
    <3>1. AtMost(D, w, u, d + c) /\ d + c = c + d
      BY <2>4, <2>5 DEF Triangular
    <3> QED
      BY <2>4, <3>1
  <2>8. Triangular(W)
    BY <2>2, <2>3, <2>5, <2>6, <2>7 DEF Triangular
  <2>9. \A e \in E : AtMost(W, FromNode(e, type), OtherNode(e, type), e.dist)
    BY <1>1, <1>3, <2>4 DEF D, FromNode, OtherNode, Opposite
  <2>10. ASSUME NEW p, PotentialAlong(p, E, type) PROVE Bounds(p, W)
    <3> DEFINE q == [n \in Nodes |-> -p[n]]
    <3>1. /\ p \in [Nodes -> Int]
          /\ \A e \in E : /\ p[e.src] <= p[e.tgt] + e.dist
                          /\ e.src \in Nodes /\ e.tgt \in Nodes /\ e.dist \in Nat
      BY <1>3, <2>10 DEF PotentialAlong, FromNode, OtherNode, Opposite, EdgeSet
    <3>2. q \in [Nodes -> Int] /\ \A n \in Nodes : q[n] = -p[n]
      BY <3>1
    <3> HIDE DEF q
    <3>3. Potential(q, E)
      <4> SUFFICES ASSUME NEW e \in E PROVE q[e.tgt] <= q[e.src] + e.dist
        BY <3>2 DEF Potential
      <4>1. p[e.src] <= p[e.tgt] + e.dist /\ q[e.tgt] = -p[e.tgt] /\ q[e.src] = -p[e.src]
        BY <3>1, <3>2
      <4> QED
        BY <3>1, <4>1
    <3>4. Bounds(q, D)
      BY <1>1, <3>3 DEF D
    <3> SUFFICES ASSUME NEW u \in Nodes, NEW v \in Nodes, NEW d \in Nat, <<u, v, d>> \in W
                 PROVE  p[v] <= p[u] + d
      BY DEF Bounds
    <3>5. q[u] <= q[v] + d
      BY <2>2, <3>4 DEF Bounds
    <3> QED
      BY <3>1, <3>2, <3>5
  <2> QED
    BY <2>8, <2>9, <2>10 DEF W
<1> QED
  BY <1>2, <1>3 DEF EdgeType

(* No sum the search computes wraps around.                                *)
SumsFit(E, type, start) ==
  \A e \in E, c \in Nat : <<start, FromNode(e, type), c>> \in Ways(E, type) => c + e.dist < NO_DIST

(* The labels are the lengths of ways; what is not in the queue has been   *)
(* relaxed.                                                                *)
SearchInv(search, E, type, start) ==
  /\ search \in SearchStates
  /\ search.dists[start] = 0
  /\ \A n \in Nodes : search.dists[n] # NO_DIST => AtMost(Ways(E, type), start, n, search.dists[n])
  /\ \A q \in search.queue : q[2] # NO_DIST /\ search.dists[q[1]] <= q[2]
  /\ \A e \in E :
       LET n == FromNode(e, type)
       IN  search.dists[n] # NO_DIST /\ <<n, search.dists[n]>> \notin search.queue =>
             search.dists[OtherNode(e, type)] <= search.dists[n] + e.dist

(* Labels up to what is left in the queue are not longer than any way.     *)
LEMMA LabelsWithinQueue ==
  ASSUME NEW E, EdgeSet(E), NEW type \in EdgeType, NEW start \in Nodes, NEW search,
         SearchInv(search, E, type, start), NEW limit \in Nat, limit <= NO_DIST,
         \A q \in search.queue : limit <= q[2],
         NEW n \in Nodes, NEW d \in Nat, <<start, n, d>> \in Ways(E, type)
  PROVE  search.dists[n] <= d \/ limit <= d
<1>1. NO_DIST \in Nat /\ \A x \in Nodes : search.dists[x] \in Nat /\ search.dists[x] <= NO_DIST
  BY SizeAssumption DEF SearchInv, SearchStates, Uint, NO_DIST
<1> DEFINE p == [x \in Nodes |-> IF search.dists[x] <= limit THEN search.dists[x] ELSE limit]
<1>2. p \in [Nodes -> Nat] /\ \A x \in Nodes : p[x] = IF search.dists[x] <= limit THEN search.dists[x] ELSE limit
  BY <1>1
<1> HIDE DEF p
<1>3. ASSUME NEW e \in E PROVE p[OtherNode(e, type)] <= p[FromNode(e, type)] + e.dist
  <2> DEFINE x == FromNode(e, type)
             y == OtherNode(e, type)
  <2>1. x \in Nodes /\ y \in Nodes /\ e.dist \in Nat
    BY DEF EdgeSet, FromNode, OtherNode, Opposite
  <2>2. search.dists[x] # NO_DIST /\ <<x, search.dists[x]>> \notin search.queue =>
          search.dists[y] <= search.dists[x] + e.dist
    BY DEF SearchInv
  <2>3. <<x, search.dists[x]>> \in search.queue => limit <= search.dists[x]
    <3>1. <<x, search.dists[x]>>[2] = search.dists[x]
      OBVIOUS
    <3> HIDE DEF x
    <3> QED
      BY <3>1
  <2> HIDE DEF x, y
  <2>4. /\ p[y] <= limit /\ p[y] <= search.dists[y]
        /\ p[x] \in Nat /\ p[y] \in Nat /\ search.dists[x] \in Nat /\ search.dists[y] \in Nat
        /\ p[x] = IF search.dists[x] <= limit THEN search.dists[x] ELSE limit
        /\ search.dists[x] <= NO_DIST
    BY <1>1, <1>2, <2>1
  <2>5. ASSUME limit <= search.dists[x] PROVE p[y] <= p[x] + e.dist
    <3>1. p[x] = limit
      BY <2>4, <2>5
    <3> QED
      BY <2>1, <2>4, <3>1
  <2>6. ASSUME ~(limit <= search.dists[x]) PROVE p[y] <= p[x] + e.dist
    <3>1. p[x] = search.dists[x] /\ search.dists[x] # NO_DIST
      BY <1>1, <2>4, <2>6
    <3>2. search.dists[y] <= search.dists[x] + e.dist
      BY <2>2, <2>3, <2>6, <3>1
    <3> QED
      BY <2>1, <2>4, <3>1, <3>2
  <2> QED
    BY <2>5, <2>6 DEF x, y
<1>4. PotentialAlong(p, E, type)
  BY <1>2, <1>3 DEF PotentialAlong
<1>5. p[n] <= p[start] + d
  BY <1>4, WaysAreDistances DEF Bounds
<1>6. p[start] = 0
  BY <1>1, <1>2 DEF SearchInv
<1> QED
  BY <1>1, <1>2, <1>5, <1>6

(* The least of a set of numbers.                                          *)
LEMMA MinIsLeast ==
  ASSUME NEW S \in SUBSET Nat, S # {}
  PROVE  Min(S) \in S /\ \A x \in S : Min(S) <= x
<1>1. \E c \in S : \A x \in S : c <= x
  BY LeastNumber
<1> QED
  BY <1>1 DEF Min

(* The node with the shortest distance is the one popped.                  *)
LEMMA TopIsLeast ==
  ASSUME NEW search \in SearchStates, search.queue # {}
  PROVE  /\ Top(search) \in search.queue
         /\ \A q \in search.queue : Top(search)[2] <= q[2]
<1> DEFINE S == {q[2] : q \in search.queue}
<1>1. search.queue \subseteq Nodes \X Uint
  BY DEF SearchStates
<1>2. S \in SUBSET Nat /\ S # {}
  BY <1>1 DEF Uint
<1>3. PICK c \in S : \A x \in S : c <= x
  BY <1>2, LeastNumber
<1>4. \E q \in search.queue : \A o \in search.queue : q[2] <= o[2]
  BY <1>3
<1> QED
  BY <1>4 DEF Top

(* What relaxing the edges of the top makes of the labels.                 *)
Relaxes(relaxed, E, type, search, top) ==
  /\ relaxed \in [Nodes -> Uint]
  /\ \A n \in Nodes :
       /\ relaxed[n] <= search.dists[n]
       /\ relaxed[n] = search.dists[n] \/
            \E e \in E : FromNode(e, type) = top[1] /\ OtherNode(e, type) = n
                         /\ relaxed[n] = UintAdd(top[2], e.dist)
  /\ \A e \in E :
       FromNode(e, type) = top[1] => relaxed[OtherNode(e, type)] <= UintAdd(top[2], e.dist)

Lowered(relaxed, search) == {<<n, relaxed[n]>> : n \in {m \in Nodes : relaxed[m] < search.dists[m]}}

(* An outdated distance is dropped, the edges of another one are relaxed.  *)
LEMMA PopAndRelaxForms ==
  ASSUME NEW E \in SUBSET CHEdge, NEW type \in EdgeType, NEW search \in SearchStates, search.queue # {}
  PROVE  LET top == Top(search)
         IN  \/ /\ search.dists[top[1]] # top[2]
                /\ PopAndRelax(E, type, search) = [search EXCEPT !.queue = @ \ {top}]
             \/ /\ search.dists[top[1]] = top[2]
                /\ \E relaxed :
                     /\ Relaxes(relaxed, E, type, search, top)
                     /\ PopAndRelax(E, type, search)
                          = [dists |-> relaxed,
                             queue |-> (search.queue \ {top}) \cup Lowered(relaxed, search)]
<1> DEFINE top == Top(search)
           labels(n) == {UintAdd(top[2], e.dist) :
                           e \in {x \in E : OtherNode(x, Opposite(type)) = top[1] /\ OtherNode(x, type) = n}}
           relaxed == [n \in Nodes |-> Min({search.dists[n]} \cup labels(n))]
<1>1. top \in search.queue /\ search.queue \subseteq Nodes \X Uint /\ search.dists \in [Nodes -> Uint]
  BY TopIsLeast DEF SearchStates
<1>2. /\ \A e \in E : /\ UintAdd(top[2], e.dist) \in Uint /\ OtherNode(e, type) \in Nodes
                      /\ FromNode(e, type) \in Nodes
      /\ Uint \subseteq Nat
  <2>1. top[2] \in Uint
    BY <1>1
  <2> QED
    BY <2>1, UintAddType, NodesAreUint DEF CHEdge, OtherNode, FromNode, Opposite
<1>3. ASSUME NEW n \in Nodes
      PROVE  LET S == {search.dists[n]} \cup labels(n)
             IN  S \in SUBSET Uint /\ Min(S) \in S /\ \A x \in S : Min(S) <= x
  <2> DEFINE S == {search.dists[n]} \cup labels(n)
  <2>1. S \in SUBSET Uint /\ S # {}
    BY <1>1, <1>2
  <2> HIDE DEF S
  <2>2. Min(S) \in S /\ \A x \in S : Min(S) <= x
    BY <1>2, <2>1, MinIsLeast
  <2> QED
    BY <2>1, <2>2 DEF S
<1>4. relaxed = [n \in Nodes |-> Min({search.dists[n]} \cup labels(n))]
  OBVIOUS
<1>5. PopAndRelax(E, type, search)
        = IF search.dists[top[1]] # top[2] THEN [search EXCEPT !.queue = @ \ {top}]
          ELSE [dists |-> relaxed, queue |-> (search.queue \ {top}) \cup Lowered(relaxed, search)]
  BY DEF PopAndRelax, Lowered
<1> HIDE DEF relaxed
<1>6. Relaxes(relaxed, E, type, search, top)
  <2>1. \A n \in Nodes : relaxed[n] \in Uint
    BY <1>3, <1>4
  <2>2. relaxed \in [Nodes -> Uint]
    BY <1>4, <2>1
  <2>3. \A n \in Nodes : relaxed[n] <= search.dists[n]
    BY <1>3, <1>4
  <2>4. ASSUME NEW n \in Nodes, relaxed[n] # search.dists[n]
        PROVE  \E e \in E : FromNode(e, type) = top[1] /\ OtherNode(e, type) = n
                            /\ relaxed[n] = UintAdd(top[2], e.dist)
    <3>1. relaxed[n] \in labels(n)
      BY <1>3, <1>4, <2>4
    <3> QED
      BY <3>1 DEF FromNode
  <2>5. ASSUME NEW e \in E, FromNode(e, type) = top[1]
        PROVE  relaxed[OtherNode(e, type)] <= UintAdd(top[2], e.dist)
    <3>1. UintAdd(top[2], e.dist) \in labels(OtherNode(e, type))
      BY <2>5 DEF FromNode
    <3> QED
      BY <1>2, <1>3, <1>4, <3>1
  <2> HIDE DEF top
  <2> QED
    BY <2>2, <2>3, <2>4, <2>5 DEF Relaxes
<1> HIDE DEF top, labels
<1> QED
  BY <1>5, <1>6 DEF top

(* What can still be lowered, and what is still queued.                    *)
Below(search) == {x \in Nodes \X Uint : x[2] < search.dists[x[1]]}

Work(search) == Cardinality(Below(search)) + Cardinality(search.queue)

(* These are finitely many.                                                *)
LEMMA WorkIsFinite ==
  /\ IsFiniteSet(Nodes \X Uint)
  /\ \A S \in SUBSET (Nodes \X Uint) :
       IsFiniteSet(S) /\ Cardinality(S) \in Nat /\ Cardinality(S) <= Cardinality(Nodes \X Uint)
<1>1. IsFiniteSet(Uint) /\ IsFiniteSet(Nodes)
  BY SizeAssumption, FS_Interval DEF Uint, Nodes
<1>2. IsFiniteSet(Nodes \X Uint)
  BY <1>1, FS_Product
<1> QED
  BY <1>2, FS_Subset, FS_CardinalityType

(* Each iteration leaves less work.                                        *)
LEMMA WorkFalls ==
  ASSUME NEW E \in SUBSET CHEdge, NEW type \in EdgeType, NEW search \in SearchStates, search.queue # {}
  PROVE  /\ PopAndRelax(E, type, search) \in SearchStates
         /\ Work(PopAndRelax(E, type, search)) < Work(search)
<1> DEFINE top == Top(search)
           next == PopAndRelax(E, type, search)
           queue == search.queue
           old == Below(search)
<1>1. /\ top \in queue /\ queue \in SUBSET (Nodes \X Uint) /\ search.dists \in [Nodes -> Uint]
      /\ old \in SUBSET (Nodes \X Uint)
  BY TopIsLeast DEF SearchStates, Below
<1>2. /\ IsFiniteSet(queue) /\ Cardinality(queue) \in Nat
      /\ IsFiniteSet(old) /\ Cardinality(old) \in Nat
      /\ IsFiniteSet(queue \ {top}) /\ Cardinality(queue \ {top}) = Cardinality(queue) - 1
  <2>1. queue \ {top} \in SUBSET (Nodes \X Uint)
    BY <1>1
  <2>2. IsFiniteSet(queue) /\ Cardinality(queue) \in Nat
    BY <1>1, WorkIsFinite
  <2> HIDE DEF queue, old, top
  <2>3. Cardinality(queue \ {top}) = Cardinality(queue) - 1
    BY <1>1, <2>2, FS_RemoveElement
  <2> QED
    BY <1>1, <2>1, <2>2, <2>3, WorkIsFinite
<1>3. CASE next = [search EXCEPT !.queue = @ \ {top}]
  <2>1. next \in SearchStates /\ next.dists = search.dists /\ next.queue = queue \ {top}
    BY <1>1, <1>3 DEF SearchStates
  <2>2. Below(next) = old
    BY <2>1 DEF Below
  <2> HIDE DEF next, old, queue, top
  <2>3. Work(next) = Cardinality(old) + (Cardinality(queue) - 1)
    BY <1>2, <2>1, <2>2 DEF Work
  <2>4. Work(search) = Cardinality(old) + Cardinality(queue)
    BY DEF Work, old, queue
  <2>5. Work(next) < Work(search)
    BY <1>2, <2>3, <2>4
  <2> QED
    BY <2>1, <2>5 DEF next
<1>4. ASSUME NEW relaxed, Relaxes(relaxed, E, type, search, top),
             next = [dists |-> relaxed, queue |-> (queue \ {top}) \cup Lowered(relaxed, search)]
      PROVE  next \in SearchStates /\ Work(next) < Work(search)
  <2> DEFINE pushed == Lowered(relaxed, search)
             new == Below(next)
  <2>1. /\ relaxed \in [Nodes -> Uint] /\ Uint \subseteq Nat
        /\ \A n \in Nodes : relaxed[n] <= search.dists[n]
    BY <1>4, NodesAreUint DEF Relaxes
  <2>2. pushed \in SUBSET (Nodes \X Uint) /\ pushed \subseteq old
    BY <2>1 DEF Lowered, Below
  <2>3. next \in SearchStates /\ next.dists = relaxed /\ next.queue = (queue \ {top}) \cup pushed
    BY <1>1, <1>4, <2>1, <2>2 DEF SearchStates
  <2>4. new \in SUBSET (Nodes \X Uint) /\ new \subseteq old /\ new \cap pushed = {}
    <3>1. new = {x \in Nodes \X Uint : x[2] < relaxed[x[1]]}
      BY <2>3 DEF Below
    <3>2. \A x \in Nodes \X Uint : x[1] \in Nodes /\ x[2] \in Nat
      BY <2>1
    <3>3. new \subseteq old
      <4> SUFFICES ASSUME NEW x \in Nodes \X Uint, x[2] < relaxed[x[1]]
                   PROVE  x[2] < search.dists[x[1]]
        BY <3>1 DEF Below
      <4>1. /\ x[1] \in Nodes /\ x[2] \in Nat /\ relaxed[x[1]] \in Nat /\ search.dists[x[1]] \in Nat
            /\ relaxed[x[1]] <= search.dists[x[1]]
        BY <1>1, <2>1, <3>2
      <4> QED
        BY <4>1
    <3>4. \A n \in Nodes : <<n, relaxed[n]>> \notin new
      <4> SUFFICES ASSUME NEW n \in Nodes PROVE ~(relaxed[n] < relaxed[n])
        BY <3>1
      <4>1. relaxed[n] \in Nat
        BY <2>1
      <4> QED
        BY <4>1
    <3> QED
      BY <3>1, <3>3, <3>4 DEF Lowered
  <2> HIDE DEF next, old, queue, top, pushed, new
  <2>5. /\ IsFiniteSet(new) /\ Cardinality(new) \in Nat /\ IsFiniteSet(pushed) /\ Cardinality(pushed) \in Nat
    BY <2>2, <2>4, WorkIsFinite
  <2>6. Cardinality(new) + Cardinality(pushed) <= Cardinality(old)
    <3>1. new \cup pushed \subseteq old
      BY <2>2, <2>4
    <3>2. Cardinality(new \cup pushed) <= Cardinality(old)
      BY <1>2, <3>1, FS_Subset
    <3>3. Cardinality(new \cup pushed) = Cardinality(new) + Cardinality(pushed)
      <4>1. Cardinality(new \cup pushed)
              = Cardinality(new) + Cardinality(pushed) - Cardinality(new \cap pushed)
        BY <2>5, FS_Union
      <4>2. Cardinality(new \cap pushed) = 0
        BY <2>4, FS_EmptySet
      <4> QED
        BY <2>5, <4>1, <4>2
    <3> QED
      BY <3>2, <3>3
  <2>7. /\ Cardinality(next.queue) \in Nat
        /\ Cardinality(next.queue) <= (Cardinality(queue) - 1) + Cardinality(pushed)
    <3> DEFINE rest == queue \ {top}
    <3>1. /\ IsFiniteSet(rest) /\ Cardinality(rest) = Cardinality(queue) - 1
          /\ next.queue = rest \cup pushed
      BY <1>2, <2>3
    <3> HIDE DEF rest
    <3>2. Cardinality(rest \cup pushed) = Cardinality(rest) + Cardinality(pushed) - Cardinality(rest \cap pushed)
      BY <2>5, <3>1, FS_Union
    <3>3. Cardinality(rest \cap pushed) \in Nat
      BY <2>5, FS_Intersection, FS_CardinalityType
    <3>4. Cardinality(rest) \in Nat /\ Cardinality(rest \cup pushed) \in Nat
      BY <2>5, <3>1, FS_Union, FS_CardinalityType
    <3> QED
      BY <2>5, <3>1, <3>2, <3>3, <3>4
  <2>8. Work(next) = Cardinality(new) + Cardinality(next.queue)
    BY DEF Work, new
  <2>9. Work(search) = Cardinality(old) + Cardinality(queue)
    BY DEF Work, old, queue
  <2>10. Work(next) < Work(search)
    BY <1>2, <2>5, <2>6, <2>7, <2>8, <2>9
  <2> QED
    BY <2>3, <2>10
<1> HIDE DEF next, old
<1> QED
  BY <1>3, <1>4, PopAndRelaxForms DEF next

(* The search ends, and what every iteration keeps holds at its end.       *)
LEMMA SearchResult ==
  ASSUME NEW E \in SUBSET CHEdge, NEW type \in EdgeType, NEW start \in Nodes, NEW radius,
         NEW P \in SUBSET SearchStates, SearchStart(start) \in P,
         \A x \in P : ~SearchEnds(x, radius) => PopAndRelax(E, type, x) \in P
  PROVE  \E x \in P : SearchEnds(x, radius) /\ CalcShortestDists(E, start, type, radius) = x.dists
<1> DEFINE done == {x \in SearchStates : SearchEnds(x, radius)}
           next == [x \in SearchStates |-> PopAndRelax(E, type, x)]
           r == [x \in SearchStates |-> x.dists]
           X == [Nodes -> Uint]
           limit == Cardinality(Nodes \X Uint) + Cardinality(Nodes \X Uint)
           m == [x \in SearchStates |-> Work(x)]
<1>1. \A x \in SearchStates : SearchEnds(x, radius) <=> x \in done
  OBVIOUS
<1>2. \A x \in SearchStates : x \notin done => x.queue # {}
  BY DEF SearchEnds
<1>3. ASSUME NEW x \in SearchStates PROVE Work(x) \in 0..limit
  <2>1. Below(x) \in SUBSET (Nodes \X Uint) /\ x.queue \in SUBSET (Nodes \X Uint)
    BY DEF Below, SearchStates
  <2>2. /\ Cardinality(Below(x)) \in Nat /\ Cardinality(x.queue) \in Nat
        /\ Cardinality(Below(x)) <= Cardinality(Nodes \X Uint)
        /\ Cardinality(x.queue) <= Cardinality(Nodes \X Uint)
    BY <2>1, WorkIsFinite
  <2>3. Cardinality(Nodes \X Uint) \in Nat
    BY WorkIsFinite, FS_CardinalityType
  <2> QED
    BY <2>2, <2>3 DEF Work
<1>4. limit \in Nat
  <2>1. Cardinality(Nodes \X Uint) \in Nat
    BY WorkIsFinite, FS_CardinalityType
  <2> QED
    BY <2>1
<1>5. \A x \in SearchStates :
        x \notin done => /\ PopAndRelax(E, type, x) \in SearchStates
                         /\ Work(PopAndRelax(E, type, x)) < Work(x)
  BY <1>2, WorkFalls
<1>6. Falls(m, SearchStates, done, next)
  <2>1. \A x \in SearchStates : m[x] = Work(x) /\ next[x] = PopAndRelax(E, type, x)
    OBVIOUS
  <2> HIDE DEF m, next, done
  <2> QED
    BY <1>5, <2>1 DEF Falls
<1>7. m \in [SearchStates -> 0..limit] /\ r \in [SearchStates -> X]
  <2>1. \A x \in SearchStates : x.dists \in X
    BY DEF SearchStates
  <2> HIDE DEF limit, X
  <2> QED
    BY <1>3, <2>1
<1>8. /\ \A x \in SearchStates : next[x] = PopAndRelax(E, type, x) /\ r[x] = x.dists
      /\ \A x \in P : x \in SearchStates
      /\ SearchStart(start) \in SearchStates
  OBVIOUS
<1> DEFINE Body(g) == [x \in SearchStates |-> IF SearchEnds(x, radius) THEN x.dists
                                              ELSE g[PopAndRelax(E, type, x)]]
           dists == CHOOSE g : g = Body(g)
<1>9. PICK f \in [SearchStates -> X] : Continues(f, SearchStates, done, r, next)
  <2> HIDE DEF m, next, done, limit, r, X
  <2> QED
    BY <1>4, <1>6, <1>7, FallingRecursion
<1>10. f = Body(f)
  <2>1. \A x \in SearchStates : f[x] = IF SearchEnds(x, radius) THEN x.dists ELSE f[PopAndRelax(E, type, x)]
    <3> HIDE DEF m, next, done, limit, r, X
    <3> QED
      BY <1>1, <1>8, <1>9 DEF Continues
  <2> QED
    BY <2>1
<1>11. dists = Body(dists)
  BY <1>10
<1> HIDE DEF dists
<1>12. \A x \in SearchStates :
         dists[x] = IF SearchEnds(x, radius) THEN x.dists ELSE dists[PopAndRelax(E, type, x)]
  BY <1>11
<1>13. CalcShortestDists(E, start, type, radius) = dists[SearchStart(start)]
  BY DEF CalcShortestDists, dists
<1> DEFINE Q == {x \in SearchStates :
                   x \in P => \E y \in P : SearchEnds(y, radius) /\ dists[x] = y.dists}
<1> HIDE DEF Body
<1>14. \A x \in SearchStates : x \in done => x \in Q
  BY <1>12
<1>15. \A x \in SearchStates : x \notin done /\ next[x] \in Q => x \in Q
  <2> SUFFICES ASSUME NEW x \in SearchStates, x \notin done, next[x] \in Q, x \in P
               PROVE  \E y \in P : SearchEnds(y, radius) /\ dists[x] = y.dists
    OBVIOUS
  <2>1. PopAndRelax(E, type, x) \in P /\ dists[x] = dists[PopAndRelax(E, type, x)]
    BY <1>1, <1>12
  <2> QED
    BY <1>8, <2>1
<1>16. SearchStates \subseteq Q
  <2>1. m \in [SearchStates -> Nat]
    BY <1>4, <1>7
  <2> HIDE DEF m, next, done, Q
  <2> QED
    BY <1>6, <1>14, <1>15, <2>1, FallingInduction
<1> QED
  BY <1>8, <1>13, <1>16

(* Where no sum wraps around, an iteration keeps the invariant.            *)
LEMMA PopAndRelaxKeeps ==
  ASSUME NEW E \in SUBSET CHEdge, NEW type \in EdgeType, NEW start \in Nodes,
         SumsFit(E, type, start), NEW search, SearchInv(search, E, type, start), search.queue # {}
  PROVE  SearchInv(PopAndRelax(E, type, search), E, type, start)
<1> DEFINE top == Top(search)
           next == PopAndRelax(E, type, search)
           n == top[1]
           W == Ways(E, type)
<1>1. EdgeSet(E)
  BY NodesAreUint DEF EdgeSet, CHEdge
<1>2. /\ search \in SearchStates /\ top \in search.queue /\ n \in Nodes /\ top[2] \in Uint
      /\ top = <<n, top[2]>>
      /\ \A q \in search.queue : top[2] <= q[2]
      /\ next \in SearchStates
  BY TopIsLeast, WorkFalls DEF SearchInv, SearchStates
<1>3. Triangular(W) /\ \A e \in E : AtMost(W, FromNode(e, type), OtherNode(e, type), e.dist)
  BY <1>1, WaysAreDistances
<1>4. /\ \A e \in E : FromNode(e, type) \in Nodes /\ OtherNode(e, type) \in Nodes /\ e.dist \in Nat
      /\ Uint \subseteq Nat /\ NO_DIST \in Nat /\ \A x \in Uint : x <= NO_DIST
  BY <1>1, SizeAssumption, NodesAreUint DEF EdgeSet, FromNode, OtherNode, Opposite, NO_DIST, Uint
<1>5. ASSUME next = [search EXCEPT !.queue = @ \ {top}], search.dists[n] # top[2]
      PROVE  SearchInv(next, E, type, start)
  <2>1. next.dists = search.dists /\ next.queue = search.queue \ {top}
    BY <1>2, <1>5 DEF SearchStates
  <2>2. \A x : <<x, search.dists[x]>> \notin next.queue => <<x, search.dists[x]>> \notin search.queue
    BY <1>2, <1>5, <2>1
  <2> HIDE DEF next, top
  <2> QED
    BY <1>2, <2>1, <2>2 DEF SearchInv
<1>6. ASSUME NEW relaxed, Relaxes(relaxed, E, type, search, top), search.dists[n] = top[2],
             next = [dists |-> relaxed, queue |-> (search.queue \ {top}) \cup Lowered(relaxed, search)]
      PROVE  SearchInv(next, E, type, start)
  <2> DEFINE old == search.dists
             c == top[2]
  <2>1. next.dists = relaxed /\ next.queue = (search.queue \ {top}) \cup Lowered(relaxed, search)
    BY <1>6
  <2>2. /\ old \in [Nodes -> Uint] /\ relaxed \in [Nodes -> Uint]
        /\ \A x \in Nodes : relaxed[x] <= old[x]
    BY <1>2, <1>6 DEF SearchStates, Relaxes
  <2>3. c # NO_DIST /\ c \in Nat /\ c <= NO_DIST
    BY <1>2, <1>4 DEF SearchInv
  <2> HIDE DEF top
  <2>4. <<start, n, c>> \in W
    <3>1. PICK d \in Nat : <<start, n, d>> \in W /\ d <= c
      BY <1>2, <1>6, <2>3 DEF SearchInv, AtMost
    <3>2. old[n] <= d \/ c <= d
      BY <1>1, <1>2, <2>3, <3>1, LabelsWithinQueue
    <3>3. c = d
      BY <1>6, <2>3, <3>1, <3>2
    <3> QED
      BY <3>1, <3>3
  <2>5. ASSUME NEW e \in E, FromNode(e, type) = n
        PROVE  UintAdd(c, e.dist) = c + e.dist /\ c + e.dist < NO_DIST
    <3>1. c + e.dist < NO_DIST
      BY <2>4, <2>5, <2>3 DEF SumsFit
    <3> QED
      BY <1>4, <2>3, <3>1, SizeAssumption DEF UintAdd, NO_DIST
  <2>6. relaxed[start] = 0
    <3>1. relaxed[start] <= 0 /\ relaxed[start] \in Nat
      BY <1>4, <2>2 DEF SearchInv
    <3> QED
      BY <3>1
  <2>7. ASSUME NEW x \in Nodes, relaxed[x] # NO_DIST PROVE AtMost(W, start, x, relaxed[x])
    <3>1. CASE relaxed[x] = old[x]
      BY <2>7, <3>1 DEF SearchInv
    <3>2. CASE relaxed[x] # old[x]
      <4>1. PICK e \in E : /\ FromNode(e, type) = n /\ OtherNode(e, type) = x
                           /\ relaxed[x] = UintAdd(c, e.dist)
        BY <1>6, <3>2 DEF Relaxes
      <4>2. AtMost(W, start, n, c) /\ AtMost(W, n, x, e.dist)
        BY <1>3, <2>3, <2>4, <4>1 DEF AtMost
      <4>3. AtMost(W, start, x, c + e.dist)
        BY <1>2, <1>3, <1>4, <2>3, <4>2 DEF Triangular
      <4> QED
        BY <2>5, <4>1, <4>3
    <3> QED
      BY <3>1, <3>2
  <2>8. ASSUME NEW q \in next.queue PROVE q[2] # NO_DIST /\ relaxed[q[1]] <= q[2]
    <3>1. CASE q \in search.queue
      <4>1. q[1] \in Nodes /\ q[2] \in Uint /\ q[2] # NO_DIST /\ old[q[1]] <= q[2]
        BY <1>2, <3>1 DEF SearchInv, SearchStates
      <4>2. relaxed[q[1]] \in Nat /\ old[q[1]] \in Nat /\ q[2] \in Nat /\ relaxed[q[1]] <= old[q[1]]
        BY <1>4, <2>2, <4>1
      <4> QED
        BY <4>1, <4>2
    <3>2. CASE q \in Lowered(relaxed, search)
      <4>1. PICK x \in Nodes : q = <<x, relaxed[x]>> /\ relaxed[x] < old[x]
        BY <3>2 DEF Lowered
      <4>2. relaxed[x] \in Nat /\ old[x] \in Nat /\ old[x] <= NO_DIST
        BY <1>4, <2>2
      <4> QED
        BY <1>4, <4>1, <4>2
    <3> QED
      BY <2>1, <2>8, <3>1, <3>2
  <2>9. ASSUME NEW e \in E, relaxed[FromNode(e, type)] # NO_DIST,
               <<FromNode(e, type), relaxed[FromNode(e, type)]>> \notin next.queue
        PROVE  relaxed[OtherNode(e, type)] <= relaxed[FromNode(e, type)] + e.dist
    <3> DEFINE x == FromNode(e, type)
               y == OtherNode(e, type)
    <3>1. x \in Nodes /\ y \in Nodes /\ e.dist \in Nat
      BY <1>4
    <3>2. relaxed[x] = old[x]
      <4>1. ~(relaxed[x] < old[x])
        BY <2>1, <2>9, <3>1 DEF Lowered
      <4>2. relaxed[x] \in Nat /\ old[x] \in Nat /\ relaxed[x] <= old[x]
        BY <1>4, <2>2, <3>1
      <4> QED
        BY <4>1, <4>2
    <3>3. CASE x = n
      <4>1. relaxed[y] <= UintAdd(c, e.dist)
        BY <1>6, <3>3 DEF Relaxes
      <4> QED
        BY <1>6, <2>5, <3>2, <3>3, <4>1
    <3>4. CASE x # n
      <4>1. <<x, old[x]>> # top
        BY <1>2, <3>4
      <4>2. <<x, old[x]>> \notin search.queue
        BY <2>1, <2>9, <3>2, <4>1
      <4>3. old[y] <= old[x] + e.dist
        BY <2>9, <3>2, <4>2 DEF SearchInv
      <4>4. /\ relaxed[y] <= old[y] /\ relaxed[y] \in Nat /\ old[y] \in Nat /\ old[x] \in Nat
        BY <1>4, <2>2, <3>1
      <4> HIDE DEF x, y, old
      <4>5. relaxed[y] <= relaxed[x] + e.dist
        BY <3>1, <3>2, <4>3, <4>4
      <4> QED
        BY <4>5 DEF x, y
    <3> QED
      BY <3>3, <3>4
  <2> HIDE DEF next, old, c
  <2> QED
    BY <1>2, <2>1, <2>6, <2>7, <2>8, <2>9 DEF SearchInv
<1> HIDE DEF next, top
<1> QED
  BY <1>2, <1>5, <1>6, PopAndRelaxForms DEF next, top

(* What is not in the queue any more within the radius has its shortest    *)
(* distance, and nothing else is labelled with that little.                *)
LEMMA LabelsAreDistances ==
  ASSUME NEW E, EdgeSet(E), NEW type \in EdgeType, NEW start \in Nodes, NEW x,
         SearchInv(x, E, type, start), NEW radius \in Nat, radius < NO_DIST,
         \A q \in x.queue : radius + 1 <= q[2],
         NEW n \in Nodes, NEW d \in Nat, d <= radius
  PROVE  x.dists[n] = d <=> <<start, n, d>> \in Ways(E, type)
<1> DEFINE W == Ways(E, type)
<1>1. Triangular(W)
  BY WaysAreDistances
<1>2. NO_DIST \in Nat /\ radius + 1 \in Nat /\ radius + 1 <= NO_DIST
  BY SizeAssumption DEF NO_DIST
<1>3. x.dists[n] \in Nat /\ x.dists[n] <= NO_DIST
  BY SizeAssumption DEF SearchInv, SearchStates, Uint, NO_DIST
<1>4. ASSUME NEW c \in Nat, c <= radius, <<start, n, c>> \in W PROVE x.dists[n] = c
  <2>1. x.dists[n] <= c \/ radius + 1 <= c
    BY <1>2, <1>4, LabelsWithinQueue
  <2>2. x.dists[n] <= c /\ x.dists[n] # NO_DIST
    BY <1>2, <1>3, <1>4, <2>1
  <2>3. PICK b \in Nat : <<start, n, b>> \in W /\ b <= x.dists[n]
    BY <2>2 DEF SearchInv, AtMost
  <2>4. b = c
    BY <1>1, <1>4, <2>3 DEF Triangular, OneDistance
  <2> QED
    BY <1>3, <2>2, <2>3, <2>4
<1>5. ASSUME x.dists[n] = d PROVE <<start, n, d>> \in W
  <2>0. d # NO_DIST
    BY <1>2
  <2>1. PICK b \in Nat : <<start, n, b>> \in W /\ b <= d
    BY <1>5, <2>0 DEF SearchInv, AtMost
  <2>2. b <= radius
    BY <2>1
  <2>3. x.dists[n] = b
    BY <1>4, <2>1, <2>2
  <2> QED
    BY <1>5, <2>1, <2>3
<1> QED
  BY <1>4, <1>5

(* Within the radius the labels are the shortest distances.                *)
LEMMA SearchFinds ==
  ASSUME NEW E \in SUBSET CHEdge, NEW type \in EdgeType, NEW start \in Nodes,
         SumsFit(E, type, start), NEW radius \in Nat, radius < NO_DIST,
         NEW n \in Nodes, NEW d \in Nat, d <= radius
  PROVE  CalcShortestDists(E, start, type, radius)[n] = d <=> <<start, n, d>> \in Ways(E, type)
<1> DEFINE P == {x \in SearchStates : SearchInv(x, E, type, start)}
           W == Ways(E, type)
<1>1. EdgeSet(E)
  BY NodesAreUint DEF EdgeSet, CHEdge
<1>2. Triangular(W)
  BY <1>1, WaysAreDistances
<1>3. NO_DIST \in Nat /\ NO_DIST \in Uint /\ 0 \in Uint /\ Uint \subseteq Nat /\ 0 # NO_DIST
  BY NoValueTypes, NodesAreUint, SizeAssumption DEF Uint
<1>4. SearchStart(start) \in P
  <2> DEFINE first == SearchStart(start)
  <2>1. /\ first.dists \in [Nodes -> Uint] /\ first.queue = {<<start, 0>>}
        /\ \A x \in Nodes : first.dists[x] = IF x = start THEN 0 ELSE NO_DIST
        /\ first \in SearchStates
    BY <1>3 DEF SearchStart, SearchStates
  <2> HIDE DEF first
  <2>2. AtMost(W, start, start, 0)
    BY <1>2 DEF Triangular, AtMost
  <2>3. \A x \in Nodes : first.dists[x] # NO_DIST => x = start /\ first.dists[x] = 0
    BY <2>1
  <2>4. \A e \in E : FromNode(e, type) \in Nodes
    BY <1>1 DEF EdgeSet, FromNode, OtherNode, Opposite
  <2>5. SearchInv(first, E, type, start)
    BY <1>3, <2>1, <2>2, <2>3, <2>4 DEF SearchInv
  <2> QED
    BY <2>1, <2>5 DEF first
<1>5. \A x \in P : ~SearchEnds(x, radius) => PopAndRelax(E, type, x) \in P
  <2> SUFFICES ASSUME NEW x \in P, ~SearchEnds(x, radius) PROVE PopAndRelax(E, type, x) \in P
    OBVIOUS
  <2>1. x.queue # {}
    BY DEF SearchEnds
  <2>2. SearchInv(PopAndRelax(E, type, x), E, type, start)
    BY <2>1, PopAndRelaxKeeps
  <2> QED
    BY <2>2 DEF SearchInv
<1>6. PICK x \in P : SearchEnds(x, radius) /\ CalcShortestDists(E, start, type, radius) = x.dists
  <2> HIDE DEF P
  <2>1. P \in SUBSET SearchStates
    BY DEF P
  <2> QED
    BY <1>4, <1>5, <2>1, SearchResult
<1>7. SearchInv(x, E, type, start) /\ x \in SearchStates
  OBVIOUS
<1> HIDE DEF P
<1>8. \A q \in x.queue : radius + 1 <= q[2]
  <2> SUFFICES ASSUME NEW q \in x.queue PROVE radius + 1 <= q[2]
    OBVIOUS
  <2>1. ~(Top(x)[2] <= radius)
    BY <1>6 DEF SearchEnds, WithinRadius
  <2>2. Top(x)[2] <= q[2] /\ Top(x)[2] \in Nat /\ q[2] \in Nat
    BY <1>3, <1>7, TopIsLeast DEF SearchStates
  <2> QED
    BY <2>1, <2>2
<1> QED
  BY <1>1, <1>6, <1>7, <1>8, LabelsAreDistances

-----------------------------------------------------------------------------
(* The shortcuts of one node.                                              *)

(* The largest of a set of numbers with a bound.                           *)
LEMMA MaxIsGreatest ==
  ASSUME NEW bound \in Nat, NEW S \in SUBSET (0..bound), S # {}
  PROVE  Max(S) \in S /\ \A x \in S : x <= Max(S)
<1> DEFINE U == {c \in Nat : \A x \in S : x <= c}
<1>1. PICK c \in U : \A y \in U : c <= y
  <2>1. bound \in U /\ U \in SUBSET Nat
    OBVIOUS
  <2> HIDE DEF U
  <2> QED
    BY <2>1, LeastNumber
<1>2. c \in S
  <2> SUFFICES ASSUME c \notin S PROVE FALSE
    OBVIOUS
  <2>1. c \in Nat /\ \A x \in S : x \in Nat /\ x <= c /\ x # c
    OBVIOUS
  <2>2. \A x \in S : x <= c - 1 /\ c - 1 \in Nat
    BY <2>1
  <2>3. c - 1 \in U
    BY <2>2
  <2> QED
    BY <1>1, <2>1, <2>3
<1>3. \E x \in S : \A y \in S : x >= y
  BY <1>1, <1>2
<1>4. Max(S) \in S /\ \A y \in S : Max(S) >= y
  BY <1>3 DEF Max
<1> QED
  BY <1>4

(* The edges of E join nodes of S, and they and the ways between nodes of S*)
(* are so short that the sum of any two is a distance.                     *)
ShortLengths(E, S, bound) ==
  /\ bound \in Nat /\ bound + bound < NO_DIST
  /\ \A e \in E : e.src \in S /\ e.tgt \in S /\ e.dist <= bound
  /\ \A u, v \in S : \A d \in Nat : <<u, v, d>> \in Distances(E) => d <= bound

(* Then no search wraps around.                                            *)
LEMMA ShortLengthsFit ==
  ASSUME NEW E \in SUBSET CHEdge, NEW S \in SUBSET Nodes, NEW bound, ShortLengths(E, S, bound),
         NEW type \in EdgeType, NEW start \in S
  PROVE  SumsFit(E, type, start)
<1> SUFFICES ASSUME NEW e \in E, NEW c \in Nat, <<start, FromNode(e, type), c>> \in Ways(E, type)
             PROVE  c + e.dist < NO_DIST
  BY DEF SumsFit
<1>1. e.src \in S /\ e.tgt \in S /\ e.dist <= bound /\ e.dist \in Nat /\ bound \in Nat /\ bound + bound < NO_DIST
  BY NodesAreUint DEF ShortLengths, CHEdge
<1>2. c <= bound
  <2>1. CASE type = "OUT"
    BY <1>1, <2>1 DEF Ways, ShortLengths, FromNode, OtherNode, Opposite
  <2>2. CASE type = "IN"
    <3>1. PICK t \in Distances(E) : <<start, FromNode(e, type), c>> = <<t[2], t[1], t[3]>>
      BY <2>2 DEF Ways
    <3>2. EdgeSet(E)
      BY NodesAreUint DEF EdgeSet, CHEdge
    <3>3. t = <<t[1], t[2], t[3]>>
      BY <3>2, DistancesTriangular DEF Triangular, Triples
    <3>4. <<FromNode(e, type), start, c>> \in Distances(E)
      BY <3>1, <3>3
    <3> QED
      BY <1>1, <3>4 DEF ShortLengths, FromNode, OtherNode
  <2> QED
    BY <2>1, <2>2 DEF EdgeType
<1>3. NO_DIST \in Nat
  BY SizeAssumption DEF NO_DIST
<1> QED
  BY <1>1, <1>2, <1>3

(* The radius covers every way over the center node, and none of the sums  *)
(* wraps around.                                                           *)
LEMMA RadiusFits ==
  ASSUME Edges \in SUBSET CHEdge, NEW S \in SUBSET Nodes, NEW bound, ShortLengths(Edges, S, bound),
         NEW type \in EdgeType, NEW n \in Nodes, NEW a \in NodeEdges(n, Opposite(type)),
         NEW radius, radius = Radius({e.dist : e \in Targets(a, n, type)}, a)
  PROVE  /\ radius \in Nat /\ radius < NO_DIST /\ a.dist \in Nat /\ a.dist <= radius
         /\ \A b \in Targets(a, n, type) :
              b.dist \in Nat /\ a.dist + b.dist <= radius /\ UintAdd(a.dist, b.dist) = a.dist + b.dist
<1> DEFINE lengths == {e.dist : e \in Targets(a, n, type)}
           L == lengths \cup {0}
           longest == Max(L)
<1>1. a \in Edges /\ \A e \in Targets(a, n, type) : e \in Edges
  BY DEF NodeEdges, Targets
<1>2. /\ \A e \in Edges : e.dist \in Nat /\ e.dist <= bound
      /\ bound \in Nat /\ bound + bound < NO_DIST /\ NO_DIST \in Nat
  BY NodesAreUint, SizeAssumption DEF ShortLengths, CHEdge, NO_DIST
<1>3. longest \in 0..bound /\ \A b \in Targets(a, n, type) : b.dist <= longest
  <2>1. L \in SUBSET (0..bound) /\ L # {} /\ \A b \in Targets(a, n, type) : b.dist \in L
    BY <1>1, <1>2
  <2> HIDE DEF L
  <2>2. Max(L) \in L /\ \A x \in L : x <= Max(L)
    BY <1>2, <2>1, MaxIsGreatest
  <2> QED
    BY <2>1, <2>2
<1>4. radius = UintAdd(longest, a.dist)
  BY DEF Radius
<1> HIDE DEF longest, L
<1>5. a.dist \in Nat /\ a.dist <= bound /\ longest \in Nat /\ longest <= bound
  BY <1>1, <1>2, <1>3
<1>6. \A c \in Nat : c < NO_DIST => c % (MaxUint + 1) = c
  BY SizeAssumption DEF NO_DIST
<1>7. longest + a.dist \in Nat /\ longest + a.dist < NO_DIST
  BY <1>2, <1>5
<1>8. radius = longest + a.dist
  BY <1>4, <1>6, <1>7 DEF UintAdd
<1>9. ASSUME NEW b \in Targets(a, n, type)
      PROVE  b.dist \in Nat /\ a.dist + b.dist <= radius /\ UintAdd(a.dist, b.dist) = a.dist + b.dist
  <2>1. b.dist \in Nat /\ b.dist <= longest
    BY <1>1, <1>2, <1>3
  <2>2. a.dist + b.dist \in Nat /\ a.dist + b.dist <= radius /\ a.dist + b.dist < NO_DIST
    BY <1>2, <1>5, <1>7, <1>8, <2>1
  <2> QED
    BY <1>6, <2>1, <2>2 DEF UintAdd
<1> QED
  BY <1>5, <1>7, <1>8, <1>9

(* A search decides whether the way over the center node is a shortest one.*)
LEMMA SearchDecides ==
  ASSUME Edges \in SUBSET CHEdge, NEW S \in SUBSET Nodes, NEW bound, ShortLengths(Edges, S, bound),
         NEW type \in EdgeType, NEW n \in Nodes, NEW a \in NodeEdges(n, Opposite(type)),
         NEW b \in Targets(a, n, type)
  PROVE  LET dists == SearchDists(a, n, type)
             o == OtherNode(b, type)
         IN  dists[n] = a.dist /\ dists[o] = UintAdd(a.dist, b.dist)
               <=> <<FromNode(a, type), o, a.dist + b.dist>> \in Ways(Edges, type)
<1> DEFINE start == FromNode(a, type)
           o == OtherNode(b, type)
           lengths == {e.dist : e \in Targets(a, n, type)}
           radius == Radius(lengths, a)
           dists == SearchDists(a, n, type)
           W == Ways(Edges, type)
<1>1. /\ a \in Edges /\ OtherNode(a, type) = n /\ b \in Edges /\ FromNode(b, type) = n
      /\ \A e \in Targets(a, n, type) : e \in Edges
  BY DEF NodeEdges, Targets, FromNode, Opposite, OtherNode, EdgeType
<1>2. /\ \A e \in Edges : e.dist \in Nat /\ e.dist <= bound
      /\ bound \in Nat /\ bound + bound < NO_DIST /\ NO_DIST \in Nat
      /\ start \in S /\ start \in Nodes /\ o \in Nodes
  BY <1>1, NodesAreUint, SizeAssumption DEF ShortLengths, CHEdge, FromNode, OtherNode, NO_DIST
<1>3. radius = Radius({e.dist : e \in Targets(a, n, type)}, a)
  OBVIOUS
<1> HIDE DEF radius, lengths
<1>4. /\ radius \in Nat /\ radius < NO_DIST /\ a.dist + b.dist <= radius /\ a.dist <= radius
      /\ UintAdd(a.dist, b.dist) = a.dist + b.dist
  BY <1>3, RadiusFits
<1>5. UintAdd(a.dist, b.dist) = a.dist + b.dist
  BY <1>4
<1>6. dists = CalcShortestDists(Edges, start, type, radius)
  BY DEF SearchDists, FromNode, radius, lengths
<1>7. SumsFit(Edges, type, start)
  BY <1>2, ShortLengthsFit
<1>8. EdgeSet(Edges)
  BY NodesAreUint DEF EdgeSet, CHEdge
<1>9. /\ Triangular(W)
      /\ AtMost(W, start, n, a.dist) /\ AtMost(W, n, o, b.dist)
  BY <1>1, <1>8, WaysAreDistances
<1> HIDE DEF dists, start, W
<1>10. ASSUME NEW x \in Nodes, NEW d \in Nat, d <= radius
       PROVE  dists[x] = d <=> <<start, x, d>> \in W
  <2>1. radius \in Nat /\ radius < NO_DIST /\ start \in Nodes
    BY <1>2, <1>4
  <2>2. CalcShortestDists(Edges, start, type, radius)[x] = d <=> <<start, x, d>> \in Ways(Edges, type)
    BY <1>7, <1>10, <2>1, SearchFinds
  <2> QED
    BY <1>6, <2>2 DEF W
<1>11. a.dist \in Nat /\ b.dist \in Nat /\ a.dist + b.dist \in Nat
  BY <1>1, <1>2
<1>12. ASSUME <<start, o, a.dist + b.dist>> \in W
       PROVE  <<start, n, a.dist>> \in W
  <2>1. PICK c \in Nat : <<start, n, c>> \in W /\ c <= a.dist
    BY <1>9 DEF AtMost
  <2>2. AtMost(W, start, n, c)
    BY <2>1 DEF AtMost
  <2>3. AtMost(W, start, o, c + b.dist)
    BY <1>2, <1>9, <1>11, <2>2 DEF Triangular
  <2>4. PICK d \in Nat : <<start, o, d>> \in W /\ d <= c + b.dist
    BY <2>3 DEF AtMost
  <2>5. d = a.dist + b.dist
    BY <1>2, <1>9, <1>11, <1>12, <2>4 DEF Triangular, OneDistance
  <2>6. c = a.dist
    BY <1>11, <2>1, <2>4, <2>5
  <2> QED
    BY <2>1, <2>6
<1> QED
  BY <1>2, <1>4, <1>5, <1>10, <1>11, <1>12 DEF dists, start, W

(* The shortcuts of n: all paths over n no path is shorter than.           *)
ShortestOver(n) ==
  {p \in NodeEdges(n, "IN") \X NodeEdges(n, "OUT") :
     /\ p[1].src # p[2].tgt
     /\ <<p[1].src, p[2].tgt, p[1].dist + p[2].dist>> \in Distances(Edges)}

NeededShortcuts(n) == {MakeShortcut(p[1], p[2]) : p \in ShortestOver(n)}

(* They are found in either direction.                                     *)
LEMMA EitherDirectionFinds ==
  ASSUME Edges \in SUBSET CHEdge, NEW S \in SUBSET Nodes, NEW bound, ShortLengths(Edges, S, bound),
         \A e \in Edges : NoLoop(e), NEW type \in EdgeType, NEW n \in Nodes
  PROVE  UNION {CalcShortcuts(e, n, type) : e \in NodeEdges(n, Opposite(type))} = NeededShortcuts(n)
<1> DEFINE Kept(a) == {t \in Targets(a, n, type) :
                         <<FromNode(a, type), OtherNode(t, type), a.dist + t.dist>> \in Ways(Edges, type)}
<1>1. ASSUME NEW a \in NodeEdges(n, Opposite(type))
      PROVE  CalcShortcuts(a, n, type) = {CreateShortcut(a, t, type) : t \in Kept(a)}
  <2> DEFINE dists == SearchDists(a, n, type)
             shortest(e) == dists[OtherNode(e, type)] = UintAdd(a.dist, e.dist)
  <2>1. \A t \in Targets(a, n, type) : t \in Kept(a) <=> dists[n] = a.dist /\ shortest(t)
    BY SearchDecides
  <2>2. CalcShortcuts(a, n, type)
          = IF dists[n] # a.dist THEN {}
            ELSE {CreateShortcut(a, e, type) : e \in {t \in Targets(a, n, type) : shortest(t)}}
    BY DEF CalcShortcuts
  <2>3. \A t \in Kept(a) : t \in Targets(a, n, type)
    OBVIOUS
  <2> HIDE DEF dists, Kept
  <2>4. CASE dists[n] # a.dist
    <3>1. Kept(a) = {}
      BY <2>1, <2>3, <2>4
    <3> QED
      BY <2>2, <2>4, <3>1
  <2>5. CASE dists[n] = a.dist
    <3>1. Kept(a) = {t \in Targets(a, n, type) : shortest(t)}
      BY <2>1, <2>3, <2>5
    <3> QED
      BY <2>2, <2>5, <3>1
  <2> QED
    BY <2>4, <2>5
<1>2. \A x : x \in UNION {CalcShortcuts(e, n, type) : e \in NodeEdges(n, Opposite(type))}
        <=> \E a \in NodeEdges(n, Opposite(type)) : \E t \in Kept(a) : x = CreateShortcut(a, t, type)
  BY <1>1
<1>3. \A e \in Edges : e.dist \in Nat /\ e.src # e.tgt
  BY NodesAreUint DEF CHEdge, NoLoop
<1>4. CASE type = "OUT"
  <2>1. \A a, t : a \in NodeEdges(n, Opposite(type)) /\ t \in Kept(a) <=> <<a, t>> \in ShortestOver(n)
    BY <1>3, <1>4 DEF ShortestOver, Targets, FromNode, OtherNode, Opposite, Ways, NodeEdges, NoLoop
  <2>2. \A a, t, x : x = CreateShortcut(a, t, type) <=> x = MakeShortcut(a, t)
    BY <1>4 DEF CreateShortcut
  <2>3. \A p \in ShortestOver(n) : p = <<p[1], p[2]>>
    BY DEF ShortestOver
  <2> HIDE DEF Kept
  <2>4. \A x : x \in NeededShortcuts(n) <=> \E a, t : <<a, t>> \in ShortestOver(n) /\ x = MakeShortcut(a, t)
    BY <2>3 DEF NeededShortcuts
  <2>5. ASSUME NEW x, NEW a \in NodeEdges(n, Opposite(type)), NEW t \in Kept(a),
               x = CreateShortcut(a, t, type)
        PROVE  x \in NeededShortcuts(n)
    <3>1. <<a, t>> \in ShortestOver(n)
      BY <2>1
    <3> QED
      BY <2>2, <2>4, <2>5, <3>1
  <2>6. ASSUME NEW x \in NeededShortcuts(n)
        PROVE  \E a \in NodeEdges(n, Opposite(type)) : \E t \in Kept(a) : x = CreateShortcut(a, t, type)
    <3>1. PICK a, t : <<a, t>> \in ShortestOver(n) /\ x = MakeShortcut(a, t)
      BY <2>4
    <3>2. a \in NodeEdges(n, Opposite(type)) /\ t \in Kept(a)
      BY <2>1, <3>1
    <3>3. x = CreateShortcut(a, t, type)
      BY <2>2, <3>1
    <3> QED
      BY <3>2, <3>3
  <2> QED
    BY <1>2, <2>5, <2>6
<1>5. CASE type = "IN"
  <2>0. \A u, v, d : <<u, v, d>> \in Ways(Edges, type) <=> <<v, u, d>> \in Distances(Edges)
    <3>1. EdgeSet(Edges)
      BY NodesAreUint DEF EdgeSet, CHEdge
    <3>2. \A t \in Distances(Edges) : t = <<t[1], t[2], t[3]>>
      BY <3>1, DistancesTriangular DEF Triangular, Triples
    <3> QED
      BY <1>5, <3>2 DEF Ways
  <2>1. \A a, t : a \in NodeEdges(n, Opposite(type)) /\ t \in Kept(a) <=> <<t, a>> \in ShortestOver(n)
    <3> TAKE a, t
    <3>1. a \in NodeEdges(n, "OUT") /\ t \in NodeEdges(n, "IN") => a.dist + t.dist = t.dist + a.dist
      BY <1>3 DEF NodeEdges
    <3> QED
      BY <1>3, <1>5, <2>0, <3>1 DEF ShortestOver, Targets, FromNode, OtherNode, Opposite, NodeEdges, NoLoop
  <2>2. \A a, t, x : x = CreateShortcut(a, t, type) <=> x = MakeShortcut(t, a)
    BY <1>5 DEF CreateShortcut
  <2>3. \A p \in ShortestOver(n) : p = <<p[1], p[2]>>
    BY DEF ShortestOver
  <2> HIDE DEF Kept
  <2>4. \A x : x \in NeededShortcuts(n) <=> \E a, t : <<t, a>> \in ShortestOver(n) /\ x = MakeShortcut(t, a)
    BY <2>3 DEF NeededShortcuts
  <2>5. ASSUME NEW x, NEW a \in NodeEdges(n, Opposite(type)), NEW t \in Kept(a),
               x = CreateShortcut(a, t, type)
        PROVE  x \in NeededShortcuts(n)
    <3>1. <<t, a>> \in ShortestOver(n)
      BY <2>1
    <3> QED
      BY <2>2, <2>4, <2>5, <3>1
  <2>6. ASSUME NEW x \in NeededShortcuts(n)
        PROVE  \E a \in NodeEdges(n, Opposite(type)) : \E t \in Kept(a) : x = CreateShortcut(a, t, type)
    <3>1. PICK a, t : <<t, a>> \in ShortestOver(n) /\ x = MakeShortcut(t, a)
      BY <2>4
    <3>2. a \in NodeEdges(n, Opposite(type)) /\ t \in Kept(a)
      BY <2>1, <3>1
    <3>3. x = CreateShortcut(a, t, type)
      BY <2>2, <3>1
    <3> QED
      BY <3>2, <3>3
  <2> QED
    BY <1>2, <2>5, <2>6
<1> QED
  BY <1>4, <1>5 DEF EdgeType


-----------------------------------------------------------------------------
(* The invariant behind the distances.                                     *)

(* The longest edge of the graph, and of the graph after this round.       *)
LongestEdge(bound) == IF mode = "quick" THEN bound[round - 1] ELSE bound[QuickMaxRounds]

LongestShortcut(bound) == IF mode = "quick" THEN bound[round] ELSE bound[QuickMaxRounds]

LengthsWithin(bound) ==
  /\ QueriesFit => 3 * bound[QuickMaxRounds] < NO_DIST
  /\ \A e \in edges_dump : e.dist <= bound[QuickMaxRounds]
  /\ \A e \in Edges : e.dist <= LongestEdge(bound)
  /\ Restructuring => \A f \in MergedEdges \cup rest_shortcuts : f.dist <= LongestShortcut(bound)

Bounded ==
  \E bound \in [0..QuickMaxRounds -> Uint] : BoundsLengths(bound, EdgesRead) /\ LengthsWithin(bound)

(* The nodes that are left have the distances they have in the input.      *)
SameDistances ==
  \A u, v \in Remaining : \A d \in Nat :
    <<u, v, d>> \in Distances(EdgesRead) <=> <<u, v, d>> \in Distances(Edges)

(* No edge is shorter than the way it stands for.                          *)
EdgesAreWays ==
  /\ \A e \in edges_dump : AtMost(Distances(EdgesRead), e.src, e.tgt, e.dist)
  /\ Restructuring =>
       \A f \in MergedEdges \cup rest_shortcuts : AtMost(Distances(Edges), f.src, f.tgt, f.dist)

(* The merge loses no edge that stays and no shortcut of a removed node,   *)
(* unless there is one between the same nodes that is not longer.          *)
CoveredBy(F, e) == \E m \in F : EqualEndpoints(m, e) /\ m.dist <= e.dist

MergeCovers ==
  Restructuring =>
    /\ \A k \in DOMAIN out_edges :
         k < merge_pos /\ Stays(out_edges[k], to_remove) => CoveredBy(MergedEdges, out_edges[k])
    /\ \A n \in to_remove : \A s \in Shortcuts(n) :
         s \in rest_shortcuts \/ CoveredBy(MergedEdges, s)

(* Every shortest way of the input goes up along edges that were laid      *)
(* aside, then along edges of the graph, then down.                        *)
WaysGoUpAndDown ==
  \A u, v \in Nodes : \A d \in Nat :
    <<u, v, d>> \in Distances(EdgesRead) => UpAndDown(UpEdges, Edges, DownEdges, u, v, d)

DistanceInv ==
  /\ UnpackInv /\ LoopInv
  /\ Bounded /\ SameDistances /\ EdgesAreWays /\ MergeCovers /\ WaysGoUpAndDown
  /\ input_edges \in InputGraphs
  /\ phase = "contracted" => nodes = {}


-----------------------------------------------------------------------------
(* Lengths.                                                                *)

(* What the graph consists of are edges with lengths.                      *)
LEMMA GraphEdges ==
  ASSUME IInv
  PROVE  /\ Edges \in SUBSET CHEdge /\ MergedEdges \in SUBSET CHEdge /\ edges_dump \in SUBSET CHEdge
         /\ rest_shortcuts \in SUBSET CHEdge
         /\ EdgeSet(Edges) /\ EdgeSet(MergedEdges) /\ EdgeSet(EdgesRead)
         /\ EdgeSet(UpEdges) /\ EdgeSet(DownEdges)
<1>1. /\ Edges \in SUBSET CHEdge /\ MergedEdges \in SUBSET CHEdge /\ edges_dump \in SUBSET CHEdge
      /\ rest_shortcuts \in SUBSET CHEdge /\ EdgesRead \in SUBSET CHEdge
  BY EdgesType DEF IInv, VariableTypes, GraphTypeOK, EdgesRead
<1>2. \A E \in SUBSET CHEdge : EdgeSet(E)
  BY NodesAreUint DEF EdgeSet, CHEdge
<1> QED
  BY <1>1, <1>2 DEF UpEdges, DownEdges

(* The nodes that are left, and those being removed.                       *)
LEMMA RemainingNodes ==
  ASSUME IInv
  PROVE  /\ Remaining = nodes \cup (IF Restructuring THEN to_remove ELSE {})
         /\ Remaining \in SUBSET Nodes
         /\ \A e \in Edges : e.src \in Remaining /\ e.tgt \in Remaining
         /\ \A e \in MergedEdges : e.src \in nodes /\ e.tgt \in nodes
         /\ \A e \in Edges : e.src \notin to_remove \/ e.tgt \notin to_remove \/ ~Restructuring
         /\ Restructuring => to_remove \in SUBSET Nodes /\ nodes \cap to_remove = {}
<1>1. nodes = {n \in Nodes : ~Contracted(n)} /\ to_remove \in SUBSET Nodes
  BY DEF IInv, LevelsGiven, VariableTypes
<1>2. Restructuring => nodes \cap to_remove = {}
  <2> SUFFICES ASSUME Restructuring, NEW n \in nodes, n \in to_remove PROVE FALSE
    OBVIOUS
  <2>1. node_levels[n] = next_lvl - 1 /\ node_levels[n] = NO_LVL
    BY <1>1 DEF IInv, LevelsGiven, Contracted
  <2>2. next_lvl \in 0..NO_LVL /\ NO_LVL \in Nat
    BY SizeAssumption DEF IInv, VariableTypes, GraphTypeOK, Uint, NO_LVL
  <2> QED
    BY <2>1, <2>2
<1>3. \A e \in Edges : e.src \notin to_remove \/ e.tgt \notin to_remove \/ ~Restructuring
  BY DEF IInv, Independent, LevelsGiven, Restructuring
<1> QED
  BY <1>1, <1>2, <1>3 DEF Remaining, IInv, EdgesJoinNodes

(* The bounds grow from round to round.                                    *)
LEMMA BoundsGrow ==
  ASSUME NEW bound \in [0..QuickMaxRounds -> Uint], NEW E, BoundsLengths(bound, E)
  PROVE  \A k \in 0..QuickMaxRounds : bound[k] \in Nat /\ bound[k] <= bound[QuickMaxRounds]
<1> DEFINE Q == QuickMaxRounds
           S == {j \in Nat : j <= Q => bound[Q - j] <= bound[Q]}
<1>1. Q \in Nat /\ \A k \in 0..Q : bound[k] \in Nat
  BY QuickAssumption, NodesAreUint
<1>2. \A k \in 1..Q : 2 * bound[k - 1] <= bound[k]
  BY DEF BoundsLengths
<1> HIDE DEF Q
<1>3. 0 \in S
  BY <1>1
<1>4. ASSUME NEW j \in Nat, j \in S, j + 1 <= Q PROVE bound[Q - (j + 1)] <= bound[Q]
  <2>1. Q - j \in 1..Q /\ (Q - j) - 1 = Q - (j + 1) /\ Q - (j + 1) \in 0..Q /\ Q - j \in 0..Q /\ Q \in 0..Q
    BY <1>1, <1>4
  <2>2. 2 * bound[Q - (j + 1)] <= bound[Q - j]
    BY <1>2, <2>1
  <2>3. bound[Q - j] <= bound[Q]
    BY <1>1, <1>4
  <2>4. bound[Q - (j + 1)] \in Nat /\ bound[Q - j] \in Nat /\ bound[Q] \in Nat
    BY <1>1, <2>1
  <2> QED
    BY <2>2, <2>3, <2>4
<1>5. \A j \in Nat : j \in S => j + 1 \in S
  BY <1>4
<1> HIDE DEF S
<1>6. Nat \subseteq S
  BY <1>3, <1>5, NatSetInduction
<1>7. ASSUME NEW k \in 0..Q PROVE bound[k] <= bound[Q]
  <2>1. Q - k \in Nat /\ Q - k <= Q /\ Q - (Q - k) = k
    BY <1>1
  <2>2. Q - k \in S
    BY <1>6, <2>1
  <2> QED
    BY <2>1, <2>2 DEF S
<1> QED
  BY <1>1, <1>7 DEF Q

(* The bound of this round and the next.                                   *)
LEMMA BoundsOfRound ==
  ASSUME IInv, NEW bound \in [0..QuickMaxRounds -> Uint], BoundsLengths(bound, EdgesRead)
  PROVE  /\ bound[QuickMaxRounds] \in Nat /\ bound[QuickMaxRounds] + bound[QuickMaxRounds] < NO_DIST
         /\ LongestEdge(bound) \in Nat /\ LongestEdge(bound) <= bound[QuickMaxRounds]
         /\ phase # "round" =>
              /\ LongestShortcut(bound) \in Nat /\ LongestEdge(bound) <= LongestShortcut(bound)
              /\ mode = "quick" => LongestEdge(bound) + LongestEdge(bound) <= LongestShortcut(bound)
<1>1. /\ QuickMaxRounds \in Nat /\ round \in 1..(QuickMaxRounds + 1)
      /\ mode = "quick" /\ phase # "round" => round <= QuickMaxRounds
  BY QuickAssumption DEF IInv, VariableTypes, LocalsScoped
<1>2. \A k \in 0..QuickMaxRounds : bound[k] \in Nat /\ bound[k] <= bound[QuickMaxRounds]
  BY BoundsGrow
<1>3. 2 * bound[QuickMaxRounds] < NO_DIST /\ QuickMaxRounds \in 0..QuickMaxRounds
  BY <1>1 DEF BoundsLengths
<1>4. round - 1 \in 0..QuickMaxRounds
  BY <1>1
<1>5. LongestEdge(bound) \in Nat /\ LongestEdge(bound) <= bound[QuickMaxRounds]
  BY <1>2, <1>3, <1>4 DEF LongestEdge
<1>6. ASSUME mode = "quick", phase # "round"
      PROVE  /\ bound[round] \in Nat /\ LongestEdge(bound) = bound[round - 1]
             /\ 2 * bound[round - 1] <= bound[round]
  <2>1. round \in 1..QuickMaxRounds /\ round \in 0..QuickMaxRounds
    BY <1>1, <1>6
  <2> QED
    BY <1>2, <1>6, <2>1 DEF LongestEdge, BoundsLengths
<1>7. ASSUME phase # "round"
      PROVE  /\ LongestShortcut(bound) \in Nat /\ LongestEdge(bound) <= LongestShortcut(bound)
             /\ mode = "quick" => LongestEdge(bound) + LongestEdge(bound) <= LongestShortcut(bound)
  <2>1. CASE mode = "quick"
    <3>1. LongestShortcut(bound) = bound[round]
      BY <2>1 DEF LongestShortcut
    <3> QED
      BY <1>5, <1>6, <1>7, <2>1, <3>1
  <2>2. CASE mode # "quick"
    BY <1>2, <1>3, <1>5, <2>2 DEF LongestShortcut
  <2> QED
    BY <2>1, <2>2
<1>8. bound[QuickMaxRounds] \in Nat
  BY <1>2, <1>3
<1> QED
  BY <1>3, <1>5, <1>7, <1>8

(* The lengths of the graph fit, those of the shortcuts of a round as well.*)
LEMMA GraphFits ==
  ASSUME IInv, SameDistances, NEW bound \in [0..QuickMaxRounds -> Uint],
         BoundsLengths(bound, EdgesRead), LengthsWithin(bound)
  PROVE  ShortLengths(Edges, Remaining, bound[QuickMaxRounds])
<1> DEFINE last == bound[QuickMaxRounds]
<1>1. last \in Nat /\ last + last < NO_DIST /\ LongestEdge(bound) \in Nat /\ LongestEdge(bound) <= last
  BY BoundsOfRound
<1>2. \A e \in Edges : e.dist \in Nat /\ e.dist <= LongestEdge(bound)
  BY GraphEdges DEF LengthsWithin, EdgeSet
<1>3. \A e \in Edges : e.src \in Remaining /\ e.tgt \in Remaining
  BY RemainingNodes
<1>4. ASSUME NEW u \in Remaining, NEW v \in Remaining, NEW d \in Nat, <<u, v, d>> \in Distances(Edges)
      PROVE  d <= last
  <2>1. <<u, v, d>> \in Distances(EdgesRead)
    BY <1>4 DEF SameDistances
  <2> QED
    BY <2>1 DEF BoundsLengths
<1>5. \A e \in Edges : e.dist <= last
  BY <1>1, <1>2
<1> HIDE DEF last
<1>6. ShortLengths(Edges, Remaining, last)
  BY <1>1, <1>3, <1>4, <1>5 DEF ShortLengths
<1> QED
  BY <1>6 DEF last

(* So the length of a shortcut is the sum of those of its children.        *)
LEMMA SumsExact ==
  ASSUME NEW S, NEW bound, Edges \in SUBSET CHEdge, ShortLengths(Edges, S, bound),
         NEW a \in Edges, NEW b \in Edges
  PROVE  UintAdd(a.dist, b.dist) = a.dist + b.dist
<1>1. a.dist \in Nat /\ b.dist \in Nat /\ a.dist <= bound /\ b.dist <= bound
  BY NodesAreUint DEF ShortLengths, CHEdge
<1>2. bound \in Nat /\ bound + bound < NO_DIST
  BY DEF ShortLengths
<1>3. a.dist + b.dist \in Nat /\ a.dist + b.dist < MaxUint + 1
  BY <1>1, <1>2, SizeAssumption DEF NO_DIST
<1> QED
  BY <1>3, SizeAssumption DEF UintAdd

(* The way over a node that two edges make up.                             *)
LEMMA WayOverNode ==
  ASSUME NEW E, EdgeSet(E), NEW a \in E, NEW b \in E, a.tgt = b.src
  PROVE  AtMost(Distances(E), a.src, b.tgt, a.dist + b.dist)
<1>1. /\ AtMost(Distances(E), a.src, a.tgt, a.dist) /\ AtMost(Distances(E), b.src, b.tgt, b.dist)
      /\ Triangular(Distances(E))
  BY DistancesTriangular
<1>2. a.src \in Nodes /\ a.tgt \in Nodes /\ b.tgt \in Nodes /\ a.dist \in Nat /\ b.dist \in Nat
  BY DEF EdgeSet
<1> QED
  BY <1>1, <1>2 DEF Triangular

(* What a shortcut unpacks into is such a way.                             *)
LEMMA UnpackableIsWay ==
  ASSUME NEW S, NEW bound, Edges \in SUBSET CHEdge, ShortLengths(Edges, S, bound),
         NEW s, Unpackable(s, Edges)
  PROVE  /\ AtMost(Distances(Edges), s.src, s.tgt, s.dist)
         /\ \E a, b \in Edges : Unpacks(s, a, b) /\ s.dist = a.dist + b.dist
<1>1. PICK a, b \in Edges : Unpacks(s, a, b)
  BY DEF Unpackable
<1>2. s.dist = a.dist + b.dist
  BY <1>1, SumsExact DEF Unpacks
<1>3. EdgeSet(Edges)
  BY NodesAreUint DEF EdgeSet, CHEdge
<1>4. AtMost(Distances(Edges), a.src, b.tgt, a.dist + b.dist)
  BY <1>1, <1>3, WayOverNode DEF Unpacks
<1> QED
  BY <1>1, <1>2, <1>4 DEF Unpacks

(* The shortcuts of a node: all ways over it, or the shortest of them.     *)
LEMMA ShortcutsAre ==
  ASSUME IInv, NEW S \in SUBSET Nodes, NEW bound, ShortLengths(Edges, S, bound), NEW n \in Nodes
  PROVE  Shortcuts(n) = IF mode = "quick" THEN QuickShortcutsOf(n) ELSE NeededShortcuts(n)
<1>1. Edges \in SUBSET CHEdge /\ \A e \in Edges : NoLoop(e)
  BY GraphEdges DEF IInv, NoLoops
<1>2. ASSUME NEW type \in EdgeType
      PROVE  UNION {CalcShortcuts(e, n, type) : e \in {x \in NodeEdges(n, Opposite(type)) : NoLoop(x)}}
               = NeededShortcuts(n)
  <2>1. {x \in NodeEdges(n, Opposite(type)) : NoLoop(x)} = NodeEdges(n, Opposite(type))
    BY <1>1 DEF NodeEdges
  <2>2. UNION {CalcShortcuts(e, n, type) : e \in NodeEdges(n, Opposite(type))} = NeededShortcuts(n)
    BY <1>1, EitherDirectionFinds
  <2> QED
    BY <2>1, <2>2
<1>3. ShortcutsOf(n) = NeededShortcuts(n)
  BY <1>2 DEF ShortcutsOf, SearchDirection, EdgeType
<1> QED
  BY <1>3 DEF Shortcuts

(* A shortcut of contract() is as long as the shortest way between its     *)
(* ends.                                                                   *)
LEMMA NeededIsShortest ==
  ASSUME NEW S, NEW bound, Edges \in SUBSET CHEdge, ShortLengths(Edges, S, bound),
         NEW n \in Nodes, NEW s \in NeededShortcuts(n)
  PROVE  /\ s.src \in S /\ s.tgt \in S
         /\ s.dist \in Nat /\ <<s.src, s.tgt, s.dist>> \in Distances(Edges)
<1>1. PICK p \in ShortestOver(n) : s = MakeShortcut(p[1], p[2])
  BY DEF NeededShortcuts
<1>2. /\ p[1] \in Edges /\ p[2] \in Edges
      /\ <<p[1].src, p[2].tgt, p[1].dist + p[2].dist>> \in Distances(Edges)
  BY <1>1 DEF ShortestOver, NodeEdges
<1>3. UintAdd(p[1].dist, p[2].dist) = p[1].dist + p[2].dist
  BY <1>2, SumsExact
<1>4. s.src = p[1].src /\ s.tgt = p[2].tgt /\ s.dist = p[1].dist + p[2].dist
  BY <1>1, <1>3 DEF MakeShortcut
<1>5. s.src \in S /\ s.tgt \in S /\ p[1].dist \in Nat /\ p[2].dist \in Nat
  BY <1>2, <1>4, NodesAreUint DEF ShortLengths, CHEdge
<1> QED
  BY <1>2, <1>4, <1>5

-----------------------------------------------------------------------------
(* Steps that leave the graph alone.                                       *)

(* What depends on the edges alone.                                        *)
LEMMA SameEdgesSameWays ==
  ASSUME UNCHANGED <<input_edges, out_edges, edges_dump, node_levels>>, Remaining' = Remaining
  PROVE  /\ Edges' = Edges /\ EdgesRead' = EdgesRead
         /\ UpEdges' = UpEdges /\ DownEdges' = DownEdges
         /\ SameDistances => SameDistances'
         /\ WaysGoUpAndDown => WaysGoUpAndDown'
<1>1. Edges' = Edges /\ EdgesRead' = EdgesRead /\ UpEdges' = UpEdges /\ DownEdges' = DownEdges
  BY DEF Edges, EdgesRead, UpEdges, DownEdges, IsUp
<1> QED
  BY <1>1 DEF SameDistances, WaysGoUpAndDown

(* Outside of the merge nothing else is claimed.                           *)
LEMMA QuietStepKeeps ==
  ASSUME DistanceInv, IInv', UNCHANGED <<graph_vars, nodes>>, ~Restructuring, ~Restructuring',
         UNCHANGED <<mode, round>> \/ mode' = "contract"
  PROVE  Bounded' /\ SameDistances' /\ EdgesAreWays' /\ MergeCovers' /\ WaysGoUpAndDown'
         /\ input_edges' \in InputGraphs
<1>1. UNCHANGED <<input_edges, out_edges, edges_dump, node_levels>>
  BY DEF graph_vars
<1>2. Remaining' = Remaining
  BY <1>1 DEF Remaining, Contracted
<1>3. /\ Edges' = Edges /\ EdgesRead' = EdgesRead /\ SameDistances' /\ WaysGoUpAndDown'
  BY <1>1, <1>2, SameEdgesSameWays DEF DistanceInv
<1>4. EdgesAreWays' /\ MergeCovers'
  BY <1>1, <1>3 DEF DistanceInv, EdgesAreWays, MergeCovers
<1>5. Bounded'
  <2>1. PICK bound \in [0..QuickMaxRounds -> Uint] :
          BoundsLengths(bound, EdgesRead) /\ LengthsWithin(bound)
    BY DEF DistanceInv, Bounded
  <2>2. /\ LongestEdge(bound) \in Nat /\ LongestEdge(bound) <= bound[QuickMaxRounds]
        /\ bound[QuickMaxRounds] \in Nat
    BY <2>1, BoundsOfRound DEF DistanceInv, UnpackInv
  <2>3. LongestEdge(bound)' = LongestEdge(bound) \/ LongestEdge(bound)' = bound[QuickMaxRounds]
    BY DEF LongestEdge
  <2>4. \A e \in Edges : e.dist \in Nat
    BY GraphEdges DEF DistanceInv, UnpackInv, EdgeSet
  <2>5. \A e \in Edges : e.dist <= LongestEdge(bound)
    BY <2>1 DEF LengthsWithin
  <2>6. \A e \in Edges : e.dist <= LongestEdge(bound)'
    BY <2>2, <2>3, <2>4, <2>5
  <2>7. LengthsWithin(bound)'
    BY <1>1, <1>3, <2>1, <2>6 DEF LengthsWithin
  <2>8. BoundsLengths(bound, EdgesRead)'
    BY <1>3, <2>1 DEF BoundsLengths
  <2> QED
    BY <2>7, <2>8 DEF Bounded
<1> QED
  BY <1>1, <1>3, <1>4, <1>5 DEF DistanceInv

(* Nothing happens after the last node was contracted.                     *)
LEMMA IdleKeeps ==
  ASSUME DistanceInv, UNCHANGED vars
  PROVE  Bounded' /\ SameDistances' /\ EdgesAreWays' /\ MergeCovers' /\ WaysGoUpAndDown'
         /\ input_edges' \in InputGraphs
<1>1. UNCHANGED <<input_edges, out_edges, edges_dump, node_levels, new_edge_vec, merge_pos,
                  rest_shortcuts, mode, phase, round, nodes, to_remove>>
  BY DEF vars, graph_vars, loop_vars
<1>2. Restructuring' = Restructuring /\ Remaining' = Remaining /\ MergedEdges' = MergedEdges
  BY <1>1 DEF Restructuring, Remaining, Contracted, MergedEdges
<1>3. Edges' = Edges /\ EdgesRead' = EdgesRead /\ SameDistances' /\ WaysGoUpAndDown'
  BY <1>1, <1>2, SameEdgesSameWays DEF DistanceInv
<1>4. EdgesAreWays'
  BY <1>1, <1>2, <1>3 DEF DistanceInv, EdgesAreWays
<1>5. Bounded'
  <2>1. PICK bound \in [0..QuickMaxRounds -> Uint] :
          BoundsLengths(bound, EdgesRead) /\ LengthsWithin(bound)
    BY DEF DistanceInv, Bounded
  <2>2. LengthsWithin(bound)'
    BY <1>1, <1>2, <1>3, <2>1 DEF LengthsWithin, LongestEdge, LongestShortcut
  <2>3. BoundsLengths(bound, EdgesRead)'
    BY <1>3, <2>1 DEF BoundsLengths
  <2> QED
    BY <2>2, <2>3 DEF Bounded
<1>6. MergeCovers'
  <2>1. \A e : CoveredBy(MergedEdges', e) <=> CoveredBy(MergedEdges, e)
    BY <1>2
  <2>2. \A n \in Nodes : Shortcuts(n)' = Shortcuts(n)
    BY <1>1, SameEdgesSameShortcuts
  <2>3. to_remove \in SUBSET Nodes
    BY DEF DistanceInv, UnpackInv, IInv, VariableTypes
  <2> QED
    BY <1>1, <1>2, <2>1, <2>2, <2>3 DEF DistanceInv, MergeCovers
<1> QED
  BY <1>1, <1>3, <1>4, <1>5, <1>6 DEF DistanceInv

-----------------------------------------------------------------------------
(* The beginning of a merge.                                               *)

(* The nodes that are removed get a level below all that are left, so edges*)
(* go up or down as before.                                                *)
LEMMA RemoveSomeKeepsDirections ==
  ASSUME IInv, RemoveSome
  PROVE  UpEdges' = UpEdges /\ DownEdges' = DownEdges /\ Remaining' = Remaining
         /\ to_remove' \subseteq Chosen /\ Restructuring' /\ ~Restructuring
<1>0. PICK R \in SUBSET Chosen : R = to_remove'
  BY DEF RemoveSome
<1>1. /\ phase = "parallel" /\ phase' = "restructure" /\ to_remove = {} /\ to_remove' = R
      /\ node_levels' = [n \in Nodes |-> IF n \in R THEN next_lvl ELSE node_levels[n]]
      /\ edges_dump' = edges_dump /\ next_lvl < NO_LVL
  BY <1>0 DEF RemoveSome, BeginRestructure, LevelsLeft, IInv, LocalsScoped
<1>2. R \subseteq Chosen /\ Chosen \subseteq nodes /\ nodes = {n \in Nodes : ~Contracted(n)}
  BY <1>1 DEF IInv, LevelsGiven
<1>3. /\ node_levels \in [Nodes -> 0..NO_LVL] /\ next_lvl \in Nat /\ NO_LVL \in Nat
  BY SizeAssumption DEF IInv, VariableTypes, GraphTypeOK, Uint, NO_LVL
<1>4. \A n \in Nodes : node_levels'[n] = IF n \in R THEN next_lvl ELSE node_levels[n]
  BY <1>1
<1>5. \A n \in Nodes : IF Contracted(n) THEN node_levels[n] < next_lvl /\ n \notin R
                                        ELSE node_levels[n] = NO_LVL
  BY <1>2 DEF IInv, LevelsGiven, Contracted
<1>6. ASSUME NEW m \in Nodes, NEW n \in Nodes, node_levels[m] # node_levels[n]
      PROVE  node_levels[m] < node_levels[n] <=> node_levels'[m] < node_levels'[n]
  <2>1. Contracted(m) \/ Contracted(n)
    BY <1>5, <1>6
  <2>2. CASE Contracted(m) /\ Contracted(n)
    BY <1>4, <1>5, <2>2
  <2>3. CASE Contracted(m) /\ ~Contracted(n)
    <3>1. node_levels'[m] = node_levels[m] /\ node_levels[m] < next_lvl /\ node_levels[n] = NO_LVL
      BY <1>4, <1>5, <2>3
    <3>2. node_levels'[n] \in {next_lvl, NO_LVL} /\ node_levels[m] \in Nat
      BY <1>3, <1>4, <1>5, <2>3
    <3> QED
      BY <1>1, <1>3, <3>1, <3>2
  <2>4. CASE ~Contracted(m) /\ Contracted(n)
    <3>1. node_levels'[n] = node_levels[n] /\ node_levels[n] < next_lvl /\ node_levels[m] = NO_LVL
      BY <1>4, <1>5, <2>4
    <3>2. node_levels'[m] \in {next_lvl, NO_LVL} /\ node_levels[n] \in Nat
      BY <1>3, <1>4, <1>5, <2>4
    <3> QED
      BY <1>1, <1>3, <3>1, <3>2
  <2> QED
    BY <2>1, <2>2, <2>3, <2>4
<1>7. \A e \in edges_dump : e.src \in Nodes /\ e.tgt \in Nodes /\ node_levels[e.src] # node_levels[e.tgt]
  BY GraphEdges DEF CHEdge, IInv, DumpSeparate
<1>8. ASSUME NEW e \in edges_dump
      PROVE  IsUp(e, "OUT")' = IsUp(e, "OUT") /\ IsUp(e, "IN")' = IsUp(e, "IN")
  <2>1. node_levels[e.src] < node_levels[e.tgt] <=> node_levels'[e.src] < node_levels'[e.tgt]
    BY <1>6, <1>7
  <2>2. node_levels[e.tgt] < node_levels[e.src] <=> node_levels'[e.tgt] < node_levels'[e.src]
    BY <1>6, <1>7
  <2>3. \A a, b : a > b <=> b < a
    OBVIOUS
  <2> QED
    BY <2>1, <2>2, <2>3 DEF IsUp
<1>9. UpEdges' = UpEdges /\ DownEdges' = DownEdges
  BY <1>1, <1>8 DEF UpEdges, DownEdges
<1>10. \A n \in Nodes : Contracted(n)' <=> Contracted(n) \/ n \in R
  BY <1>1, <1>2, <1>3, <1>4, <1>5 DEF Contracted
<1>11. Remaining' = Remaining
  BY <1>1, <1>2, <1>10 DEF Remaining, Restructuring
<1> QED
  BY <1>1, <1>2, <1>9, <1>11 DEF Restructuring

(* No shortcut of this round is too long.                                  *)
LEMMA ShortcutsFit ==
  ASSUME IInv, SameDistances, phase # "round", NEW bound \in [0..QuickMaxRounds -> Uint],
         BoundsLengths(bound, EdgesRead), LengthsWithin(bound), NEW n \in Nodes, NEW s \in Shortcuts(n)
  PROVE  s.dist <= LongestShortcut(bound)
<1> DEFINE last == bound[QuickMaxRounds]
<1>1. /\ ShortLengths(Edges, Remaining, last) /\ Remaining \in SUBSET Nodes
      /\ Edges \in SUBSET CHEdge
  BY GraphFits, RemainingNodes, GraphEdges
<1>2. CASE mode = "quick"
  <2>1. Unpackable(s, Edges)
    BY ShortcutsOfNodeUnpack
  <2>2. PICK a, b \in Edges : s.dist = a.dist + b.dist
    BY <1>1, <2>1, UnpackableIsWay
  <2>3. /\ LongestEdge(bound) \in Nat /\ LongestShortcut(bound) \in Nat
        /\ LongestEdge(bound) + LongestEdge(bound) <= LongestShortcut(bound)
    BY <1>2, BoundsOfRound
  <2>4. a.dist \in Nat /\ b.dist \in Nat /\ a.dist <= LongestEdge(bound) /\ b.dist <= LongestEdge(bound)
    BY GraphEdges DEF EdgeSet, LengthsWithin
  <2> QED
    BY <2>2, <2>3, <2>4
<1>3. CASE mode # "quick"
  <2>1. s \in NeededShortcuts(n)
    BY <1>1, <1>3, ShortcutsAre
  <2>2. /\ s.src \in Remaining /\ s.tgt \in Remaining
        /\ s.dist \in Nat /\ <<s.src, s.tgt, s.dist>> \in Distances(Edges)
    BY <1>1, <2>1, NeededIsShortest
  <2>3. s.dist <= last
    BY <1>1, <2>2 DEF ShortLengths
  <2> QED
    BY <1>3, <2>3 DEF LongestShortcut
<1> QED
  BY <1>2, <1>3

(* The merge begins with all shortcuts of the nodes that are removed.      *)
LEMMA RemoveSomeKeepsWays ==
  ASSUME DistanceInv, IInv', RemoveSome
  PROVE  Bounded' /\ SameDistances' /\ EdgesAreWays' /\ MergeCovers' /\ WaysGoUpAndDown'
         /\ input_edges' \in InputGraphs
<1>1. /\ phase = "parallel" /\ LoopDone /\ merge_pos' = 1
      /\ rest_shortcuts' = new_shortcuts
      /\ UNCHANGED <<input_edges, out_edges, edges_dump, new_edge_vec, mode, round>>
      /\ new_edge_vec = <<>>
  BY DEF RemoveSome, BeginRestructure, DistanceInv, UnpackInv, IInv, LocalsScoped, Restructuring
<1>2. /\ UpEdges' = UpEdges /\ DownEdges' = DownEdges /\ Remaining' = Remaining
      /\ to_remove' \subseteq Chosen /\ Restructuring'
  BY RemoveSomeKeepsDirections DEF DistanceInv, UnpackInv
<1>3. Edges' = Edges /\ EdgesRead' = EdgesRead /\ MergedEdges' = {}
  BY <1>1 DEF Edges, EdgesRead, MergedEdges
<1>4. /\ new_shortcuts = UNION {Shortcuts(n) : n \in Chosen} /\ Chosen \subseteq Nodes
      /\ \A s \in new_shortcuts : Unpackable(s, Edges)
  BY <1>1, LoopLosesNothing
  DEF DistanceInv, NoShortcutLost, UnpackInv, FoundUnpack, IInv, VariableTypes, LevelsGiven
<1>5. PICK bound \in [0..QuickMaxRounds -> Uint] :
        BoundsLengths(bound, EdgesRead) /\ LengthsWithin(bound)
  BY DEF DistanceInv, Bounded
<1>6. Bounded'
  <2>1. \A s \in new_shortcuts : s.dist <= LongestShortcut(bound)
    BY <1>1, <1>4, <1>5, ShortcutsFit DEF DistanceInv, UnpackInv
  <2>2. LongestShortcut(bound)' = LongestShortcut(bound) /\ LongestEdge(bound)' = LongestEdge(bound)
    BY <1>1 DEF LongestShortcut, LongestEdge
  <2>3. LengthsWithin(bound)'
    BY <1>1, <1>3, <1>5, <2>1, <2>2 DEF LengthsWithin
  <2>4. BoundsLengths(bound, EdgesRead)'
    BY <1>3, <1>5 DEF BoundsLengths
  <2> QED
    BY <2>3, <2>4 DEF Bounded
<1>7. SameDistances' /\ WaysGoUpAndDown'
  BY <1>2, <1>3 DEF DistanceInv, SameDistances, WaysGoUpAndDown
<1>8. EdgesAreWays'
  <2>1. ShortLengths(Edges, Remaining, bound[QuickMaxRounds]) /\ Edges \in SUBSET CHEdge
    BY <1>5, GraphFits, GraphEdges DEF DistanceInv, UnpackInv
  <2>2. \A s \in new_shortcuts : AtMost(Distances(Edges), s.src, s.tgt, s.dist)
    BY <1>4, <2>1, UnpackableIsWay
  <2> QED
    BY <1>1, <1>3, <2>2 DEF DistanceInv, EdgesAreWays
<1>9. MergeCovers'
  <2>1. \A n \in Nodes : Shortcuts(n)' = Shortcuts(n)
    BY <1>1, SameEdgesSameShortcuts
  <2>2. \A n \in to_remove' : \A s \in Shortcuts(n)' : s \in rest_shortcuts'
    BY <1>1, <1>2, <1>4, <2>1
  <2>3. \A k \in DOMAIN out_edges' : ~(k < merge_pos')
    BY <1>1, MergeTypes, LenProperties DEF DistanceInv, UnpackInv
  <2> QED
    BY <2>2, <2>3 DEF MergeCovers
<1> QED
  BY <1>1, <1>6, <1>7, <1>8, <1>9 DEF DistanceInv

-----------------------------------------------------------------------------
(* The merge.                                                              *)

(* What _addNewEdge() is given is covered afterwards, and what was covered *)
(* still is: an edge only makes place for a shorter one.                   *)
LEMMA AddNewEdgeCovers ==
  ASSUME IInv, NEW e \in CHEdge, AddNewEdge(e)
  PROVE  /\ CoveredBy(MergedEdges', e)
         /\ \A x \in CHEdge : CoveredBy(MergedEdges, x) => CoveredBy(MergedEdges', x)
<1> DEFINE n == Len(new_edge_vec)
<1>1. /\ new_edge_vec' \in Seq(CHEdge) /\ n \in Nat
      /\ DOMAIN new_edge_vec = 1..n /\ DOMAIN new_edge_vec' = 1..Len(new_edge_vec')
      /\ \A j \in 1..n : new_edge_vec[j] \in CHEdge
  BY MergeTypes, AddNewEdgeKeeps, LenProperties
<1>2. \A d \in CHEdge : d.dist \in Nat
  BY NodesAreUint DEF CHEdge
<1>3. Duplicates(e) => n \in 1..n /\ LastEdge \in MergedEdges /\ EqualEndpoints(e, LastEdge) /\ LastEdge \in CHEdge
  <2>1. Duplicates(e) => n > 0
    BY <1>1, EmptySeq, MergeTypes DEF Duplicates
  <2> QED
    BY <1>1, <2>1 DEF Duplicates, LastEdge, MergedEdges
<1>4. CASE Duplicates(e) /\ e.dist >= LastEdge.dist /\ UNCHANGED <<new_edge_vec, edge_count>>
  <2>1. MergedEdges' = MergedEdges
    BY <1>4 DEF MergedEdges
  <2>2. EqualEndpoints(LastEdge, e) /\ LastEdge.dist <= e.dist /\ LastEdge \in MergedEdges
    BY <1>2, <1>3, <1>4 DEF EqualEndpoints
  <2> QED
    BY <2>1, <2>2 DEF CoveredBy
<1>5. CASE Replaces(e)
  <2> DEFINE r == [e EXCEPT !.id = LastEdge.id]
  <2>1. EqualEndpoints(r, e) /\ r.dist = e.dist /\ r.dist < LastEdge.dist /\ EqualEndpoints(r, LastEdge)
    BY <1>3, <1>5 DEF Replaces, CHEdge, EqualEndpoints
  <2>2. /\ Len(new_edge_vec') = n /\ n \in 1..n
        /\ \A j \in 1..n : new_edge_vec'[j] = IF j = n THEN r ELSE new_edge_vec[j]
    BY <1>3, <1>5 DEF Replaces
  <2> HIDE DEF r
  <2>3. r \in MergedEdges'
    BY <1>1, <2>2 DEF MergedEdges
  <2>4. \A m \in MergedEdges : m \in MergedEdges' \/ m = LastEdge
    BY <1>1, <2>2 DEF MergedEdges, LastEdge
  <2>5. CoveredBy(MergedEdges', e)
    BY <1>2, <2>1, <2>3 DEF CoveredBy
  <2>6. ASSUME NEW x \in CHEdge, NEW m \in MergedEdges, EqualEndpoints(m, x), m.dist <= x.dist
        PROVE  CoveredBy(MergedEdges', x)
    <3>1. CASE m \in MergedEdges'
      BY <2>6, <3>1 DEF CoveredBy
    <3>2. CASE m = LastEdge
      <4>1. EqualEndpoints(r, x)
        BY <2>1, <2>6, <3>2 DEF EqualEndpoints
      <4>2. r.dist <= x.dist
        BY <1>2, <1>3, <1>5, <2>1, <2>6, <3>2 DEF Replaces
      <4> QED
        BY <2>3, <4>1, <4>2 DEF CoveredBy
    <3> QED
      BY <2>4, <3>1, <3>2
  <2> QED
    BY <2>5, <2>6 DEF CoveredBy
<1>6. CASE ComesLast(e)
  <2> DEFINE x == [e EXCEPT !.id = IF e.id = NO_EID THEN edge_count ELSE e.id]
  <2>1. /\ Len(new_edge_vec') = n + 1 /\ new_edge_vec'[n + 1] = x
        /\ \A j \in 1..n : new_edge_vec'[j] = new_edge_vec[j]
    BY <1>6 DEF ComesLast
  <2>2. EqualEndpoints(x, e) /\ x.dist = e.dist /\ e.dist <= e.dist
    BY <1>2 DEF CHEdge, EqualEndpoints
  <2> HIDE DEF x
  <2>3. x \in MergedEdges' /\ \A m \in MergedEdges : m \in MergedEdges'
    BY <1>1, <2>1 DEF MergedEdges
  <2> QED
    BY <2>2, <2>3 DEF CoveredBy
<1> QED
  BY <1>4, <1>5, <1>6, MergeTypes, AddNewEdgeForms

(* An id has no part in the way an edge stands for.                        *)
LEMMA MergedAreAdded ==
  ASSUME IInv, NEW e \in CHEdge, AddNewEdge(e), NEW x \in MergedEdges'
  PROVE  x \in MergedEdges \/ (x.src = e.src /\ x.tgt = e.tgt /\ x.dist = e.dist)
<1>1. x \in MergedEdges \/ \E id : x = [e EXCEPT !.id = id]
  BY AddNewEdgeRenumbers
<1> QED
  BY <1>1 DEF CHEdge

(* The merge takes a shortcut of a removed node, or drops another one.     *)
LEMMA MergeShortcutKeepsWays ==
  ASSUME DistanceInv, Restructuring, MergeShortcut(to_remove), UNCHANGED <<loop_vars, to_remove>>
  PROVE  Bounded' /\ SameDistances' /\ EdgesAreWays' /\ MergeCovers' /\ WaysGoUpAndDown'
         /\ input_edges' \in InputGraphs
<1>1. PICK s \in rest_shortcuts :
        /\ rest_shortcuts' = rest_shortcuts \ {s}
        /\ IF AcceptsShortcut(s, to_remove)
           THEN AddNewEdge(s)
           ELSE UNCHANGED <<new_edge_vec, edge_count>>
        /\ UNCHANGED <<input_edges, out_edges, edges_dump, node_levels, merge_pos>>
  BY DEF MergeShortcut
<1>2. /\ UNCHANGED <<phase, mode, round, nodes, to_remove>> /\ Restructuring'
      /\ IInv /\ s \in CHEdge /\ to_remove \in SUBSET Nodes
  BY MergeTypes DEF Restructuring, loop_vars, DistanceInv, UnpackInv, IInv, VariableTypes
<1>3. Remaining' = Remaining
  BY <1>1, <1>2 DEF Remaining, Contracted
<1>4. Edges' = Edges /\ EdgesRead' = EdgesRead /\ SameDistances' /\ WaysGoUpAndDown'
  BY <1>1, <1>3, SameEdgesSameWays DEF DistanceInv
<1>5. ASSUME NEW x \in MergedEdges'
      PROVE  x \in MergedEdges \/ (x.src = s.src /\ x.tgt = s.tgt /\ x.dist = s.dist)
  <2>1. CASE AcceptsShortcut(s, to_remove)
    BY <1>1, <1>2, <2>1, MergedAreAdded
  <2>2. CASE ~AcceptsShortcut(s, to_remove)
    BY <1>1, <2>2 DEF MergedEdges
  <2> QED
    BY <2>1, <2>2
<1>6. \A x \in MergedEdges' \cup rest_shortcuts' :
        \E f \in MergedEdges \cup rest_shortcuts : x.src = f.src /\ x.tgt = f.tgt /\ x.dist = f.dist
  BY <1>1, <1>5
<1>7. Bounded'
  <2>1. PICK bound \in [0..QuickMaxRounds -> Uint] :
          BoundsLengths(bound, EdgesRead) /\ LengthsWithin(bound)
    BY DEF DistanceInv, Bounded
  <2>2. LongestShortcut(bound)' = LongestShortcut(bound) /\ LongestEdge(bound)' = LongestEdge(bound)
    BY <1>2 DEF LongestShortcut, LongestEdge
  <2>3. \A x \in MergedEdges' \cup rest_shortcuts' : x.dist <= LongestShortcut(bound)
    BY <1>6, <2>1 DEF LengthsWithin
  <2>4. LengthsWithin(bound)'
    BY <1>1, <1>4, <2>1, <2>2, <2>3 DEF LengthsWithin
  <2>5. BoundsLengths(bound, EdgesRead)'
    BY <1>4, <2>1 DEF BoundsLengths
  <2> QED
    BY <2>4, <2>5 DEF Bounded
<1>8. EdgesAreWays'
  <2>1. \A x \in MergedEdges' \cup rest_shortcuts' : AtMost(Distances(Edges), x.src, x.tgt, x.dist)
    BY <1>6 DEF DistanceInv, EdgesAreWays
  <2> QED
    BY <1>1, <1>4, <2>1 DEF DistanceInv, EdgesAreWays
<1>9. /\ \A x \in CHEdge : CoveredBy(MergedEdges, x) => CoveredBy(MergedEdges', x)
      /\ AcceptsShortcut(s, to_remove) => CoveredBy(MergedEdges', s)
  <2>1. CASE AcceptsShortcut(s, to_remove)
    BY <1>1, <1>2, <2>1, AddNewEdgeCovers
  <2>2. CASE ~AcceptsShortcut(s, to_remove)
    BY <1>1, <2>2 DEF MergedEdges
  <2> QED
    BY <2>1, <2>2
<1>10. MergeCovers'
  <2>1. ASSUME NEW k \in DOMAIN out_edges, k < merge_pos, Stays(out_edges[k], to_remove)
        PROVE  CoveredBy(MergedEdges', out_edges[k])
    <3>1. CoveredBy(MergedEdges, out_edges[k])
      BY <2>1 DEF DistanceInv, MergeCovers
    <3>2. out_edges[k] \in CHEdge
      BY GraphEdges DEF DistanceInv, UnpackInv, Edges
    <3> QED
      BY <1>9, <3>1, <3>2
  <2>2. ASSUME NEW n \in to_remove, NEW o \in Shortcuts(n)
        PROVE  o \in rest_shortcuts' \/ CoveredBy(MergedEdges', o)
    <3>1. o \in CHEdge /\ ShortcutOver(o, {n})
      BY <1>2, ShortcutsOver DEF IInv, VariableTypes, GraphTypeOK
    <3>2. o \in rest_shortcuts \/ CoveredBy(MergedEdges, o)
      BY <2>2 DEF DistanceInv, MergeCovers
    <3>3. CASE o = s
      <4>1. AcceptsShortcut(s, to_remove)
        BY <3>1, <3>3 DEF ShortcutOver, AcceptsShortcut
      <4> QED
        BY <1>9, <3>3, <4>1
    <3>4. CASE o # s
      BY <1>1, <1>9, <3>1, <3>2, <3>4
    <3> QED
      BY <3>3, <3>4
  <2>3. \A n \in Nodes : Shortcuts(n)' = Shortcuts(n)
    BY <1>1, <1>2, SameEdgesSameShortcuts
  <2> QED
    BY <1>1, <1>2, <2>1, <2>2, <2>3 DEF MergeCovers
<1> QED
  BY <1>1, <1>4, <1>7, <1>8, <1>10 DEF DistanceInv

(* More edges up and down make for more ways.                              *)
LEMMA MoreUpAndDown ==
  ASSUME NEW NewUp, EdgeSet(NewUp), NEW NewDown, EdgeSet(NewDown),
         NEW Up \in SUBSET NewUp, NEW Down \in SUBSET NewDown, NEW E,
         NEW u \in Nodes, NEW v \in Nodes, NEW d \in Nat, UpAndDown(Up, E, Down, u, v, d)
  PROVE  UpAndDown(NewUp, E, NewDown, u, v, d)
<1>1. PICK a, b \in Nodes : \E x, y, z \in Nat :
        /\ AtMost(Distances(Up), u, a, x)
        /\ AtMost(Distances(E), a, b, y)
        /\ AtMost(Distances(Down), b, v, z)
        /\ x + y + z <= d
  BY DEF UpAndDown
<1>2. PICK x, y, z \in Nat :
        /\ AtMost(Distances(Up), u, a, x)
        /\ AtMost(Distances(E), a, b, y)
        /\ AtMost(Distances(Down), b, v, z)
        /\ x + y + z <= d
  BY <1>1
<1>3. AtMost(Distances(NewUp), u, a, x) /\ AtMost(Distances(NewDown), b, v, z)
  BY <1>2, MoreEdges
<1> QED
  BY <1>2, <1>3 DEF UpAndDown

(* The merge takes the next edge of the graph, or lays it aside.           *)
LEMMA MergeEdgeKeepsWays ==
  ASSUME DistanceInv, Restructuring, MergeEdge(to_remove), UNCHANGED <<loop_vars, to_remove>>
  PROVE  Bounded' /\ SameDistances' /\ EdgesAreWays' /\ MergeCovers' /\ WaysGoUpAndDown'
         /\ input_edges' \in InputGraphs
<1>1. PICK edge : edge = out_edges[merge_pos]
  OBVIOUS
<1>2. /\ merge_pos \in 1..Len(out_edges)
      /\ \/ Stays(edge, to_remove) /\ AddNewEdge(edge) /\ UNCHANGED edges_dump
         \/ /\ ~Stays(edge, to_remove) /\ edges_dump' = edges_dump \cup {edge}
            /\ UNCHANGED <<new_edge_vec, edge_count>>
      /\ merge_pos' = merge_pos + 1
      /\ UNCHANGED <<input_edges, out_edges, rest_shortcuts, node_levels>>
  BY <1>1 DEF MergeEdge
<1>3. /\ UNCHANGED <<phase, mode, round, nodes, to_remove>> /\ Restructuring'
      /\ IInv /\ edge \in CHEdge /\ to_remove \in SUBSET Nodes /\ edge \in Edges
      /\ DOMAIN out_edges = 1..Len(out_edges) /\ EdgeSet(Edges) /\ EdgeSet(EdgesRead)
  BY <1>1, <1>2, MergeTypes, LenProperties, GraphEdges
  DEF Restructuring, loop_vars, DistanceInv, UnpackInv, IInv, VariableTypes, Edges
<1>4. Remaining' = Remaining
  BY <1>2, <1>3 DEF Remaining, Contracted
<1>5. Edges' = Edges /\ EdgesRead' = EdgesRead
  BY <1>2 DEF Edges, EdgesRead
<1>6. SameDistances'
  BY <1>4, <1>5 DEF DistanceInv, SameDistances
<1>7. WaysGoUpAndDown'
  <2>1. edges_dump \subseteq edges_dump' /\ edges_dump' \subseteq CHEdge
    BY <1>2, <1>3, GraphEdges
  <2>2. UpEdges \subseteq UpEdges' /\ DownEdges \subseteq DownEdges' /\ EdgeSet(UpEdges') /\ EdgeSet(DownEdges')
    BY <1>2, <2>1, NodesAreUint DEF UpEdges, DownEdges, IsUp, EdgeSet, CHEdge
  <2>3. ASSUME NEW u \in Nodes, NEW v \in Nodes, NEW d \in Nat, <<u, v, d>> \in Distances(EdgesRead)
        PROVE  UpAndDown(UpEdges', Edges, DownEdges', u, v, d)
    <3>1. UpAndDown(UpEdges, Edges, DownEdges, u, v, d)
      BY <2>3 DEF DistanceInv, WaysGoUpAndDown
    <3> QED
      BY <2>2, <3>1, MoreUpAndDown
  <2> QED
    BY <1>5, <2>3 DEF WaysGoUpAndDown
<1>8. /\ AtMost(Distances(Edges), edge.src, edge.tgt, edge.dist)
      /\ AtMost(Distances(EdgesRead), edge.src, edge.tgt, edge.dist)
  <2>1. AtMost(Distances(Edges), edge.src, edge.tgt, edge.dist)
    BY <1>3, DistancesTriangular
  <2>2. edge.src \in Remaining /\ edge.tgt \in Remaining
    BY <1>3, RemainingNodes
  <2>3. PICK c \in Nat : <<edge.src, edge.tgt, c>> \in Distances(Edges) /\ c <= edge.dist
    BY <2>1 DEF AtMost
  <2>4. <<edge.src, edge.tgt, c>> \in Distances(EdgesRead)
    BY <2>2, <2>3 DEF DistanceInv, SameDistances
  <2> QED
    BY <2>1, <2>3, <2>4 DEF AtMost
<1>9. ASSUME NEW x \in MergedEdges'
      PROVE  x \in MergedEdges \/ (x.src = edge.src /\ x.tgt = edge.tgt /\ x.dist = edge.dist)
  <2>1. CASE AddNewEdge(edge)
    BY <1>3, <2>1, MergedAreAdded
  <2>2. CASE UNCHANGED <<new_edge_vec, edge_count>>
    BY <2>2 DEF MergedEdges
  <2> QED
    BY <1>2, <2>1, <2>2
<1>10. Bounded'
  <2>1. PICK bound \in [0..QuickMaxRounds -> Uint] :
          BoundsLengths(bound, EdgesRead) /\ LengthsWithin(bound)
    BY DEF DistanceInv, Bounded
  <2>2. LongestShortcut(bound)' = LongestShortcut(bound) /\ LongestEdge(bound)' = LongestEdge(bound)
    BY <1>3 DEF LongestShortcut, LongestEdge
  <2>3. edge.dist <= LongestShortcut(bound)
    <3>1. edge.dist <= LongestEdge(bound) /\ edge.dist \in Nat
      BY <1>3, <2>1 DEF LengthsWithin, EdgeSet
    <3>2. /\ LongestEdge(bound) \in Nat /\ LongestShortcut(bound) \in Nat
          /\ LongestEdge(bound) <= LongestShortcut(bound)
      BY <1>3, <2>1, BoundsOfRound DEF Restructuring
    <3> QED
      BY <3>1, <3>2
  <2>4. \A x \in MergedEdges' \cup rest_shortcuts' : x.dist <= LongestShortcut(bound)
    BY <1>2, <1>9, <2>1, <2>3 DEF LengthsWithin
  <2>5. \A e \in edges_dump' : e.dist <= bound[QuickMaxRounds]
    <3>1. edge.dist <= LongestEdge(bound) /\ edge.dist \in Nat
      BY <1>3, <2>1 DEF LengthsWithin, EdgeSet
    <3>2. /\ LongestEdge(bound) \in Nat /\ LongestEdge(bound) <= bound[QuickMaxRounds]
          /\ bound[QuickMaxRounds] \in Nat
      BY <1>3, <2>1, BoundsOfRound
    <3>3. edge.dist <= bound[QuickMaxRounds]
      BY <3>1, <3>2
    <3> QED
      BY <1>2, <2>1, <3>3 DEF LengthsWithin
  <2>6. LengthsWithin(bound)'
    BY <1>5, <2>1, <2>2, <2>4, <2>5 DEF LengthsWithin
  <2>7. BoundsLengths(bound, EdgesRead)'
    BY <1>5, <2>1 DEF BoundsLengths
  <2> QED
    BY <2>6, <2>7 DEF Bounded
<1>11. EdgesAreWays'
  <2>1. \A x \in MergedEdges' \cup rest_shortcuts' : AtMost(Distances(Edges), x.src, x.tgt, x.dist)
    BY <1>2, <1>8, <1>9 DEF DistanceInv, EdgesAreWays
  <2>2. \A x \in edges_dump' : AtMost(Distances(EdgesRead), x.src, x.tgt, x.dist)
    BY <1>2, <1>8 DEF DistanceInv, EdgesAreWays
  <2> QED
    BY <1>5, <2>1, <2>2 DEF EdgesAreWays
<1>12. /\ \A x \in CHEdge : CoveredBy(MergedEdges, x) => CoveredBy(MergedEdges', x)
       /\ Stays(edge, to_remove) => CoveredBy(MergedEdges', edge)
  <2>1. CASE AddNewEdge(edge)
    BY <1>3, <2>1, AddNewEdgeCovers
  <2>2. CASE ~Stays(edge, to_remove) /\ UNCHANGED <<new_edge_vec, edge_count>>
    BY <2>2 DEF MergedEdges
  <2> QED
    BY <1>2, <2>1, <2>2
<1>13. MergeCovers'
  <2>1. ASSUME NEW k \in DOMAIN out_edges, k < merge_pos + 1, Stays(out_edges[k], to_remove)
        PROVE  CoveredBy(MergedEdges', out_edges[k])
    <3>1. CASE k = merge_pos
      BY <1>1, <1>12, <2>1, <3>1
    <3>2. CASE k # merge_pos
      <4>1. k < merge_pos
        BY <1>2, <1>3, <2>1, <3>2
      <4>2. CoveredBy(MergedEdges, out_edges[k])
        BY <2>1, <4>1 DEF DistanceInv, MergeCovers
      <4>3. out_edges[k] \in CHEdge
        BY <1>3, GraphEdges DEF Edges
      <4> QED
        BY <1>12, <4>2, <4>3
    <3> QED
      BY <3>1, <3>2
  <2>2. ASSUME NEW n \in to_remove, NEW o \in Shortcuts(n)
        PROVE  o \in rest_shortcuts' \/ CoveredBy(MergedEdges', o)
    <3>1. o \in CHEdge
      BY <1>3, ShortcutsOver DEF IInv, VariableTypes, GraphTypeOK
    <3> QED
      BY <1>2, <1>12, <3>1 DEF DistanceInv, MergeCovers
  <2>3. \A n \in Nodes : Shortcuts(n)' = Shortcuts(n)
    BY <1>2, <1>3, SameEdgesSameShortcuts
  <2> QED
    BY <1>2, <1>3, <2>1, <2>2, <2>3 DEF MergeCovers
<1> QED
  BY <1>2, <1>6, <1>7, <1>10, <1>11, <1>13 DEF DistanceInv

-----------------------------------------------------------------------------
(* The end of a round: the merged edges become the graph.                  *)

(* A shortcut of a removed node makes up for the way it stands for.        *)
LEMMA ShortcutsMakeUp ==
  ASSUME DistanceInv, EndRound, NEW l \in Edges, NEW e \in Edges,
         l.tgt = e.src, e.src \in to_remove, l.src # e.tgt
  PROVE  \/ AtMost(Distances(MergedEdges), l.src, e.tgt, l.dist + e.dist)
         \/ \E d \in Nat : d < l.dist + e.dist /\ <<l.src, e.tgt, d>> \in Distances(Edges)
<1>1. IInv /\ Restructuring /\ rest_shortcuts = {}
  BY DEF EndRound, FinishRestructure, DistanceInv, UnpackInv, Restructuring
<1>2. PICK bound \in [0..QuickMaxRounds -> Uint] :
        BoundsLengths(bound, EdgesRead) /\ LengthsWithin(bound)
  BY DEF DistanceInv, Bounded
<1>3. PICK n : n = e.src
  OBVIOUS
<1>4. /\ ShortLengths(Edges, Remaining, bound[QuickMaxRounds]) /\ Remaining \in SUBSET Nodes
      /\ Edges \in SUBSET CHEdge /\ EdgeSet(Edges) /\ EdgeSet(MergedEdges)
      /\ n \in Nodes /\ n \in to_remove
      /\ \A x \in Edges : NoLoop(x)
  BY <1>1, <1>2, <1>3, GraphFits, GraphEdges, RemainingNodes DEF DistanceInv, EdgeSet, IInv, NoLoops
<1>5. l \in NodeEdges(n, "IN") /\ e \in NodeEdges(n, "OUT")
  BY <1>3 DEF NodeEdges, OtherNode, Opposite
<1>6. /\ l.src \in Nodes /\ e.tgt \in Nodes /\ l.dist \in Nat /\ e.dist \in Nat /\ l.dist + e.dist \in Nat
  BY <1>4 DEF EdgeSet
<1>7. ASSUME MakeShortcut(l, e) \in Shortcuts(n)
      PROVE  AtMost(Distances(MergedEdges), l.src, e.tgt, l.dist + e.dist)
  <2>1. CoveredBy(MergedEdges, MakeShortcut(l, e))
    BY <1>1, <1>4, <1>7 DEF DistanceInv, MergeCovers
  <2>2. MakeShortcut(l, e).dist = l.dist + e.dist
    BY <1>4, SumsExact DEF MakeShortcut
  <2>3. MakeShortcut(l, e).src = l.src /\ MakeShortcut(l, e).tgt = e.tgt
    BY DEF MakeShortcut
  <2>4. PICK m \in MergedEdges : m.src = l.src /\ m.tgt = e.tgt /\ m.dist <= l.dist + e.dist
    BY <2>1, <2>2, <2>3 DEF CoveredBy, EqualEndpoints
  <2>5. AtMost(Distances(MergedEdges), m.src, m.tgt, m.dist) /\ m.dist \in Nat
    BY <1>4, DistancesTriangular DEF EdgeSet
  <2>6. AtMost(Distances(MergedEdges), l.src, e.tgt, m.dist)
    BY <2>4, <2>5
  <2> QED
    BY <1>6, <2>4, <2>5, <2>6, AtMostWeakens
<1>8. CASE mode = "quick"
  <2>1. <<l, e>> \in NodeEdges(n, "IN") \X NodeEdges(n, "OUT") /\ NoLoop(l) /\ NoLoop(e)
    BY <1>4, <1>5
  <2>2. CreateShortcut(l, e, "OUT") \in QuickShortcutsOf(n)
    BY <2>1 DEF QuickShortcutsOf
  <2>3. MakeShortcut(l, e) \in Shortcuts(n)
    BY <1>8, <2>2 DEF CreateShortcut, Shortcuts
  <2> QED
    BY <1>7, <2>3
<1>9. CASE mode # "quick"
  <2>1. PICK c \in Nat : <<l.src, e.tgt, c>> \in Distances(Edges) /\ c <= l.dist + e.dist
    BY <1>4, WayOverNode DEF AtMost
  <2>2. CASE c < l.dist + e.dist
    BY <2>1, <2>2
  <2>3. CASE c = l.dist + e.dist
    <3>1. <<l, e>> \in ShortestOver(n)
      BY <1>5, <2>1, <2>3 DEF ShortestOver
    <3>2. MakeShortcut(l, e) \in NeededShortcuts(n)
      BY <3>1 DEF NeededShortcuts
    <3>3. MakeShortcut(l, e) \in Shortcuts(n)
      BY <1>1, <1>4, <1>9, <3>2, ShortcutsAre
    <3> QED
      BY <1>7, <3>3
  <2> QED
    BY <1>6, <2>1, <2>2, <2>3
<1> QED
  BY <1>8, <1>9

(* So the merged edges make up for the nodes that are removed.             *)
LEMMA MergedMakeUp ==
  ASSUME DistanceInv, EndRound
  PROVE  MakesUp(MergedEdges, Edges, to_remove) /\ IsMadeOf(MergedEdges, Edges, to_remove)
<1>1. /\ IInv /\ Restructuring /\ merge_pos = Len(out_edges) + 1
  BY DEF EndRound, FinishRestructure, DistanceInv, UnpackInv, Restructuring
<1>2. EdgeSet(Edges) /\ EdgeSet(MergedEdges)
  BY <1>1, GraphEdges
<1>3. \A e \in Edges : e.src \notin to_remove \/ e.tgt \notin to_remove
  BY <1>1, RemainingNodes
<1>4. ASSUME NEW e \in Edges, e.src \notin to_remove, e.tgt \notin to_remove
      PROVE  AtMost(Distances(MergedEdges), e.src, e.tgt, e.dist)
  <2>1. PICK k \in DOMAIN out_edges : e = out_edges[k]
    BY DEF Edges
  <2>2. k < merge_pos
    BY <1>1, <2>1, MergeTypes, LenProperties
  <2>3. CoveredBy(MergedEdges, e)
    BY <1>1, <1>4, <2>1, <2>2 DEF DistanceInv, MergeCovers, Stays
  <2>4. PICK m \in MergedEdges : m.src = e.src /\ m.tgt = e.tgt /\ m.dist <= e.dist
    BY <2>3 DEF CoveredBy, EqualEndpoints
  <2>5. AtMost(Distances(MergedEdges), m.src, m.tgt, m.dist) /\ m.dist \in Nat /\ e.dist \in Nat
    BY <1>2, DistancesTriangular DEF EdgeSet
  <2>6. AtMost(Distances(MergedEdges), e.src, e.tgt, m.dist)
    BY <2>4, <2>5
  <2> QED
    BY <2>4, <2>5, <2>6, AtMostWeakens
<1>5. \A l, e \in Edges :
        l.tgt = e.src /\ e.src \in to_remove /\ l.src # e.tgt =>
          \/ AtMost(Distances(MergedEdges), l.src, e.tgt, l.dist + e.dist)
          \/ \E d \in Nat : d < l.dist + e.dist /\ <<l.src, e.tgt, d>> \in Distances(Edges)
  BY ShortcutsMakeUp
<1>6. MakesUp(MergedEdges, Edges, to_remove)
  BY <1>2, <1>3, <1>4, <1>5 DEF MakesUp
<1>7. \A f \in MergedEdges : f.src \notin to_remove /\ f.tgt \notin to_remove
  BY <1>1, RemainingNodes
<1>8. \A f \in MergedEdges : AtMost(Distances(Edges), f.src, f.tgt, f.dist)
  BY <1>1 DEF DistanceInv, EdgesAreWays
<1> QED
  BY <1>6, <1>7, <1>8 DEF IsMadeOf

(* The edges that left lead up from the removed nodes, and down to them.   *)
LEMMA LeftUpAndDown ==
  ASSUME DistanceInv, EndRound
  PROVE  /\ \A e \in Edges : e.src \in to_remove => e \in UpEdges
         /\ \A e \in Edges : e.tgt \in to_remove => e \in DownEdges
<1>1. /\ IInv /\ Restructuring /\ merge_pos = Len(out_edges) + 1
  BY DEF EndRound, FinishRestructure, DistanceInv, UnpackInv, Restructuring
<1>2. ASSUME NEW e \in Edges, e.src \in to_remove \/ e.tgt \in to_remove
      PROVE  e \in edges_dump
  <2>1. PICK k \in DOMAIN out_edges : e = out_edges[k]
    BY DEF Edges
  <2>2. k < merge_pos
    BY <1>1, <2>1, MergeTypes, LenProperties
  <2> QED
    BY <1>2, <2>1, <2>2 DEF DistanceInv, UnpackInv, LaidAside, Stays
<1>3. \A m \in to_remove : \A n \in nodes : node_levels[m] < node_levels[n]
  <2>1. /\ \A m \in to_remove : node_levels[m] = next_lvl - 1
        /\ \A n \in nodes : node_levels[n] = NO_LVL
    BY <1>1 DEF IInv, LevelsGiven, Contracted
  <2>2. next_lvl \in 0..NO_LVL /\ NO_LVL \in Nat
    BY <1>1, SizeAssumption DEF IInv, VariableTypes, GraphTypeOK, Uint, NO_LVL
  <2> QED
    BY <2>1, <2>2
<1>4. \A e \in Edges : /\ e.src \in to_remove => e.tgt \in nodes
                       /\ e.tgt \in to_remove => e.src \in nodes
  BY <1>1, RemainingNodes
<1>5. ASSUME NEW e \in Edges, e.src \in to_remove
      PROVE  e \in UpEdges
  BY <1>2, <1>3, <1>4, <1>5 DEF UpEdges, IsUp
<1>6. ASSUME NEW e \in Edges, e.tgt \in to_remove
      PROVE  e \in DownEdges
  <2>1. node_levels[e.tgt] < node_levels[e.src] /\ e \in edges_dump
    BY <1>2, <1>3, <1>4, <1>6
  <2>2. node_levels[e.src] > node_levels[e.tgt]
    BY <2>1
  <2> QED
    BY <2>1, <2>2 DEF DownEdges, IsUp
<1> QED
  BY <1>5, <1>6

(* The nodes that stay keep their distances.                               *)
LEMMA EndRoundKeepsDistances ==
  ASSUME DistanceInv, EndRound
  PROVE  /\ Edges' = MergedEdges /\ EdgesRead' = EdgesRead /\ Remaining' = nodes
         /\ Remaining = nodes \cup to_remove
         /\ \A u, v \in nodes : \A d \in Nat :
              <<u, v, d>> \in Distances(MergedEdges) <=> <<u, v, d>> \in Distances(Edges)
<1>1. /\ IInv /\ Restructuring /\ ~Restructuring'
      /\ out_edges' = new_edge_vec /\ UNCHANGED <<input_edges, node_levels, nodes>>
  BY DEF EndRound, FinishRestructure, DistanceInv, UnpackInv, Restructuring
<1>2. Edges' = MergedEdges /\ EdgesRead' = EdgesRead
  BY <1>1 DEF Edges, MergedEdges, EdgesRead
<1>3. /\ Remaining = nodes \cup to_remove /\ nodes \cap to_remove = {}
      /\ Remaining \in SUBSET Nodes /\ nodes = {n \in Nodes : ~Contracted(n)}
  BY <1>1, RemainingNodes DEF IInv, LevelsGiven
<1>4. Remaining' = nodes
  BY <1>1, <1>3 DEF Remaining, Contracted
<1>5. nodes \subseteq Nodes \ to_remove
  BY <1>3
<1>6. \A u, v \in nodes : \A d \in Nat :
        <<u, v, d>> \in Distances(MergedEdges) <=> <<u, v, d>> \in Distances(Edges)
  BY <1>5, MergedMakeUp, StayingKeepDistances
<1> QED
  BY <1>2, <1>3, <1>4, <1>6

(* The invariant holds again.                                              *)
LEMMA EndRoundKeepsWays ==
  ASSUME DistanceInv, EndRound
  PROVE  Bounded' /\ SameDistances' /\ EdgesAreWays' /\ MergeCovers' /\ WaysGoUpAndDown'
         /\ input_edges' \in InputGraphs
<1>1. /\ IInv /\ Restructuring /\ ~Restructuring' /\ phase # "round"
      /\ UNCHANGED <<input_edges, edges_dump, node_levels, mode>>
      /\ round' = IF mode = "quick" THEN round + 1 ELSE round
  BY DEF EndRound, FinishRestructure, DistanceInv, UnpackInv, Restructuring
<1>2. /\ Edges' = MergedEdges /\ EdgesRead' = EdgesRead /\ Remaining' = nodes
      /\ Remaining = nodes \cup to_remove
      /\ \A u, v \in nodes : \A d \in Nat :
           <<u, v, d>> \in Distances(MergedEdges) <=> <<u, v, d>> \in Distances(Edges)
  BY EndRoundKeepsDistances
<1>3. SameDistances'
  BY <1>2 DEF DistanceInv, SameDistances
<1>4. EdgesAreWays' /\ MergeCovers'
  BY <1>1, <1>2 DEF DistanceInv, EdgesAreWays, MergeCovers
<1>5. Bounded'
  <2>1. PICK bound \in [0..QuickMaxRounds -> Uint] :
          BoundsLengths(bound, EdgesRead) /\ LengthsWithin(bound)
    BY DEF DistanceInv, Bounded
  <2>2. LongestEdge(bound)' = LongestShortcut(bound)
    <3>1. round \in Int
      BY <1>1, QuickAssumption DEF IInv, VariableTypes
    <3>2. CASE mode = "quick"
      <4>1. mode' = "quick" /\ round' = round + 1
        BY <1>1, <3>2
      <4>2. LongestEdge(bound)' = bound[round' - 1]
        BY <4>1 DEF LongestEdge
      <4>3. LongestShortcut(bound) = bound[round]
        BY <3>2 DEF LongestShortcut
      <4>4. round' - 1 = round
        BY <3>1, <4>1
      <4> QED
        BY <4>2, <4>3, <4>4
    <3>3. CASE mode # "quick"
      BY <1>1, <3>3 DEF LongestEdge, LongestShortcut
    <3> QED
      BY <3>2, <3>3
  <2>3. LengthsWithin(bound)'
    BY <1>1, <1>2, <2>1, <2>2 DEF LengthsWithin
  <2>4. BoundsLengths(bound, EdgesRead)'
    BY <1>2, <2>1 DEF BoundsLengths
  <2> QED
    BY <2>3, <2>4 DEF Bounded
<1>6. UpEdges' = UpEdges /\ DownEdges' = DownEdges
  BY <1>1 DEF UpEdges, DownEdges, IsUp
<1>7. WaysGoUpAndDown'
  <2>1. EdgeSet(UpEdges) /\ EdgeSet(DownEdges) /\ UpEdges \in SUBSET UpEdges /\ DownEdges \in SUBSET DownEdges
    BY <1>1, GraphEdges
  <2>2. MakesUp(MergedEdges, Edges, to_remove)
    BY MergedMakeUp
  <2>3. /\ \A e \in Edges : e.src \in to_remove => e \in UpEdges
        /\ \A e \in Edges : e.tgt \in to_remove => e \in DownEdges
    BY LeftUpAndDown
  <2>4. ASSUME NEW u \in Nodes, NEW v \in Nodes, NEW d \in Nat, <<u, v, d>> \in Distances(EdgesRead)
        PROVE  UpAndDown(UpEdges, MergedEdges, DownEdges, u, v, d)
    <3>1. UpAndDown(UpEdges, Edges, DownEdges, u, v, d)
      BY <2>4 DEF DistanceInv, WaysGoUpAndDown
    <3> QED
      BY <2>1, <2>2, <2>3, <3>1, StillUpAndDown
  <2> QED
    BY <1>2, <1>6, <2>4 DEF WaysGoUpAndDown
<1> QED
  BY <1>1, <1>3, <1>4, <1>5, <1>7 DEF DistanceInv

-----------------------------------------------------------------------------
(* The invariant.                                                          *)

(* It holds for the graph that was read.                                   *)
LEMMA InitDistances ==
  ASSUME LengthsFit
  PROVE  AnyInit => DistanceInv
<1> SUFFICES ASSUME AnyInit PROVE DistanceInv
  OBVIOUS
<1>1. /\ UnpackInv /\ LoopInv /\ IInv
      /\ input_edges \in InputGraphs /\ out_edges = input_edges
      /\ round = 1 /\ phase = "round" /\ ~Restructuring
      /\ edges_dump = {}
  BY InitUnpacks, InitLoop DEF AnyInit, GraphInit, Restructuring, UnpackInv
<1>2. Edges = EdgesRead /\ EdgeSet(Edges)
  BY <1>1, GraphEdges DEF Edges, EdgesRead
<1>3. Bounded
  <2>1. PICK bound \in [0..QuickMaxRounds -> Uint] :
          BoundsLengths(bound, EdgesRead) /\ (QueriesFit => 3 * bound[QuickMaxRounds] < NO_DIST)
    <3>1. ASSUME QueriesFit
          PROVE  \E bound \in [0..QuickMaxRounds -> Uint] :
                   BoundsLengths(bound, EdgesRead) /\ 3 * bound[QuickMaxRounds] < NO_DIST
      BY <1>1, <3>1 DEF QueriesFit, EdgesRead
    <3>2. \E bound \in [0..QuickMaxRounds -> Uint] : BoundsLengths(bound, EdgesRead)
      BY <1>1 DEF LengthsFit, EdgesRead
    <3> QED
      BY <3>1, <3>2
  <2>2. \A e \in Edges : e.dist <= LongestEdge(bound)
    <3>1. /\ \A k \in 0..QuickMaxRounds : bound[k] \in Nat /\ bound[k] <= bound[QuickMaxRounds]
          /\ 0 \in 0..QuickMaxRounds /\ QuickMaxRounds \in 0..QuickMaxRounds
      BY <2>1, BoundsGrow, QuickAssumption
    <3>2. bound[0] \in Nat /\ LongestEdge(bound) \in Nat /\ bound[0] <= LongestEdge(bound)
      BY <1>1, <3>1 DEF LongestEdge
    <3>3. \A e \in Edges : e.dist \in Nat /\ e.dist <= bound[0]
      BY <1>2, <2>1 DEF BoundsLengths, EdgeSet
    <3> QED
      BY <3>2, <3>3
  <2>3. LengthsWithin(bound)
    BY <1>1, <2>1, <2>2 DEF LengthsWithin
  <2> QED
    BY <2>1, <2>3 DEF Bounded
<1>4. SameDistances /\ EdgesAreWays /\ MergeCovers
  BY <1>1, <1>2 DEF SameDistances, EdgesAreWays, MergeCovers
<1>5. WaysGoUpAndDown
  <2> SUFFICES ASSUME NEW u \in Nodes, NEW v \in Nodes, NEW d \in Nat, <<u, v, d>> \in Distances(EdgesRead)
               PROVE  UpAndDown(UpEdges, Edges, DownEdges, u, v, d)
    BY DEF WaysGoUpAndDown
  <2>1. /\ <<u, u, 0>> \in Distances(UpEdges) /\ <<v, v, 0>> \in Distances(DownEdges)
    BY <1>1, GraphEdges, DistancesTriangular DEF Triangular
  <2>2. /\ AtMost(Distances(UpEdges), u, u, 0) /\ AtMost(Distances(DownEdges), v, v, 0)
        /\ AtMost(Distances(Edges), u, v, d)
    BY <1>2, <2>1 DEF AtMost
  <2>3. 0 + d + 0 <= d /\ 0 \in Nat
    OBVIOUS
  <2> QED
    BY <2>2, <2>3 DEF UpAndDown
<1> QED
  BY <1>1, <1>3, <1>4, <1>5 DEF DistanceInv

(* The searches of any round stay in this range.                           *)
LEMMA LengthsOfGraph ==
  ASSUME DistanceInv
  PROVE  /\ Edges \in SUBSET CHEdge
         /\ \E S \in SUBSET Nodes : \E bound : ShortLengths(Edges, S, bound)
<1>1. IInv /\ SameDistances
  BY DEF DistanceInv, UnpackInv
<1>2. PICK bound \in [0..QuickMaxRounds -> Uint] :
        BoundsLengths(bound, EdgesRead) /\ LengthsWithin(bound)
  BY DEF DistanceInv, Bounded
<1>3. ShortLengths(Edges, Remaining, bound[QuickMaxRounds])
  BY <1>1, <1>2, GraphFits
<1> QED
  BY <1>1, <1>3, RemainingNodes, GraphEdges

(* Every step keeps it.                                                    *)
LEMMA AnyKeepsDistances == DistanceInv /\ [AnyNext]_vars => DistanceInv'
<1> SUFFICES ASSUME DistanceInv, [AnyNext]_vars PROVE DistanceInv'
  OBVIOUS
<1>0. UnpackInv' /\ LoopInv' /\ IInv'
  BY AnyKeepsUnpacking, AnyKeepsLoop DEF DistanceInv, UnpackInv
<1> DEFINE Kept == Bounded /\ SameDistances /\ EdgesAreWays /\ MergeCovers /\ WaysGoUpAndDown
                   /\ input_edges \in InputGraphs
<1> SUFFICES Kept' /\ (phase' = "contracted" => nodes' = {})
  BY <1>0 DEF DistanceInv
<1>1. CASE \/ StartRound \/ QuickContractReturns \/ ContractReturns \/ SelectNode
           \/ EnterParallelLoop \/ ConsiderNodes \/ EnterWithNodes
  <2>1. /\ UNCHANGED <<graph_vars, nodes>> /\ ~Restructuring /\ ~Restructuring'
        /\ UNCHANGED <<mode, round>> \/ mode' = "contract"
        /\ phase' = "contracted" => nodes' = {}
    BY <1>1 DEF StartRound, QuickContractReturns, ContractReturns, SelectNode, EnterParallelLoop,
                ConsiderNodes, EnterWithNodes, loop_vars, Restructuring
  <2> QED
    BY <1>0, <2>1, QuietStepKeeps
<1>2. ASSUME NEW t \in Threads, ContractNode(t) \/ LockInsert(t) \/ FinishInsert(t)
      PROVE  Kept' /\ (phase' = "contracted" => nodes' = {})
  <2>1. /\ UNCHANGED <<graph_vars, nodes>> /\ ~Restructuring /\ ~Restructuring'
        /\ UNCHANGED <<mode, round, phase>>
    BY <1>2 DEF ContractNode, LockInsert, FinishInsert, loop_vars, Restructuring,
                DistanceInv, UnpackInv, IInv, LocalsScoped
  <2>2. Kept'
    BY <1>0, <2>1, QuietStepKeeps
  <2> QED
    BY <2>1, <2>2 DEF DistanceInv
<1>3. CASE ChooseRemoveNodes \/ RemoveSome
  <2>1. RemoveSome
    BY <1>3, ChooseIsRemoveSome DEF DistanceInv, UnpackInv
  <2>2. phase' # "contracted"
    BY <2>1 DEF RemoveSome
  <2> QED
    BY <1>0, <2>1, <2>2, RemoveSomeKeepsWays
<1>4. CASE Restructure
  <2>1. Restructuring /\ UNCHANGED <<loop_vars, to_remove>> /\ phase' # "contracted"
    BY <1>4 DEF Restructure, Restructuring, loop_vars
  <2>2. MergeShortcut(to_remove) \/ MergeEdge(to_remove)
    BY <1>4 DEF Restructure
  <2> QED
    BY <2>1, <2>2, MergeShortcutKeepsWays, MergeEdgeKeepsWays
<1>5. CASE EndRound
  <2>1. phase' # "contracted"
    BY <1>5 DEF EndRound
  <2> QED
    BY <1>5, <2>1, EndRoundKeepsWays
<1>6. CASE Terminated \/ UNCHANGED vars
  <2>1. UNCHANGED vars /\ UNCHANGED <<phase, nodes>>
    BY <1>6 DEF Terminated, vars, loop_vars
  <2>2. Kept'
    BY <2>1, IdleKeeps
  <2> QED
    BY <2>1, <2>2 DEF DistanceInv
<1> QED
  BY <1>1, <1>2, <1>3, <1>4, <1>5, <1>6 DEF AnyNext, Next, StepWithinRound

(* The steps of the program are among them.                                *)
LEMMA NextKeepsDistances == DistanceInv /\ [Next]_vars => DistanceInv'
BY AnyKeepsDistances, NextIsAny

-----------------------------------------------------------------------------
(* What follows.                                                           *)

(* Without edges every node only has a way to itself.                      *)
LEMMA NoEdgesNoWays ==
  ASSUME NEW a \in Nodes, NEW b \in Nodes, NEW d \in Nat, AtMost(Distances({}), a, b, d)
  PROVE  a = b
<1> DEFINE R == {<<a, 0>>}
<1>1. EdgeSet({})
  BY DEF EdgeSet
<1>2. PICK c \in Nat : <<a, b, c>> \in Distances({})
  BY DEF AtMost
<1>3. FollowsEdges(R, {}, a, c)
  BY DEF FollowsEdges
<1> HIDE DEF R
<1>4. \E x \in Nat : x <= c /\ <<b, x>> \in R
  BY <1>1, <1>2, <1>3, FollowingFinds
<1> QED
  BY <1>4 DEF R

(* No way along the edges that were laid aside is shorter than in the      *)
(* input.                                                                  *)
LEMMA LaidAsideNoShorter ==
  ASSUME DistanceInv
  PROVE  \A D \in {Distances(UpEdges), Distances(DownEdges)} :
           \A u, v \in Nodes : \A d \in Nat :
             <<u, v, d>> \in D => AtMost(Distances(EdgesRead), u, v, d)
<1>1. EdgeSet(EdgesRead) /\ EdgeSet(UpEdges) /\ EdgeSet(DownEdges)
  BY GraphEdges DEF DistanceInv, UnpackInv
<1>2. /\ \A e \in UpEdges : AtMost(Distances(EdgesRead), e.src, e.tgt, e.dist)
      /\ \A e \in DownEdges : AtMost(Distances(EdgesRead), e.src, e.tgt, e.dist)
  BY DEF UpEdges, DownEdges, DistanceInv, EdgesAreWays
<1>3. NoShorter(UpEdges, EdgesRead) /\ NoShorter(DownEdges, EdgesRead)
  BY <1>1, <1>2, EdgesNoShorter
<1> QED
  BY <1>3 DEF NoShorter

(* When all nodes are contracted, going up and down gives the distances of *)
(* the input.                                                              *)
LEMMA ContractedAnswers == DistanceInv => HierarchyAnswersQueries
<1> SUFFICES ASSUME DistanceInv, phase = "contracted"
             PROVE  Shortest(Joined(Distances(UpEdges), Distances(DownEdges))) = Distances(EdgesRead)
  BY DEF HierarchyAnswersQueries
<1> DEFINE D == Distances(EdgesRead)
           A == Distances(UpEdges)
           B == Distances(DownEdges)
           J == Joined(A, B)
<1>1. IInv /\ Edges = {}
  <2>1. IInv /\ nodes = {} /\ ~Restructuring
    BY DEF DistanceInv, UnpackInv, Restructuring
  <2> QED
    BY <2>1 DEF IInv, EdgesJoinNodes
<1>2. Triangular(D) /\ Triangular(A) /\ Triangular(B)
  BY <1>1, GraphEdges, DistancesTriangular
<1>3. /\ \A u, v \in Nodes : \A d \in Nat : <<u, v, d>> \in A => AtMost(D, u, v, d)
      /\ \A u, v \in Nodes : \A d \in Nat : <<u, v, d>> \in B => AtMost(D, u, v, d)
  BY LaidAsideNoShorter
<1>4. \A u, v \in Nodes : \A d \in Nat :
        <<u, v, d>> \in D => UpAndDown(UpEdges, {}, DownEdges, u, v, d)
  BY <1>1 DEF DistanceInv, WaysGoUpAndDown
<1>5. A \in SUBSET Triples /\ B \in SUBSET Triples
  BY <1>2 DEF Triangular
<1> HIDE DEF D
<1>6. ASSUME NEW u \in Nodes, NEW v \in Nodes, NEW d \in Nat, <<u, v, d>> \in D
      PROVE  \E a \in Nodes : \E x, z \in Nat : <<u, a, x>> \in A /\ <<a, v, z>> \in B /\ x + z <= d
  <2>1. UpAndDown(UpEdges, {}, DownEdges, u, v, d)
    BY <1>4, <1>6
  <2>2. PICK a, b \in Nodes : \E x, y, z \in Nat :
          /\ AtMost(A, u, a, x) /\ AtMost(Distances({}), a, b, y) /\ AtMost(B, b, v, z)
          /\ x + y + z <= d
    BY <2>1 DEF UpAndDown
  <2>3. PICK x, y, z \in Nat :
          /\ AtMost(A, u, a, x) /\ AtMost(Distances({}), a, b, y) /\ AtMost(B, b, v, z)
          /\ x + y + z <= d
    BY <2>2
  <2>4. a = b
    BY <2>3, NoEdgesNoWays
  <2>5. PICK x1 \in Nat : <<u, a, x1>> \in A /\ x1 <= x
    BY <2>3 DEF AtMost
  <2>6. PICK z1 \in Nat : <<a, v, z1>> \in B /\ z1 <= z
    BY <2>3, <2>4 DEF AtMost
  <2>7. x1 + z1 <= d
    BY <2>3, <2>5, <2>6
  <2> QED
    BY <2>5, <2>6, <2>7
<1> HIDE DEF A, B
<1>7. /\ J \subseteq Triples
      /\ \A u, v, w \in Nodes : \A c, d \in Nat :
           <<u, v, c>> \in A /\ <<v, w, d>> \in B => <<u, w, c + d>> \in J
      /\ \A u, w \in Nodes : \A d \in Nat :
           <<u, w, d>> \in J =>
             \E v \in Nodes : \E a, b \in Nat : <<u, v, a>> \in A /\ <<v, w, b>> \in B /\ d = a + b
  BY <1>5, JoinedProperties
<1> HIDE DEF J
<1>8. ASSUME NEW u \in Nodes, NEW v \in Nodes, NEW d \in Nat, <<u, v, d>> \in J
      PROVE  AtMost(D, u, v, d)
  <2>1. PICK w \in Nodes : \E a, b \in Nat : <<u, w, a>> \in A /\ <<w, v, b>> \in B /\ d = a + b
    BY <1>7, <1>8
  <2>2. PICK a, b \in Nat : <<u, w, a>> \in A /\ <<w, v, b>> \in B /\ d = a + b
    BY <2>1
  <2>3. AtMost(D, u, w, a) /\ AtMost(D, w, v, b)
    BY <1>3, <2>2
  <2> QED
    BY <1>2, <2>2, <2>3 DEF Triangular
<1>9. ASSUME NEW u \in Nodes, NEW v \in Nodes, NEW d \in Nat, <<u, v, d>> \in D
      PROVE  <<u, v, d>> \in J
  <2>1. PICK a \in Nodes : \E x, z \in Nat : <<u, a, x>> \in A /\ <<a, v, z>> \in B /\ x + z <= d
    BY <1>6, <1>9
  <2>2. PICK x, z \in Nat : <<u, a, x>> \in A /\ <<a, v, z>> \in B /\ x + z <= d
    BY <2>1
  <2>3. <<u, v, x + z>> \in J /\ x + z \in Nat
    BY <1>7, <2>2
  <2>4. PICK c \in Nat : <<u, v, c>> \in D /\ c <= x + z
    BY <1>8, <2>3 DEF AtMost
  <2>5. c = d
    BY <1>2, <1>9, <2>4 DEF Triangular, OneDistance
  <2>6. x + z = d
    BY <2>2, <2>4, <2>5
  <2> QED
    BY <2>3, <2>6
<1>10. D \subseteq Triples /\ \A t \in Triples : /\ t = <<t[1], t[2], t[3]>>
                                                /\ t[1] \in Nodes /\ t[2] \in Nodes /\ t[3] \in Nat
  BY <1>2 DEF Triangular, Triples
<1>11. ASSUME NEW t \in D
       PROVE  t \in Shortest(J)
  <2>1. t \in J
    BY <1>9, <1>10
  <2>2. ASSUME NEW o \in J, o[1] = t[1], o[2] = t[2]
        PROVE  t[3] <= o[3]
    <3>1. o = <<t[1], t[2], o[3]>> /\ o[3] \in Nat
      BY <1>7, <1>10, <2>2
    <3>2. t = <<t[1], t[2], t[3]>> /\ t[1] \in Nodes /\ t[2] \in Nodes /\ t[3] \in Nat
      BY <1>10
    <3>3. AtMost(D, t[1], t[2], o[3])
      BY <1>8, <3>1, <3>2
    <3>4. PICK c \in Nat : <<t[1], t[2], c>> \in D /\ c <= o[3]
      BY <3>3 DEF AtMost
    <3>5. c = t[3]
      BY <1>2, <3>2, <3>4 DEF Triangular, OneDistance
    <3> QED
      BY <3>4, <3>5
  <2> QED
    BY <2>1, <2>2 DEF Shortest
<1>12. ASSUME NEW t \in Shortest(J)
       PROVE  t \in D
  <2>1. t \in J /\ \A o \in J : o[1] = t[1] /\ o[2] = t[2] => t[3] <= o[3]
    BY DEF Shortest
  <2>2. t \in Triples /\ t = <<t[1], t[2], t[3]>> /\ t[1] \in Nodes /\ t[2] \in Nodes /\ t[3] \in Nat
    BY <1>7, <1>10, <2>1
  <2>3. PICK c \in Nat : <<t[1], t[2], c>> \in D /\ c <= t[3]
    BY <1>8, <2>1, <2>2 DEF AtMost
  <2>4. <<t[1], t[2], c>> \in J
    BY <1>9, <2>2, <2>3
  <2>5. t[3] <= c
    BY <2>1, <2>4
  <2>6. c = t[3]
    BY <2>2, <2>3, <2>5
  <2> QED
    BY <2>2, <2>3, <2>6
<1>13. Shortest(J) = D
  BY <1>11, <1>12
<1> QED
  BY <1>13 DEF D, J, A, B

(* In the finished hierarchy going up from one node and down to another    *)
(* gives the distances of the graph that was read: for every graph, every  *)
(* number of threads, and whichever nodes the rounds take.                 *)
THEOREM QueriesAnswered ==
  ASSUME LengthsFit
  PROVE  Spec => []HierarchyAnswersQueries
<1>1. Init => DistanceInv
  BY InitIsAny, InitDistances
<1> QED
  BY <1>1, NextKeepsDistances, ContractedAnswers, PTL DEF Spec

(* The shortcuts of a node do not depend on the direction of the search.   *)
LEMMA EitherDirectionSame == DistanceInv => DirectionIrrelevant
<1> SUFFICES ASSUME DistanceInv, NEW n \in nodes
             PROVE  UNION {CalcShortcuts(e, n, "OUT") : e \in NodeEdges(n, "IN")}
                      = UNION {CalcShortcuts(e, n, "IN") : e \in NodeEdges(n, "OUT")}
  BY DEF DirectionIrrelevant
<1>1. IInv /\ n \in Nodes /\ Remaining \in SUBSET Nodes
  BY RemainingNodes DEF DistanceInv, UnpackInv, IInv, VariableTypes
<1>2. PICK bound \in [0..QuickMaxRounds -> Uint] :
        BoundsLengths(bound, EdgesRead) /\ LengthsWithin(bound)
  BY DEF DistanceInv, Bounded
<1>3. ShortLengths(Edges, Remaining, bound[QuickMaxRounds])
  BY <1>1, <1>2, GraphFits DEF DistanceInv
<1>4. Edges \in SUBSET CHEdge /\ \A e \in Edges : NoLoop(e)
  BY <1>1, GraphEdges DEF IInv, NoLoops
<1>5. ASSUME NEW type \in EdgeType
      PROVE  UNION {CalcShortcuts(e, n, type) : e \in NodeEdges(n, Opposite(type))} = NeededShortcuts(n)
  BY <1>1, <1>3, <1>4, EitherDirectionFinds
<1>6. "OUT" \in EdgeType /\ "IN" \in EdgeType /\ Opposite("OUT") = "IN" /\ Opposite("IN") = "OUT"
  BY DEF EdgeType, Opposite
<1> QED
  BY <1>5, <1>6

(* _contract() may search for shorter ways in either direction, the        *)
(* shortcuts it finds are the same: where it counts the edges to choose    *)
(* the direction, nothing but the running time depends on the choice.      *)
THEOREM EitherDirection ==
  ASSUME LengthsFit
  PROVE  Spec => []DirectionIrrelevant
<1>1. Init => DistanceInv
  BY InitIsAny, InitDistances
<1> QED
  BY <1>1, NextKeepsDistances, EitherDirectionSame, PTL DEF Spec

-----------------------------------------------------------------------------
(* The construction implements the contraction of the nodes.               *)

(* Only the end of a round changes what remains.                           *)
LEMMA RemainingUnchanged ==
  ASSUME DistanceInv, [AnyNext]_vars, ~EndRound
  PROVE  Remaining' = Remaining /\ Edges' = Edges
<1>0. IInv
  BY DEF DistanceInv, UnpackInv
<1>1. CASE StartRound \/ QuickContractReturns \/ ContractReturns \/ SelectNode \/ EnterParallelLoop
  BY <1>1 DEF StartRound, QuickContractReturns, ContractReturns, SelectNode, EnterParallelLoop,
              loop_vars, Restructuring, graph_vars, Remaining, Contracted, Edges
<1>2. ASSUME NEW t \in Threads, ContractNode(t) \/ LockInsert(t) \/ FinishInsert(t)
      PROVE  Remaining' = Remaining /\ Edges' = Edges
  BY <1>0, <1>2 DEF ContractNode, LockInsert, FinishInsert, loop_vars, Restructuring,
                    IInv, LocalsScoped, graph_vars, Remaining, Contracted, Edges
<1>3. CASE ChooseRemoveNodes
  BY <1>0, <1>3, ChooseIsRemoveSome, RemoveSomeKeepsDirections DEF ChooseRemoveNodes, BeginRestructure, Edges
<1>4. CASE Restructure
  BY <1>4 DEF Restructure, MergeShortcut, MergeEdge, loop_vars, Restructuring, Remaining, Contracted, Edges
<1>5. CASE Terminated \/ UNCHANGED vars
  BY <1>5 DEF Terminated, vars, loop_vars, graph_vars, Restructuring, Remaining, Contracted, Edges
<1>6. CASE ConsiderNodes
  BY <1>6 DEF ConsiderNodes, graph_vars, Restructuring, Remaining, Contracted, Edges
<1>7. CASE EnterWithNodes
  BY <1>7 DEF EnterWithNodes, graph_vars, Restructuring, Remaining, Contracted, Edges
<1>8. CASE RemoveSome
  BY <1>0, <1>8, RemoveSomeKeepsDirections DEF RemoveSome, BeginRestructure, Edges
<1> QED
  BY <1>1, <1>2, <1>3, <1>4, <1>5, <1>6, <1>7, <1>8 DEF AnyNext, Next, StepWithinRound

(* At the end of a round the nodes being removed leave, if there are any.  *)
LEMMA EndRoundContracts ==
  ASSUME DistanceInv, EndRound
  PROVE  Abstract!Contract
         \/ (Remaining' = Remaining
             /\ DistancesBetween(Remaining, Edges)' = DistancesBetween(Remaining, Edges))
<1>1. /\ Edges' = MergedEdges /\ Remaining' = nodes /\ Remaining = nodes \cup to_remove
      /\ \A u, v \in nodes : \A d \in Nat :
           <<u, v, d>> \in Distances(MergedEdges) <=> <<u, v, d>> \in Distances(Edges)
  BY EndRoundKeepsDistances
<1>2. IInv /\ Restructuring
  BY DEF EndRound, DistanceInv, UnpackInv, Restructuring
<1>3. nodes \cap to_remove = {} /\ nodes \subseteq Nodes
  BY <1>1, <1>2, RemainingNodes
<1>4. Distances(MergedEdges) \in SUBSET Triples /\ Distances(Edges) \in SUBSET Triples
  BY <1>2, GraphEdges, DistancesTriangular DEF Triangular
<1>5. \A t \in Triples : t = <<t[1], t[2], t[3]>> /\ t[3] \in Nat
  BY DEF Triples
<1>6. DistancesBetween(nodes, MergedEdges) = DistancesBetween(nodes, Edges)
  BY <1>1, <1>4, <1>5 DEF DistancesBetween
<1>7. DistancesBetween(Remaining, Edges)' = DistancesBetween(nodes, Edges)
  BY <1>1, <1>6 DEF DistancesBetween
<1>8. DistancesBetween(nodes, Edges)
        = {t \in DistancesBetween(Remaining, Edges) : t[1] \in nodes /\ t[2] \in nodes}
  BY <1>1 DEF DistancesBetween
<1>9. CASE to_remove = {}
  BY <1>1, <1>7, <1>9
<1>10. CASE to_remove # {}
  <2>1. to_remove \in (SUBSET Remaining) \ {{}} /\ Remaining' = Remaining \ to_remove
    <3>1. Remaining \ to_remove = nodes
      BY <1>1, <1>3
    <3> QED
      BY <1>1, <1>10, <3>1
  <2>2. DistancesBetween(Remaining, Edges)'
          = {t \in DistancesBetween(Remaining, Edges) : t[1] \in Remaining' /\ t[2] \in Remaining'}
    BY <1>1, <1>7, <1>8
  <2> QED
    BY <2>1, <2>2 DEF Abstract!Contract, Abstract!Between
<1> QED
  BY <1>9, <1>10

(* Some of the nodes leave and the others keep their distances, or nothing *)
(* changes.                                                                *)
ContractsOrStays ==
  \/ \E S \in (SUBSET Remaining) \ {{}} :
       /\ Remaining' = Remaining \ S
       /\ DistancesBetween(Remaining, Edges)'
            = {t \in DistancesBetween(Remaining, Edges) : t[1] \in Remaining' /\ t[2] \in Remaining'}
  \/ UNCHANGED <<Remaining, DistancesBetween(Remaining, Edges)>>

(* Every step does, whichever nodes the rounds take.                       *)
LEMMA StepsContract == DistanceInv /\ [AnyNext]_vars => ContractsOrStays
<1> SUFFICES ASSUME DistanceInv, [AnyNext]_vars PROVE ContractsOrStays
  OBVIOUS
<1>1. CASE EndRound
  BY <1>1, EndRoundContracts DEF ContractsOrStays, Abstract!Contract, Abstract!Between
<1>2. CASE ~EndRound
  <2>1. Remaining' = Remaining /\ Edges' = Edges
    BY <1>2, RemainingUnchanged
  <2>2. DistancesBetween(Remaining, Edges)' = DistancesBetween(Remaining, Edges)
    BY <2>1 DEF DistancesBetween
  <2> QED
    BY <2>1, <2>2 DEF ContractsOrStays
<1> QED
  BY <1>1, <1>2

(* The construction does what Contraction promises: whatever the rounds    *)
(* take, the nodes that stay keep their distances.                         *)
THEOREM ConstructionContracts ==
  ASSUME LengthsFit
  PROVE  Spec => ImplementsContraction
<1>1. Init => DistanceInv
  BY InitIsAny, InitDistances
<1>2. ASSUME Init PROVE Abstract!Init
  <2>1. /\ DistanceInv /\ input_edges \in InputGraphs /\ out_edges = input_edges /\ ~Restructuring
        /\ \A n \in Nodes : ~Contracted(n)
    BY <1>1, <1>2 DEF Init, GraphInit, Restructuring, Contracted
  <2>2. Remaining = Nodes /\ Edges = {input_edges[i] : i \in DOMAIN input_edges}
    BY <2>1 DEF Remaining, Edges
  <2>3. Distances(Edges) \in SUBSET Triples
    BY <2>1, GraphEdges, DistancesTriangular DEF Triangular, DistanceInv, UnpackInv
  <2>4. DistancesBetween(Nodes, Edges) = Distances(Edges)
    BY <2>3 DEF DistancesBetween, Triples
  <2> QED
    BY <2>1, <2>2, <2>4 DEF Abstract!Init
<1>3. DistanceInv /\ [Next]_vars => [Abstract!Contract]_<<Remaining, DistancesBetween(Remaining, Edges)>>
  BY NextIsAny, StepsContract DEF ContractsOrStays, Abstract!Contract, Abstract!Between
<1> QED
  BY <1>1, <1>2, <1>3, NextKeepsDistances, PTL DEF Spec, ImplementsContraction, Abstract!Spec

-----------------------------------------------------------------------------
(* What the edges of the finished hierarchy are good for.                  *)

(* E answers queries that go up and then down, and is itself a graph with  *)
(* the distances of the one that was read.                                 *)
UpPart(E) == {e \in E : IsUp(e, "OUT")}

DownPart(E) == {e \in E : IsUp(e, "IN")}

Complete(E) ==
  /\ EdgeSet(E)
  /\ Shortest(Joined(Distances(UpPart(E)), Distances(DownPart(E)))) = Distances(EdgesRead)
  /\ Distances(E) = Distances(EdgesRead)

(* It is so for what was laid aside when the last node is contracted.      *)
LEMMA ContractedComplete ==
  ASSUME DistanceInv, phase = "contracted"
  PROVE  Complete(edges_dump)
<1> DEFINE D == Distances(EdgesRead)
           A == Distances(edges_dump)
<1>1. Shortest(Joined(Distances(UpPart(edges_dump)), Distances(DownPart(edges_dump)))) = D
  BY ContractedAnswers DEF HierarchyAnswersQueries, UpPart, DownPart, UpEdges, DownEdges
<1>2. IInv /\ Edges = {}
  <2>1. IInv /\ nodes = {} /\ ~Restructuring
    BY DEF DistanceInv, UnpackInv, Restructuring
  <2> QED
    BY <2>1 DEF IInv, EdgesJoinNodes
<1>3. EdgeSet(edges_dump) /\ EdgeSet(EdgesRead)
  BY <1>2, GraphEdges, NodesAreUint DEF EdgeSet, CHEdge
<1>4. Triangular(D) /\ Triangular(A)
  BY <1>3, DistancesTriangular
<1>5. NoShorter(edges_dump, EdgesRead)
  BY <1>3, EdgesNoShorter DEF DistanceInv, EdgesAreWays
<1> HIDE DEF D, A
<1>6. \A u, v \in Nodes : \A d \in Nat : <<u, v, d>> \in A => AtMost(D, u, v, d)
  BY <1>5 DEF NoShorter, A, D
<1>7. ASSUME NEW u \in Nodes, NEW v \in Nodes, NEW d \in Nat, <<u, v, d>> \in D
      PROVE  AtMost(A, u, v, d)
  <2>1. UpAndDown(UpEdges, {}, DownEdges, u, v, d)
    BY <1>2, <1>7 DEF DistanceInv, WaysGoUpAndDown, D
  <2>2. PICK a, b \in Nodes : \E x, y, z \in Nat :
          /\ AtMost(Distances(UpEdges), u, a, x) /\ AtMost(Distances({}), a, b, y)
          /\ AtMost(Distances(DownEdges), b, v, z)
          /\ x + y + z <= d
    BY <2>1 DEF UpAndDown
  <2>3. PICK x, y, z \in Nat :
          /\ AtMost(Distances(UpEdges), u, a, x) /\ AtMost(Distances({}), a, b, y)
          /\ AtMost(Distances(DownEdges), b, v, z)
          /\ x + y + z <= d
    BY <2>2
  <2>4. a = b
    BY <2>3, NoEdgesNoWays
  <2>5. UpEdges \in SUBSET edges_dump /\ DownEdges \in SUBSET edges_dump
    BY DEF UpEdges, DownEdges
  <2>6. AtMost(A, u, a, x)
    BY <1>3, <2>3, <2>5, MoreEdges DEF A
  <2>7. AtMost(A, a, v, z)
    BY <1>3, <2>3, <2>4, <2>5, MoreEdges DEF A
  <2>8. AtMost(A, u, v, x + z) /\ x + z \in Nat /\ x + z <= d
    BY <1>4, <2>3, <2>6, <2>7 DEF Triangular
  <2> QED
    BY <2>8, AtMostWeakens
<1>8. ASSUME NEW u \in Nodes, NEW v \in Nodes, NEW d \in Nat
      PROVE  <<u, v, d>> \in A <=> <<u, v, d>> \in D
  <2>1. ASSUME <<u, v, d>> \in A PROVE <<u, v, d>> \in D
    <3>1. PICK c \in Nat : <<u, v, c>> \in D /\ c <= d
      BY <1>6, <2>1 DEF AtMost
    <3>2. PICK b \in Nat : <<u, v, b>> \in A /\ b <= c
      BY <1>7, <3>1 DEF AtMost
    <3>3. b = d
      BY <1>4, <2>1, <3>2 DEF Triangular, OneDistance
    <3> QED
      BY <3>1, <3>2, <3>3
  <2>2. ASSUME <<u, v, d>> \in D PROVE <<u, v, d>> \in A
    <3>1. PICK c \in Nat : <<u, v, c>> \in A /\ c <= d
      BY <1>7, <2>2 DEF AtMost
    <3>2. PICK b \in Nat : <<u, v, b>> \in D /\ b <= c
      BY <1>6, <3>1 DEF AtMost
    <3>3. b = d
      BY <1>4, <2>2, <3>2 DEF Triangular, OneDistance
    <3> QED
      BY <3>1, <3>2, <3>3
  <2> QED
    BY <2>1, <2>2
<1>9. A = D
  <2>1. \A t \in A \cup D : \E u, v \in Nodes : \E d \in Nat : t = <<u, v, d>>
    BY <1>4 DEF Triangular, Triples
  <2> QED
    BY <1>8, <2>1
<1> QED
  BY <1>1, <1>3, <1>9 DEF Complete, A, D

(* It does not depend on ids and children.                                 *)
LEMMA SameArcsComplete ==
  ASSUME NEW E, NEW F, Arcs(E) = Arcs(F), Complete(E)
  PROVE  Complete(F)
<1> DEFINE U == {p \in Nodes \X Nodes : node_levels[p[1]] < node_levels[p[2]]}
           L == {p \in Nodes \X Nodes : node_levels[p[1]] > node_levels[p[2]]}
<1>1. EdgeSet(E) /\ EdgeSet(F)
  BY SameArcsChosen DEF Complete
<1>2. ASSUME NEW G, EdgeSet(G)
      PROVE  UpPart(G) = Joining(G, U) /\ DownPart(G) = Joining(G, L)
  BY <1>2 DEF UpPart, DownPart, IsUp, EdgeSet, Joining
<1> HIDE DEF U, L
<1>3. Arcs(UpPart(E)) = Arcs(UpPart(F)) /\ Arcs(DownPart(E)) = Arcs(DownPart(F))
  <2>1. ASSUME NEW P
        PROVE  Arcs(Joining(E, P)) = Arcs(Joining(F, P))
    BY SameArcsChosen
  <2>2. /\ UpPart(E) = Joining(E, U) /\ UpPart(F) = Joining(F, U)
        /\ DownPart(E) = Joining(E, L) /\ DownPart(F) = Joining(F, L)
    BY <1>1, <1>2
  <2> QED
    BY <2>1, <2>2
<1>4. /\ Distances(UpPart(E)) = Distances(UpPart(F)) /\ Distances(DownPart(E)) = Distances(DownPart(F))
      /\ Distances(E) = Distances(F)
  BY <1>3, SameArcsSameDistances
<1> QED
  BY <1>1, <1>4 DEF Complete
=============================================================================
