---------------------------- MODULE Prioritizers ----------------------------
(***************************************************************************)
(* The other way to construct a hierarchy, contract(nodes, prioritizer) in *)
(* ch_constructor.h with the prioritizers of prioritizers.h.  A round asks *)
(* the prioritizer for the nodes to contract and removes all of them.  The *)
(* parallel loop, restructure() and what they work on are those of         *)
(* CHConstructor, whose variable `nodes` is empty here: the prioritizer    *)
(* takes the vector of nodes away from the caller.                         *)
(***************************************************************************)
EXTENDS CHConstructorProperties

VARIABLES
  prioritizer_type,   \* ONE_BY_ONE or EDGE_DIFF
  prio_vec,           \* _prio_vec
  diffs               \* the edge differences of the independent set

prioritizer_vars == <<prioritizer_type, prio_vec, diffs>>
prioritized_vars == <<vars, prioritizer_vars>>

-----------------------------------------------------------------------------
(* _remove(): a removed node changes places with the last of those that    *)
(* are left, which is looked at next.  An iteration either drops a node or *)
(* passes one, so there are as many as nodes; left[k] is the position and  *)
(* the nodes that are left after k of them.                                *)
RemoveSkips(v, to_go) ==   \* mutant
  LET left[k \in 0..Len(v)] ==
        IF k = 0 THEN <<1, v>>
        ELSE LET i == left[k - 1][1]
                 w == left[k - 1][2]
             IN  IF i <= Len(w) /\ w[i] \in to_go
                 THEN <<i + 1, SubSeq([w EXCEPT ![i] = w[Len(w)]], 1, Len(w) - 1)>>
                 ELSE <<i + 1, w>>
  IN  left[Len(v)][2]

RemoveNodes(v, to_go) ==
  LET left[k \in 0..Len(v)] ==
        IF k = 0 THEN <<1, v>>
        ELSE LET i == left[k - 1][1]
                 w == left[k - 1][2]
             IN  IF w[i] \in to_go
                 THEN <<i, SubSeq([w EXCEPT ![i] = w[Len(w)]], 1, Len(w) - 1)>>
                 ELSE <<i + 1, w>>
  IN  left[Len(v)][2]

(* calcIndependentSet() without a limit to the degree: the nodes in their  *)
(* order, but none that a node before it has marked.                       *)
IndependentSetByOutEdges(v) ==   \* mutant
  LET step(state, n) ==
        IF n \in state.marked THEN state
        ELSE [marked |-> state.marked \cup {n} \cup OutNeighbours(n), set |-> Append(state.set, n)]
  IN  FoldLeft(step, [marked |-> {}, set |-> <<>>], v).set

CalcIndependentSet(v) ==
  LET step(state, n) ==
        IF n \in state.marked THEN state
        ELSE [marked |-> state.marked \cup {n} \cup Neighbours(n), set |-> Append(state.set, n)]
  IN  FoldLeft(step, [marked |-> {}, set |-> <<>>], v).set

(* The nodes with at most the mean edge difference, in their order.        *)
DiffSum(v) == MapThenSumSet(LAMBDA m : diffs[m], Range(v))

BelowMeanDiff(v) ==   \* mutant
  LET add(low, n) == IF diffs[n] * Len(v) < DiffSum(v) THEN Append(low, n) ELSE low
  IN  FoldLeft(add, <<>>, v)

LowEdgeDiffNodes(v) ==
  LET add(low, n) == IF diffs[n] * Len(v) <= DiffSum(v) THEN Append(low, n) ELSE low
  IN  FoldLeft(add, <<>>, v)

(* The vector as std::sort() may leave it.                                 *)
SortedByInOutProduct(v) ==
  {w \in [DOMAIN v -> Range(v)] :
     /\ IsInjective(w)
     /\ \A i, j \in DOMAIN v : i < j => InOutProduct(w[i]) <= InOutProduct(w[j])}

-----------------------------------------------------------------------------
(* The caller may hand over the nodes in any order.                        *)
PrioritizedInit ==
  /\ GraphInit
  /\ mode = "contract" /\ phase = "round" /\ round = 1
  /\ nodes = {}
  /\ unvisited = {} /\ marked = {} /\ independent_set = <<>>
  /\ next_index = 1
  /\ pc = [t \in Threads |-> "idle"]
  /\ found = [t \in Threads |-> {}]
  /\ seen = [t \in Threads |-> {}]
  /\ mutex = NoThread
  /\ new_shortcuts = {}
  /\ edge_diffs = [n \in Nodes |-> 0]
  /\ to_remove = {}
  /\ prioritizer_type \in {"ONE_BY_ONE", "EDGE_DIFF"}
  /\ prio_vec \in {p \in [1..NrOfNodes -> Nodes] : IsInjective(p)}
  /\ diffs = <<>>

(* extractNextNodes(): the nodes of the next round leave the prioritizer.  *)
HandOut(next_nodes) ==
  /\ independent_set' = next_nodes
  /\ prio_vec' = RemoveNodes(prio_vec, Range(independent_set'))
  /\ diffs' = <<>>
  /\ phase' = "parallel" /\ next_index' = 1

(* The head of a round: hasNodesLeft() and _initVectors().                 *)
RoundStarts ==
  /\ phase = "round" /\ prio_vec # <<>>
  /\ new_shortcuts' = {} /\ to_remove' = {}
  /\ UNCHANGED <<graph_vars, mode, round, nodes, unvisited, marked, pc, found,
                 seen, mutex, edge_diffs, prioritizer_type>>

ChooseOne ==
  /\ RoundStarts
  /\ prioritizer_type = "ONE_BY_ONE"
  /\ HandOut(<<prio_vec[Len(prio_vec)]>>)

SortNodes ==
  /\ RoundStarts
  /\ prioritizer_type = "EDGE_DIFF"
  /\ prio_vec' \in SortedByInOutProduct(prio_vec)
  /\ independent_set' = CalcIndependentSet(prio_vec')
  /\ phase' = "edge_diffs"
  /\ UNCHANGED <<next_index, diffs>>

(* calcEdgeDiffs(), whose threads write to places of their own.            *)
CalcEdgeDiffs ==
  /\ phase = "edge_diffs"
  /\ diffs' = [n \in Chosen |-> Cardinality(ShortcutsOf(n)) - NrOfEdges(n)]
  /\ phase' = "choose"
  /\ UNCHANGED <<graph_vars, mode, round, nodes, select_vars, thread_vars,
                 to_remove, prioritizer_type, prio_vec>>

ChooseByEdgeDiff ==
  /\ phase = "choose"
  /\ HandOut(LowEdgeDiffNodes(independent_set))
  /\ UNCHANGED <<graph_vars, mode, round, nodes, unvisited, marked, pc, found, seen,
                 mutex, new_shortcuts, edge_diffs, to_remove, prioritizer_type>>

ParallelLoop ==
  /\ \E t \in Threads : ContractNode(t) \/ LockInsert(t) \/ FinishInsert(t)
  /\ UNCHANGED prioritizer_vars

(* _chooseAllForRemove()                                                   *)
RemoveAll ==
  /\ phase = "parallel" /\ LoopDone
  /\ to_remove' = Chosen
  /\ BeginRestructure(Chosen, new_shortcuts)
  /\ phase' = "restructure"
  /\ UNCHANGED <<mode, round, nodes, select_vars, thread_vars, prioritizer_vars>>

RestructureGraph ==
  /\ Restructure \/ EndRound
  /\ UNCHANGED prioritizer_vars

NoNodesLeft ==
  /\ phase = "round" /\ prio_vec = <<>>
  /\ phase' = "contracted"
  /\ UNCHANGED <<graph_vars, mode, round, nodes, select_vars, thread_vars,
                 to_remove, prioritizer_vars>>

AllContracted == phase = "contracted" /\ UNCHANGED prioritized_vars

PrioritizedNext ==
  \/ ChooseOne \/ SortNodes \/ CalcEdgeDiffs \/ ChooseByEdgeDiff
  \/ ParallelLoop \/ RemoveAll \/ RestructureGraph
  \/ NoNodesLeft \/ AllContracted

PrioritizedSpec ==
  PrioritizedInit /\ [][PrioritizedNext]_prioritized_vars /\ WF_prioritized_vars(PrioritizedNext)

-----------------------------------------------------------------------------
(* Between two rounds the prioritizer holds the nodes without a level, and *)
(* each of them once: no node is contracted twice or forgotten.            *)
NodesHandedOutOnce ==
  phase = "round" =>
    /\ Range(prio_vec) = {n \in Nodes : ~Contracted(n)}
    /\ Len(prio_vec) = Cardinality(Range(prio_vec))

(* The prioritizer runs out of nodes, and then all have a level: a round   *)
(* never comes back without a node.                                        *)
PrioritizerRunsOut == <>(phase = "contracted" /\ \A n \in Nodes : Contracted(n))
=============================================================================
