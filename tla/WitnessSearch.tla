--------------------------- MODULE WitnessSearch ---------------------------
(***************************************************************************)
(* The parallel loop of CHConstructor with the searches of its threads.    *)
(* Contracting a node takes one search for each start edge                 *)
(* (_contract(), _calcShortcuts() and _calcShortestDists() in              *)
(* ch_constructor.h), and a thread searches with the same ThreadData from  *)
(* start edge to start edge, node to node and round to round: it clears    *)
(* the labels the last search has listed, not all of them.                 *)
(*                                                                         *)
(* In CHConstructor a node is contracted in one step with a function that  *)
(* starts from clean labels.  ImplementsConstructor says that this is what *)
(* the steps of all threads, in any order, amount to.                      *)
(***************************************************************************)
EXTENDS CHConstructorProperties

VARIABLES
  job,           \* the locals of _contract() and the functions it calls
  thread_data,   \* _thread_data
  promised       \* history: what CHConstructor takes for the node's shortcuts

search_vars == <<job, thread_data, promised>>
witness_vars == <<vars, search_vars>>

PQElement(node, dist) == [node |-> node, dist |-> dist]

(* No edge is held by a thread that does not contract a node.              *)
NoEdge == InputEdge(NO_EID, 0, 0, 0)
NoJob == [node |-> NO_NID, type |-> "OUT", start_edges |-> {}, start_edge |-> NoEdge,
          top |-> PQElement(NO_NID, NO_DIST), edges |-> {}]

SearchInit ==
  /\ Init
  /\ job = [t \in Threads |-> NoJob]
  /\ thread_data = [t \in Threads |->
       [pq |-> {}, dists |-> [n \in Nodes |-> NO_DIST], reset_dists |-> {}]]
  /\ promised = [t \in Threads |-> {}]

Contracting(t) == pc[t] \in {"contract", "search"}

-----------------------------------------------------------------------------
(* _contract(): the direction is chosen, the start edges are those of the  *)
(* other direction.                                                        *)
TakeNode(t) ==
  /\ phase = "parallel" /\ mode = "contract" /\ pc[t] = "idle"
  /\ next_index <= Len(independent_set)
  /\ LET node == independent_set[next_index]
         type == SearchDirection(node)
     IN  /\ job' = [job EXCEPT ![t] =
              [NoJob EXCEPT !.node = node, !.type = type,
                 !.start_edges = {e \in NodeEdges(node, Opposite(type)) : NoLoop(e)}]]
         /\ promised' = [promised EXCEPT ![t] = ShortcutsOf(node)]
  /\ next_index' = next_index + 1
  /\ pc' = [pc EXCEPT ![t] = "contract"]
  /\ UNCHANGED <<graph_vars, loop_vars, select_vars, found, seen, mutex,
                 new_shortcuts, edge_diffs, to_remove, thread_data>>

(* The head of _calcShortestDists().                                       *)
LabelsAsTheyAre(td) == td.dists   \* mutant

ClearedLabels(td) == [n \in Nodes |-> IF n \in td.reset_dists THEN NO_DIST ELSE td.dists[n]]

StartSearch(t) ==
  /\ pc[t] = "contract"
  /\ \E e \in job[t].start_edges :
       LET start_node == OtherNode(e, Opposite(job[t].type))
       IN  /\ job' = [job EXCEPT ![t].start_edges = @ \ {e}, ![t].start_edge = e]
           /\ thread_data' = [thread_data EXCEPT ![t] =
                [pq |-> {PQElement(start_node, 0)},
                 dists |-> [ClearedLabels(thread_data[t]) EXCEPT ![start_node] = 0],
                 reset_dists |-> {start_node}]]
  /\ pc' = [pc EXCEPT ![t] = "search"]
  /\ UNCHANGED <<graph_vars, loop_vars, select_vars, next_index, found, seen,
                 mutex, new_shortcuts, edge_diffs, to_remove, promised>>

RadiusOfTargets(j) ==   \* mutant
  Max({e.dist : e \in Targets(j.start_edge, j.node, j.type)} \cup {0})

SearchRadius(j) ==
  Radius({e.dist : e \in Targets(j.start_edge, j.node, j.type)}, j.start_edge)

TopsWithinRadius(t) ==
  {top \in thread_data[t].pq :
     /\ \A o \in thread_data[t].pq : top.dist <= o.dist
     /\ WithinRadius(top.dist, SearchRadius(job[t]))}

(* The head of the search loop; the top is any of the elements with the    *)
(* least distance.  It is skipped if its node got a shorter one since.     *)
PopTop(t) ==
  /\ pc[t] = "search" /\ job[t].edges = {}
  /\ \E top \in TopsWithinRadius(t) :
       /\ thread_data' = [thread_data EXCEPT ![t].pq = @ \ {top}]
       /\ job' = IF thread_data[t].dists[top.node] # top.dist THEN job
                 ELSE [job EXCEPT ![t].top = top, ![t].edges = NodeEdges(top.node, job[t].type)]
  /\ UNCHANGED <<vars, promised>>

(* One edge of the top is relaxed.                                         *)
BetterOrAsGood(new_dist, dist) == new_dist <= dist   \* mutant

Better(new_dist, dist) == new_dist < dist

ListNothing(td, n) == td.reset_dists   \* mutant

ListForReset(td, n) == td.reset_dists \cup {n}

Relaxed(td, n, new_dist) ==
  IF Better(new_dist, td.dists[n])
  THEN [pq |-> td.pq \cup {PQElement(n, new_dist)},
        dists |-> [td.dists EXCEPT ![n] = new_dist],
        reset_dists |-> IF td.dists[n] = NO_DIST THEN ListForReset(td, n) ELSE td.reset_dists]
  ELSE td

RelaxEdge(t) ==
  /\ pc[t] = "search"
  /\ \E e \in job[t].edges :
       /\ job' = [job EXCEPT ![t].edges = @ \ {e}]
       /\ thread_data' = [thread_data EXCEPT ![t] =
            Relaxed(@, OtherNode(e, job[t].type), UintAdd(job[t].top.dist, e.dist))]
  /\ UNCHANGED <<vars, promised>>

(* The rest of _calcShortcuts(), after the search.                         *)
ShortcutsFound(j, dists) ==
  LET shortest(e) == dists[OtherNode(e, j.type)] = UintAdd(j.start_edge.dist, e.dist)
  IN  IF dists[j.node] # j.start_edge.dist THEN {}
      ELSE {CreateShortcut(j.start_edge, e, j.type) :
              e \in {x \in Targets(j.start_edge, j.node, j.type) : shortest(x)}}

FinishSearch(t) ==
  /\ pc[t] = "search" /\ job[t].edges = {} /\ TopsWithinRadius(t) = {}
  /\ found' = [found EXCEPT ![t] = @ \cup ShortcutsFound(job[t], thread_data[t].dists)]
  /\ pc' = [pc EXCEPT ![t] = "contract"]
  /\ UNCHANGED <<graph_vars, loop_vars, select_vars, next_index, seen, mutex,
                 new_shortcuts, edge_diffs, to_remove, search_vars>>

FinishNode(t) ==
  /\ pc[t] = "contract" /\ job[t].start_edges = {}
  /\ edge_diffs' = [edge_diffs EXCEPT ![job[t].node] =
                      Cardinality(found[t]) - NrOfEdges(job[t].node)]
  /\ job' = [job EXCEPT ![t] = NoJob]
  /\ promised' = [promised EXCEPT ![t] = {}]
  /\ pc' = [pc EXCEPT ![t] = "insert"]
  /\ UNCHANGED <<graph_vars, loop_vars, select_vars, next_index, found, seen,
                 mutex, new_shortcuts, to_remove, thread_data>>

Search(t) ==
  \/ TakeNode(t) \/ StartSearch(t) \/ PopTop(t) \/ RelaxEdge(t)
  \/ FinishSearch(t) \/ FinishNode(t)

(* What CHConstructor does in one step besides, _quickContract() included. *)
OtherStep ==
  /\ \/ StartRound \/ QuickContractReturns \/ ContractReturns
     \/ SelectNode \/ EnterParallelLoop
     \/ \E t \in Threads : \/ mode = "quick" /\ ContractNode(t)
                           \/ LockInsert(t) \/ FinishInsert(t)
     \/ ChooseRemoveNodes \/ Restructure \/ EndRound \/ Terminated
  /\ UNCHANGED search_vars

SearchNext == (\E t \in Threads : Search(t)) \/ OtherStep

(* As for CHConstructor: while a step is possible, one is taken.           *)
SearchSpec == SearchInit /\ [][SearchNext]_witness_vars /\ WF_witness_vars(SearchNext)

-----------------------------------------------------------------------------
(* Every label that is set is listed, at every moment: the next search of  *)
(* the thread starts with clean labels.                                    *)
LabelsListed ==
  \A t \in Threads, n \in Nodes :
    thread_data[t].dists[n] # NO_DIST => n \in thread_data[t].reset_dists

(* When a search ends, the nodes within its radius have their distances    *)
(* from the start node as labels, and no label is less than a distance.    *)
Reversed(E) == {[e EXCEPT !.src = e.tgt, !.tgt = e.src] : e \in E}

DistancesFound ==
  \A t \in Threads :
    pc[t] = "search" /\ job[t].edges = {} /\ TopsWithinRadius(t) = {} =>
      LET j == job[t]
          from == OtherNode(j.start_edge, Opposite(j.type))
          distances == Distances(IF j.type = "OUT" THEN Edges ELSE Reversed(Edges))
          labels == {<<from, n, thread_data[t].dists[n]>> : n \in Nodes}
          within == {d \in distances : d[1] = from /\ WithinRadius(d[3], SearchRadius(j))}
      IN  /\ within \subseteq labels
          /\ \A l \in labels : l[3] # NO_DIST => \E d \in distances : d[1] = from /\ d[2] = l[2] /\ d[3] <= l[3]

(* The searches of the threads compute what CHConstructor takes in one     *)
(* step, when the thread takes its node: the shortcuts and the edge        *)
(* difference, from whatever the thread has searched before.               *)
AbstractPc == [t \in Threads |-> IF Contracting(t) THEN "insert" ELSE pc[t]]

AbstractFound == [t \in Threads |-> IF Contracting(t) THEN promised[t] ELSE found[t]]

AbstractEdgeDiffs ==
  [n \in Nodes |->
     LET at_n == {t \in Threads : Contracting(t) /\ job[t].node = n}
     IN  IF at_n = {} THEN edge_diffs[n]
         ELSE Cardinality(UNION {promised[t] : t \in at_n}) - NrOfEdges(n)]

Constructor == INSTANCE CHConstructor WITH
  pc <- AbstractPc, found <- AbstractFound, edge_diffs <- AbstractEdgeDiffs

ImplementsConstructor == Constructor!Init /\ [][Constructor!Next]_(Constructor!vars)
=============================================================================
