------------------------------ MODULE Dijkstra ------------------------------
(***************************************************************************)
(* Shortest paths in a graph without a hierarchy (class Dijkstra in        *)
(* dijkstra.h), which the unit tests compare CHDijkstra with.  One object  *)
(* answers any number of queries on a graph nobody changes.  It keeps its  *)
(* labels: of them only the distances it wrote are reset by the next       *)
(* query, what _found_by held before stays there.                          *)
(***************************************************************************)
EXTENDS GraphVectors, ShortestPaths

VARIABLES
  task,          \* where calcShopa() is; "answered" when it has returned
  ends,          \* src and tgt, as a pair
  pq,            \* the elements of the priority queue
  found_by,      \* _found_by
  dists,         \* _dists
  reset_dists,   \* _reset_dists
  bt_node,       \* where the walk back is
  path,          \* the edges of the path, from the last to the first
  answer         \* what the last query returned

labels == <<found_by, dists, reset_dists>>
walk_vars == <<bt_node, path>>
all_graph_vars == <<graph_vars, vector_vars>>
vars == <<all_graph_vars, task, ends, pq, labels, walk_vars, answer>>

PQElement(node, edge_id, dist) == [node |-> node, found_by |-> edge_id, dist |-> dist]

-----------------------------------------------------------------------------
Init ==
  /\ GraphInit /\ VectorsInit
  /\ task = "none" /\ ends = <<0, 0>>
  /\ pq = {}
  /\ found_by = [n \in Nodes |-> 0]
  /\ dists = [n \in Nodes |-> NO_DIST]
  /\ reset_dists = {}
  /\ bt_node = NO_NID /\ path = <<>> /\ answer = NO_DIST

(* _reset()                                                                *)
DistsAsTheyAre == dists   \* mutant

ResetDists == [n \in Nodes |-> IF n \in reset_dists THEN NO_DIST ELSE dists[n]]

(* The first part of calcShopa(src, tgt).                                  *)
CalcShopa(src, tgt) ==
  /\ task \in {"none", "answered"}
  /\ task' = "search" /\ ends' = <<src, tgt>>
  /\ pq' = {PQElement(src, NO_EID, 0)}
  /\ dists' = [ResetDists EXCEPT ![src] = 0]
  /\ reset_dists' = {src}
  /\ path' = <<>>
  /\ UNCHANGED <<all_graph_vars, found_by, bt_node, answer>>

(* _relaxAllEdges()                                                        *)
BetterOrAsGood(new_dist, dist) == new_dist <= dist   \* mutant

Better(new_dist, dist) == new_dist < dist

RememberTooLate(reset, n, dist) == reset   \* mutant

Remember(reset, n, dist) == IF dist = NO_DIST THEN reset \cup {n} ELSE reset

Relax(top, state, e) ==
  LET new_dist == UintAdd(top.dist, e.dist)
  IN  IF Better(new_dist, state.dists[e.tgt])
      THEN [dists |-> [state.dists EXCEPT ![e.tgt] = new_dist],
            reset |-> Remember(state.reset, e.tgt, state.dists[e.tgt]),
            queue |-> state.queue \cup {PQElement(e.tgt, e.id, new_dist)}]
      ELSE state

RelaxAllEdges(top) ==
  FoldLeft(LAMBDA state, e : Relax(top, state, e),
           [dists |-> dists, reset |-> reset_dists, queue |-> pq \ {top}],
           NodeEdgesRange(top.node, "OUT"))

Tops == {e \in pq : \A o \in pq : e.dist <= o.dist}

(* One iteration of the search loop.  The top of the queue is any of the   *)
(* elements with the least distance.                                       *)
SearchStep ==
  /\ task = "search"
  /\ \E top \in Tops :
       /\ top.node # ends[2]
       /\ IF dists[top.node] = top.dist
          THEN /\ found_by' = [found_by EXCEPT ![top.node] = top.found_by]
               /\ dists' = RelaxAllEdges(top).dists
               /\ reset_dists' = RelaxAllEdges(top).reset
               /\ pq' = RelaxAllEdges(top).queue
          ELSE /\ pq' = pq \ {top}
               /\ UNCHANGED labels
  /\ UNCHANGED <<all_graph_vars, task, ends, walk_vars, answer>>

NoPathFound ==
  /\ task = "search" /\ pq = {}
  /\ task' = "answered" /\ answer' = NO_DIST
  /\ UNCHANGED <<all_graph_vars, ends, pq, labels, walk_vars>>

(* The target is on top of the queue; its distance is returned after the   *)
(* walk back.                                                              *)
TargetFoundByOldEdge(top) == UNCHANGED found_by   \* mutant

TargetFoundBy(top) == found_by' = [found_by EXCEPT ![ends[2]] = top.found_by]

TargetReached ==
  /\ task = "search"
  /\ \E top \in Tops :
       /\ top.node = ends[2]
       /\ TargetFoundBy(top)
       /\ answer' = top.dist
  /\ task' = "backtrack" /\ bt_node' = ends[2]
  /\ UNCHANGED <<all_graph_vars, ends, pq, dists, reset_dists, path>>

Backtrack ==
  /\ task = "backtrack" /\ bt_node # ends[1]
  /\ bt_node' = GetEdge(found_by[bt_node]).src
  /\ path' = Append(path, found_by[bt_node])
  /\ UNCHANGED <<all_graph_vars, task, ends, pq, labels, answer>>

PathFound ==
  /\ task = "backtrack" /\ bt_node = ends[1]
  /\ task' = "answered"
  /\ UNCHANGED <<all_graph_vars, ends, pq, labels, walk_vars, answer>>

AnswerQuery == SearchStep \/ NoPathFound \/ TargetReached \/ Backtrack \/ PathFound

AskQuery == \E src, tgt \in Nodes : CalcShopa(src, tgt)

Next == AskQuery \/ AnswerQuery

(* calcShopa() is a sequential computation: once called it goes on.        *)
(* Nothing says that there is another query.                               *)
Spec == Init /\ [][Next]_vars /\ WF_vars(AnswerQuery)

-----------------------------------------------------------------------------
(* The sums the search computes do not wrap around: a distance and an edge *)
(* where it ends are together less than NO_DIST.  The code does not check  *)
(* this.                                                                   *)
LengthsFit ==
  \A g \in InputGraphs :
    LET E == {g[i] : i \in DOMAIN g}
    IN  \A t \in Distances(E), e \in E : t[2] = e.src => t[3] + e.dist < NO_DIST

(* The object keeps the promise every query object makes: the replies are  *)
(* distances, and those of one query do not depend on the queries before.  *)
Queries == INSTANCE ShortestPathQueries WITH
  Graphs <- {{g[i] : i \in DOMAIN g} : g \in InputGraphs},
  NoQuestion <- <<>>,
  NoReply <- -1,
  graph <- Edges,
  question <- IF task = "none" THEN <<>> ELSE ends,
  reply <- IF task = "answered" THEN answer ELSE -1

ImplementsQueries == Queries!Spec

(* The path of a query leads from its source to its target and is as long  *)
(* as the reply says.                                                      *)
PathsLead ==
  task = "answered" /\ answer # NO_DIST =>
    LET walk == [i \in DOMAIN path |-> GetEdge(Reverse(path)[i])]
    IN  /\ Leads(walk, ends[1], ends[2])
        /\ LengthOf(walk) = answer

(* Every distance that is not NO_DIST will be reset: a query starts with   *)
(* clean labels.                                                           *)
LabelsWillBeReset == \A n \in Nodes : dists[n] # NO_DIST => n \in reset_dists

(* Every query ends: edges of length zero neither keep the queue filled    *)
(* nor close a cycle for the walk back.                                    *)
QueriesEnd == Queries!QuestionsAnswered
=============================================================================
