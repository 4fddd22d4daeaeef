----------------------------- MODULE CHDijkstra -----------------------------
(***************************************************************************)
(* Shortest paths in a contraction hierarchy (class CHDijkstra in          *)
(* dijkstra.h).  calcShopa() searches upwards from both ends, with one     *)
(* priority queue for both directions, and walks back from the node in     *)
(* which the searches met.  The object keeps its labels from one query to  *)
(* the next: only the distances it wrote are reset.                        *)
(***************************************************************************)
EXTENDS GraphVectors

VARIABLES
  task,            \* where calcShopa() is; "answered" when it has returned
  ends,            \* src and tgt: where the searches in each direction start
  pq,              \* the elements of the priority queue
  found_by,        \* _dir[..]._found_by
  dists,           \* _dir[..]._dists
  reset_dists,     \* _dir[..]._reset_dists
  shortest_dist,   \* length of the shortest path found so far
  center_node,     \* where the searches met on it
  bt_direction,    \* direction whose search is being walked back
  bt_node,         \* where the walk is
  path,            \* the edges of the path
  answer           \* what the last query returned

query_vars == <<task, ends, pq, found_by, dists, reset_dists, shortest_dist,
                center_node, bt_direction, bt_node, path, answer>>

PQElement(node, edge_id, direction, dist) ==
  [node |-> node, found_by |-> edge_id, direction |-> direction, dist |-> dist]

QueryInit ==
  /\ task = "none"
  /\ ends = [type \in EdgeType |-> 0]
  /\ pq = {}
  /\ found_by = [type \in EdgeType |-> [n \in Nodes |-> 0]]
  /\ dists = [type \in EdgeType |-> [n \in Nodes |-> NO_DIST]]
  /\ reset_dists = [type \in EdgeType |-> {}]
  /\ shortest_dist = NO_DIST /\ center_node = NO_NID
  /\ bt_direction = "OUT" /\ bt_node = NO_NID
  /\ path = <<>>
  /\ answer = NO_DIST

(* _reset()                                                                *)
DistsAsTheyAre(type) == dists[type]   \* mutant

ResetDists(type) ==
  [n \in Nodes |-> IF n \in reset_dists[type] THEN NO_DIST ELSE dists[type][n]]

(* The first part of calcShopa(src, tgt).                                  *)
CalcShopa(src, tgt) ==
  /\ task \in {"none", "answered"}
  /\ task' = "search"
  /\ ends' = [type \in EdgeType |-> IF type = "OUT" THEN src ELSE tgt]
  /\ pq' = {PQElement(ends'[type], NO_EID, type, 0) : type \in EdgeType}
  /\ dists' = [type \in EdgeType |-> [ResetDists(type) EXCEPT ![ends'[type]] = 0]]
  /\ reset_dists' = [type \in EdgeType |-> {ends'[type]}]
  /\ shortest_dist' = NO_DIST /\ center_node' = NO_NID
  /\ path' = <<>>
  /\ UNCHANGED <<found_by, bt_direction, bt_node, answer>>

(* _relaxAllEdges(), for the edges that lead up.  The queue keeps the old  *)
(* elements of a node that gets a shorter distance.                        *)
BetterIfUnknown(new_dist, dist) == dist = NO_DIST   \* mutant

Better(new_dist, dist) == new_dist < dist

Relax(top, state, e) ==
  LET dir == top.direction
      n == OtherNode(e, dir)
      new_dist == UintAdd(top.dist, e.dist)
  IN  IF IsUp(e, dir) /\ Better(new_dist, state.dists[n])
      THEN [dists |-> [state.dists EXCEPT ![n] = new_dist],
            reset |-> IF state.dists[n] = NO_DIST THEN state.reset \cup {n} ELSE state.reset,
            queue |-> state.queue \cup {PQElement(n, e.id, dir, new_dist)}]
      ELSE state

RelaxAllEdges(top) ==
  FoldLeft(LAMBDA state, e : Relax(top, state, e),
           [dists |-> dists[top.direction], reset |-> reset_dists[top.direction],
            queue |-> pq \ {top}],
           NodeEdgesRange(top.node, top.direction))

SearchGoesOnBelow(dist) == dist < shortest_dist   \* mutant

SearchGoesOn(dist) == dist <= shortest_dist

Tops == {e \in pq : \A o \in pq : e.dist <= o.dist}

(* One iteration of the search loop; elements with equal distances come in *)
(* any order.                                                              *)
SearchStep ==
  /\ task = "search"
  /\ \E top \in Tops :
       /\ SearchGoesOn(top.dist)
       /\ IF dists[top.direction][top.node] = top.dist
          THEN LET dir == top.direction
                   relaxed == RelaxAllEdges(top)
                   rest == dists[Opposite(dir)][top.node]
                   dist == UintAdd(top.dist, rest)
               IN  /\ found_by' = [found_by EXCEPT ![dir][top.node] = top.found_by]
                   /\ dists' = [dists EXCEPT ![dir] = relaxed.dists]
                   /\ reset_dists' = [reset_dists EXCEPT ![dir] = relaxed.reset]
                   /\ pq' = relaxed.queue
                   /\ IF rest # NO_DIST /\ dist < shortest_dist
                      THEN shortest_dist' = dist /\ center_node' = top.node
                      ELSE UNCHANGED <<shortest_dist, center_node>>
          ELSE /\ pq' = pq \ {top}
               /\ UNCHANGED <<found_by, dists, reset_dists, shortest_dist, center_node>>
  /\ UNCHANGED <<task, ends, bt_direction, bt_node, path, answer>>

SearchEnded == task = "search" /\ \A e \in Tops : ~SearchGoesOn(e.dist)

NoPathFound ==
  /\ SearchEnded /\ center_node = NO_NID
  /\ task' = "answered" /\ answer' = NO_DIST
  /\ UNCHANGED <<ends, pq, found_by, dists, reset_dists, shortest_dist,
                 center_node, bt_direction, bt_node, path>>

StartBacktracking ==
  /\ SearchEnded /\ center_node # NO_NID
  /\ task' = "backtrack"
  /\ bt_direction' = "OUT" /\ bt_node' = center_node
  /\ UNCHANGED <<ends, pq, found_by, dists, reset_dists, shortest_dist,
                 center_node, path, answer>>

(* One edge further back.                                                  *)
Backtrack ==
  /\ task = "backtrack" /\ bt_node # ends[bt_direction]
  /\ LET edge_id == found_by[bt_direction][bt_node]
     IN  /\ bt_node' = OtherNode(GetEdge(edge_id), Opposite(bt_direction))
         /\ path' = Append(path, edge_id)
  /\ UNCHANGED <<task, ends, pq, found_by, dists, reset_dists, shortest_dist,
                 center_node, bt_direction, answer>>

OtherDirection ==
  /\ task = "backtrack" /\ bt_node = ends[bt_direction] /\ bt_direction = "OUT"
  /\ bt_direction' = "IN" /\ bt_node' = center_node
  /\ UNCHANGED <<task, ends, pq, found_by, dists, reset_dists, shortest_dist,
                 center_node, path, answer>>

PathFound ==
  /\ task = "backtrack" /\ bt_node = ends[bt_direction] /\ bt_direction = "IN"
  /\ task' = "answered" /\ answer' = shortest_dist
  /\ UNCHANGED <<ends, pq, found_by, dists, reset_dists, shortest_dist,
                 center_node, bt_direction, bt_node, path>>

AnswerQuery ==
  \/ SearchStep \/ NoPathFound
  \/ StartBacktracking \/ Backtrack \/ OtherDirection \/ PathFound
=============================================================================
