------------------------------ MODULE CHGraph ------------------------------
(***************************************************************************)
(* The graph of a contraction hierarchy while it is being built            *)
(* (chgraph.h): the edges between the nodes that are not contracted yet,   *)
(* the edges already laid aside ("dumped") because one of their ends was   *)
(* contracted, and the level of each node.                                 *)
(*                                                                         *)
(* restructure() merges two sorted vectors, the edges of the graph and the *)
(* new shortcuts, into a third.  It is a machine here that does one        *)
(* iteration of the merge per step: BeginRestructure, then MergeShortcut   *)
(* and MergeEdge, then FinishRestructure.  The vector of incoming edges    *)
(* and the offsets into both vectors hold the same edges again and are     *)
(* rebuilt with them; NodeEdges says what they are used for.               *)
(***************************************************************************)
EXTENDS NodesAndEdges, Sequences, FiniteSets

CONSTANT InputGraphs   \* the vectors of edges the readers may deliver

ASSUME InputAssumption == \A g \in InputGraphs : IsInputGraph(g)

VARIABLES
  input_edges,     \* history: the graph that was read
  out_edges,       \* _out_edges, sorted by SrcTgtLess
  edges_dump,      \* _edges_dump
  node_levels,     \* _node_levels
  next_lvl,        \* _next_lvl
  edge_count,      \* the id the next new edge gets
  is_dirty,        \* _is_dirty: edges cannot be looked up by their id
  new_edge_vec,    \* restructure(): the merged vector
  merge_pos,       \* restructure(): position in out_edges; 0 outside of it
  rest_shortcuts   \* restructure(): new shortcuts that are not merged yet

graph_vars == <<input_edges, out_edges, edges_dump, node_levels, next_lvl,
                edge_count, is_dirty, new_edge_vec, merge_pos, rest_shortcuts>>

-----------------------------------------------------------------------------
(* Reading the graph.                                                      *)

Edges      == {out_edges[i] : i \in DOMAIN out_edges}
MergedEdges == {new_edge_vec[i] : i \in DOMAIN new_edge_vec}

NodeEdges(n, type) == {e \in Edges : OtherNode(e, Opposite(type)) = n}

NrOfEdgesOf(n, type) == Cardinality(NodeEdges(n, type))

NrOfEdges(n) == NrOfEdgesOf(n, "OUT") + NrOfEdgesOf(n, "IN")

(* isUp() on its domain: it asserts that the levels of the ends differ.    *)
IsUp(e, type) ==
  \/ node_levels[e.src] > node_levels[e.tgt] /\ type = "IN"
  \/ node_levels[e.src] < node_levels[e.tgt] /\ type = "OUT"

-----------------------------------------------------------------------------
GraphInit ==
  /\ input_edges \in InputGraphs
  /\ out_edges = input_edges
  /\ edges_dump = {}
  /\ node_levels = [n \in Nodes |-> NO_LVL]
  /\ next_lvl = 0
  /\ edge_count = Len(input_edges)
  /\ is_dirty = FALSE
  /\ new_edge_vec = <<>>
  /\ merge_pos = 0
  /\ rest_shortcuts = {}

(* Bounds of the model: the counters do not wrap around.                   *)
LevelsLeft == next_lvl < NO_LVL
EdgeIdsLeft == edge_count < NO_EID

(* restructure(), up to the merge.                                         *)
BeginRestructure(removed, shortcuts) ==
  /\ LevelsLeft
  /\ is_dirty' = TRUE
  /\ node_levels' = [n \in Nodes |-> IF n \in removed THEN next_lvl ELSE node_levels[n]]
  /\ next_lvl' = next_lvl + 1
  /\ rest_shortcuts' = shortcuts
  /\ merge_pos' = 1
  /\ UNCHANGED <<input_edges, out_edges, edges_dump, edge_count, new_edge_vec>>

(* _addNewEdge().  A new edge (one without an id) that has the endpoints   *)
(* of the edge added last is dropped unless it is shorter; it takes the    *)
(* place of that edge if that one is not a shortcut.                       *)
LastEdge == new_edge_vec[Len(new_edge_vec)]

Duplicates(e) ==
  new_edge_vec # <<>> /\ e.id = NO_EID /\ EqualEndpoints(e, LastEdge)

IgnoreEdgeEvenIfShorter(e) ==   \* mutant
  Duplicates(e) /\ UNCHANGED <<new_edge_vec, edge_count>>

IgnoreEdge(e) ==
  /\ Duplicates(e) /\ e.dist >= LastEdge.dist
  /\ UNCHANGED <<new_edge_vec, edge_count>>

ReplaceEdgeTakesNewId(e) ==   \* mutant
  /\ Duplicates(e) /\ e.dist < LastEdge.dist /\ ~IsShortcut(LastEdge) /\ EdgeIdsLeft
  /\ new_edge_vec' = [new_edge_vec EXCEPT ![Len(new_edge_vec)] = [e EXCEPT !.id = edge_count]]
  /\ edge_count' = edge_count + 1

ReplaceEdge(e) ==
  /\ Duplicates(e) /\ e.dist < LastEdge.dist /\ ~IsShortcut(LastEdge)
  /\ new_edge_vec' = [new_edge_vec EXCEPT ![Len(new_edge_vec)] =
                        [e EXCEPT !.id = LastEdge.id]]
  /\ UNCHANGED edge_count

AppendEdgeBeforeItHasAnId(e) ==   \* mutant
  /\ Duplicates(e) => e.dist < LastEdge.dist /\ IsShortcut(LastEdge)
  /\ EdgeIdsLeft
  /\ new_edge_vec' = Append(new_edge_vec, e)
  /\ edge_count' = IF e.id = NO_EID THEN edge_count + 1 ELSE edge_count

AppendEdgeEvenIfLonger(e) ==   \* mutant
  /\ Duplicates(e) => IsShortcut(LastEdge)
  /\ EdgeIdsLeft
  /\ new_edge_vec' = Append(new_edge_vec, [e EXCEPT !.id = IF e.id = NO_EID THEN edge_count ELSE e.id])
  /\ edge_count' = IF e.id = NO_EID THEN edge_count + 1 ELSE edge_count

AppendEdge(e) ==
  /\ Duplicates(e) => e.dist < LastEdge.dist /\ IsShortcut(LastEdge)
  /\ IF e.id = NO_EID
     THEN /\ EdgeIdsLeft
          /\ new_edge_vec' = Append(new_edge_vec, [e EXCEPT !.id = edge_count])
          /\ edge_count' = edge_count + 1
     ELSE /\ new_edge_vec' = Append(new_edge_vec, e)
          /\ UNCHANGED edge_count

AddNewEdge(e) == IgnoreEdge(e) \/ ReplaceEdge(e) \/ AppendEdge(e)

(* Which new shortcuts and which edges go on into the new graph.           *)
AcceptsAnyShortcut(s, to_remove) == TRUE   \* mutant

AcceptsShortcut(s, to_remove) == s.center_node \in to_remove

StaysIfSourceStays(edge, to_remove) == edge.src \notin to_remove   \* mutant

Stays(edge, to_remove) == edge.src \notin to_remove /\ edge.tgt \notin to_remove

(* One new shortcut.  The sort of the shortcuts leaves those with equal    *)
(* endpoints in any order.  Shortcuts of nodes that stay are dropped.      *)
MergeShortcut(to_remove) ==
  \E s \in rest_shortcuts :
    /\ \A o \in rest_shortcuts : ~SrcTgtLess(o, s)
    /\ merge_pos <= Len(out_edges) => SrcTgtLess(s, out_edges[merge_pos])
    /\ rest_shortcuts' = rest_shortcuts \ {s}
    /\ IF AcceptsShortcut(s, to_remove)
       THEN AddNewEdge(s)
       ELSE UNCHANGED <<new_edge_vec, edge_count>>
    /\ UNCHANGED <<input_edges, out_edges, edges_dump, node_levels, next_lvl,
                   is_dirty, merge_pos>>

(* One edge of the graph, once no shortcut that is left precedes it.       *)
MergeEdge(to_remove) ==
  /\ merge_pos \in 1..Len(out_edges)
  /\ LET edge == out_edges[merge_pos]
     IN  /\ \A s \in rest_shortcuts : ~SrcTgtLess(s, edge)
         /\ \/ /\ Stays(edge, to_remove)
               /\ AddNewEdge(edge)
               /\ UNCHANGED edges_dump
            \/ /\ ~Stays(edge, to_remove)
               /\ edges_dump' = edges_dump \cup {edge}
               /\ UNCHANGED <<new_edge_vec, edge_count>>
  /\ merge_pos' = merge_pos + 1
  /\ UNCHANGED <<input_edges, out_edges, node_levels, next_lvl, is_dirty,
                 rest_shortcuts>>

(* The end of restructure().                                               *)
FinishRestructure ==
  /\ merge_pos = Len(out_edges) + 1
  /\ rest_shortcuts = {}
  /\ out_edges' = new_edge_vec
  /\ new_edge_vec' = <<>>
  /\ merge_pos' = 0
  /\ UNCHANGED <<input_edges, edges_dump, node_levels, next_lvl, edge_count,
                 is_dirty, rest_shortcuts>>

-----------------------------------------------------------------------------
GraphTypeOK ==
  /\ input_edges \in Seq(CHEdge)
  /\ out_edges \in Seq(CHEdge)
  /\ edges_dump \in SUBSET CHEdge
  /\ node_levels \in [Nodes -> Uint]
  /\ next_lvl \in Uint
  /\ edge_count \in Uint
  /\ is_dirty \in BOOLEAN
  /\ new_edge_vec \in Seq(CHEdge)
  /\ merge_pos \in 0..(Len(out_edges) + 1)
  /\ rest_shortcuts \in SUBSET CHEdge
=============================================================================
