---------------------------- MODULE GraphVectors ----------------------------
(***************************************************************************)
(* The vectors of Graph (graph.h): the edges once more, sorted by their    *)
(* target, the offsets where the edges of a node start in both vectors,    *)
(* and the table that finds an edge by its id.                             *)
(*                                                                         *)
(* restructure() renews the vectors and the offsets, but not the table:    *)
(* the graph stays dirty until rebuildCompleteGraph().  exportData() takes *)
(* the graph apart.  Positions start at 1 here and at 0 in the code.       *)
(***************************************************************************)
EXTENDS CHGraph, Sorting

VARIABLES
  in_edges,      \* _in_edges, sorted by EdgeSortTgtSrc
  out_offsets,   \* _out_offsets
  in_offsets,    \* _in_offsets
  id_to_index    \* _id_to_index

vector_vars == <<in_edges, out_offsets, in_offsets, id_to_index>>

-----------------------------------------------------------------------------
TgtSrcLess(e1, e2) ==
  \/ e1.tgt < e2.tgt
  \/ e1.tgt = e2.tgt /\ e1.src < e2.src

(* Where the edges of each node start in a vector: the edges per node are  *)
(* counted, and the counts added up.                                       *)
Offsets(v, type) ==
  LET count(n) == Cardinality({i \in DOMAIN v : OtherNode(v[i], Opposite(type)) = n})
      sum[n \in 0..NrOfNodes] == IF n = 0 THEN 0 ELSE sum[n - 1] + count(n - 1)
  IN  sum

(* initOffsets() counts in _out_edges for both.                            *)
InitOffsets ==
  /\ out_offsets' = Offsets(out_edges', "OUT")
  /\ in_offsets' = Offsets(out_edges', "IN")

SrcTgtSortings(S) == Sortings(S, {p \in S \X S : SrcTgtLess(p[1], p[2])})
TgtSrcSortings(S) == Sortings(S, {p \in S \X S : TgtSrcLess(p[1], p[2])})

SortInEdgesBySource(S) == in_edges' \in SrcTgtSortings(S)   \* mutant

SortInEdges(S) == in_edges' \in TgtSrcSortings(S)

(* An id no edge has keeps the index it had, zero if the table grows.      *)
InitIdToIndex ==
  id_to_index' =
    [id \in 0..(edge_count' - 1) |->
       IF \E i \in DOMAIN out_edges' : out_edges'[i].id = id
       THEN CHOOSE i \in DOMAIN out_edges' : out_edges'[i].id = id
       ELSE IF id \in DOMAIN id_to_index THEN id_to_index[id] ELSE 0]

(* update()                                                                *)
UpdateSkipsIdToIndex(S) ==   \* mutant
  /\ out_edges' \in SrcTgtSortings(S)
  /\ SortInEdges(S) /\ InitOffsets /\ UNCHANGED id_to_index
  /\ is_dirty' = FALSE

Update(S) ==
  /\ out_edges' \in SrcTgtSortings(S)
  /\ SortInEdges(S) /\ InitOffsets /\ InitIdToIndex
  /\ is_dirty' = FALSE

VectorsInit ==
  /\ in_edges = CHOOSE v \in TgtSrcSortings(Edges) : TRUE
  /\ out_offsets = Offsets(input_edges, "OUT")
  /\ in_offsets = Offsets(input_edges, "IN")
  /\ id_to_index = [id \in 0..(Len(input_edges) - 1) |->
                      CHOOSE i \in DOMAIN input_edges : input_edges[i].id = id]

(* The end of restructure().                                               *)
RestructureVectors ==
  /\ SortInEdges(Edges')
  /\ InitOffsets
  /\ UNCHANGED id_to_index

-----------------------------------------------------------------------------
(* nodeEdges(), as the slice of the vector it returns.                     *)
NodeEdgesRange(n, type) ==
  IF type = "OUT"
  THEN SubSeq(out_edges, out_offsets[n] + 1, out_offsets[n + 1])
  ELSE SubSeq(in_edges, in_offsets[n] + 1, in_offsets[n + 1])

(* getEdge(), which asserts that the graph is not dirty.                   *)
GetEdge(edge_id) == out_edges[id_to_index[edge_id]]

(* rebuildCompleteGraph(): every edge was laid aside.                      *)
RebuildCompleteGraph ==
  /\ out_edges = <<>> /\ in_edges = <<>>
  /\ edges_dump' = {}
  /\ UNCHANGED <<input_edges, node_levels, next_lvl, edge_count, new_edge_vec,
                 merge_pos, rest_shortcuts>>
  /\ Update(edges_dump)

-----------------------------------------------------------------------------
(* exportData().  The edges are sorted once more and the ids they hold are *)
(* translated: new_id[id] is the position of the edge that had this id.    *)
ChildrenKept(id, new_id) == id   \* mutant

NewChild(id, new_id) == IF id = NO_EID THEN NO_EID ELSE new_id[id]

Renumbered(v) ==
  LET new_id == [id \in 0..(Len(v) - 1) |-> (CHOOSE i \in DOMAIN v : v[i].id = id) - 1]
  IN  [i \in DOMAIN v |->
         [v[i] EXCEPT !.id = new_id[i - 1],
                      !.child_edge1 = NewChild(@, new_id),
                      !.child_edge2 = NewChild(@, new_id)]]

ExportData ==
  /\ \E v \in SrcTgtSortings(IF out_edges = <<>> THEN edges_dump ELSE Edges) :
       out_edges' = Renumbered(v)
  /\ edges_dump' = {} /\ in_edges' = <<>> /\ id_to_index' = <<>>
  /\ is_dirty' = TRUE
  /\ UNCHANGED <<input_edges, node_levels, next_lvl, edge_count, new_edge_vec,
                 merge_pos, rest_shortcuts, out_offsets, in_offsets>>
=============================================================================
