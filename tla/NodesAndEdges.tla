--------------------------- MODULE NodesAndEdges ---------------------------
(***************************************************************************)
(* Nodes, edges and the orders on edges (nodes_and_edges.h/.cpp).          *)
(*                                                                         *)
(* An edge is the part of CHEdge<Edge> the program's control depends on:   *)
(* its id, its endpoints, its distance and, for a shortcut, the ids of the *)
(* two edges it stands for and the node they meet in.  The payload of the  *)
(* other edge types (metric, Euclidean distance, speed) is left out.       *)
(*                                                                         *)
(* Identifiers, levels and distances are `uint`: MaxUint is the largest    *)
(* one, and sums wrap around at MaxUint + 1.                               *)
(***************************************************************************)
EXTENDS Integers, Sequences

CONSTANTS NrOfNodes,   \* size of the vector of nodes
          MaxUint      \* std::numeric_limits<uint>::max()

ASSUME SizeAssumption == MaxUint \in Nat /\ NrOfNodes \in 0..MaxUint

Uint  == 0..MaxUint
Nodes == 0..(NrOfNodes - 1)

(* The four "no value" constants are all the largest uint.                 *)
NO_NID  == MaxUint
NO_EID  == MaxUint
NO_DIST == MaxUint
NO_LVL  == MaxUint

UintAdd(a, b) == (a + b) % (MaxUint + 1)

-----------------------------------------------------------------------------
(* EdgeType: the edges that leave a node and those that enter it.          *)

EdgeType == {"OUT", "IN"}

Opposite(type) == IF type = "OUT" THEN "IN" ELSE "OUT"

(* The end of e one reaches by following it in the direction `type`.       *)
OtherNode(e, type) == IF type = "OUT" THEN e.tgt ELSE e.src

-----------------------------------------------------------------------------
CHEdge == [id : Uint, src : Nodes, tgt : Nodes, dist : Uint,
           child_edge1 : Uint, child_edge2 : Uint, center_node : Uint]

InputEdge(id, src, tgt, dist) ==
  [id |-> id, src |-> src, tgt |-> tgt, dist |-> dist,
   child_edge1 |-> NO_EID, child_edge2 |-> NO_EID, center_node |-> NO_NID]

EqualEndpoints(e1, e2) == e1.src = e2.src /\ e1.tgt = e2.tgt

(* concat() and make_shortcut(): the edge that stands for e1 followed by   *)
(* e2.  It gets its id when it is put into the graph.                      *)
MakeShortcut(e1, e2) ==
  [id |-> NO_EID, src |-> e1.src, tgt |-> e2.tgt,
   dist |-> UintAdd(e1.dist, e2.dist),
   child_edge1 |-> e1.id, child_edge2 |-> e2.id, center_node |-> e1.tgt]

IsShortcut(e) == e.center_node # NO_NID

(* EdgeSortSrcTgt, the order of the vector of outgoing edges.              *)
SrcTgtLess(e1, e2) ==
  \/ e1.src < e2.src
  \/ e1.src = e2.src /\ e1.tgt < e2.tgt

(* What a reader delivers: edges without loops and without two edges that  *)
(* have equal endpoints, sorted, with the ids 0, 1, .. in some order.      *)
IsInputGraph(g) ==
  /\ g \in Seq(CHEdge)
  /\ Len(g) < NO_EID
  /\ \A i \in 1..Len(g) :
       /\ g[i] = InputEdge(g[i].id, g[i].src, g[i].tgt, g[i].dist)
       /\ g[i].id < Len(g)
       /\ g[i].src # g[i].tgt
  /\ \A i, j \in 1..Len(g) :
       i < j => SrcTgtLess(g[i], g[j]) /\ g[i].id # g[j].id
=============================================================================
