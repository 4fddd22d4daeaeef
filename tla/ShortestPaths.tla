--------------------------- MODULE ShortestPaths ---------------------------
(***************************************************************************)
(* The reference for everything that computes distances: the lengths of    *)
(* shortest paths in a set of edges, over the natural numbers (no          *)
(* overflow), found by allowing one more node at a time as an inner node   *)
(* of a path.  A set of distances is a set of triples <<from, to, length>>.*)
(* No code corresponds to these definitions; the properties use them.      *)
(***************************************************************************)
EXTENDS NodesAndEdges, SequencesExt

(* The triples of T no other triple between the same nodes is shorter than.*)
Shortest(T) ==
  {t \in T : \A o \in T : o[1] = t[1] /\ o[2] = t[2] => t[3] <= o[3]}

(* One path of A followed by one of B, where the first ends at the second. *)
Joined(A, B) ==
  UNION {{<<a[1], b[2], a[3] + b[3]>> : b \in {x \in B : x[1] = a[2]}} : a \in A}

(* The edges themselves, and the ways to stay where one is.                *)
Direct(E) ==
  Shortest({<<e.src, e.tgt, e.dist>> : e \in E} \cup {<<v, v, 0>> : v \in Nodes})

(* Paths may now have n as an inner node, too.                             *)
AllowNode(known, n) ==
  Shortest(known \cup Joined({t \in known : t[2] = n}, {t \in known : t[1] = n}))

Distances(E) ==
  LET known[n \in 0..NrOfNodes] ==
        IF n = 0 THEN Direct(E)
        ELSE UNION {AllowNode(fewer, n - 1) : fewer \in {known[n - 1]}}  \* evaluated once
  IN  known[NrOfNodes]

(* The length of a shortest path from src to tgt along edges of E, NO_DIST *)
(* if there is no path.                                                    *)
DistanceOrNone(E, src, tgt) ==
  LET between == {t \in Distances(E) : t[1] = src /\ t[2] = tgt}
  IN  IF between = {} THEN NO_DIST ELSE (CHOOSE t \in between : TRUE)[3]

(* The edges of walk follow each other from src to tgt.                    *)
Leads(walk, src, tgt) ==
  /\ IF walk = <<>> THEN src = tgt
     ELSE walk[1].src = src /\ walk[Len(walk)].tgt = tgt
  /\ \A i \in 1..(Len(walk) - 1) : walk[i].tgt = walk[i + 1].src

LengthOf(walk) == FoldLeft(LAMBDA sum, e : sum + e.dist, 0, walk)
=============================================================================
