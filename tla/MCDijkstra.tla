----------------------------- MODULE MCDijkstra -----------------------------
(***************************************************************************)
(* Instances of Dijkstra.                                                  *)
(***************************************************************************)
EXTENDS Dijkstra, InputGraphFamilies

(* Cycles of edges without length, and next to them paths that are equally *)
(* long.                                                                   *)
ZeroCycles ==
  {NumberEdges(arcs) :
     arcs \in Weighted(<< <<0, 1>>, <<0, 2>>, <<1, 2>>, <<2, 1>> >>, {0, 1})}

SearchedGraphs == ZeroCycles \cup {NumberEdges(<< <<0, 1, 4>>, <<0, 2, 1>>, <<1, 0, 2>>, <<2, 1, 2>> >>)}

ASSUME SearchedGraphsFit == LengthsFit
=============================================================================
