------------------------ MODULE InputGraphFamilies ------------------------
(***************************************************************************)
(* Input graphs for model-checking.  The ids run against the order of the  *)
(* edges, so that an id is not also a position.                            *)
(***************************************************************************)
EXTENDS NodesAndEdges, Sequences

NumberEdges(arcs) ==
  [i \in 1..Len(arcs) |-> InputEdge(Len(arcs) - i, arcs[i][1], arcs[i][2], arcs[i][3])]

(* Every way to drop some of the given arcs and to give the others one of  *)
(* the given lengths.                                                      *)
Missing == -1

Weighted(arcs, lengths) ==
  {LET present == SelectSeq([i \in 1..Len(arcs) |-> i], LAMBDA i : w[i] # Missing)
   IN  [i \in 1..Len(present) |-> Append(arcs[present[i]], w[present[i]])]
     : w \in [1..Len(arcs) -> lengths \cup {Missing}]}

GraphsOfThreeOver(lengths) ==
  {NumberEdges(arcs) :
     arcs \in Weighted(<< <<0, 1>>, <<0, 2>>, <<1, 0>>, <<1, 2>>, <<2, 0>>, <<2, 1>> >>, lengths)}

GraphsOfThree == GraphsOfThreeOver({0, 1, 3})

(* Graphs with four nodes: a ring one can follow one way, with chords.     *)
GraphsOfFour ==
  {NumberEdges(arcs) :
     arcs \in Weighted(<< <<0, 1>>, <<0, 2>>, <<1, 2>>, <<1, 3>>, <<2, 0>>, <<2, 3>>, <<3, 0>> >>, {1, 3})}

(* Two ways from 0 to 3, equally long: each center node hides the other.   *)
Diamond == NumberEdges(<< <<0, 1, 1>>, <<0, 2, 1>>, <<1, 3, 1>>, <<2, 3, 1>> >>)

(* A direct edge that is longer than the ways around it: shortcuts for it  *)
(* replace it, and a later one duplicates the first.                       *)
Detour == NumberEdges(<< <<0, 1, 3>>, <<0, 2, 1>>, <<0, 3, 9>>, <<1, 3, 3>>, <<2, 3, 1>> >>)

(* Two edges of different length lead to node 0, which is contracted first:*)
(* its two searches label the same nodes.                                  *)
Crossing == NumberEdges(<< <<0, 3, 1>>, <<1, 0, 1>>, <<1, 2, 5>>, <<2, 0, 2>>,
                           <<2, 1, 5>>, <<3, 1, 1>>, <<3, 2, 1>> >>)

(* A ring one can follow both ways, the two ways of different length.      *)
Ring == NumberEdges(<< <<0, 1, 1>>, <<0, 3, 2>>, <<1, 0, 2>>, <<1, 2, 1>>,
                       <<2, 1, 2>>, <<2, 3, 1>>, <<3, 0, 1>>, <<3, 2, 2>> >>)

(* The ring with any of its edges missing.                                 *)
Subrings ==
  {NumberEdges([i \in 1..Len(part) |-> <<part[i].src, part[i].tgt, part[i].dist>>]) :
     part \in {SelectSeq(Ring, LAMBDA e : e.id \in ids) : ids \in SUBSET (0..7)}}

(* A star with two-way edges, and an edge between two of its tips.         *)
Star == NumberEdges(<< <<0, 1, 2>>, <<0, 2, 1>>, <<0, 3, 0>>, <<1, 0, 1>>,
                       <<1, 2, 5>>, <<2, 0, 1>>, <<3, 0, 2>> >>)

NamedGraphs == {Diamond, Detour, Star} \cup Subrings

(* Five nodes: the ends 0 and 4, and three ways between them, so that      *)
(* three threads have a node to contract.                                  *)
ThreeWays == NumberEdges(<< <<0, 1, 1>>, <<0, 2, 1>>, <<0, 3, 2>>, <<0, 4, 9>>,
                            <<1, 4, 2>>, <<2, 4, 1>>, <<3, 4, 2>>, <<4, 0, 4>> >>)

(* A path one can follow both ways: contracting it takes several rounds    *)
(* with shortcuts of shortcuts.                                            *)
Path == NumberEdges(<< <<0, 1, 1>>, <<1, 0, 1>>, <<1, 2, 2>>, <<2, 1, 1>>,
                       <<2, 3, 1>>, <<3, 2, 2>>, <<3, 4, 1>>, <<4, 3, 1>> >>)

(* A ring one can follow one way, of edges with the largest length the     *)
(* readers accept, half of the largest uint.                               *)
LongRing ==
  {NumberEdges(<< <<0, 1, L>>, <<1, 2, L>>, <<2, 3, L>>, <<3, 4, L>>, <<4, 0, L>> >>)
     : L \in {MaxUint \div 2}}

(* Next to them graphs with fewer nodes; the node without edges does not   *)
(* hinder the others.                                                      *)
GraphsOfUpToFive ==
  {ThreeWays, Path, Diamond, Detour, Star, Crossing} \cup {g \in Subrings : Len(g) >= 7}
=============================================================================
