--------------------------- MODULE MCPrioritizers ---------------------------
(***************************************************************************)
(* Instances of the construction with a prioritizer.                       *)
(***************************************************************************)
EXTENDS Prioritizers, InputGraphFamilies

OneWay == NumberEdges(<< <<0, 1, 1>>, <<1, 2, 1>>, <<2, 3, 1>> >>)

TwoWays == NumberEdges(<< <<0, 1, 1>>, <<1, 0, 1>>, <<1, 2, 1>>,
                          <<2, 1, 2>>, <<2, 3, 1>>, <<3, 2, 1>> >>)

PrioritizedGraphs == {Diamond, Detour, Star, OneWay, TwoWays}

(* Their lengths fit.                                                      *)
ASSUME GraphsFit == LengthsFit
=============================================================================
