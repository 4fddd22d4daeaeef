-------------------------- MODULE MCWitnessSearch --------------------------
(***************************************************************************)
(* Instances of the searches.                                              *)
(***************************************************************************)
EXTENDS WitnessSearch, InputGraphFamilies

(* A cycle without length next to edges one search labels and the next     *)
(* does not.                                                               *)
ZeroCycle == NumberEdges(<< <<0, 1, 0>>, <<0, 3, 2>>, <<1, 0, 0>>, <<1, 2, 1>>, <<2, 3, 1>> >>)

SearchedGraphs == {Diamond, Detour, Star, ZeroCycle, Crossing}

(* What the theorems about the searches assume of the lengths.             *)
ASSUME GraphsFit == LengthsFit
=============================================================================
