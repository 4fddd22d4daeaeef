---------------------------- MODULE MCCHPipeline ----------------------------
(***************************************************************************)
(* Instances of the pipeline.                                              *)
(***************************************************************************)
EXTENDS CHPipeline, InputGraphFamilies

(* Edges of no length, where searches meet at equal distances: two ways    *)
(* from 0 to 2, and one back.                                              *)
ShortGraphs ==
  {NumberEdges(<< <<0, 1, 0>>, <<0, 3, x>>, <<1, 2, y>>, <<2, 0, 0>>, <<3, 2, 0>> >>) :
     x, y \in {0, 1}}

QueryGraphs == {Detour, Star, Crossing} \cup ShortGraphs

(* Their lengths fit, those of the queries too.                            *)
ASSUME GraphsFit == LengthsFit /\ QueriesFit
=============================================================================
