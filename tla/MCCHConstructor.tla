-------------------------- MODULE MCCHConstructor --------------------------
(***************************************************************************)
(* Instances of the construction.                                          *)
(***************************************************************************)
EXTENDS CHConstructorProperties, InputGraphFamilies

(* The lengths of all graphs but one fit; that one is there to overflow.   *)
ASSUME GraphsFit == InputGraphs = LongRing \/ LengthsFit
=============================================================================
