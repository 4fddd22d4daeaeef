---------------------------- MODULE Contraction ----------------------------
(***************************************************************************)
(* What the construction of a contraction hierarchy promises, whatever the *)
(* rounds, the shortcuts and the threads: nodes leave a graph in groups,   *)
(* and the nodes that stay keep their distances to each other.             *)
(*                                                                         *)
(* distances holds a triple <<u, v, d>> for each pair of remaining nodes   *)
(* such that a path leads from u to v, where d is the length of the        *)
(* shortest one.                                                           *)
(***************************************************************************)
CONSTANTS AllNodes,        \* the nodes of the graph
          PossibleDistances  \* the sets of distances the graph may have

VARIABLES remaining, distances

Init ==
  /\ remaining = AllNodes
  /\ distances \in PossibleDistances

Between(S) == {t \in distances : t[1] \in S /\ t[2] \in S}

(* One round: some of the remaining nodes leave.                           *)
Contract ==
  \E S \in (SUBSET remaining) \ {{}} :
    /\ remaining' = remaining \ S
    /\ distances' = Between(remaining')

Spec == Init /\ [][Contract]_<<remaining, distances>>
=============================================================================
