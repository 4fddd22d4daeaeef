------------------------------ MODULE Sorting ------------------------------
(***************************************************************************)
(* std::sort(), which leaves elements with equal keys in any order.  An    *)
(* order is a set of pairs <<a, b>> where a comes before b.                *)
(***************************************************************************)
EXTENDS Integers, FiniteSetsExt, SequencesExt

(* The ways to put x into a sorted vector.                                 *)
Insertions(w, x, order) ==
  {InsertAt(w, k, x) :
     k \in {i \in 1..(Len(w) + 1) : /\ \A j \in 1..(i - 1) : <<x, w[j]>> \notin order
                                  /\ \A j \in i..Len(w) : <<w[j], x>> \notin order}}

(* The ways to put x into one of several sorted vectors.                   *)
Extended(vectors, x, order) == UNION {Insertions(w, x, order) : w \in vectors}

(* The ways to sort the elements of a set into a vector.                   *)
Sortings(S, order) == FoldSet(LAMBDA x, vectors : Extended(vectors, x, order), {<<>>}, S)
=============================================================================
