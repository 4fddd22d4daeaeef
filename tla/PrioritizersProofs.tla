-------------------------- MODULE PrioritizersProofs --------------------------
(***************************************************************************)
(* Proofs about the construction with a prioritizer, for every number of   *)
(* nodes and threads and every input graph: no node is handed out twice or *)
(* forgotten, the nodes of a round are independent, and the hierarchy      *)
(* answers queries, whichever prioritizer chooses the nodes and however it *)
(* sorts them.                                                             *)
(***************************************************************************)
EXTENDS Prioritizers, RecursionProofs

(* A vector of nodes that holds each of them once.                         *)
NodesOnce(v) == v \in Seq(Nodes) /\ IsInjective(v)

-----------------------------------------------------------------------------
(* The vector of the prioritizer.                                          *)

(* A vector's elements by their positions.                                 *)
LEMMA RangeByPosition ==
  ASSUME NEW v \in Seq(Nodes)
  PROVE  /\ DOMAIN v = 1..Len(v) /\ Len(v) \in Nat
         /\ \A x : x \in Range(v) <=> \E i \in 1..Len(v) : x = v[i]
         /\ Range(v) \subseteq Nodes
<1>1. DOMAIN v = 1..Len(v) /\ Len(v) \in Nat
  BY LenProperties
<1>2. \A i \in 1..Len(v) : v[i] \in Nodes
  BY ElementOfSeq
<1> QED
  BY <1>1, <1>2 DEF Range

Dropped(w, i) == SubSeq([w EXCEPT ![i] = w[Len(w)]], 1, Len(w) - 1)

(* Putting the last element in the place of another one and cutting off    *)
(* the end removes just that one.                                          *)
LEMMA DroppedElements ==
  ASSUME NEW w, NodesOnce(w), NEW i \in 1..Len(w)
  PROVE  /\ NodesOnce(Dropped(w, i)) /\ Len(Dropped(w, i)) = Len(w) - 1
         /\ \A j \in 1..(i - 1) : Dropped(w, i)[j] = w[j]
         /\ Range(Dropped(w, i)) = Range(w) \ {w[i]}
<1> DEFINE n == Len(w)
           u == [w EXCEPT ![i] = w[n]]
           d == SubSeq(u, 1, n - 1)
<1>1. w \in Seq(Nodes) /\ n \in Nat \ {0} /\ DOMAIN w = 1..n
  BY RangeByPosition DEF NodesOnce
<1>2. \A j, k \in 1..n : w[j] = w[k] => j = k
  BY <1>1 DEF NodesOnce, IsInjective
<1>3. \A j \in 1..n : w[j] \in Nodes
  BY <1>1, ElementOfSeq
<1>4. u = [j \in 1..n |-> IF j = i THEN w[n] ELSE w[j]]
  <2>1. w \in [1..Len(w) -> Nodes]
    BY <1>1
  <2>2. w \in [1..n -> Nodes]
    BY <2>1 DEF n
  <2> QED
    BY <2>2
<1>5. u \in Seq(Nodes) /\ Len(u) = n
  <2>1. n \in 1..n
    BY <1>1
  <2>2. u \in [1..n -> Nodes]
    BY <1>3, <1>4, <2>1
  <2> QED
    BY <1>1, <2>2
<1>6. d \in Seq(Nodes) /\ Len(d) = n - 1 /\ \A j \in 1..(n - 1) : d[j] = u[j]
  BY <1>1, <1>5
<1>7. \A j \in 1..(n - 1) : d[j] = IF j = i THEN w[n] ELSE w[j]
  BY <1>1, <1>4, <1>6
<1>8. DOMAIN d = 1..(n - 1)
  BY <1>6, LenProperties
<1>9. n \in 1..n /\ i \in 1..n /\ \A j \in 1..(n - 1) : j \in 1..n /\ j # n
  <2> HIDE DEF n
  <2>1. i \in 1..n
    BY DEF n
  <2> QED
    BY <1>1, <2>1
<1>10. IsInjective(d)
  <2> SUFFICES ASSUME NEW j \in 1..(n - 1), NEW k \in 1..(n - 1), d[j] = d[k] PROVE j = k
    BY <1>8 DEF IsInjective
  <2> HIDE DEF d, n
  <2> QED
    BY <1>2, <1>7, <1>9
<1>11. Range(d) = Range(w) \ {w[i]}
  <2> HIDE DEF d, n
  <2>1. ASSUME NEW j \in 1..(n - 1) PROVE d[j] \in Range(w) \ {w[i]}
    BY <1>1, <1>2, <1>7, <1>9 DEF Range
  <2>2. ASSUME NEW j \in 1..n, j # i PROVE w[j] \in Range(d)
    <3>1. CASE j = n
      <4>1. i \in 1..(n - 1)
        BY <1>1, <2>2, <3>1
      <4> QED
        BY <1>7, <1>8, <3>1, <4>1 DEF Range
    <3>2. CASE j # n
      <4>1. j \in 1..(n - 1)
        BY <1>1, <3>2
      <4> QED
        BY <1>7, <1>8, <2>2, <4>1 DEF Range
    <3> QED
      BY <3>1, <3>2
  <2>3. \A x \in Range(d) : x \in Range(w) \ {w[i]}
    BY <1>8, <2>1 DEF Range
  <2>4. \A x \in Range(w) : x # w[i] => x \in Range(d)
    BY <1>1, <2>2 DEF Range
  <2> QED
    BY <2>3, <2>4
<1>12. \A j \in 1..(i - 1) : d[j] = w[j]
  <2> HIDE DEF d
  <2> QED
    BY <1>1, <1>7
<1> QED
  BY <1>6, <1>10, <1>11, <1>12 DEF Dropped, NodesOnce

(* One iteration of _remove().                                             *)
RemoveStep(to_go, p) ==
  IF p[2][p[1]] \in to_go THEN <<p[1], Dropped(p[2], p[1])>> ELSE <<p[1] + 1, p[2]>>

(* The iterations one after the other.                                     *)
Removal(left, v, to_go) ==
  /\ left[0] = <<1, v>> /\ RemoveNodes(v, to_go) = left[Len(v)][2]
  /\ \A k \in 1..Len(v) : left[k] = RemoveStep(to_go, left[k - 1])

LEMMA RemoveOneByOne ==
  ASSUME NEW v \in Seq(Nodes), NEW to_go
  PROVE  \E left : Removal(left, v, to_go)
<1> DEFINE m == Len(v)
           X == Nat \X Seq(Nodes)
           s == [p \in (1..m) \X X |-> RemoveStep(to_go, p[2])]
<1>1. m \in Nat /\ <<1, v>> \in X
  BY LenProperties
<1>2. \A p \in X : RemoveStep(to_go, p) \in X
  <2> SUFFICES ASSUME NEW i \in Nat, NEW w \in Seq(Nodes) PROVE Dropped(w, i) \in Seq(Nodes)
    BY DEF RemoveStep
  <2>1. PICK u : u = [w EXCEPT ![i] = w[Len(w)]]
    OBVIOUS
  <2>2. u \in Seq(Nodes) /\ Len(u) = Len(w)
    <3>1. DOMAIN w = 1..Len(w) /\ Len(w) \in Nat /\ \A j \in 1..Len(w) : w[j] \in Nodes
      BY RangeByPosition, ElementOfSeq
    <3>2. u = [j \in 1..Len(w) |-> IF j = i THEN w[Len(w)] ELSE w[j]]
      BY <2>1, <3>1
    <3>3. \A j \in 1..Len(w) : Len(w) \in 1..Len(w)
      BY <3>1
    <3>4. u \in [1..Len(w) -> Nodes]
      BY <3>1, <3>2, <3>3
    <3> QED
      BY <3>1, <3>4
  <2>3. Len(w) \in Nat
    BY LenProperties
  <2>4. SubSeq(u, 1, Len(w) - 1) \in Seq(Nodes)
    BY <2>2, <2>3
  <2> QED
    BY <2>1, <2>4 DEF Dropped
<1>3. s \in [(1..m) \X X -> X]
  <2> HIDE DEF X
  <2> QED
    BY <1>2
<1>4. PICK g \in [0..m -> X] : Follows(g, m, <<1, v>>, s)
  <2> HIDE DEF s, X, m
  <2> QED
    BY <1>1, <1>3, IntervalRecursion
<1> DEFINE Body(h) == [k \in 0..m |->
                         IF k = 0 THEN <<1, v>>
                         ELSE LET i == h[k - 1][1]
                                  w == h[k - 1][2]
                              IN  IF w[i] \in to_go
                                  THEN <<i, SubSeq([w EXCEPT ![i] = w[Len(w)]], 1, Len(w) - 1)>>
                                  ELSE <<i + 1, w>>]
           left == CHOOSE h : h = Body(h)
<1>5. \A h : Body(h) = [k \in 0..m |-> IF k = 0 THEN <<1, v>> ELSE RemoveStep(to_go, h[k - 1])]
  BY DEF RemoveStep, Dropped
<1>6. g = Body(g)
  <2>1. \A k \in 1..m : g[k] = RemoveStep(to_go, g[k - 1])
    <3> SUFFICES ASSUME NEW k \in 1..m PROVE g[k] = RemoveStep(to_go, g[k - 1])
      OBVIOUS
    <3>1. k - 1 \in 0..m
      BY <1>1
    <3>2. g[k - 1] \in X /\ g[k] = s[<<k, g[k - 1]>>]
      BY <1>4, <3>1 DEF Follows
    <3> HIDE DEF X
    <3> QED
      BY <3>2
  <2>2. g[0] = <<1, v>>
    BY <1>4 DEF Follows
  <2>3. g = [k \in 0..m |-> IF k = 0 THEN <<1, v>> ELSE RemoveStep(to_go, g[k - 1])]
    <3> HIDE DEF X
    <3>1. \A k \in 0..m : k # 0 => k \in 1..m
      BY <1>1
    <3> QED
      BY <1>4, <2>1, <2>2, <3>1
  <2> HIDE DEF Body
  <2> QED
    BY <1>5, <2>3
<1>7. left = Body(left)
  <2> HIDE DEF Body
  <2> QED
    BY <1>6
<1>8. RemoveNodes(v, to_go) = left[m][2]
  BY DEF RemoveNodes
<1> HIDE DEF left
<1>9. left = [k \in 0..m |-> IF k = 0 THEN <<1, v>> ELSE RemoveStep(to_go, left[k - 1])]
  <2> HIDE DEF Body
  <2> QED
    BY <1>5, <1>7
<1>10. left[0] = <<1, v>>
  <2> HIDE DEF m
  <2>1. 0 \in 0..m
    BY <1>1
  <2> QED
    BY <1>9, <2>1
<1>11. ASSUME NEW k \in 1..m PROVE left[k] = RemoveStep(to_go, left[k - 1])
  <2> HIDE DEF m
  <2>1. k \in 0..m /\ k # 0
    BY <1>1
  <2> QED
    BY <1>9, <2>1
<1> QED
  BY <1>8, <1>10, <1>11 DEF Removal

(* After k iterations: the nodes before the position are not to go, nodes  *)
(* that are not to go are left, and the position comes closer to the end.  *)
RemoveInv(v, to_go, p, k) ==
  /\ p = <<p[1], p[2]>>
  /\ NodesOnce(p[2]) /\ p[1] \in Nat /\ p[1] >= 1
  /\ p[1] - 1 + Len(v) = Len(p[2]) + k
  /\ \A j \in 1..(p[1] - 1) : j \in 1..Len(p[2]) /\ p[2][j] \notin to_go
  /\ Range(p[2]) \subseteq Range(v) /\ Range(v) \ to_go \subseteq Range(p[2])

(* An iteration keeps this.                                                *)
LEMMA RemoveStepKeeps ==
  ASSUME NEW v \in Seq(Nodes), NEW to_go, NEW p, NEW k \in 1..Len(v), RemoveInv(v, to_go, p, k - 1)
  PROVE  RemoveInv(v, to_go, RemoveStep(to_go, p), k)
<1>1. PICK i, w : i = p[1] /\ w = p[2]
  OBVIOUS
<1>2. /\ NodesOnce(w) /\ i \in Nat /\ i >= 1 /\ i - 1 + Len(v) = Len(w) + (k - 1)
      /\ \A j \in 1..(i - 1) : j \in 1..Len(w) /\ w[j] \notin to_go
      /\ Range(w) \subseteq Range(v) /\ Range(v) \ to_go \subseteq Range(w)
  BY <1>1 DEF RemoveInv
<1>3. Len(v) \in Nat /\ Len(w) \in Nat
  BY <1>2, RangeByPosition DEF NodesOnce
<1>4. i \in 1..Len(w)
  BY <1>2, <1>3
<1>5. CASE w[i] \in to_go
  <2>1. PICK d : d = Dropped(w, i)
    OBVIOUS
  <2>2. /\ NodesOnce(d) /\ Len(d) = Len(w) - 1
        /\ \A j \in 1..(i - 1) : d[j] = w[j]
        /\ Range(d) = Range(w) \ {w[i]}
    BY <1>2, <1>4, <2>1, DroppedElements
  <2>3. RemoveStep(to_go, p) = <<i, d>>
    BY <1>1, <1>5, <2>1 DEF RemoveStep
  <2>4. \A j \in 1..(i - 1) : j \in 1..Len(d) /\ d[j] \notin to_go
    BY <1>2, <1>3, <1>4, <2>2
  <2>5. i - 1 + Len(v) = Len(d) + k
    BY <1>2, <1>3, <2>2
  <2>6. Range(d) \subseteq Range(v) /\ Range(v) \ to_go \subseteq Range(d)
    BY <1>2, <1>5, <2>2
  <2> QED
    BY <1>2, <2>2, <2>3, <2>4, <2>5, <2>6 DEF RemoveInv
<1>6. CASE w[i] \notin to_go
  <2>0. PICK l : l = i + 1
    OBVIOUS
  <2>1. RemoveStep(to_go, p) = <<l, w>>
    BY <1>1, <1>6, <2>0 DEF RemoveStep
  <2>2. ASSUME NEW j \in 1..(l - 1) PROVE j \in 1..Len(w) /\ w[j] \notin to_go
    <3>1. j \in 1..(i - 1) \/ j = i
      BY <1>2, <2>0
    <3> QED
      BY <1>2, <1>4, <1>6, <3>1
  <2>3. l \in Nat /\ l >= 1 /\ l - 1 + Len(v) = Len(w) + k
    BY <1>2, <1>3, <2>0
  <2> QED
    BY <1>2, <2>1, <2>2, <2>3 DEF RemoveInv
<1> QED
  BY <1>5, <1>6

(* _remove() leaves the nodes that are not to go, each of them once.       *)
LEMMA RemoveNodesRemoves ==
  ASSUME NEW v, NodesOnce(v), NEW to_go
  PROVE  NodesOnce(RemoveNodes(v, to_go)) /\ Range(RemoveNodes(v, to_go)) = Range(v) \ to_go
<1>1. v \in Seq(Nodes)
  BY DEF NodesOnce
<1>2. PICK left : /\ left[0] = <<1, v>> /\ RemoveNodes(v, to_go) = left[Len(v)][2]
                  /\ \A k \in 1..Len(v) : left[k] = RemoveStep(to_go, left[k - 1])
  <2>1. PICK left : Removal(left, v, to_go)
    BY <1>1, RemoveOneByOne
  <2> QED
    BY <2>1 DEF Removal
<1>3. Len(v) \in Nat
  BY <1>1, LenProperties
<1> DEFINE S == {k \in Nat : k <= Len(v) => RemoveInv(v, to_go, left[k], k)}
<1>4. 0 \in S
  <2>1. RemoveInv(v, to_go, <<1, v>>, 0)
    BY <1>3 DEF RemoveInv
  <2> QED
    BY <1>2, <2>1
<1>5. ASSUME NEW k \in Nat, k \in S PROVE k + 1 \in S
  <2> SUFFICES ASSUME k + 1 <= Len(v) PROVE RemoveInv(v, to_go, left[k + 1], k + 1)
    OBVIOUS
  <2>1. k + 1 \in 1..Len(v) /\ (k + 1) - 1 = k /\ k <= Len(v)
    BY <1>3
  <2>2. RemoveInv(v, to_go, left[k], (k + 1) - 1)
    BY <1>5, <2>1
  <2>3. left[k + 1] = RemoveStep(to_go, left[k])
    BY <1>2, <2>1
  <2> QED
    BY <1>1, <2>1, <2>2, <2>3, RemoveStepKeeps
<1> HIDE DEF S
<1>6. Nat \subseteq S
  BY <1>4, <1>5, NatSetInduction
<1>7. RemoveInv(v, to_go, left[Len(v)], Len(v))
  BY <1>3, <1>6 DEF S
<1>8. PICK i, w : i = left[Len(v)][1] /\ w = left[Len(v)][2]
  OBVIOUS
<1>9. /\ NodesOnce(w) /\ i \in Nat /\ i - 1 + Len(v) = Len(w) + Len(v)
      /\ \A j \in 1..(i - 1) : w[j] \notin to_go
      /\ Range(w) \subseteq Range(v) /\ Range(v) \ to_go \subseteq Range(w)
  BY <1>7, <1>8 DEF RemoveInv
<1>10. w \in Seq(Nodes) /\ Len(w) \in Nat /\ i - 1 = Len(w)
  BY <1>3, <1>9, LenProperties DEF NodesOnce
<1>11. \A x \in Range(w) : x \notin to_go
  BY <1>9, <1>10, RangeByPosition
<1> QED
  BY <1>2, <1>8, <1>9, <1>11

(* Sorting keeps the nodes, each of them once.                             *)
LEMMA SortingKeepsNodes ==
  ASSUME NEW v, NodesOnce(v), NEW w \in SortedByInOutProduct(v)
  PROVE  NodesOnce(w) /\ Range(w) = Range(v)
<1>1. /\ v \in Seq(Nodes) /\ IsInjective(v)
      /\ w \in [DOMAIN v -> Range(v)] /\ IsInjective(w)
  BY DEF NodesOnce, SortedByInOutProduct
<1>2. DOMAIN v = 1..Len(v) /\ Len(v) \in Nat /\ Range(v) \subseteq Nodes
  BY <1>1, RangeByPosition
<1>3. IsFiniteSet(1..Len(v)) /\ IsFiniteSet(Range(v)) /\ Cardinality(Range(v)) = Cardinality(1..Len(v))
  <2>1. v \in [1..Len(v) -> Range(v)]
    BY <1>1, <1>2 DEF Range
  <2>2. v \in Surjection(1..Len(v), Range(v)) /\ v \in Injection(1..Len(v), Range(v))
    BY <1>1, <1>2, <2>1 DEF Surjection, Injection, IsInjective, Range
  <2>3. IsFiniteSet(1..Len(v))
    BY <1>2, FS_Interval
  <2> QED
    BY <2>2, <2>3, FS_Surjection
<1>4. w \in Injection(1..Len(v), Range(v))
  BY <1>1, <1>2 DEF Injection
<1>5. w \in Surjection(1..Len(v), Range(v))
  BY <1>3, <1>4, FS_Injection
<1>6. DOMAIN w = 1..Len(v) /\ w \in [1..Len(v) -> Nodes]
  BY <1>1, <1>2
<1>7. w \in Seq(Nodes)
  BY <1>2, <1>6
<1>8. Range(w) = Range(v)
  BY <1>1, <1>5, <1>6 DEF Surjection, Range
<1> QED
  BY <1>1, <1>7, <1>8 DEF NodesOnce

(* The number of nodes in a vector that holds each of them once.           *)
LEMMA NodesOnceCounted ==
  ASSUME NEW v, NodesOnce(v)
  PROVE  Len(v) = Cardinality(Range(v))
<1>1. v \in Seq(Nodes) /\ IsInjective(v)
  BY DEF NodesOnce
<1>2. DOMAIN v = 1..Len(v) /\ Len(v) \in Nat
  BY <1>1, RangeByPosition
<1>3. v \in [1..Len(v) -> Range(v)]
  BY <1>1, <1>2 DEF Range
<1>4. v \in Surjection(1..Len(v), Range(v)) /\ v \in Injection(1..Len(v), Range(v))
  BY <1>1, <1>2, <1>3 DEF Surjection, Injection, IsInjective, Range
<1>5. IsFiniteSet(1..Len(v)) /\ Cardinality(1..Len(v)) = Len(v)
  <2>1. PICK n \in Nat : n = Len(v)
    BY <1>2
  <2>2. IsFiniteSet(1..n) /\ Cardinality(1..n) = IF 1 > n THEN 0 ELSE n - 1 + 1
    BY FS_Interval
  <2>3. Cardinality(1..n) = n
    BY <2>2
  <2> QED
    BY <2>1, <2>2, <2>3
<1> QED
  BY <1>4, <1>5, FS_Surjection

-----------------------------------------------------------------------------
(* The nodes of a round.                                                   *)

(* Appending a node adds it to the range.                                  *)
LEMMA AppendedNode ==
  ASSUME NEW w \in Seq(Nodes), NEW n \in Nodes
  PROVE  Append(w, n) \in Seq(Nodes) /\ Range(Append(w, n)) = Range(w) \cup {n}
<1>1. /\ Append(w, n) \in Seq(Nodes) /\ Len(Append(w, n)) = Len(w) + 1 /\ Len(w) \in Nat
      /\ Append(w, n)[Len(w) + 1] = n
      /\ \A i \in 1..Len(w) : Append(w, n)[i] = w[i]
  BY LenProperties
<1>2. \A x : x \in Range(Append(w, n)) <=> \E i \in 1..(Len(w) + 1) : x = Append(w, n)[i]
  <2>1. PICK a : a = Append(w, n)
    OBVIOUS
  <2>2. a \in Seq(Nodes) /\ Len(a) = Len(w) + 1
    BY <1>1, <2>1
  <2>3. \A x : x \in Range(a) <=> \E i \in 1..Len(a) : x = a[i]
    BY <2>2, RangeByPosition
  <2> QED
    BY <2>1, <2>2, <2>3
<1>3. \A x : x \in Range(w) <=> \E i \in 1..Len(w) : x = w[i]
  BY RangeByPosition
<1>4. 1..(Len(w) + 1) = 1..Len(w) \cup {Len(w) + 1}
  BY <1>1
<1>5. \A x : x \in Range(Append(w, n)) <=> x \in Range(w) \cup {n}
  BY <1>1, <1>2, <1>3, <1>4
<1> QED
  BY <1>1, <1>5

(* One node after the other, as FoldLeft() takes them.                     *)
Selection == [marked : SUBSET Nodes, set : Seq(Nodes)]

NoSelection == [marked |-> {}, set |-> <<>>]

MarkNode(state, n) ==
  IF n \in state.marked THEN state
  ELSE [marked |-> state.marked \cup {n} \cup Neighbours(n), set |-> Append(state.set, n)]

(* The edges join nodes, and no edge is a loop.                            *)
PlainGraph == \A e \in Edges : e.src \in Nodes /\ e.tgt \in Nodes /\ e.src # e.tgt

(* The neighbours of a node are the other ends of its edges.               *)
LEMMA NeighboursOfNode ==
  ASSUME PlainGraph, NEW n
  PROVE  /\ Neighbours(n) \subseteq Nodes
         /\ \A e \in Edges : /\ e.src = n => e.tgt \in Neighbours(n)
                             /\ e.tgt = n => e.src \in Neighbours(n)
<1>1. \A m : m \in Neighbours(n) <=>
        \/ \E e \in Edges : e.src = n /\ m = e.tgt
        \/ \E e \in Edges : e.tgt = n /\ m = e.src
  BY DEF Neighbours, NodeEdges, OtherNode, Opposite, EdgeType
<1> QED
  BY <1>1 DEF PlainGraph

(* The selections after each of the nodes.                                 *)
Selecting(states, v) ==
  /\ states[0] = NoSelection /\ CalcIndependentSet(v) = states[Len(v)].set
  /\ \A k \in 1..Len(v) : states[k] = MarkNode(states[k - 1], v[k])

(* They exist.                                                             *)
LEMMA SelectOneByOne ==
  ASSUME PlainGraph, NEW v \in Seq(Nodes)
  PROVE  \E states : Selecting(states, v)
<1> DEFINE n == Len(v)
           s == [p \in (1..n) \X Selection |-> MarkNode(p[2], v[p[1]])]
<1>1. n \in Nat /\ DOMAIN v = 1..n /\ \A k \in 1..n : v[k] \in Nodes
  BY LenProperties, ElementOfSeq
<1>2. ASSUME NEW x \in Selection, NEW m \in Nodes PROVE MarkNode(x, m) \in Selection
  <2>1. x.marked \in SUBSET Nodes /\ x.set \in Seq(Nodes)
    BY DEF Selection
  <2>2. Neighbours(m) \in SUBSET Nodes /\ Append(x.set, m) \in Seq(Nodes)
    BY <2>1, NeighboursOfNode, AppendedNode
  <2> QED
    BY <2>1, <2>2 DEF MarkNode, Selection
<1>3. s \in [(1..n) \X Selection -> Selection]
  <2> HIDE DEF n
  <2> QED
    BY <1>1, <1>2
<1>4. NoSelection \in Selection
  BY EmptySeq DEF NoSelection, Selection
<1>5. PICK g \in [SUBSET (1..n) -> Selection] : SetFollows(g, 1..n, NoSelection, LastOf(n), s)
  <2> HIDE DEF s, n
  <2> QED
    BY <1>1, <1>3, <1>4, FoldExists
<1> DEFINE Body(h) == [T \in SUBSET DOMAIN v |->
                         IF T = {} THEN NoSelection
                         ELSE LET x == Max(T) IN MarkNode(h[T \ {x}], v[x])]
           f == CHOOSE h : h = Body(h)
<1>6. g = Body(g)
  <2>1. ASSUME NEW T \in SUBSET (1..n), T # {}
        PROVE  g[T] = MarkNode(g[T \ {Max(T)}], v[Max(T)])
    <3> DEFINE m == Max(T)
    <3>1. m \in T
      BY <1>1, <2>1, MaxOfPositions
    <3>2. LastOf(n)[T] = m
      BY DEF LastOf
    <3> HIDE DEF m
    <3>3. m \in 1..n /\ g[T \ {m}] \in Selection
      BY <1>5, <3>1
    <3>4. g[T] = s[<<m, g[T \ {m}]>>]
      BY <1>5, <2>1, <3>2 DEF SetFollows
    <3>5. g[T] = MarkNode(g[T \ {m}], v[m])
      BY <3>3, <3>4
    <3> QED
      BY <3>5 DEF m
  <2>2. g[{}] = NoSelection
    BY <1>5 DEF SetFollows
  <2>3. \A T \in SUBSET (1..n) :
          g[T] = IF T = {} THEN NoSelection ELSE LET x == Max(T) IN MarkNode(g[T \ {x}], v[x])
    BY <2>1, <2>2
  <2> QED
    BY <1>1, <1>5, <2>3
<1>7. f = Body(f)
  <2> HIDE DEF Body
  <2> QED
    BY <1>6
<1>8. CalcIndependentSet(v) = f[1..n].set
  BY <1>1 DEF CalcIndependentSet, FoldLeft, MapThenFoldSet, MarkNode, NoSelection
<1> HIDE DEF f
<1> DEFINE states == [k \in 0..n |-> f[1..k]]
<1>9. states[0] = NoSelection
  <2>1. 1..0 = {}
    OBVIOUS
  <2> QED
    BY <1>1, <1>7, <2>1
<1>10. states[n] = f[1..n]
  BY <1>1
<1>11. ASSUME NEW k \in 1..n PROVE states[k] = MarkNode(states[k - 1], v[k])
  <2>1. Max(1..k) = k /\ (1..k) \ {k} = 1..(k - 1) /\ 1..k # {} /\ 1..k \in SUBSET (1..n)
    BY <1>1, LastPosition
  <2>2. f[1..k] = MarkNode(f[(1..k) \ {Max(1..k)}], v[Max(1..k)])
    BY <1>1, <1>7, <2>1
  <2>3. k \in 0..n /\ k - 1 \in 0..n
    BY <1>1
  <2> QED
    BY <2>1, <2>2, <2>3
<1> HIDE DEF states
<1> QED
  BY <1>8, <1>9, <1>10, <1>11 DEF Selecting

(* The nodes that are chosen are some of those looked at, they and their   *)
(* neighbours are marked, and no edge joins two of them.                   *)
SelectionInv(v, x) ==
  /\ x \in Selection
  /\ Range(x.set) \subseteq Range(v) /\ Range(x.set) \subseteq x.marked
  /\ \A e \in Edges : /\ e.src \in Range(x.set) => e.tgt \in x.marked
                      /\ e.tgt \in Range(x.set) => e.src \in x.marked
                      /\ e.src \notin Range(x.set) \/ e.tgt \notin Range(x.set)

(* Marking a node keeps this.                                              *)
LEMMA MarkNodeKeeps ==
  ASSUME PlainGraph, NEW v \in Seq(Nodes), NEW x, SelectionInv(v, x), NEW n \in Range(v)
  PROVE  SelectionInv(v, MarkNode(x, n))
<1>1. CASE n \in x.marked
  BY <1>1 DEF MarkNode
<1>2. CASE n \notin x.marked
  <2>1. n \in Nodes /\ x.marked \in SUBSET Nodes /\ x.set \in Seq(Nodes)
    BY RangeByPosition DEF SelectionInv, Selection
  <2>2. PICK w : w = Append(x.set, n)
    OBVIOUS
  <2>3. w \in Seq(Nodes) /\ Range(w) = Range(x.set) \cup {n}
    BY <2>1, <2>2, AppendedNode
  <2>4. PICK N : N = Neighbours(n)
    OBVIOUS
  <2>5. /\ N \subseteq Nodes
        /\ \A e \in Edges : (e.src = n => e.tgt \in N) /\ (e.tgt = n => e.src \in N)
    BY <2>4, NeighboursOfNode
  <2>6. PICK M : M = x.marked \cup {n} \cup N
    OBVIOUS
  <2>7. MarkNode(x, n) = [marked |-> M, set |-> w]
    BY <1>2, <2>2, <2>4, <2>6 DEF MarkNode
  <2>8. [marked |-> M, set |-> w] \in Selection
    BY <2>1, <2>3, <2>5, <2>6 DEF Selection
  <2>9. ASSUME NEW e \in Edges
        PROVE  /\ e.src \in Range(w) => e.tgt \in M
               /\ e.tgt \in Range(w) => e.src \in M
               /\ e.src \notin Range(w) \/ e.tgt \notin Range(w)
    <3>1. e.src # e.tgt
      BY DEF PlainGraph
    <3>2. /\ e.src \in Range(x.set) => e.tgt \in x.marked
          /\ e.tgt \in Range(x.set) => e.src \in x.marked
          /\ e.src \notin Range(x.set) \/ e.tgt \notin Range(x.set)
      BY DEF SelectionInv
    <3> QED
      BY <1>2, <2>3, <2>5, <2>6, <3>1, <3>2
  <2>10. Range(w) \subseteq Range(v) /\ Range(w) \subseteq M
    BY <2>3, <2>6 DEF SelectionInv
  <2> QED
    BY <2>7, <2>8, <2>9, <2>10 DEF SelectionInv
<1> QED
  BY <1>1, <1>2

(* calcIndependentSet() chooses independent nodes.                         *)
LEMMA IndependentSetIndependent ==
  ASSUME PlainGraph, NEW v \in Seq(Nodes)
  PROVE  /\ CalcIndependentSet(v) \in Seq(Nodes) /\ Range(CalcIndependentSet(v)) \subseteq Range(v)
         /\ \A e \in Edges : e.src \notin Range(CalcIndependentSet(v)) \/ e.tgt \notin Range(CalcIndependentSet(v))
<1>1. PICK states : Selecting(states, v)
  BY SelectOneByOne
<1>2. Len(v) \in Nat /\ \A k \in 1..Len(v) : v[k] \in Range(v)
  BY LenProperties, RangeByPosition
<1> DEFINE S == {k \in Nat : k <= Len(v) => SelectionInv(v, states[k])}
<1>3. 0 \in S
  <2>1. NoSelection \in Selection
    BY EmptySeq DEF NoSelection, Selection
  <2>2. Range(<<>>) = {}
    BY DEF Range
  <2>3. SelectionInv(v, NoSelection)
    BY <2>1, <2>2 DEF SelectionInv, NoSelection
  <2> QED
    BY <1>1, <2>3 DEF Selecting
<1>4. ASSUME NEW k \in Nat, k \in S PROVE k + 1 \in S
  <2> SUFFICES ASSUME k + 1 <= Len(v) PROVE SelectionInv(v, states[k + 1])
    OBVIOUS
  <2>1. k + 1 \in 1..Len(v) /\ (k + 1) - 1 = k /\ k <= Len(v)
    BY <1>2
  <2>2. SelectionInv(v, states[k]) /\ v[k + 1] \in Range(v)
    BY <1>2, <1>4, <2>1
  <2>3. states[k + 1] = MarkNode(states[k], v[k + 1])
    BY <1>1, <2>1 DEF Selecting
  <2> QED
    BY <2>2, <2>3, MarkNodeKeeps
<1> HIDE DEF S
<1>5. Nat \subseteq S
  BY <1>3, <1>4, NatSetInduction
<1>6. SelectionInv(v, states[Len(v)])
  BY <1>2, <1>5 DEF S
<1>7. CalcIndependentSet(v) = states[Len(v)].set
  BY <1>1 DEF Selecting
<1> QED
  BY <1>6, <1>7 DEF SelectionInv, Selection

(* The nodes with a low edge difference, one after the other.              *)
AddLow(v, low, n) == IF diffs[n] * Len(v) <= DiffSum(v) THEN Append(low, n) ELSE low

Filtering(lows, v) ==
  /\ lows[0] = <<>> /\ LowEdgeDiffNodes(v) = lows[Len(v)]
  /\ \A k \in 1..Len(v) : lows[k] = AddLow(v, lows[k - 1], v[k])

(* They exist.                                                             *)
LEMMA FilterOneByOne ==
  ASSUME NEW v \in Seq(Nodes)
  PROVE  \E lows : Filtering(lows, v)
<1> DEFINE n == Len(v)
           X == Seq(Nodes)
           s == [p \in (1..n) \X X |-> AddLow(v, p[2], v[p[1]])]
<1>1. n \in Nat /\ DOMAIN v = 1..n /\ \A k \in 1..n : v[k] \in Nodes
  BY LenProperties, ElementOfSeq
<1>2. ASSUME NEW x \in X, NEW m \in Nodes PROVE AddLow(v, x, m) \in X
  BY AppendedNode DEF AddLow
<1>3. s \in [(1..n) \X X -> X]
  <2> HIDE DEF n, X
  <2> QED
    BY <1>1, <1>2
<1>4. <<>> \in X
  BY EmptySeq
<1>5. PICK g \in [SUBSET (1..n) -> X] : SetFollows(g, 1..n, <<>>, LastOf(n), s)
  <2> HIDE DEF s, n, X
  <2> QED
    BY <1>1, <1>3, <1>4, FoldExists
<1> DEFINE Body(h) == [T \in SUBSET DOMAIN v |->
                         IF T = {} THEN <<>>
                         ELSE LET x == Max(T) IN AddLow(v, h[T \ {x}], v[x])]
           f == CHOOSE h : h = Body(h)
<1>6. g = Body(g)
  <2>1. ASSUME NEW T \in SUBSET (1..n), T # {}
        PROVE  g[T] = AddLow(v, g[T \ {Max(T)}], v[Max(T)])
    <3> DEFINE m == Max(T)
    <3>1. m \in T
      BY <1>1, <2>1, MaxOfPositions
    <3>2. LastOf(n)[T] = m
      BY DEF LastOf
    <3> HIDE DEF m
    <3>3. m \in 1..n /\ g[T \ {m}] \in X
      BY <1>5, <3>1
    <3>4. g[T] = s[<<m, g[T \ {m}]>>]
      BY <1>5, <2>1, <3>2 DEF SetFollows
    <3>5. g[T] = AddLow(v, g[T \ {m}], v[m])
      <4> HIDE DEF X
      <4> QED
        BY <3>3, <3>4
    <3> QED
      BY <3>5 DEF m
  <2>2. g[{}] = <<>>
    BY <1>5 DEF SetFollows
  <2>3. \A T \in SUBSET (1..n) :
          g[T] = IF T = {} THEN <<>> ELSE LET x == Max(T) IN AddLow(v, g[T \ {x}], v[x])
    BY <2>1, <2>2
  <2> HIDE DEF X
  <2> QED
    BY <1>1, <1>5, <2>3
<1>7. f = Body(f)
  <2> HIDE DEF Body
  <2> QED
    BY <1>6
<1>8. LowEdgeDiffNodes(v) = f[1..n]
  BY <1>1 DEF LowEdgeDiffNodes, FoldLeft, MapThenFoldSet, AddLow
<1> HIDE DEF f
<1> DEFINE lows == [k \in 0..n |-> f[1..k]]
<1>9. lows[0] = <<>>
  <2>1. 1..0 = {}
    OBVIOUS
  <2> QED
    BY <1>1, <1>7, <2>1
<1>10. lows[n] = f[1..n]
  BY <1>1
<1>11. ASSUME NEW k \in 1..n PROVE lows[k] = AddLow(v, lows[k - 1], v[k])
  <2>1. Max(1..k) = k /\ (1..k) \ {k} = 1..(k - 1) /\ 1..k # {} /\ 1..k \in SUBSET (1..n)
    BY <1>1, LastPosition
  <2>2. f[1..k] = AddLow(v, f[(1..k) \ {Max(1..k)}], v[Max(1..k)])
    BY <1>1, <1>7, <2>1
  <2>3. k \in 0..n /\ k - 1 \in 0..n
    BY <1>1
  <2> QED
    BY <2>1, <2>2, <2>3
<1> HIDE DEF lows
<1> QED
  BY <1>8, <1>9, <1>10, <1>11 DEF Filtering

(* Whatever the edge differences are, the nodes are some of those given.   *)
LEMMA LowEdgeDiffNodesAreNodes ==
  ASSUME NEW v \in Seq(Nodes)
  PROVE  LowEdgeDiffNodes(v) \in Seq(Nodes) /\ Range(LowEdgeDiffNodes(v)) \subseteq Range(v)
<1>1. PICK lows : Filtering(lows, v)
  BY FilterOneByOne
<1>2. Len(v) \in Nat /\ Range(v) \subseteq Nodes /\ \A k \in 1..Len(v) : v[k] \in Range(v)
  BY RangeByPosition
<1> DEFINE S == {k \in Nat : k <= Len(v) => lows[k] \in Seq(Nodes) /\ Range(lows[k]) \subseteq Range(v)}
<1>3. 0 \in S
  <2>1. Range(<<>>) = {} /\ <<>> \in Seq(Nodes)
    BY EmptySeq DEF Range
  <2> QED
    BY <1>1, <2>1 DEF Filtering
<1>4. ASSUME NEW k \in Nat, k \in S PROVE k + 1 \in S
  <2> SUFFICES ASSUME k + 1 <= Len(v)
               PROVE  lows[k + 1] \in Seq(Nodes) /\ Range(lows[k + 1]) \subseteq Range(v)
    OBVIOUS
  <2>1. k + 1 \in 1..Len(v) /\ (k + 1) - 1 = k /\ k <= Len(v)
    BY <1>2
  <2>2. lows[k] \in Seq(Nodes) /\ Range(lows[k]) \subseteq Range(v)
    BY <1>4, <2>1
  <2>3. v[k + 1] \in Range(v) /\ v[k + 1] \in Nodes
    BY <1>2, <2>1
  <2>4. lows[k + 1] = AddLow(v, lows[k], v[k + 1])
    BY <1>1, <2>1 DEF Filtering
  <2>5. /\ Append(lows[k], v[k + 1]) \in Seq(Nodes)
        /\ Range(Append(lows[k], v[k + 1])) = Range(lows[k]) \cup {v[k + 1]}
    BY <2>2, <2>3, AppendedNode
  <2> QED
    BY <2>2, <2>3, <2>4, <2>5 DEF AddLow
<1> HIDE DEF S
<1>5. Nat \subseteq S
  BY <1>3, <1>4, NatSetInduction
<1>6. LowEdgeDiffNodes(v) = lows[Len(v)]
  BY <1>1 DEF Filtering
<1> QED
  BY <1>2, <1>5, <1>6 DEF S

-----------------------------------------------------------------------------
(* The construction with nodes chosen in each round.                       *)

(* The nodes without a level.                                              *)
NodesLeft == {n \in Nodes : ~Contracted(n)}

(* The steps of the prioritizer belong to the head of a round.             *)
RoundPhase == IF phase \in {"edge_diffs", "choose"} THEN "round" ELSE phase

Rounds == INSTANCE CHConstructorProofs WITH nodes <- NodesLeft, phase <- RoundPhase

(* The same assumptions hold of it.                                        *)
LEMMA RoundsAssumptions ==
  /\ \A S : Rounds!IsFiniteSet(S) <=> IsFiniteSet(S)
  /\ \A g : Rounds!IsInputGraph(g) <=> IsInputGraph(g)
<1>1. \A S : Rounds!IsFiniteSet(S) <=> IsFiniteSet(S)
  BY DEF Rounds!IsFiniteSet, IsFiniteSet
<1>2. \A g : Rounds!IsInputGraph(g) <=> IsInputGraph(g)
  BY DEF Rounds!IsInputGraph, IsInputGraph, Rounds!Nodes, Nodes, Rounds!Uint, Uint, Rounds!NO_EID, NO_EID,
         Rounds!CHEdge, CHEdge, Rounds!SrcTgtLess, SrcTgtLess, Rounds!InputEdge, InputEdge,
         Rounds!NO_NID, NO_NID
<1> QED
  BY <1>1, <1>2

(* So its steps keep its invariants.                                       *)
LEMMA RoundsKeep == Rounds!IInv /\ [Rounds!AnyNext]_(Rounds!vars) => Rounds!IInv'
BY Rounds!AnyKeeps, RoundsAssumptions,
   SizeAssumption, InputAssumption, ThreadsAssumption, QuickAssumption

(* The distances too.                                                      *)
LEMMA RoundsKeepDistances == Rounds!DistanceInv /\ [Rounds!AnyNext]_(Rounds!vars) => Rounds!DistanceInv'
BY Rounds!AnyKeepsDistances, RoundsAssumptions,
   SizeAssumption, InputAssumption, ThreadsAssumption, QuickAssumption

(* The graph is the same.                                                  *)
LEMMA RoundsGraph ==
  /\ Rounds!Edges = Edges /\ Rounds!Nodes = Nodes /\ Rounds!CHEdge = CHEdge
  /\ Rounds!NO_LVL = NO_LVL
  /\ \A n : Rounds!Contracted(n) <=> Contracted(n)
BY DEF Rounds!Edges, Edges, Rounds!Nodes, Nodes, Rounds!CHEdge, CHEdge, Rounds!Uint, Uint,
       Rounds!NO_LVL, NO_LVL, Rounds!Contracted, Contracted

(* Its helpers.                                                            *)
LEMMA RoundsHelpers ==
  /\ \A n, type : NodeEdges(n, type) = Rounds!NodeEdges(n, type)
  /\ \A n : /\ NrOfEdges(n) = Rounds!NrOfEdges(n)
            /\ Shortcuts(n) = Rounds!Shortcuts(n)
            /\ InOutProduct(n) = Rounds!InOutProduct(n)
            /\ Neighbours(n) = Rounds!Neighbours(n)
  /\ \A S : Cardinality(S) = Rounds!Cardinality(S)
<1>1. \A n, type : NodeEdges(n, type) = Rounds!NodeEdges(n, type)
  BY DEF Rounds!NodeEdges, NodeEdges, Rounds!Edges, Edges,
         Rounds!OtherNode, OtherNode, Rounds!Opposite, Opposite
<1>2. \A S : Cardinality(S) = Rounds!Cardinality(S)
  BY DEF Rounds!Cardinality, Cardinality
<1>3. \A n, type : NrOfEdgesOf(n, type) = Rounds!NrOfEdgesOf(n, type)
  BY <1>1, <1>2 DEF Rounds!NrOfEdgesOf, NrOfEdgesOf
<1>4. \A n : /\ NrOfEdges(n) = Rounds!NrOfEdges(n)
             /\ InOutProduct(n) = Rounds!InOutProduct(n)
             /\ SearchDirection(n) = Rounds!SearchDirection(n)
  BY <1>3 DEF Rounds!NrOfEdges, NrOfEdges, Rounds!InOutProduct, InOutProduct,
              Rounds!SearchDirection, SearchDirection
<1>5. \A n : Neighbours(n) = Rounds!Neighbours(n)
  BY <1>1 DEF Rounds!Neighbours, Neighbours, Rounds!OtherNode, OtherNode,
              Rounds!EdgeType, EdgeType
<1>6. \A e, n, type : Targets(e, n, type) = Rounds!Targets(e, n, type)
  BY <1>1 DEF Rounds!Targets, Targets, Rounds!NoLoop, NoLoop,
              Rounds!OtherNode, OtherNode, Rounds!Opposite, Opposite
<1>7. \A S, e : Radius(S, e) = Rounds!Radius(S, e)
  BY DEF Rounds!Radius, Radius, Rounds!UintAdd, UintAdd, Rounds!Max, Max
<1>8. \A E, s, type, r : CalcShortestDists(E, s, type, r) = Rounds!CalcShortestDists(E, s, type, r)
  BY DEF Rounds!CalcShortestDists, CalcShortestDists, Rounds!SearchStates, SearchStates,
         Rounds!SearchStart, SearchStart, Rounds!SearchEnds, SearchEnds,
         Rounds!Top, Top, Rounds!PopAndRelax, PopAndRelax,
         Rounds!WithinRadius, WithinRadius, Rounds!UintAdd, UintAdd,
         Rounds!OtherNode, OtherNode, Rounds!Opposite, Opposite,
         Rounds!Min, Min, Rounds!Nodes, Nodes, Rounds!Uint, Uint,
         Rounds!NO_DIST, NO_DIST
<1>9. \A e, n, type : SearchDists(e, n, type) = Rounds!SearchDists(e, n, type)
  BY <1>6, <1>7, <1>8 DEF Rounds!SearchDists, SearchDists, Rounds!Edges, Edges,
              Rounds!OtherNode, OtherNode, Rounds!Opposite, Opposite
<1>10. \A a, b, type : CreateShortcut(a, b, type) = Rounds!CreateShortcut(a, b, type)
  BY DEF Rounds!MakeShortcut, MakeShortcut, Rounds!UintAdd, UintAdd,
         Rounds!NO_EID, NO_EID, Rounds!CreateShortcut, CreateShortcut
<1>11. /\ \A e, type : OtherNode(e, type) = Rounds!OtherNode(e, type)
       /\ \A a, b : UintAdd(a, b) = Rounds!UintAdd(a, b)
  BY DEF Rounds!OtherNode, OtherNode, Rounds!UintAdd, UintAdd
<1>12. \A e, n, type : CalcShortcuts(e, n, type) = Rounds!CalcShortcuts(e, n, type)
  <2> SUFFICES ASSUME NEW e, NEW n, NEW type
               PROVE  CalcShortcuts(e, n, type) = Rounds!CalcShortcuts(e, n, type)
    OBVIOUS
  <2>1. PICK dists : dists = Rounds!SearchDists(e, n, type)
    OBVIOUS
  <2>2. PICK T : T = Rounds!Targets(e, n, type)
    OBVIOUS
  <2>3. Rounds!CalcShortcuts(e, n, type) =
          IF dists[n] # e.dist THEN {}
          ELSE {Rounds!CreateShortcut(e, x, type) :
                  x \in {y \in T : dists[Rounds!OtherNode(y, type)] = Rounds!UintAdd(e.dist, y.dist)}}
    BY <2>1, <2>2 DEF Rounds!CalcShortcuts
  <2>4. CalcShortcuts(e, n, type) =
          IF dists[n] # e.dist THEN {}
          ELSE {CreateShortcut(e, x, type) :
                  x \in {y \in T : dists[OtherNode(y, type)] = UintAdd(e.dist, y.dist)}}
    BY <1>6, <1>9, <2>1, <2>2 DEF CalcShortcuts
  <2> QED
    BY <1>10, <1>11, <2>3, <2>4
<1>13. \A n : ShortcutsOf(n) = Rounds!ShortcutsOf(n)
  BY <1>1, <1>4, <1>12 DEF Rounds!ShortcutsOf, ShortcutsOf, Rounds!NoLoop, NoLoop,
              Rounds!Opposite, Opposite
<1>14. \A n : QuickShortcutsOf(n) = Rounds!QuickShortcutsOf(n)
  BY <1>1, <1>10 DEF Rounds!QuickShortcutsOf, QuickShortcutsOf, Rounds!NoLoop, NoLoop
<1>15. \A n : Shortcuts(n) = Rounds!Shortcuts(n)
  BY <1>13, <1>14 DEF Rounds!Shortcuts, Shortcuts
<1> QED
  BY <1>1, <1>2, <1>4, <1>5, <1>15

(* The merge of the graph.                                                 *)
LEMMA RoundsMerge ==
  /\ \A S, C : BeginRestructure(S, C) <=> Rounds!BeginRestructure(S, C)
  /\ \A S : /\ MergeShortcut(S) <=> Rounds!MergeShortcut(S)
            /\ MergeEdge(S) <=> Rounds!MergeEdge(S)
  /\ FinishRestructure <=> Rounds!FinishRestructure
<1>1. \A S, C : BeginRestructure(S, C) <=> Rounds!BeginRestructure(S, C)
  BY DEF Rounds!BeginRestructure, BeginRestructure, Rounds!LevelsLeft, LevelsLeft,
         Rounds!NO_LVL, NO_LVL, Rounds!Nodes, Nodes
<1>2. FinishRestructure <=> Rounds!FinishRestructure
  BY DEF Rounds!FinishRestructure, FinishRestructure
<1>3. /\ NO_EID = Rounds!NO_EID /\ LastEdge = Rounds!LastEdge
      /\ EdgeIdsLeft <=> Rounds!EdgeIdsLeft
      /\ \A e, f : /\ EqualEndpoints(e, f) <=> Rounds!EqualEndpoints(e, f)
                   /\ SrcTgtLess(e, f) <=> Rounds!SrcTgtLess(e, f)
      /\ \A e : IsShortcut(e) <=> Rounds!IsShortcut(e)
  BY DEF Rounds!NO_EID, NO_EID, Rounds!LastEdge, LastEdge,
         Rounds!EdgeIdsLeft, EdgeIdsLeft, Rounds!EqualEndpoints, EqualEndpoints,
         Rounds!SrcTgtLess, SrcTgtLess, Rounds!IsShortcut, IsShortcut,
         Rounds!NO_NID, NO_NID
<1>4. \A e : AddNewEdge(e) <=> Rounds!AddNewEdge(e)
  <2>1. \A e : Duplicates(e) <=> Rounds!Duplicates(e)
    BY <1>3 DEF Rounds!Duplicates, Duplicates
  <2>2. \A e : IgnoreEdge(e) <=> Rounds!IgnoreEdge(e)
    BY <1>3, <2>1 DEF Rounds!IgnoreEdge, IgnoreEdge
  <2>3. \A e : ReplaceEdge(e) <=> Rounds!ReplaceEdge(e)
    BY <1>3, <2>1 DEF Rounds!ReplaceEdge, ReplaceEdge
  <2>4. \A e : AppendEdge(e) <=> Rounds!AppendEdge(e)
    BY <1>3, <2>1 DEF Rounds!AppendEdge, AppendEdge
  <2> QED
    BY <2>2, <2>3, <2>4 DEF Rounds!AddNewEdge, AddNewEdge
<1>5. \A S : MergeShortcut(S) <=> Rounds!MergeShortcut(S)
  BY <1>3, <1>4 DEF Rounds!MergeShortcut, MergeShortcut,
              Rounds!AcceptsShortcut, AcceptsShortcut
<1>6. \A S : MergeEdge(S) <=> Rounds!MergeEdge(S)
  BY <1>3, <1>4 DEF Rounds!MergeEdge, MergeEdge, Rounds!Stays, Stays
<1> QED
  BY <1>1, <1>2, <1>5, <1>6

-----------------------------------------------------------------------------
(* The prioritizer and the graph.                                          *)

(* No edge joins two of the nodes.                                         *)
NoEdgeWithin(v) == \A e \in Edges : e.src \notin Range(v) \/ e.tgt \notin Range(v)

(* The prioritizer holds the nodes without a level, apart from those the   *)
(* parallel loop has got; those it is looking at are independent.          *)
PrioritizerInv ==
  /\ mode = "contract" /\ NodesOnce(prio_vec)
  /\ phase \in {"round", "edge_diffs", "choose", "parallel", "restructure", "contracted"}
  /\ Range(prio_vec) = IF phase = "parallel" THEN NodesLeft \ Chosen ELSE NodesLeft
  /\ phase \in {"edge_diffs", "choose"} =>
       /\ new_shortcuts = {} /\ to_remove = {}
       /\ independent_set \in Seq(Nodes) /\ Range(independent_set) \subseteq NodesLeft
       /\ NoEdgeWithin(independent_set)

PrioritizedInv == Rounds!IInv /\ PrioritizerInv

(* What is known of the state.                                             *)
LEMMA KnownOfRounds ==
  ASSUME Rounds!IInv
  PROVE  /\ PlainGraph
         /\ independent_set \in Seq(Nodes)
         /\ phase = "parallel" => Chosen \subseteq NodesLeft
         /\ phase # "parallel" => \A t \in Threads : pc[t] = "idle"
         /\ node_levels \in [Nodes -> Uint] /\ next_lvl \in Uint
<1>1. Rounds!Edges \in SUBSET Rounds!CHEdge
  BY Rounds!GraphEdges, RoundsAssumptions, SizeAssumption, InputAssumption, ThreadsAssumption, QuickAssumption
<1>2. \A e \in Rounds!Edges : e.src # e.tgt
  BY DEF Rounds!IInv, Rounds!NoLoops, Rounds!NoLoop
<1>3. PlainGraph
  BY <1>1, <1>2, RoundsGraph DEF PlainGraph, CHEdge
<1>4. /\ independent_set \in Seq(Nodes)
      /\ node_levels \in [Nodes -> Uint] /\ next_lvl \in Uint
  BY DEF Rounds!IInv, Rounds!VariableTypes, Rounds!GraphTypeOK, Rounds!Nodes, Nodes, Rounds!Uint, Uint
<1>5. phase = "parallel" => Chosen \subseteq NodesLeft
  BY DEF Rounds!IInv, Rounds!LevelsGiven, RoundPhase, Rounds!Chosen, Chosen
<1>6. phase # "parallel" => RoundPhase # "parallel"
  BY DEF RoundPhase
<1>7. phase # "parallel" => \A t \in Threads : pc[t] = "idle"
  BY <1>6 DEF Rounds!IInv, Rounds!LocalsScoped
<1> QED
  BY <1>3, <1>4, <1>5, <1>7

(* The nodes without a level stay the same as long as the levels do.       *)
LEMMA SameNodesLeft ==
  ASSUME UNCHANGED node_levels
  PROVE  NodesLeft' = NodesLeft
BY DEF NodesLeft, Contracted

(* The chosen nodes as a range.                                            *)
LEMMA ChosenIsRange == Chosen = Range(independent_set)
BY DEF Chosen, Range

(* Handing out independent nodes enters the parallel loop with them.       *)
LEMMA HandingOut ==
  ASSUME PrioritizedInv, RoundPhase = "round", NEW v \in Seq(Nodes),
         Range(v) \subseteq NodesLeft, NoEdgeWithin(v), HandOut(v),
         new_shortcuts' = {}, to_remove' = {},
         UNCHANGED <<graph_vars, mode, round, nodes, unvisited, marked, pc, found, seen, mutex, edge_diffs>>
  PROVE  Rounds!EnterWithNodes /\ PrioritizerInv'
<1>1. /\ independent_set' = v /\ prio_vec' = RemoveNodes(prio_vec, Range(v))
      /\ phase' = "parallel" /\ next_index' = 1
  BY DEF HandOut
<1>2. NodesLeft' = NodesLeft
  BY SameNodesLeft DEF graph_vars
<1>3. phase # "parallel" /\ NodesOnce(prio_vec) /\ Range(prio_vec) = NodesLeft /\ mode = "contract"
  BY DEF PrioritizedInv, PrioritizerInv, RoundPhase
<1>4. Rounds!EnterWithNodes
  <2>1. RoundPhase' = "parallel"
    BY <1>1 DEF RoundPhase
  <2>2. v \in Seq(NodesLeft)
    <3>1. DOMAIN v = 1..Len(v) /\ Len(v) \in Nat /\ \A i \in 1..Len(v) : v[i] \in NodesLeft
      BY RangeByPosition
    <3> QED
      BY <3>1
  <2>3. Rounds!IndependentNodes(v)
    BY <2>2, RoundsGraph DEF Rounds!IndependentNodes, Rounds!Range, Range, NoEdgeWithin
  <2>5. UNCHANGED <<Rounds!graph_vars, mode, round, NodesLeft, unvisited, marked, pc, found, seen, mutex,
                    edge_diffs>>
    BY <1>2 DEF Rounds!graph_vars, graph_vars
  <2> QED
    BY <1>1, <1>3, <2>1, <2>3, <2>5 DEF Rounds!EnterWithNodes
<1>5. NodesOnce(prio_vec') /\ Range(prio_vec') = NodesLeft \ Range(v)
  BY <1>1, <1>3, RemoveNodesRemoves
<1>6. Chosen' = Range(v)
  BY <1>1 DEF Chosen, Range
<1>7. PrioritizerInv'
  BY <1>1, <1>2, <1>3, <1>5, <1>6 DEF PrioritizerInv, NodesOnce
<1> QED
  BY <1>4, <1>7

(* ONE_BY_ONE hands out the last node.                                     *)
LEMMA ChooseOneEnters ==
  ASSUME PrioritizedInv, ChooseOne
  PROVE  Rounds!EnterWithNodes /\ PrioritizerInv'
<1>1. /\ phase = "round" /\ prio_vec # <<>> /\ new_shortcuts' = {} /\ to_remove' = {}
      /\ UNCHANGED <<graph_vars, mode, round, nodes, unvisited, marked, pc, found, seen, mutex, edge_diffs>>
      /\ HandOut(<<prio_vec[Len(prio_vec)]>>)
  BY DEF ChooseOne, RoundStarts
<1>2. prio_vec \in Seq(Nodes) /\ Range(prio_vec) = NodesLeft
  BY <1>1 DEF PrioritizedInv, PrioritizerInv, NodesOnce
<1>3. Len(prio_vec) \in 1..Len(prio_vec)
  BY <1>1, <1>2, EmptySeq, LenProperties
<1>4. PICK n : n = prio_vec[Len(prio_vec)]
  OBVIOUS
<1>5. n \in NodesLeft /\ n \in Nodes
  BY <1>2, <1>3, <1>4, RangeByPosition
<1>6. <<n>> \in Seq(Nodes) /\ Range(<<n>>) = {n}
  BY <1>5 DEF Range
<1>7. NoEdgeWithin(<<n>>)
  BY <1>6, KnownOfRounds DEF NoEdgeWithin, PlainGraph, PrioritizedInv
<1>8. RoundPhase = "round"
  BY <1>1 DEF RoundPhase
<1> QED
  BY <1>1, <1>4, <1>5, <1>6, <1>7, <1>8, HandingOut

(* EDGE_DIFF hands out some of the independent nodes.                      *)
LEMMA ChooseByEdgeDiffEnters ==
  ASSUME PrioritizedInv, ChooseByEdgeDiff
  PROVE  Rounds!EnterWithNodes /\ PrioritizerInv'
<1>1. /\ phase = "choose" /\ HandOut(LowEdgeDiffNodes(independent_set))
      /\ UNCHANGED <<graph_vars, mode, round, nodes, unvisited, marked, pc, found, seen, mutex,
                     new_shortcuts, edge_diffs, to_remove>>
  BY DEF ChooseByEdgeDiff
<1>2. /\ new_shortcuts = {} /\ to_remove = {}
      /\ independent_set \in Seq(Nodes) /\ Range(independent_set) \subseteq NodesLeft
      /\ NoEdgeWithin(independent_set)
  BY <1>1 DEF PrioritizedInv, PrioritizerInv
<1>3. PICK v : v = LowEdgeDiffNodes(independent_set)
  OBVIOUS
<1>4. v \in Seq(Nodes) /\ Range(v) \subseteq Range(independent_set)
  BY <1>2, <1>3, LowEdgeDiffNodesAreNodes
<1>5. NoEdgeWithin(v)
  BY <1>2, <1>4 DEF NoEdgeWithin
<1>6. RoundPhase = "round"
  BY <1>1 DEF RoundPhase
<1>7. HandOut(v)
  BY <1>1, <1>3
<1>8. new_shortcuts' = {} /\ to_remove' = {}
  BY <1>1, <1>2
<1>9. Range(v) \subseteq NodesLeft
  BY <1>2, <1>4
<1> QED
  BY <1>1, <1>4, <1>5, <1>6, <1>7, <1>8, <1>9, HandingOut

(* Sorting the nodes and choosing independent ones.                        *)
LEMMA SortNodesConsiders ==
  ASSUME PrioritizedInv, SortNodes
  PROVE  Rounds!ConsiderNodes /\ PrioritizerInv'
<1>1. /\ phase = "round" /\ new_shortcuts' = {} /\ to_remove' = {} /\ phase' = "edge_diffs"
      /\ UNCHANGED <<graph_vars, mode, round, nodes, unvisited, marked, pc, found, seen, mutex, edge_diffs>>
      /\ prio_vec' \in SortedByInOutProduct(prio_vec)
      /\ independent_set' = CalcIndependentSet(prio_vec') /\ UNCHANGED next_index
  BY DEF SortNodes, RoundStarts
<1>2. NodesLeft' = NodesLeft
  BY <1>1, SameNodesLeft DEF graph_vars
<1>3. NodesOnce(prio_vec) /\ Range(prio_vec) = NodesLeft /\ mode = "contract"
  BY <1>1 DEF PrioritizedInv, PrioritizerInv
<1>4. PICK w : w = prio_vec'
  OBVIOUS
<1>5. NodesOnce(w) /\ Range(w) = NodesLeft
  BY <1>1, <1>3, <1>4, SortingKeepsNodes
<1>6. PICK v : v = CalcIndependentSet(w)
  OBVIOUS
<1>7. v \in Seq(Nodes) /\ Range(v) \subseteq NodesLeft /\ NoEdgeWithin(v)
  <2>1. w \in Seq(Nodes) /\ PlainGraph
    BY <1>5, KnownOfRounds DEF NodesOnce, PrioritizedInv
  <2> QED
    BY <1>5, <1>6, <2>1, IndependentSetIndependent DEF NoEdgeWithin
<1>8. independent_set' = v
  BY <1>1, <1>4, <1>6
<1>9. Rounds!ConsiderNodes
  <2>1. RoundPhase = "round" /\ RoundPhase' = "round"
    BY <1>1 DEF RoundPhase
  <2>2. independent_set' \in Seq(Rounds!Nodes)
    BY <1>7, <1>8, RoundsGraph
  <2> QED
    BY <1>1, <1>2, <2>1, <2>2 DEF Rounds!ConsiderNodes, Rounds!graph_vars, graph_vars
<1>10. Edges' = Edges
  BY <1>1 DEF Edges, graph_vars
<1>11. NoEdgeWithin(independent_set)'
  BY <1>7, <1>8, <1>10 DEF NoEdgeWithin
<1>12. NodesOnce(prio_vec)' /\ Range(prio_vec)' = NodesLeft'
  BY <1>2, <1>4, <1>5 DEF NodesOnce
<1>13. independent_set' \in Seq(Nodes) /\ Range(independent_set') \subseteq NodesLeft'
  BY <1>2, <1>7, <1>8
<1> QED
  BY <1>1, <1>3, <1>9, <1>11, <1>12, <1>13 DEF PrioritizerInv, NodesOnce

(* Computing the edge differences changes nothing else.                    *)
LEMMA CalcEdgeDiffsStutters ==
  ASSUME PrioritizedInv, CalcEdgeDiffs
  PROVE  UNCHANGED Rounds!vars /\ PrioritizerInv'
<1>1. /\ phase = "edge_diffs" /\ phase' = "choose"
      /\ UNCHANGED <<graph_vars, mode, round, nodes, select_vars, thread_vars, to_remove, prio_vec>>
  BY DEF CalcEdgeDiffs
<1>2. NodesLeft' = NodesLeft
  BY <1>1, SameNodesLeft DEF graph_vars
<1>3. RoundPhase' = RoundPhase
  BY <1>1 DEF RoundPhase
<1>4. UNCHANGED Rounds!vars
  BY <1>1, <1>2, <1>3
  DEF Rounds!vars, Rounds!graph_vars, Rounds!loop_vars, Rounds!select_vars, Rounds!thread_vars,
      graph_vars, select_vars, thread_vars
<1>5. Edges' = Edges
  BY <1>1 DEF Edges, graph_vars
<1> QED
  BY <1>1, <1>2, <1>4, <1>5 DEF PrioritizedInv, PrioritizerInv, NodesOnce, NoEdgeWithin, select_vars, thread_vars

(* The parallel loop.                                                      *)
LEMMA ParallelLoopSteps ==
  ASSUME PrioritizedInv, ParallelLoop
  PROVE  Rounds!AnyNext /\ PrioritizerInv'
<1>1. PICK t \in Threads : ContractNode(t) \/ LockInsert(t) \/ FinishInsert(t)
  BY DEF ParallelLoop
<1>2. UNCHANGED prioritizer_vars
  BY DEF ParallelLoop
<1>3. phase = "parallel"
  BY <1>1, KnownOfRounds DEF PrioritizedInv, ContractNode, LockInsert, FinishInsert
<1>4. UNCHANGED <<graph_vars, mode, phase, round, nodes, independent_set>>
  BY <1>1 DEF ContractNode, LockInsert, FinishInsert, loop_vars, select_vars
<1>5. NodesLeft' = NodesLeft /\ RoundPhase' = RoundPhase /\ RoundPhase = "parallel"
  BY <1>3, <1>4, SameNodesLeft DEF graph_vars, RoundPhase
<1>6. Chosen' = Chosen
  BY <1>4 DEF Chosen
<1>7. PrioritizerInv'
  BY <1>2, <1>3, <1>4, <1>5, <1>6 DEF PrioritizedInv, PrioritizerInv, NodesOnce, prioritizer_vars
<1> USE DEF Rounds!graph_vars, graph_vars, Rounds!loop_vars, loop_vars, Rounds!select_vars, select_vars
<1>8. CASE ContractNode(t)
  <2>1. Rounds!ContractNode(t)
    BY <1>5, <1>8, RoundsHelpers DEF ContractNode, Rounds!ContractNode
  <2> QED
    BY <2>1, <1>7 DEF Rounds!AnyNext, Rounds!Next, Rounds!StepWithinRound
<1>9. CASE LockInsert(t)
  <2>1. Rounds!LockInsert(t)
    BY <1>5, <1>9 DEF LockInsert, Rounds!LockInsert
  <2> QED
    BY <2>1, <1>7 DEF Rounds!AnyNext, Rounds!Next, Rounds!StepWithinRound
<1>10. CASE FinishInsert(t)
  <2>1. Rounds!FinishInsert(t)
    BY <1>5, <1>10 DEF FinishInsert, Rounds!FinishInsert
  <2> QED
    BY <2>1, <1>7 DEF Rounds!AnyNext, Rounds!Next, Rounds!StepWithinRound
<1> QED
  BY <1>1, <1>8, <1>9, <1>10

(* All chosen nodes are removed.                                           *)
LEMMA RemoveAllRemoves ==
  ASSUME PrioritizedInv, RemoveAll
  PROVE  Rounds!RemoveSome /\ PrioritizerInv'
<1>1. /\ phase = "parallel" /\ LoopDone /\ to_remove' = Chosen
      /\ BeginRestructure(Chosen, new_shortcuts) /\ phase' = "restructure"
      /\ UNCHANGED <<mode, round, nodes, select_vars, thread_vars, prioritizer_vars>>
  BY DEF RemoveAll
<1>2. node_levels \in [Nodes -> Uint] /\ next_lvl \in Uint /\ Chosen \subseteq NodesLeft
  BY <1>1, KnownOfRounds DEF PrioritizedInv
<1>3. /\ next_lvl # NO_LVL
      /\ node_levels' = [n \in Nodes |-> IF n \in Chosen THEN next_lvl ELSE node_levels[n]]
  BY <1>1, <1>2, SizeAssumption DEF BeginRestructure, LevelsLeft, NO_LVL, Uint
<1>4. NodesLeft' = NodesLeft \ Chosen
  BY <1>2, <1>3 DEF NodesLeft, Contracted
<1>5. RoundPhase = "parallel" /\ RoundPhase' = "restructure"
  BY <1>1 DEF RoundPhase
<1>6. Rounds!LoopDone /\ Rounds!Chosen = Chosen
  BY <1>1 DEF Rounds!LoopDone, LoopDone, Rounds!Chosen, Chosen
<1>7. Rounds!BeginRestructure(Chosen, new_shortcuts)
  BY <1>1, RoundsMerge
<1>8. UNCHANGED <<mode, round, Rounds!select_vars, Rounds!thread_vars>>
  BY <1>1 DEF Rounds!select_vars, select_vars, Rounds!thread_vars, thread_vars
<1>9. Rounds!RemoveSome
  <2>1. PICK C : C = Chosen
    OBVIOUS
  <2>2. to_remove' = C /\ Rounds!Chosen = C /\ NodesLeft' = NodesLeft \ C
        /\ Rounds!BeginRestructure(C, new_shortcuts)
    BY <1>1, <1>4, <1>6, <1>7, <2>1
  <2> QED
    BY <1>5, <1>6, <1>8, <2>2 DEF Rounds!RemoveSome
<1>10. PrioritizerInv'
  BY <1>1, <1>4 DEF PrioritizedInv, PrioritizerInv, NodesOnce, prioritizer_vars
<1> QED
  BY <1>9, <1>10

(* The merge, and the end of the round.                                    *)
LEMMA RestructureGraphSteps ==
  ASSUME PrioritizedInv, RestructureGraph
  PROVE  Rounds!AnyNext /\ PrioritizerInv'
<1>1. Restructure \/ EndRound
  BY DEF RestructureGraph
<1>2. phase = "restructure" /\ phase' \in {"restructure", "round"} /\ RoundPhase = "restructure"
  BY <1>1 DEF Restructure, EndRound, loop_vars, RoundPhase
<1>3. UNCHANGED <<node_levels, mode, nodes, select_vars, thread_vars, to_remove, prioritizer_vars>>
  BY DEF RestructureGraph, Restructure, EndRound, loop_vars, MergeShortcut, MergeEdge, FinishRestructure
<1>4. NodesLeft' = NodesLeft
  BY <1>3, SameNodesLeft
<1>5. PrioritizerInv'
  BY <1>2, <1>3, <1>4 DEF PrioritizedInv, PrioritizerInv, NodesOnce, prioritizer_vars
<1>6. CASE Restructure
  <2>1. Rounds!MergeShortcut(to_remove) \/ Rounds!MergeEdge(to_remove)
    BY <1>6, RoundsMerge DEF Restructure
  <2>2. RoundPhase' = RoundPhase
    BY <1>6 DEF Restructure, loop_vars, RoundPhase
  <2>3. Rounds!Restructure
    BY <1>2, <1>4, <1>6, <2>1, <2>2
    DEF Restructure, Rounds!Restructure, loop_vars, Rounds!loop_vars, select_vars, Rounds!select_vars,
        thread_vars, Rounds!thread_vars
  <2> QED
    BY <2>3, <1>5 DEF Rounds!AnyNext, Rounds!Next, Rounds!StepWithinRound
<1>7. CASE EndRound
  <2>1. Rounds!FinishRestructure
    BY <1>7, RoundsMerge DEF EndRound
  <2>2. RoundPhase' = "round"
    BY <1>7 DEF EndRound, RoundPhase
  <2>3. Rounds!EndRound
    BY <1>2, <1>4, <1>7, <2>1, <2>2
    DEF EndRound, Rounds!EndRound, select_vars, Rounds!select_vars, thread_vars, Rounds!thread_vars
  <2> QED
    BY <2>3, <1>5 DEF Rounds!AnyNext, Rounds!Next
<1> QED
  BY <1>1, <1>6, <1>7

(* contract() returns.                                                     *)
LEMMA NoNodesLeftReturns ==
  ASSUME PrioritizedInv, NoNodesLeft
  PROVE  Rounds!AnyNext /\ PrioritizerInv'
<1>1. /\ phase = "round" /\ prio_vec = <<>> /\ phase' = "contracted"
      /\ UNCHANGED <<graph_vars, mode, round, nodes, select_vars, thread_vars, to_remove, prioritizer_vars>>
  BY DEF NoNodesLeft
<1>2. NodesLeft' = NodesLeft
  BY <1>1, SameNodesLeft DEF graph_vars
<1>3. mode = "contract" /\ Range(prio_vec) = NodesLeft /\ Range(<<>>) = {}
  BY <1>1 DEF PrioritizedInv, PrioritizerInv, Range
<1>4. RoundPhase = "round" /\ RoundPhase' = "contracted" /\ NodesLeft = {}
  BY <1>1, <1>3 DEF RoundPhase
<1>5. Rounds!ContractReturns
  BY <1>1, <1>2, <1>3, <1>4
  DEF Rounds!ContractReturns, Rounds!graph_vars, graph_vars, Rounds!select_vars, select_vars,
      Rounds!thread_vars, thread_vars
<1>6. PrioritizerInv'
  BY <1>1, <1>2 DEF PrioritizedInv, PrioritizerInv, NodesOnce, prioritizer_vars
<1> QED
  BY <1>5, <1>6 DEF Rounds!AnyNext, Rounds!Next, Rounds!StepWithinRound

(* Doing nothing.                                                          *)
LEMMA PrioritizerIdles ==
  ASSUME PrioritizedInv, UNCHANGED prioritized_vars
  PROVE  UNCHANGED Rounds!vars /\ PrioritizerInv'
<1>1. UNCHANGED <<vars, prioritizer_vars>>
  BY DEF prioritized_vars
<1>2. UNCHANGED <<graph_vars, mode, phase, round, nodes, select_vars, thread_vars, to_remove>>
  BY <1>1 DEF vars, loop_vars
<1>3. NodesLeft' = NodesLeft /\ RoundPhase' = RoundPhase
  BY <1>2, SameNodesLeft DEF graph_vars, RoundPhase
<1>4. UNCHANGED Rounds!vars
  BY <1>2, <1>3
  DEF Rounds!vars, Rounds!graph_vars, Rounds!loop_vars, Rounds!select_vars, Rounds!thread_vars,
      graph_vars, select_vars, thread_vars
<1>5. Edges' = Edges /\ Chosen' = Chosen
  BY <1>2 DEF Edges, graph_vars, Chosen, select_vars
<1> QED
  BY <1>1, <1>2, <1>3, <1>4, <1>5
  DEF PrioritizedInv, PrioritizerInv, NodesOnce, NoEdgeWithin, prioritizer_vars, select_vars, thread_vars

(* Every step is one of a construction whose rounds may take any           *)
(* independent nodes.                                                      *)
LEMMA PrioritizedSteps ==
  ASSUME PrioritizedInv, [PrioritizedNext]_prioritized_vars
  PROVE  [Rounds!AnyNext]_(Rounds!vars) /\ PrioritizerInv'
<1>1. CASE ChooseOne
  BY <1>1, ChooseOneEnters DEF Rounds!AnyNext
<1>2. CASE SortNodes
  BY <1>2, SortNodesConsiders DEF Rounds!AnyNext
<1>3. CASE CalcEdgeDiffs
  BY <1>3, CalcEdgeDiffsStutters
<1>4. CASE ChooseByEdgeDiff
  BY <1>4, ChooseByEdgeDiffEnters DEF Rounds!AnyNext
<1>5. CASE ParallelLoop
  BY <1>5, ParallelLoopSteps
<1>6. CASE RemoveAll
  BY <1>6, RemoveAllRemoves DEF Rounds!AnyNext
<1>7. CASE RestructureGraph
  BY <1>7, RestructureGraphSteps
<1>8. CASE NoNodesLeft
  BY <1>8, NoNodesLeftReturns
<1>9. CASE AllContracted \/ UNCHANGED prioritized_vars
  BY <1>9, PrioritizerIdles DEF AllContracted
<1> QED
  BY <1>1, <1>2, <1>3, <1>4, <1>5, <1>6, <1>7, <1>8, <1>9 DEF PrioritizedNext

(* The invariant, with and without the distances.                          *)
LEMMA PrioritizedKeeps ==
  /\ PrioritizedInv /\ [PrioritizedNext]_prioritized_vars => PrioritizedInv'
  /\ PrioritizedInv /\ Rounds!DistanceInv /\ [PrioritizedNext]_prioritized_vars => Rounds!DistanceInv'
<1>1. ASSUME PrioritizedInv, [PrioritizedNext]_prioritized_vars PROVE PrioritizedInv'
  <2>1. [Rounds!AnyNext]_(Rounds!vars) /\ PrioritizerInv'
    BY <1>1, PrioritizedSteps
  <2>2. Rounds!IInv'
    BY <1>1, <2>1, RoundsKeep DEF PrioritizedInv
  <2> QED
    BY <2>1, <2>2 DEF PrioritizedInv
<1>2. ASSUME PrioritizedInv, Rounds!DistanceInv, [PrioritizedNext]_prioritized_vars PROVE Rounds!DistanceInv'
  <2>1. [Rounds!AnyNext]_(Rounds!vars)
    BY <1>2, PrioritizedSteps
  <2> QED
    BY <1>2, <2>1, RoundsKeepDistances
<1> QED
  BY <1>1, <1>2

-----------------------------------------------------------------------------
(* What follows.                                                           *)

(* Initially the prioritizer holds all nodes.                              *)
LEMMA PrioritizedBegins ==
  ASSUME PrioritizedInit
  PROVE  Rounds!AnyInit /\ PrioritizedInv
<1>1. NodesLeft = Nodes
  BY DEF PrioritizedInit, GraphInit, NodesLeft, Contracted
<1>2. RoundPhase = "round"
  BY DEF PrioritizedInit, RoundPhase
<1>3. Rounds!AnyInit
  BY <1>1, <1>2 DEF PrioritizedInit, GraphInit, Rounds!AnyInit, Rounds!GraphInit, Rounds!Nodes, Nodes,
                    Rounds!NO_LVL, NO_LVL
<1>4. Rounds!IInv
  BY <1>3, Rounds!InitIInv, RoundsAssumptions,
     SizeAssumption, InputAssumption, ThreadsAssumption, QuickAssumption
<1>5. NrOfNodes \in Nat /\ prio_vec \in [1..NrOfNodes -> Nodes] /\ IsInjective(prio_vec)
  BY SizeAssumption DEF PrioritizedInit
<1>6. NodesOnce(prio_vec)
  BY <1>5 DEF NodesOnce
<1>7. Range(prio_vec) = Nodes
  <2>1. IsFiniteSet(1..NrOfNodes) /\ Cardinality(1..NrOfNodes) = NrOfNodes
    <3>1. PICK n \in Nat : n = NrOfNodes
      BY <1>5
    <3>2. IsFiniteSet(1..n) /\ Cardinality(1..n) = IF 1 > n THEN 0 ELSE n - 1 + 1
      BY FS_Interval
    <3> QED
      BY <3>1, <3>2
  <2>2. IsFiniteSet(Nodes) /\ Cardinality(Nodes) = NrOfNodes
    <3>1. PICK n \in Int : n = NrOfNodes - 1
      BY <1>5
    <3>2. IsFiniteSet(0..n) /\ Cardinality(0..n) = IF 0 > n THEN 0 ELSE n - 0 + 1
      BY FS_Interval
    <3> QED
      BY <1>5, <3>1, <3>2 DEF Nodes
  <2>3. prio_vec \in Injection(1..NrOfNodes, Nodes)
    BY <1>5 DEF Injection
  <2>4. prio_vec \in Surjection(1..NrOfNodes, Nodes)
    BY <2>1, <2>2, <2>3, FS_Injection
  <2> QED
    BY <1>5, <2>4 DEF Surjection, Range
<1>8. PrioritizerInv
  BY <1>1, <1>6, <1>7 DEF PrioritizedInit, PrioritizerInv
<1> QED
  BY <1>3, <1>4, <1>8 DEF PrioritizedInv

(* Between two rounds the prioritizer holds just the nodes without a       *)
(* level, each of them once.                                               *)
THEOREM HandedOutOnce == PrioritizedSpec => []NodesHandedOutOnce
<1>1. PrioritizedInv => NodesHandedOutOnce
  <2> SUFFICES ASSUME PrioritizedInv, phase = "round"
               PROVE  /\ Range(prio_vec) = {n \in Nodes : ~Contracted(n)}
                      /\ Len(prio_vec) = Cardinality(Range(prio_vec))
    BY DEF NodesHandedOutOnce
  <2> QED
    BY NodesOnceCounted DEF PrioritizedInv, PrioritizerInv, NodesLeft
<1> QED
  BY <1>1, PrioritizedBegins, PrioritizedKeeps, PTL DEF PrioritizedSpec

(* Two nodes of a round share no edge, whichever prioritizer has chosen    *)
(* them: the assertions in the merge of restructure() hold.                *)
THEOREM PrioritizedShortcutsStay == PrioritizedSpec => []AcceptedShortcutsStay
<1>1. PrioritizedInv => AcceptedShortcutsStay
  <2> SUFFICES ASSUME PrioritizedInv, Restructuring, NEW s \in rest_shortcuts, s.center_node \in to_remove
               PROVE  {s.src, s.tgt} \cap to_remove = {}
    BY DEF AcceptedShortcutsStay
  <2>1. Rounds!Restructuring
    BY DEF Restructuring, Rounds!Restructuring, RoundPhase
  <2>2. Rounds!AcceptedShortcutsStay
    BY Rounds!IInvStays, RoundsAssumptions, SizeAssumption, InputAssumption, ThreadsAssumption,
       QuickAssumption DEF PrioritizedInv
  <2> QED
    BY <2>1, <2>2 DEF Rounds!AcceptedShortcutsStay
<1> QED
  BY <1>1, PrioritizedBegins, PrioritizedKeeps, PTL DEF PrioritizedSpec

(* The distances have the same definition.                                 *)
LEMMA RoundsDistances ==
  /\ \A E : Rounds!Distances(E) = Distances(E)
  /\ \A S, E : Rounds!DistancesBetween(S, E) = DistancesBetween(S, E)
<1>1. \A E : Rounds!Distances(E) = Distances(E)
  BY DEF Rounds!Distances, Distances, Rounds!Direct, Direct, Rounds!AllowNode, AllowNode,
         Rounds!Shortest, Shortest, Rounds!Joined, Joined, Rounds!Nodes, Nodes
<1> QED
  BY <1>1 DEF Rounds!DistancesBetween, DistancesBetween

(* Initially the distances fit.                                            *)
LEMMA PrioritizedDistancesBegin ==
  ASSUME LengthsFit
  PROVE  PrioritizedInit => Rounds!DistanceInv
<1>1. Rounds!LengthsFit
  <2>1. Rounds!Uint = Uint /\ Rounds!NO_DIST = NO_DIST
    BY DEF Rounds!Uint, Uint, Rounds!NO_DIST, NO_DIST
  <2>2. \A bound, E : Rounds!BoundsLengths(bound, E) <=> BoundsLengths(bound, E)
    BY RoundsDistances, <2>1 DEF Rounds!BoundsLengths, BoundsLengths
  <2> QED
    BY <2>1, <2>2 DEF LengthsFit, Rounds!LengthsFit
<1> QED
  BY <1>1, PrioritizedBegins, Rounds!InitDistances, RoundsAssumptions,
     SizeAssumption, InputAssumption, ThreadsAssumption, QuickAssumption

(* The hierarchies of both prioritizers answer queries: for every graph    *)
(* whose lengths fit, every number of threads and every order of the nodes.*)
THEOREM PrioritizedQueriesAnswered ==
  ASSUME LengthsFit
  PROVE  PrioritizedSpec => []HierarchyAnswersQueries
<1>1. PrioritizedInit => Rounds!DistanceInv
  BY PrioritizedDistancesBegin
<1>2. Rounds!DistanceInv => HierarchyAnswersQueries
  <2> SUFFICES ASSUME Rounds!DistanceInv PROVE HierarchyAnswersQueries
    OBVIOUS
  <2>1. Rounds!HierarchyAnswersQueries
    BY Rounds!ContractedAnswers, RoundsAssumptions,
       SizeAssumption, InputAssumption, ThreadsAssumption, QuickAssumption
  <2>2. Rounds!UpEdges = UpEdges /\ Rounds!DownEdges = DownEdges /\ Rounds!EdgesRead = EdgesRead
    BY DEF Rounds!UpEdges, UpEdges, Rounds!DownEdges, DownEdges, Rounds!IsUp, IsUp,
           Rounds!EdgesRead, EdgesRead
  <2>3. \A A, B : Rounds!Shortest(Rounds!Joined(A, B)) = Shortest(Joined(A, B))
    BY DEF Rounds!Shortest, Shortest, Rounds!Joined, Joined
  <2>4. phase = "contracted" => RoundPhase = "contracted"
    BY DEF RoundPhase
  <2> QED
    BY RoundsDistances, <2>1, <2>2, <2>3, <2>4 DEF HierarchyAnswersQueries, Rounds!HierarchyAnswersQueries
<1> QED
  BY <1>1, <1>2, PrioritizedBegins, PrioritizedKeeps, PTL DEF PrioritizedSpec

(* What remains is the same.                                               *)
LEMMA RoundsRemaining ==
  /\ Rounds!Remaining = Remaining /\ Rounds!Remaining' = Remaining'
  /\ Rounds!DistancesBetween(Rounds!Remaining, Rounds!Edges) = DistancesBetween(Remaining, Edges)
  /\ Rounds!DistancesBetween(Rounds!Remaining, Rounds!Edges)' = DistancesBetween(Remaining, Edges)'
<1>1. (Rounds!Restructuring <=> Restructuring) /\ (Rounds!Restructuring' <=> Restructuring')
  BY DEF Rounds!Restructuring, Restructuring, RoundPhase
<1>2. Rounds!Remaining = Remaining /\ Rounds!Remaining' = Remaining'
  BY <1>1 DEF Rounds!Remaining, Remaining, Rounds!Contracted, Contracted, Rounds!Nodes, Nodes,
              Rounds!NO_LVL, NO_LVL
<1>3. Rounds!Edges = Edges /\ Rounds!Edges' = Edges'
  BY DEF Rounds!Edges, Edges
<1>4. Rounds!DistancesBetween(Rounds!Remaining, Rounds!Edges) = DistancesBetween(Remaining, Edges)
  BY <1>2, <1>3, RoundsDistances
<1>5. Rounds!DistancesBetween(Rounds!Remaining, Rounds!Edges)' = DistancesBetween(Remaining, Edges)'
  <2>1. PICK S, E : S = Remaining' /\ E = Edges'
    OBVIOUS
  <2>2. Rounds!DistancesBetween(S, E) = DistancesBetween(S, E)
    BY RoundsDistances
  <2>3. Rounds!DistancesBetween(Rounds!Remaining, Rounds!Edges)' = Rounds!DistancesBetween(S, E)
    BY <1>2, <1>3, <2>1 DEF Rounds!DistancesBetween, Rounds!Distances
  <2>4. DistancesBetween(Remaining, Edges)' = DistancesBetween(S, E)
    BY <2>1 DEF DistancesBetween, Distances
  <2> QED
    BY <2>2, <2>3, <2>4
<1> QED
  BY <1>2, <1>4, <1>5

(* Both prioritizers implement the contraction of the nodes: whatever they *)
(* hand out, each round is a group of nodes that leaves and the others     *)
(* keep their distances.                                                   *)
THEOREM PrioritizedContracts ==
  ASSUME LengthsFit
  PROVE  PrioritizedSpec => ImplementsContraction
<1>1. PrioritizedInit => Rounds!DistanceInv
  BY PrioritizedDistancesBegin
<1>2. ASSUME PrioritizedInit PROVE Abstract!Init
  <2>1. /\ out_edges = input_edges /\ input_edges \in InputGraphs /\ ~Restructuring
        /\ \A n \in Nodes : ~Contracted(n)
    BY <1>2 DEF PrioritizedInit, GraphInit, Restructuring, Contracted
  <2>2. Remaining = Nodes /\ Edges = {input_edges[i] : i \in DOMAIN input_edges}
    BY <2>1 DEF Remaining, Edges
  <2>3. EdgeSet(Edges)
    <3>1. Edges \subseteq CHEdge
      BY <2>1, <2>2, InputAssumption DEF IsInputGraph
    <3> QED
      BY <3>1, SizeAssumption DEF EdgeSet, CHEdge, Uint
  <2>4. Distances(Edges) \in SUBSET Triples
    BY <2>3, DistancesTriangular DEF Triangular
  <2>5. DistancesBetween(Nodes, Edges) = Distances(Edges)
    BY <2>4 DEF DistancesBetween, Triples
  <2> QED
    BY <2>1, <2>2, <2>5 DEF Abstract!Init
<1>3. PrioritizedInv /\ Rounds!DistanceInv /\ [PrioritizedNext]_prioritized_vars
        => [Abstract!Contract]_<<Remaining, DistancesBetween(Remaining, Edges)>>
  <2> SUFFICES ASSUME PrioritizedInv, Rounds!DistanceInv, [PrioritizedNext]_prioritized_vars
               PROVE  [Abstract!Contract]_<<Remaining, DistancesBetween(Remaining, Edges)>>
    OBVIOUS
  <2>1. [Rounds!AnyNext]_(Rounds!vars)
    BY PrioritizedSteps
  <2>2. Rounds!ContractsOrStays
    BY <2>1, Rounds!StepsContract, RoundsAssumptions,
       SizeAssumption, InputAssumption, ThreadsAssumption, QuickAssumption
  <2> QED
    BY <2>2, RoundsRemaining DEF Rounds!ContractsOrStays, Abstract!Contract, Abstract!Between
<1> QED
  BY <1>1, <1>2, <1>3, PrioritizedBegins, PrioritizedKeeps, PTL
  DEF PrioritizedSpec, ImplementsContraction, Abstract!Spec
=============================================================================
