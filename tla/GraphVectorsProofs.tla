------------------------ MODULE GraphVectorsProofs ------------------------
(***************************************************************************)
(* Proofs about the vectors of Graph, for every number of nodes and every  *)
(* graph: the offsets cut the edges of a node out of a sorted vector.      *)
(***************************************************************************)
EXTENDS GraphVectors, RecursionProofs

(* The node whose edges of the given type e is one of.                     *)
KeyNode(e, type) == OtherNode(e, Opposite(type))

EdgesBelow(v, type, n) == {i \in DOMAIN v : KeyNode(v[i], type) < n}

EdgesAt(v, type, n) == {i \in DOMAIN v : KeyNode(v[i], type) = n}

(* It is a node.                                                           *)
LEMMA KeyNodeType ==
  ASSUME NEW v \in Seq(CHEdge), NEW type, NEW i \in DOMAIN v
  PROVE  KeyNode(v[i], type) \in Nodes /\ KeyNode(v[i], type) \in Nat
<1>1. v[i] \in CHEdge
  OBVIOUS
<1>2. v[i].src \in Nodes /\ v[i].tgt \in Nodes
  BY <1>1 DEF CHEdge
<1>3. Nodes \subseteq Nat
  BY SizeAssumption DEF Nodes
<1> QED
  BY <1>2, <1>3 DEF KeyNode, OtherNode

(* The edges of the nodes up to n are those below and those of n itself.   *)
LEMMA EdgesBelowNext ==
  ASSUME NEW v \in Seq(CHEdge), NEW type, NEW n \in Nat
  PROVE  Cardinality(EdgesBelow(v, type, n + 1))
           = Cardinality(EdgesBelow(v, type, n)) + Cardinality(EdgesAt(v, type, n))
<1>1. \A i \in DOMAIN v : KeyNode(v[i], type) \in Int
  BY KeyNodeType
<1> DEFINE A == EdgesBelow(v, type, n)
           B == EdgesAt(v, type, n)
<1>2. EdgesBelow(v, type, n + 1) = A \cup B
  BY <1>1 DEF EdgesBelow, EdgesAt
<1>3. A \cap B = {}
  BY <1>1 DEF EdgesBelow, EdgesAt
<1>4. IsFiniteSet(A) /\ IsFiniteSet(B)
  <2>1. IsFiniteSet(DOMAIN v)
    <3>1. DOMAIN v = 1..Len(v) /\ Len(v) \in Nat
      OBVIOUS
    <3> QED
      BY <3>1, FS_Interval
  <2>2. A \in SUBSET DOMAIN v /\ B \in SUBSET DOMAIN v
    BY DEF EdgesBelow, EdgesAt
  <2> QED
    BY <2>1, <2>2, FS_Subset
<1> HIDE DEF A, B
<1>5. Cardinality(A \cup B) = Cardinality(A) + Cardinality(B)
  <2>1. Cardinality(A \cup B) = Cardinality(A) + Cardinality(B) - Cardinality(A \cap B)
    BY <1>4, FS_Union
  <2>2. Cardinality(A) \in Nat /\ Cardinality(B) \in Nat /\ Cardinality(A \cap B) = 0
    BY <1>3, <1>4, FS_EmptySet, FS_CardinalityType
  <2> QED
    BY <2>1, <2>2
<1> QED
  BY <1>2, <1>5 DEF A, B

(* The offset of a node counts the edges of the nodes below.               *)
LEMMA OffsetsCount ==
  ASSUME NEW v \in Seq(CHEdge), NEW type
  PROVE  Offsets(v, type) = [n \in 0..NrOfNodes |-> Cardinality(EdgesBelow(v, type, n))]
<1> DEFINE count(n) == Cardinality({i \in DOMAIN v : OtherNode(v[i], Opposite(type)) = n})
           Body(f) == [n \in 0..NrOfNodes |-> IF n = 0 THEN 0 ELSE f[n - 1] + count(n - 1)]
           sum == CHOOSE f : f = Body(f)
           g == [n \in 0..NrOfNodes |-> Cardinality(EdgesBelow(v, type, n))]
<1>1. NrOfNodes \in Nat
  BY SizeAssumption
<1>2. \A n \in Nat : count(n) = Cardinality(EdgesAt(v, type, n))
  BY DEF EdgesAt, KeyNode
<1> HIDE DEF count
<1>3. Cardinality(EdgesBelow(v, type, 0)) = 0
  <2>1. EdgesBelow(v, type, 0) = {}
    <3>1. \A i \in DOMAIN v : ~(KeyNode(v[i], type) < 0)
      BY KeyNodeType
    <3> QED
      BY <3>1 DEF EdgesBelow
  <2> QED
    BY <2>1, FS_EmptySet
<1>4. \A n \in 1..NrOfNodes : Cardinality(EdgesBelow(v, type, n))
                                = Cardinality(EdgesBelow(v, type, n - 1)) + count(n - 1)
  <2> TAKE n \in 1..NrOfNodes
  <2>1. n - 1 \in Nat /\ (n - 1) + 1 = n
    BY <1>1
  <2> QED
    BY <1>2, <2>1, EdgesBelowNext
<1>5. g = Body(g)
  <2>1. \A n \in 1..NrOfNodes : n - 1 \in 0..NrOfNodes
    BY <1>1
  <2>2. \A n \in 0..NrOfNodes : n = 0 \/ n \in 1..NrOfNodes
    BY <1>1
  <2>3. \A n \in 0..NrOfNodes : g[n] = IF n = 0 THEN 0 ELSE g[n - 1] + count(n - 1)
    BY <1>3, <1>4, <2>1, <2>2
  <2> QED
    BY <2>3
<1>6. sum = Body(sum)
  <2> HIDE DEF Body, g
  <2> QED
    BY <1>5
<1>7. Offsets(v, type) = sum
  BY DEF Offsets, count
<1> HIDE DEF sum
<1>8. \A n \in 0..NrOfNodes : sum[n] = IF n = 0 THEN 0 ELSE sum[n - 1] + count(n - 1)
  BY <1>6
<1>9. \A n \in 0..NrOfNodes : sum[n] = Cardinality(EdgesBelow(v, type, n))
  <2> DEFINE S == {n \in Nat : n \in 0..NrOfNodes => sum[n] = Cardinality(EdgesBelow(v, type, n))}
  <2>1. 0 \in S
    BY <1>3, <1>8
  <2>2. ASSUME NEW n \in Nat, n \in S PROVE n + 1 \in S
    <3> SUFFICES ASSUME n + 1 \in 0..NrOfNodes
                 PROVE  sum[n + 1] = Cardinality(EdgesBelow(v, type, n + 1))
      OBVIOUS
    <3>1. n \in 0..NrOfNodes /\ (n + 1) - 1 = n /\ n + 1 \in 1..NrOfNodes /\ n + 1 # 0
      BY <1>1
    <3>2. sum[n] = Cardinality(EdgesBelow(v, type, n))
      BY <2>2, <3>1
    <3> QED
      BY <1>4, <1>8, <3>1, <3>2
  <2> HIDE DEF S
  <2>3. Nat \subseteq S
    BY <2>1, <2>2, NatSetInduction
  <2> QED
    BY <1>1, <2>3 DEF S
<1> QED
  <2>1. sum = [n \in 0..NrOfNodes |-> sum[n]]
    BY <1>6
  <2> QED
    BY <1>7, <1>9, <2>1

(* The keys of a vector do not fall.                                       *)
SortedByKey(v, type) ==
  \A i, j \in DOMAIN v : i < j => KeyNode(v[i], type) <= KeyNode(v[j], type)

(* The edges below n are those in front of its offset.                     *)
LEMMA OffsetsCut ==
  ASSUME NEW v \in Seq(CHEdge), NEW type, SortedByKey(v, type), NEW n \in 0..NrOfNodes
  PROVE  /\ Offsets(v, type)[n] \in 0..Len(v)
         /\ EdgesBelow(v, type, n) = 1..Offsets(v, type)[n]
<1> DEFINE S == EdgesBelow(v, type, n)
<1>1. Len(v) \in Nat /\ DOMAIN v = 1..Len(v) /\ n \in Int
  BY SizeAssumption
<1>2. S \in SUBSET (1..Len(v))
  BY <1>1 DEF EdgesBelow
<1>3. ASSUME NEW i \in S, NEW j \in 1..Len(v), j <= i PROVE j \in S
  <2>1. i \in DOMAIN v /\ j \in DOMAIN v /\ KeyNode(v[i], type) < n
    BY <1>1, <1>3 DEF EdgesBelow
  <2>2. KeyNode(v[i], type) \in Nat /\ KeyNode(v[j], type) \in Nat
    BY <2>1, KeyNodeType
  <2>3. j = i \/ j < i
    BY <1>1, <1>3, <2>1
  <2>4. KeyNode(v[j], type) <= KeyNode(v[i], type)
    BY <2>1, <2>2, <2>3 DEF SortedByKey
  <2> QED
    BY <1>1, <2>1, <2>2, <2>4 DEF EdgesBelow
<1>4. Offsets(v, type)[n] = Cardinality(S)
  BY OffsetsCount
<1> HIDE DEF S
<1>5. Cardinality(S) \in 0..Len(v) /\ S = 1..Cardinality(S)
  BY <1>1, <1>2, <1>3, PrefixCount
<1> QED
  BY <1>4, <1>5 DEF S

(* The vector r is the edges of n in v, which start behind position k.     *)
IsCut(r, v, type, n, k) ==
  /\ r \in Seq(CHEdge) /\ Len(r) = Cardinality(EdgesAt(v, type, n))
  /\ \A i \in 1..Len(r) : k + i \in EdgesAt(v, type, n) /\ r[i] = v[k + i]
  /\ \A i \in EdgesAt(v, type, n) : i - k \in 1..Len(r) /\ v[i] = r[i - k]

(* The slice between the offsets of n and of the next node holds its edges,*)
(* all of them and no others.                                              *)
LEMMA SliceOfNode ==
  ASSUME NEW v \in Seq(CHEdge), NEW type, SortedByKey(v, type), NEW n \in Nodes, NEW off,
         off = Offsets(v, type), NEW r, r = SubSeq(v, off[n] + 1, off[n + 1])
  PROVE  IsCut(r, v, type, n, off[n])
<1>1. n \in Nat /\ n \in 0..NrOfNodes /\ n + 1 \in 0..NrOfNodes
  BY SizeAssumption DEF Nodes
<1> DEFINE a == off[n]
           b == off[n + 1]
<1>2. /\ a \in 0..Len(v) /\ EdgesBelow(v, type, n) = 1..a
      /\ b \in 0..Len(v) /\ EdgesBelow(v, type, n + 1) = 1..b
  BY <1>1, OffsetsCut
<1>3. r = SubSeq(v, a + 1, b)
  OBVIOUS
<1> HIDE DEF a, b
<1>4. Len(v) \in Nat /\ DOMAIN v = 1..Len(v)
  OBVIOUS
<1>5. \A i \in DOMAIN v : KeyNode(v[i], type) \in Nat
  BY KeyNodeType
<1>6. EdgesBelow(v, type, n) \subseteq EdgesBelow(v, type, n + 1)
  BY <1>1, <1>5 DEF EdgesBelow
<1>7. a <= b
  <2>1. CASE a = 0
    BY <1>2, <2>1
  <2>2. CASE a # 0
    <3>1. a \in 1..a
      BY <1>2, <2>2
    <3>2. a \in 1..b
      BY <1>2, <1>6, <3>1
    <3> QED
      BY <1>2, <3>2
  <2> QED
    BY <2>1, <2>2
<1>8. r \in Seq(CHEdge) /\ Len(r) = b - a /\ \A k \in 1..(b - a) : r[k] = v[a + k]
  <2> DEFINE m == a + 1
  <2>1. m \in 1..(Len(v) + 1) /\ b \in (m - 1)..Len(v) /\ b - m + 1 = b - a
    BY <1>2, <1>4, <1>7
  <2>2. \A k \in 1..(b - a) : m + k - 1 = a + k
    BY <1>2, <1>4
  <2> HIDE DEF m
  <2>3. /\ SubSeq(v, m, b) \in Seq(CHEdge) /\ Len(SubSeq(v, m, b)) = b - m + 1
        /\ \A k \in 1..(b - m + 1) : SubSeq(v, m, b)[k] = v[m + k - 1]
    BY <2>1, SubSeqProperties
  <2> QED
    BY <1>3, <2>1, <2>2, <2>3 DEF m
<1>9. \A i \in DOMAIN v : i \in EdgesAt(v, type, n) <=> i \in 1..b /\ i \notin 1..a
  BY <1>1, <1>2, <1>5 DEF EdgesAt, EdgesBelow
<1>10. EdgesAt(v, type, n) \subseteq DOMAIN v
  BY DEF EdgesAt
<1>11. Len(r) = Cardinality(EdgesAt(v, type, n))
  <2>1. \A i \in (a + 1)..b : i \in DOMAIN v /\ i \in 1..b /\ i \notin 1..a
    BY <1>2, <1>4
  <2>2. \A i \in DOMAIN v : i \in 1..b /\ i \notin 1..a => i \in (a + 1)..b
    BY <1>2, <1>4
  <2>3. EdgesAt(v, type, n) = (a + 1)..b
    BY <1>9, <1>10, <2>1, <2>2
  <2>4. a + 1 \in Int /\ b \in Int
    BY <1>2
  <2>5. Cardinality((a + 1)..b) = IF a + 1 > b THEN 0 ELSE b - (a + 1) + 1
    BY <2>4, FS_Interval
  <2>6. Cardinality((a + 1)..b) = b - a
    BY <1>2, <1>7, <2>5
  <2> QED
    BY <1>8, <2>3, <2>6
<1>12. \A k \in 1..Len(r) : a + k \in EdgesAt(v, type, n) /\ r[k] = v[a + k]
  <2> TAKE k \in 1..Len(r)
  <2>1. a + k \in DOMAIN v /\ a + k \in 1..b /\ a + k \notin 1..a
    BY <1>2, <1>4, <1>8
  <2> QED
    BY <1>8, <1>9, <2>1
<1>13. \A i \in EdgesAt(v, type, n) : i - a \in 1..Len(r) /\ v[i] = r[i - a]
  <2> TAKE i \in EdgesAt(v, type, n)
  <2>1. i \in 1..b /\ i \notin 1..a /\ i \in Nat
    BY <1>4, <1>9, <1>10
  <2>2. i - a \in 1..(b - a) /\ a + (i - a) = i
    BY <1>2, <2>1
  <2> QED
    BY <1>8, <2>2
<1> QED
  BY <1>8, <1>11, <1>12, <1>13 DEF a, IsCut

-----------------------------------------------------------------------------
(* Two vectors of the same edges.                                          *)

(* The vector v holds each edge of S once.                                 *)
Lists(v, S) ==
  /\ v \in Seq(S)
  /\ \A e \in S : \E k \in DOMAIN v : v[k] = e
  /\ \A j, k \in DOMAIN v : v[j] = v[k] => j = k

(* An edge of the set is at one position of the vector.                    *)
LEMMA PositionsOf ==
  ASSUME NEW S, IsFiniteSet(S), NEW v, Lists(v, S), NEW T \in SUBSET S
  PROVE  Cardinality({i \in DOMAIN v : v[i] \in T}) = Cardinality(T)
<1> DEFINE I == {i \in DOMAIN v : v[i] \in T}
           f == [i \in I |-> v[i]]
<1>1. DOMAIN v = 1..Len(v) /\ Len(v) \in Nat
  BY DEF Lists
<1>2. IsFiniteSet(I)
  <2>1. IsFiniteSet(DOMAIN v)
    BY <1>1, FS_Interval
  <2>2. I \in SUBSET DOMAIN v
    OBVIOUS
  <2> QED
    BY <2>1, <2>2, FS_Subset
<1>3. f \in Bijection(I, T)
  BY DEF Bijection, Injection, IsInjective, Surjection, Lists
<1> HIDE DEF I, f
<1>4. Cardinality(I) = Cardinality(T)
  BY <1>2, <1>3, FS_Bijection DEF ExistsBijection
<1> QED
  BY <1>4 DEF I

(* So two vectors of the same edges have the same offsets: initOffsets()   *)
(* counts in _out_edges for both.                                          *)
LEMMA SameOffsets ==
  ASSUME NEW S \in SUBSET CHEdge, IsFiniteSet(S), NEW v, Lists(v, S), NEW w, Lists(w, S), NEW type
  PROVE  Offsets(v, type) = Offsets(w, type)
<1>1. v \in Seq(CHEdge) /\ w \in Seq(CHEdge)
  BY DEF Lists
<1>3. /\ Offsets(v, type) = [n \in 0..NrOfNodes |-> Cardinality(EdgesBelow(v, type, n))]
      /\ Offsets(w, type) = [n \in 0..NrOfNodes |-> Cardinality(EdgesBelow(w, type, n))]
  BY <1>1, OffsetsCount
<1>2. ASSUME NEW n PROVE Cardinality(EdgesBelow(v, type, n)) = Cardinality(EdgesBelow(w, type, n))
  <2> DEFINE T == {e \in S : KeyNode(e, type) < n}
  <2>1. EdgesBelow(v, type, n) = {i \in DOMAIN v : v[i] \in T}
    BY DEF EdgesBelow, Lists
  <2>2. EdgesBelow(w, type, n) = {i \in DOMAIN w : w[i] \in T}
    BY DEF EdgesBelow, Lists
  <2>3. T \in SUBSET S
    OBVIOUS
  <2> HIDE DEF T
  <2> QED
    BY <2>1, <2>2, <2>3, PositionsOf
<1> QED
  BY <1>2, <1>3

(* The elements of r are those of v at the positions in I.                 *)
Picks(r, v, I) ==
  /\ \A k \in 1..Len(r) : \E i \in I : r[k] = v[i]
  /\ \A i \in I : \E k \in 1..Len(r) : r[k] = v[i]

(* They are the edges in T, each once.                                     *)
ConsistsOf(r, T) == {r[i] : i \in DOMAIN r} = T /\ Len(r) = Cardinality(T)

(* The positions a slice is cut out of are those of the edges in T.        *)
LEMMA SliceElements ==
  ASSUME NEW S, IsFiniteSet(S), NEW v, Lists(v, S), NEW T \in SUBSET S, NEW r \in Seq(CHEdge),
         NEW I \in SUBSET DOMAIN v, \A i \in DOMAIN v : i \in I <=> v[i] \in T,
         Len(r) = Cardinality(I), Picks(r, v, I)
  PROVE  ConsistsOf(r, T)
<1>1. DOMAIN r = 1..Len(r)
  OBVIOUS
<1>2. \A e \in T : \E i \in I : v[i] = e
  BY DEF Lists
<1>3. \A i \in I : v[i] \in T
  OBVIOUS
<1>4. \A k \in DOMAIN r : r[k] \in T
  BY <1>1, <1>3 DEF Picks
<1>5. \A e \in T : \E k \in DOMAIN r : r[k] = e
  BY <1>1, <1>2 DEF Picks
<1>6. Len(r) = Cardinality(T)
  <2>1. I = {i \in DOMAIN v : v[i] \in T}
    OBVIOUS
  <2> QED
    BY <2>1, PositionsOf
<1> QED
  BY <1>4, <1>5, <1>6 DEF ConsistsOf

Slice(v, off, n) == SubSeq(v, off[n] + 1, off[n + 1])

(* The slice of a node holds the edges of the set that are of this node.   *)
LEMMA SliceOfSet ==
  ASSUME NEW S \in SUBSET CHEdge, IsFiniteSet(S), NEW v, Lists(v, S), NEW type,
         SortedByKey(v, type), NEW n \in Nodes
  PROVE  LET r == Slice(v, Offsets(v, type), n)
             T == {e \in S : KeyNode(e, type) = n}
         IN  r \in Seq(CHEdge) /\ ConsistsOf(r, T)
<1> DEFINE off == Offsets(v, type)
           r == Slice(v, off, n)
           T == {e \in S : KeyNode(e, type) = n}
           I == EdgesAt(v, type, n)
<1>1. v \in Seq(CHEdge) /\ off = Offsets(v, type) /\ r = SubSeq(v, off[n] + 1, off[n + 1])
  BY DEF Lists, Slice
<1>2. T \in SUBSET S
  OBVIOUS
<1>6. I \in SUBSET DOMAIN v
  BY DEF EdgesAt
<1>7. \A i \in DOMAIN v : i \in I <=> v[i] \in T
  BY DEF EdgesAt, Lists
<1> HIDE DEF off, r, T, I
<1>0. IsCut(r, v, type, n, off[n])
  BY <1>1, SliceOfNode
<1>3. r \in Seq(CHEdge)
  BY <1>0 DEF IsCut
<1>4. Len(r) = Cardinality(I) /\ Picks(r, v, I)
  BY <1>0 DEF I, IsCut, Picks
<1>5. ConsistsOf(r, T)
  BY <1>2, <1>3, <1>4, <1>6, <1>7, SliceElements
<1> QED
  BY <1>3, <1>5 DEF r, T, off

(* Sorting a set gives a vector that lists it, sorted by the node the      *)
(* order looks at first; and it can be sorted.                             *)
LEMMA SortingLists ==
  ASSUME NEW S, NEW order, NEW v, IsSorting(v, S, order)
  PROVE  Lists(v, S)
<1>1. v \in Seq(S) /\ DOMAIN v = 1..Len(v) /\ Len(v) \in Nat
  BY DEF IsSorting
<1>2. \A x \in S : \E k \in DOMAIN v : v[k] = x
  BY <1>1 DEF IsSorting
<1>3. \A j, k \in DOMAIN v : v[j] = v[k] => j = k
  <2> TAKE j, k \in DOMAIN v
  <2>1. j < k \/ k < j \/ j = k
    BY <1>1
  <2> QED
    BY <1>1, <2>1 DEF IsSorting
<1> QED
  BY <1>1, <1>2, <1>3 DEF Lists

(* Outgoing edges.                                                         *)
LEMMA SrcTgtSorted ==
  ASSUME NEW S \in SUBSET CHEdge, IsFiniteSet(S), NEW v \in SrcTgtSortings(S)
  PROVE  Lists(v, S) /\ SortedByKey(v, "OUT")
<1> DEFINE order == {p \in S \X S : SrcTgtLess(p[1], p[2])}
<1>1. IsSorting(v, S, order)
  BY SortingsAreSortings DEF SrcTgtSortings
<1>2. Lists(v, S)
  <2> HIDE DEF order
  <2> QED
    BY <1>1, SortingLists
<1>3. v \in Seq(S) /\ DOMAIN v = 1..Len(v)
  BY <1>2 DEF Lists
<1>4. ASSUME NEW i \in DOMAIN v, NEW j \in DOMAIN v, i < j
      PROVE  KeyNode(v[i], "OUT") <= KeyNode(v[j], "OUT")
  <2>1. <<v[j], v[i]>> \notin order
    BY <1>1, <1>3, <1>4 DEF IsSorting
  <2>2. ~SrcTgtLess(v[j], v[i])
    BY <1>3, <2>1
  <2>3. v[i].src \in Nat /\ v[j].src \in Nat
    BY <1>3, SizeAssumption DEF CHEdge, Nodes
  <2> QED
    BY <2>2, <2>3 DEF SrcTgtLess, KeyNode, OtherNode, Opposite
<1> QED
  BY <1>2, <1>4 DEF SortedByKey

(* Incoming edges.                                                         *)
LEMMA TgtSrcSorted ==
  ASSUME NEW S \in SUBSET CHEdge, IsFiniteSet(S), NEW v \in TgtSrcSortings(S)
  PROVE  Lists(v, S) /\ SortedByKey(v, "IN")
<1> DEFINE order == {p \in S \X S : TgtSrcLess(p[1], p[2])}
<1>1. IsSorting(v, S, order)
  BY SortingsAreSortings DEF TgtSrcSortings
<1>2. Lists(v, S)
  <2> HIDE DEF order
  <2> QED
    BY <1>1, SortingLists
<1>3. v \in Seq(S) /\ DOMAIN v = 1..Len(v)
  BY <1>2 DEF Lists
<1>4. ASSUME NEW i \in DOMAIN v, NEW j \in DOMAIN v, i < j
      PROVE  KeyNode(v[i], "IN") <= KeyNode(v[j], "IN")
  <2>1. <<v[j], v[i]>> \notin order
    BY <1>1, <1>3, <1>4 DEF IsSorting
  <2>2. ~TgtSrcLess(v[j], v[i])
    BY <1>3, <2>1
  <2>3. v[i].tgt \in Nat /\ v[j].tgt \in Nat
    BY <1>3, SizeAssumption DEF CHEdge, Nodes
  <2> QED
    BY <2>2, <2>3 DEF TgtSrcLess, KeyNode, OtherNode, Opposite
<1> QED
  BY <1>2, <1>4 DEF SortedByKey

(* There is a way to sort the edges by their targets.                      *)
LEMMA TgtSrcSortingExists ==
  ASSUME NEW S \in SUBSET CHEdge, IsFiniteSet(S)
  PROVE  TgtSrcSortings(S) # {}
<1> DEFINE order == {p \in S \X S : TgtSrcLess(p[1], p[2])}
<1>1. \A e \in S : e.src \in Nat /\ e.tgt \in Nat
  BY SizeAssumption DEF CHEdge, Nodes
<1>2. \A a, b : <<a, b>> \in order => <<b, a>> \notin order
  BY <1>1 DEF TgtSrcLess
<1>3. \A a, b, c : <<a, b>> \in order /\ <<b, c>> \in order => <<a, c>> \in order
  BY <1>1 DEF TgtSrcLess
<1>4. IsStrictOrder(order)
  BY <1>2, <1>3 DEF IsStrictOrder
<1> HIDE DEF order
<1>5. Sortings(S, order) # {}
  BY <1>4, SortingsAreSortings
<1> QED
  BY <1>5 DEF order, TgtSrcSortings
=============================================================================
