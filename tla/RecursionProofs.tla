-------------------------- MODULE RecursionProofs --------------------------
(***************************************************************************)
(* What the recursive definitions compute, for every input: Distances(),   *)
(* Sortings() and the folds.  The theorems of the library about induction  *)
(* and recursion take operators, which the provers cannot instantiate: the *)
(* first part states what is needed of them for sets and functions.  The   *)
(* last part is about the distances of a graph from which nodes are taken  *)
(* away.                                                                   *)
(***************************************************************************)
EXTENDS ShortestPaths, Sorting, FiniteSetTheorems, SequenceTheorems,
        WellFoundedInduction, TLAPS

(* Induction over the natural numbers: a set that contains 0 and with each *)
(* number the next one contains all.                                       *)
LEMMA NatSetInduction ==
  ASSUME NEW S, 0 \in S, \A n \in Nat : n \in S => n + 1 \in S
  PROVE  Nat \subseteq S
<1> DEFINE R == OpToRel(<, Nat)
           Rest == Nat \ S
<1>1. IsWellFoundedOn(R, Nat)
  BY NatLessThanWellFounded
<1>2. \A x \in Nat, y \in Nat : x < y => <<x, y>> \in R
  BY DEF OpToRel
<1> HIDE DEF R
<1>3. SUFFICES ASSUME Rest # {} PROVE FALSE
  OBVIOUS
<1>4. PICK x \in Rest : \A y \in Rest : <<y, x>> \notin R
  BY <1>1, <1>3, WFMin
<1>5. x - 1 \in Nat /\ x - 1 < x /\ x \in Nat /\ (x - 1) + 1 = x
  BY <1>4
<1> QED
  BY <1>2, <1>4, <1>5

(* Every set of natural numbers has a smallest one.                        *)
LEMMA LeastNumber ==
  ASSUME NEW S \in SUBSET Nat, S # {}
  PROVE  \E x \in S : \A y \in S : x <= y
<1> DEFINE R == OpToRel(<, Nat)
<1>1. IsWellFoundedOn(R, Nat)
  BY NatLessThanWellFounded
<1>2. \A x \in Nat, y \in Nat : x < y => <<x, y>> \in R
  BY DEF OpToRel
<1> HIDE DEF R
<1>3. PICK x \in S : \A y \in S : <<y, x>> \notin R
  BY <1>1, WFMin
<1>4. ASSUME NEW y \in S PROVE x <= y
  <2>1. x \in Nat /\ y \in Nat /\ ~(y < x)
    BY <1>2, <1>3
  <2> QED
    BY <2>1
<1> QED
  BY <1>4

(* The function f has on 0..m the first value b, and each further value is *)
(* made by s from the one before.                                          *)
Follows(f, m, b, s) == f[0] = b /\ \A n \in 1..m : f[n] = s[<<n, f[n - 1]>>]

(* A function on 0..m that is given by its first value and the step from   *)
(* each value to the next exists.                                          *)
LEMMA IntervalRecursion ==
  ASSUME NEW m \in Nat, NEW X, NEW b \in X, NEW s \in [(1..m) \X X -> X]
  PROVE  \E f \in [0..m -> X] : Follows(f, m, b, s)
<1> DEFINE Works(f, k) == /\ f \in [0..k -> X] /\ f[0] = b
                          /\ \A n \in 1..k : f[n] = s[<<n, f[n - 1]>>]
           S == {k \in Nat : k <= m => \E f : Works(f, k)}
<1>1. 0 \in S
  <2>1. Works([n \in 0..0 |-> b], 0)
    OBVIOUS
  <2> QED
    BY <2>1
<1>2. ASSUME NEW k \in Nat, k \in S, k + 1 <= m PROVE \E f : Works(f, k + 1)
  <2>1. PICK f : Works(f, k)
    BY <1>2
  <2> DEFINE g == [n \in 0..(k + 1) |-> IF n = k + 1 THEN s[<<n, f[k]>>] ELSE f[n]]
  <2>2. Works(g, k + 1)
    <3>1. g \in [0..(k + 1) -> X] /\ g[0] = b
      BY <1>2, <2>1
    <3>2. \A n \in 1..(k + 1) : g[n] = s[<<n, g[n - 1]>>]
      BY <1>2, <2>1
    <3> QED
      BY <3>1, <3>2
  <2> QED
    BY <2>2
<1>3. Nat \subseteq S
  <2>1. \A k \in Nat : k \in S => k + 1 \in S
    BY <1>2
  <2> HIDE DEF S
  <2> QED
    BY <1>1, <2>1, NatSetInduction
<1>4. \E f : Works(f, m)
  BY <1>3
<1> QED
  BY <1>4 DEF Follows

(* Induction over the subsets of a finite set.                             *)
LEMMA SubsetInduction ==
  ASSUME NEW S, IsFiniteSet(S), NEW P, {} \in P,
         \A T \in SUBSET S : T # {} /\ (\A x \in T : T \ {x} \in P) => T \in P
  PROVE  SUBSET S \subseteq P
<1> DEFINE N == {n \in Nat : \A T \in SUBSET S : Cardinality(T) = n => T \in P}
<1>1. \A T \in SUBSET S :
        /\ Cardinality(T) \in Nat /\ (Cardinality(T) = 0 <=> T = {})
        /\ \A x \in T : Cardinality(T \ {x}) = Cardinality(T) - 1
  BY FS_Subset, FS_CardinalityType, FS_EmptySet, FS_RemoveElement
<1>2. 0 \in N
  BY <1>1
<1>3. ASSUME NEW n \in Nat, n \in N PROVE n + 1 \in N
  <2> SUFFICES ASSUME NEW T \in SUBSET S, Cardinality(T) = n + 1 PROVE T \in P
    OBVIOUS
  <2>1. \A x \in T : T \ {x} \in SUBSET S /\ Cardinality(T \ {x}) = n
    BY <1>1
  <2>2. \A x \in T : T \ {x} \in P
    BY <1>3, <2>1
  <2>3. T # {}
    BY <1>1
  <2> QED
    BY <2>2, <2>3
<1> HIDE DEF N
<1>4. Nat \subseteq N
  BY <1>2, <1>3, NatSetInduction
<1> QED
  BY <1>1, <1>4 DEF N

(* The function f has for the empty set the value b, and each further value*)
(* is made by s from the element c takes away and the value without it.    *)
SetFollows(f, S, b, c, s) ==
  \A T \in SUBSET S : f[T] = IF T = {} THEN b ELSE s[<<c[T], f[T \ {c[T]}]>>]

(* Such a function exists for every finite set.                            *)
LEMMA SetRecursion ==
  ASSUME NEW S, IsFiniteSet(S), NEW X, NEW b \in X, NEW c, \A T \in SUBSET S : T # {} => c[T] \in T,
         NEW s \in [S \X X -> X]
  PROVE  \E f \in [SUBSET S -> X] : SetFollows(f, S, b, c, s)
<1> DEFINE Upto(n) == {T \in SUBSET S : Cardinality(T) <= n}
           Works(f, n) == /\ f \in [Upto(n) -> X]
                          /\ \A T \in Upto(n) : f[T] = IF T = {} THEN b ELSE s[<<c[T], f[T \ {c[T]}]>>]
           N == {n \in Nat : \E f : Works(f, n)}
<1>1. \A T \in SUBSET S :
        /\ Cardinality(T) \in Nat /\ (Cardinality(T) = 0 <=> T = {})
        /\ Cardinality(T) <= Cardinality(S)
        /\ \A x \in T : Cardinality(T \ {x}) = Cardinality(T) - 1
  BY FS_Subset, FS_CardinalityType, FS_EmptySet, FS_RemoveElement
<1>2. 0 \in N
  <2> DEFINE f == [T \in Upto(0) |-> b]
  <2>1. Upto(0) = {{}}
    BY <1>1
  <2>2. Works(f, 0)
    BY <2>1
  <2> QED
    BY <2>2
<1>3. ASSUME NEW n \in Nat, n \in N PROVE n + 1 \in N
  <2>1. PICK f : Works(f, n)
    BY <1>3
  <2> DEFINE g == [T \in Upto(n + 1) |-> IF T = {} THEN b ELSE s[<<c[T], f[T \ {c[T]}]>>]]
  <2>2. \A T \in Upto(n + 1) : T # {} => T \ {c[T]} \in Upto(n) /\ c[T] \in S
    BY <1>1
  <2>3. \A T \in Upto(n + 1) : T # {} => s[<<c[T], f[T \ {c[T]}]>>] \in X
    BY <2>1, <2>2
  <2>4. g \in [Upto(n + 1) -> X]
    BY <2>3
  <2>5. \A T \in Upto(n) : g[T] = f[T] /\ T \in Upto(n + 1)
    BY <1>1, <2>1
  <2>6. Works(g, n + 1)
    BY <2>2, <2>4, <2>5
  <2> HIDE DEF Works
  <2> QED
    BY <2>6
<1>4. Nat \subseteq N
  <2> HIDE DEF N
  <2> QED
    BY <1>2, <1>3, NatSetInduction
<1>5. Upto(Cardinality(S)) = SUBSET S /\ Cardinality(S) \in Nat
  BY <1>1
<1>6. PICK f : Works(f, Cardinality(S))
  BY <1>4, <1>5
<1> QED
  BY <1>5, <1>6 DEF SetFollows

(* Max() of a set of positions is its largest element.                     *)
LEMMA MaxOfPositions ==
  ASSUME NEW n \in Nat, NEW T \in SUBSET (1..n), T # {}
  PROVE  Max(T) \in T /\ \A y \in T : Max(T) >= y
<1> DEFINE S == {n - t : t \in T}
<1>1. S \in SUBSET Nat /\ S # {}
  <2>1. \A t \in T : n - t \in Nat
    OBVIOUS
  <2> QED
    BY <2>1
<1>2. PICK m \in S : \A y \in S : m <= y
  <2> HIDE DEF S
  <2> QED
    BY <1>1, LeastNumber
<1>3. PICK t \in T : m = n - t
  BY <1>2
<1>4. \A y \in T : t >= y
  <2> TAKE y \in T
  <2>1. n - y \in S
    OBVIOUS
  <2>2. n - t <= n - y
    BY <1>2, <1>3, <2>1
  <2>3. t \in 1..n /\ y \in 1..n
    OBVIOUS
  <2> QED
    BY <2>2, <2>3
<1> QED
  BY <1>4 DEF Max

(* Positions that leave no gap below are the first ones.                   *)
LEMMA PrefixCount ==
  ASSUME NEW n \in Nat, NEW S \in SUBSET (1..n), \A i \in S, j \in 1..n : j <= i => j \in S
  PROVE  Cardinality(S) \in 0..n /\ S = 1..Cardinality(S)
<1>1. CASE S = {}
  BY <1>1, FS_EmptySet
<1>2. CASE S # {}
  <2>1. Max(S) \in S /\ \A y \in S : Max(S) >= y
    BY <1>2, MaxOfPositions
  <2> DEFINE m == Max(S)
  <2>2. m \in 1..n /\ m \in S /\ \A y \in S : m >= y
    BY <2>1
  <2> HIDE DEF m
  <2>3. S = 1..m
    <3>1. \A y \in S : y \in 1..m
      BY <2>2
    <3>2. \A y \in 1..m : y \in 1..n /\ y <= m
      BY <2>2
    <3>3. \A y \in 1..m : y \in S
      BY <2>2, <3>2
    <3> QED
      BY <3>1, <3>3
  <2>4. Cardinality(S) = m
    BY <2>2, <2>3, FS_Interval
  <2> QED
    BY <2>2, <2>3, <2>4
<1> QED
  BY <1>1, <1>2

(* A function as FoldLeft() uses it exists.  It takes the elements away    *)
(* from the last to the first.                                             *)
LastOf(n) == [T \in SUBSET (1..n) |-> Max(T)]

LEMMA FoldExists ==
  ASSUME NEW n \in Nat, NEW X, NEW b \in X, NEW s \in [(1..n) \X X -> X]
  PROVE  \E f \in [SUBSET (1..n) -> X] : SetFollows(f, 1..n, b, LastOf(n), s)
<1>1. IsFiniteSet(1..n)
  BY FS_Interval
<1>2. \A T \in SUBSET (1..n) : T # {} => LastOf(n)[T] \in T
  BY MaxOfPositions DEF LastOf
<1> QED
  BY <1>1, <1>2, SetRecursion

(* The last of the first k positions is k.                                 *)
LEMMA LastPosition ==
  ASSUME NEW k \in Nat, k > 0
  PROVE  Max(1..k) = k /\ (1..k) \ {k} = 1..(k - 1) /\ 1..k # {}
<1>1. k \in 1..k /\ 1..k # {}
  OBVIOUS
<1>2. Max(1..k) \in 1..k /\ \A y \in 1..k : Max(1..k) >= y
  BY <1>1, MaxOfPositions
<1>3. Max(1..k) = k
  BY <1>1, <1>2
<1> QED
  BY <1>1, <1>3

(* The lengths of the edges of a walk are added one after the other.       *)
LEMMA SumOneByOne ==
  ASSUME NEW w, NEW n \in Nat, DOMAIN w = 1..n, Len(w) = n, \A k \in 1..n : w[k].dist \in Nat
  PROVE  \E sum \in [0..n -> Nat] :
           /\ sum[0] = 0 /\ sum[n] = LengthOf(w)
           /\ \A k \in 1..n : sum[k] = sum[k - 1] + w[k].dist
<1> DEFINE s == [p \in (1..n) \X Nat |-> p[2] + w[p[1]].dist]
<1>1. s \in [(1..n) \X Nat -> Nat]
  OBVIOUS
<1>2. \A k \in 1..n, x \in Nat : s[<<k, x>>] = x + w[k].dist
  OBVIOUS
<1> HIDE DEF s
<1>3. PICK g \in [SUBSET (1..n) -> Nat] : SetFollows(g, 1..n, 0, LastOf(n), s)
  BY <1>1, FoldExists
<1> DEFINE Body(h) == [T \in SUBSET DOMAIN w |->
                         IF T = {} THEN 0
                         ELSE LET x == Max(T) IN h[T \ {x}] + w[x].dist]
           f == CHOOSE h : h = Body(h)
<1>4. g = Body(g)
  <2>1. ASSUME NEW T \in SUBSET (1..n), T # {}
        PROVE  g[T] = g[T \ {Max(T)}] + w[Max(T)].dist
    <3> DEFINE m == Max(T)
    <3>1. m \in T
      BY <2>1, MaxOfPositions
    <3>2. LastOf(n)[T] = m
      BY DEF LastOf
    <3> HIDE DEF m
    <3>3. m \in 1..n /\ g[T \ {m}] \in Nat
      BY <1>3, <3>1
    <3>4. g[T] = s[<<m, g[T \ {m}]>>]
      BY <1>3, <2>1, <3>2 DEF SetFollows
    <3>5. g[T] = g[T \ {m}] + w[m].dist
      BY <1>2, <3>3, <3>4
    <3> QED
      BY <3>5 DEF m
  <2>2. g[{}] = 0
    BY <1>3 DEF SetFollows
  <2>3. \A T \in SUBSET (1..n) :
          g[T] = IF T = {} THEN 0 ELSE LET x == Max(T) IN g[T \ {x}] + w[x].dist
    BY <2>1, <2>2
  <2> QED
    BY <1>3, <2>3
<1>5. f = Body(f)
  <2> HIDE DEF Body
  <2> QED
    BY <1>4
<1>6. LengthOf(w) = f[1..n]
  BY DEF LengthOf, FoldLeft, MapThenFoldSet
<1> HIDE DEF f
<1> DEFINE sum == [k \in 0..n |-> f[1..k]]
<1>7. sum[0] = 0
  <2>1. 1..0 = {}
    OBVIOUS
  <2> QED
    BY <1>5, <2>1
<1>8. sum[n] = LengthOf(w)
  BY <1>6
<1>9. ASSUME NEW k \in 1..n PROVE sum[k] = sum[k - 1] + w[k].dist
  <2>1. Max(1..k) = k /\ (1..k) \ {k} = 1..(k - 1) /\ 1..k # {} /\ 1..k \in SUBSET (1..n)
    BY LastPosition
  <2>2. f[1..k] = f[(1..k) \ {Max(1..k)}] + w[Max(1..k)].dist
    BY <1>5, <2>1
  <2>3. k \in 0..n /\ k - 1 \in 0..n
    OBVIOUS
  <2> QED
    BY <2>1, <2>2, <2>3
<1> HIDE DEF sum
<1> DEFINE S == {k \in Nat : k <= n => sum[k] \in Nat}
<1>10. 0 \in S
  BY <1>7
<1>11. ASSUME NEW k \in Nat, k \in S PROVE k + 1 \in S
  <2> SUFFICES ASSUME k + 1 <= n PROVE sum[k + 1] \in Nat
    OBVIOUS
  <2>1. k + 1 \in 1..n /\ (k + 1) - 1 = k /\ k <= n
    BY DEF S
  <2>2. sum[k + 1] = sum[k] + w[k + 1].dist /\ w[k + 1].dist \in Nat /\ sum[k] \in Nat
    BY <1>9, <1>11, <2>1
  <2> QED
    BY <2>2
<1> HIDE DEF S
<1>12. Nat \subseteq S
  BY <1>10, <1>11, NatSetInduction
<1>13. \A k \in 0..n : sum[k] \in Nat
  BY <1>12 DEF S
<1>14. sum \in [0..n -> Nat]
  BY <1>13 DEF sum
<1> QED
  BY <1>7, <1>8, <1>9, <1>14

-----------------------------------------------------------------------------
(* Sorting.                                                                *)

(* The vector v holds each element of S once, none behind one it comes     *)
(* before.                                                                 *)
IsSorting(v, S, order) ==
  /\ v \in Seq(S) /\ Len(v) = Cardinality(S)
  /\ \A x \in S : \E k \in 1..Len(v) : v[k] = x
  /\ \A j, k \in 1..Len(v) : j < k => v[j] # v[k] /\ <<v[k], v[j]>> \notin order

(* Where the elements of a vector are when another is put into it.         *)
LEMMA InsertAtElements ==
  ASSUME NEW S, NEW w \in Seq(S), NEW x \in S, NEW k \in 1..(Len(w) + 1)
  PROVE  /\ InsertAt(w, k, x) \in Seq(S) /\ Len(InsertAt(w, k, x)) = Len(w) + 1
         /\ \A j \in 1..(Len(w) + 1) :
              InsertAt(w, k, x)[j] = IF j < k THEN w[j] ELSE IF j = k THEN x ELSE w[j - 1]
<1> DEFINE front == SubSeq(w, 1, k - 1)
           back == SubSeq(w, k, Len(w))
<1>1. front \in Seq(S) /\ Len(front) = k - 1 /\ \A j \in 1..(k - 1) : front[j] = w[j]
  OBVIOUS
<1>2. /\ back \in Seq(S) /\ Len(back) = Len(w) - k + 1
      /\ \A j \in 1..(Len(w) - k + 1) : back[j] = w[k + j - 1]
  OBVIOUS
<1> HIDE DEF front, back
<1>3. /\ front \o <<x>> \in Seq(S) /\ Len(front \o <<x>>) = k
      /\ \A j \in 1..k : (front \o <<x>>)[j] = IF j < k THEN w[j] ELSE x
  BY <1>1
<1>4. InsertAt(w, k, x) = (front \o <<x>>) \o back
  BY DEF InsertAt, front, back
<1> DEFINE first == front \o <<x>>
<1> HIDE DEF first
<1>5. first \in Seq(S) /\ Len(first) = k /\ \A j \in 1..k : first[j] = IF j < k THEN w[j] ELSE x
  BY <1>3 DEF first
<1>6. /\ first \o back \in Seq(S) /\ Len(first \o back) = Len(w) + 1
      /\ \A j \in 1..(Len(w) + 1) :
           (first \o back)[j] = IF j <= k THEN first[j] ELSE back[j - k]
  <2>1. first \in Seq(S) /\ back \in Seq(S)
    BY <1>2, <1>5
  <2>2. /\ first \o back \in Seq(S) /\ Len(first \o back) = Len(first) + Len(back)
        /\ \A j \in 1..(Len(first) + Len(back)) :
             (first \o back)[j] = IF j <= Len(first) THEN first[j] ELSE back[j - Len(first)]
    BY <2>1
  <2>3. Len(first) = k /\ Len(first) + Len(back) = Len(w) + 1
    BY <1>2, <1>5
  <2> QED
    BY <2>2, <2>3
<1>7. \A j \in 1..(Len(w) + 1) : j > k => back[j - k] = w[j - 1]
  BY <1>2
<1> QED
  BY <1>4, <1>5, <1>6, <1>7 DEF first

(* An inserted element is where it belongs.                                *)
LEMMA InsertionSorts ==
  ASSUME NEW T, IsFiniteSet(T), NEW x, x \notin T, NEW order,
         NEW w, IsSorting(w, T, order), NEW v \in Insertions(w, x, order)
  PROVE  IsSorting(v, T \cup {x}, order)
<1>1. PICK k \in 1..(Len(w) + 1) :
        /\ v = InsertAt(w, k, x)
        /\ \A j \in 1..(k - 1) : <<x, w[j]>> \notin order
        /\ \A j \in k..Len(w) : <<w[j], x>> \notin order
  BY DEF Insertions
<1>2. w \in Seq(T) /\ w \in Seq(T \cup {x}) /\ Len(w) \in Nat
  BY DEF IsSorting
<1>3. /\ v \in Seq(T \cup {x}) /\ Len(v) = Len(w) + 1
      /\ \A j \in 1..(Len(w) + 1) : v[j] = IF j < k THEN w[j] ELSE IF j = k THEN x ELSE w[j - 1]
  <2> DEFINE S == T \cup {x}
  <2>1. w \in Seq(S) /\ x \in S
    BY <1>2
  <2> HIDE DEF S
  <2>2. /\ InsertAt(w, k, x) \in Seq(S) /\ Len(InsertAt(w, k, x)) = Len(w) + 1
        /\ \A j \in 1..(Len(w) + 1) :
             InsertAt(w, k, x)[j] = IF j < k THEN w[j] ELSE IF j = k THEN x ELSE w[j - 1]
    BY <2>1, InsertAtElements
  <2> QED
    BY <1>1, <2>2 DEF S
<1>4. Len(v) = Cardinality(T \cup {x})
  BY <1>3, FS_AddElement DEF IsSorting
<1>5. ASSUME NEW y \in T \cup {x} PROVE \E j \in 1..Len(v) : v[j] = y
  <2>1. CASE y = x
    <3>1. k \in 1..Len(v) /\ v[k] = x
      BY <1>2, <1>3
    <3> QED
      BY <2>1, <3>1
  <2>2. CASE y \in T
    <3>1. PICK j \in 1..Len(w) : w[j] = y
      BY <2>2 DEF IsSorting
    <3>2. CASE j < k
      <4>1. j \in 1..Len(v) /\ v[j] = y
        BY <1>2, <1>3, <3>1, <3>2
      <4> QED
        BY <4>1
    <3>3. CASE ~(j < k)
      <4>1. j + 1 \in 1..Len(v) /\ ~(j + 1 < k) /\ j + 1 # k /\ (j + 1) - 1 = j
        BY <1>2, <1>3, <3>1, <3>3
      <4>2. v[j + 1] = y
        BY <1>3, <3>1, <4>1
      <4> QED
        BY <4>1, <4>2
    <3> QED
      BY <3>2, <3>3
  <2> QED
    BY <2>1, <2>2
<1>6. ASSUME NEW j \in 1..Len(v), NEW l \in 1..Len(v), j < l
      PROVE  v[j] # v[l] /\ <<v[l], v[j]>> \notin order
  <2>1. \A a, b \in 1..Len(w) : a < b => w[a] # w[b] /\ <<w[b], w[a]>> \notin order
    BY DEF IsSorting
  <2>2. \A a \in 1..Len(w) : w[a] \in T /\ w[a] # x
    BY <1>2
  <2>3. CASE l < k
    <3>1. j \in 1..Len(w) /\ l \in 1..Len(w) /\ v[j] = w[j] /\ v[l] = w[l]
      BY <1>2, <1>3, <1>6, <2>3
    <3> QED
      BY <1>6, <2>1, <3>1
  <2>4. CASE l = k
    <3>1. j \in 1..(k - 1) /\ j \in 1..Len(w) /\ v[j] = w[j] /\ v[l] = x
      BY <1>2, <1>3, <1>6, <2>4
    <3> QED
      BY <1>1, <2>2, <3>1
  <2>5. CASE l > k /\ j < k
    <3>1. /\ j \in 1..Len(w) /\ l - 1 \in 1..Len(w) /\ j < l - 1
          /\ v[j] = w[j] /\ v[l] = w[l - 1]
      BY <1>2, <1>3, <1>6, <2>5
    <3> QED
      BY <2>1, <3>1
  <2>6. CASE l > k /\ j = k
    <3>1. l - 1 \in 1..Len(w) /\ l - 1 \in k..Len(w) /\ v[j] = x /\ v[l] = w[l - 1]
      BY <1>2, <1>3, <1>6, <2>6
    <3> QED
      BY <1>1, <2>2, <3>1
  <2>7. CASE l > k /\ j > k
    <3>1. /\ j - 1 \in 1..Len(w) /\ l - 1 \in 1..Len(w) /\ j - 1 < l - 1
          /\ v[j] = w[j - 1] /\ v[l] = w[l - 1]
      BY <1>2, <1>3, <1>6, <2>7
    <3> QED
      BY <2>1, <3>1
  <2> QED
    BY <1>1, <1>2, <1>3, <2>3, <2>4, <2>5, <2>6, <2>7
<1> QED
  BY <1>3, <1>4, <1>5, <1>6 DEF IsSorting

(* In an order there are neither cycles nor gaps.                          *)
IsStrictOrder(order) ==
  /\ \A a, b : <<a, b>> \in order => <<b, a>> \notin order
  /\ \A a, b, c : <<a, b>> \in order /\ <<b, c>> \in order => <<a, c>> \in order

(* Then there is a place for every element: in front of the first one it   *)
(* comes before.                                                           *)
LEMMA InsertionExists ==
  ASSUME NEW T, NEW x, NEW order, IsStrictOrder(order), NEW w, IsSorting(w, T, order)
  PROVE  Insertions(w, x, order) # {}
<1> DEFINE Larger == {j \in 1..Len(w) : <<x, w[j]>> \in order}
<1>1. Len(w) \in Nat
  BY DEF IsSorting
<1>2. SUFFICES ASSUME TRUE
               PROVE  \E k \in 1..(Len(w) + 1) :
                        /\ \A j \in 1..(k - 1) : <<x, w[j]>> \notin order
                        /\ \A j \in k..Len(w) : <<w[j], x>> \notin order
  BY DEF Insertions
<1>3. CASE Larger = {}
  <2>1. Len(w) + 1 \in 1..(Len(w) + 1)
    BY <1>1
  <2>2. \A j \in 1..((Len(w) + 1) - 1) : <<x, w[j]>> \notin order
    <3>1. 1..((Len(w) + 1) - 1) = 1..Len(w)
      BY <1>1
    <3> QED
      BY <1>3, <3>1
  <2>3. \A j \in (Len(w) + 1)..Len(w) : FALSE
    BY <1>1
  <2> QED
    BY <2>1, <2>2, <2>3
<1>4. CASE Larger # {}
  <2>1. PICK k \in Larger : \A j \in Larger : k <= j
    <3>1. Larger \in SUBSET Nat
      BY <1>1
    <3> HIDE DEF Larger
    <3> QED
      BY <1>4, <3>1, LeastNumber
  <2>2. \A j \in 1..(k - 1) : <<x, w[j]>> \notin order
    BY <1>1, <2>1
  <2>3. ASSUME NEW j \in k..Len(w), <<w[j], x>> \in order PROVE FALSE
    <3>1. <<x, w[k]>> \in order /\ <<w[j], w[k]>> \in order
      BY <2>1, <2>3 DEF IsStrictOrder
    <3>2. j # k
      BY <2>3, <3>1 DEF IsStrictOrder
    <3>3. k \in 1..Len(w) /\ j \in 1..Len(w) /\ k < j
      BY <1>1, <2>1, <3>2
    <3> QED
      BY <3>1, <3>3 DEF IsSorting
  <2>4. k \in 1..(Len(w) + 1)
    BY <1>1, <2>1
  <2> QED
    BY <2>2, <2>3, <2>4
<1> QED
  BY <1>3, <1>4

(* The fold in Sortings() takes the values its definition gives.           *)
LEMMA SortingsDefined ==
  ASSUME NEW S, IsFiniteSet(S), NEW order
  PROVE  \E f : /\ f[{}] = {<<>>}
                /\ \A T \in SUBSET S : T # {} =>
                     \E x \in T : f[T] = Extended(f[T \ {x}], x, order)
                /\ Sortings(S, order) = f[S]
<1> DEFINE X == SUBSET Seq(S)
           c == [T \in SUBSET S |-> CHOOSE x \in T : TRUE]
           s == [p \in S \X X |-> Extended(p[2], p[1], order)]
<1>1. \A T \in SUBSET S : T # {} => c[T] \in T
  OBVIOUS
<1>2. s \in [S \X X -> X]
  <2> SUFFICES ASSUME NEW x \in S, NEW W \in X, NEW w \in W, NEW v \in Insertions(w, x, order)
               PROVE  v \in Seq(S)
    BY DEF Extended
  <2>1. PICK k \in 1..(Len(w) + 1) : v = InsertAt(w, k, x)
    BY DEF Insertions
  <2> QED
    BY <2>1, InsertAtElements
<1>3. \A x \in S, W \in X : s[<<x, W>>] = Extended(W, x, order)
  OBVIOUS
<1>4. {<<>>} \in X
  OBVIOUS
<1>5. \A T \in SUBSET S : c[T] = CHOOSE x \in T : TRUE
  OBVIOUS
<1> HIDE DEF X, c, s
<1>6. PICK g \in [SUBSET S -> X] : SetFollows(g, S, {<<>>}, c, s)
  BY <1>1, <1>2, <1>4, SetRecursion
<1> DEFINE Body(h) == [T \in SUBSET S |->
                         IF T = {} THEN {<<>>}
                         ELSE LET x == CHOOSE x \in T : TRUE
                              IN  Extended(h[T \ {x}], x, order)]
           f == CHOOSE h : h = Body(h)
<1>7. g = Body(g)
  <2>1. ASSUME NEW T \in SUBSET S, T # {}
        PROVE  g[T] = Extended(g[T \ {c[T]}], c[T], order)
    <3>1. c[T] \in S /\ T \ {c[T]} \in SUBSET S
      BY <1>1, <2>1
    <3>2. g[T \ {c[T]}] \in X
      BY <1>6, <3>1
    <3>3. g[T] = s[<<c[T], g[T \ {c[T]}]>>]
      BY <1>6, <2>1 DEF SetFollows
    <3> QED
      BY <1>3, <3>1, <3>2, <3>3
  <2>2. g[{}] = {<<>>}
    BY <1>6 DEF SetFollows
  <2>3. \A T \in SUBSET S : g[T] = Body(g)[T]
    <3>1. Body(g)[{}] = {<<>>}
      OBVIOUS
    <3>2. ASSUME NEW T \in SUBSET S, T # {} PROVE g[T] = Body(g)[T]
      <4> DEFINE x == CHOOSE x \in T : TRUE
      <4>1. x = c[T]
        BY <1>5
      <4>2. Body(g)[T] = Extended(g[T \ {x}], x, order)
        BY <3>2
      <4> HIDE DEF x, Body
      <4> QED
        BY <2>1, <3>2, <4>1, <4>2
    <3> QED
      BY <2>2, <3>1, <3>2
  <2>4. Body(g) = [T \in SUBSET S |-> Body(g)[T]] /\ g = [T \in SUBSET S |-> g[T]]
    BY <1>6
  <2> HIDE DEF Body
  <2> QED
    BY <2>3, <2>4
<1>8. f = Body(f)
  <2> HIDE DEF Body
  <2> QED
    BY <1>7
<1>9. Sortings(S, order) = f[S]
  BY DEF Sortings, FoldSet, MapThenFoldSet
<1> HIDE DEF f
<1>10. f[{}] = {<<>>}
  BY <1>8
<1>11. \A T \in SUBSET S : T # {} =>
         \E x \in T : f[T] = Extended(f[T \ {x}], x, order)
  <2> SUFFICES ASSUME NEW T \in SUBSET S, T # {}
               PROVE  \E x \in T : f[T] = Extended(f[T \ {x}], x, order)
    OBVIOUS
  <2> DEFINE x == CHOOSE x \in T : TRUE
  <2>1. x \in T
    OBVIOUS
  <2>2. f[T] = Extended(f[T \ {x}], x, order)
    BY <1>8
  <2> HIDE DEF x
  <2> QED
    BY <2>1, <2>2
<1> QED
  BY <1>9, <1>10, <1>11

(* Sortings() are the sortings of a set, and there is one.                 *)
THEOREM SortingsAreSortings ==
  ASSUME NEW S, IsFiniteSet(S), NEW order
  PROVE  /\ \A v \in Sortings(S, order) : IsSorting(v, S, order)
         /\ IsStrictOrder(order) => Sortings(S, order) # {}
<1>1. PICK f : /\ f[{}] = {<<>>}
               /\ \A T \in SUBSET S : T # {} =>
                    \E x \in T : f[T] = Extended(f[T \ {x}], x, order)
               /\ Sortings(S, order) = f[S]
  BY SortingsDefined
<1> DEFINE P == {T \in SUBSET S : /\ \A v \in f[T] : IsSorting(v, T, order)
                                  /\ IsStrictOrder(order) => f[T] # {}}
<1>2. {} \in P
  <2>1. IsSorting(<<>>, {}, order)
    BY FS_EmptySet DEF IsSorting
  <2> QED
    BY <1>1, <2>1
<1>3. ASSUME NEW T \in SUBSET S, T # {}, \A x \in T : T \ {x} \in P
      PROVE  T \in P
  <2>1. PICK x \in T : f[T] = Extended(f[T \ {x}], x, order)
    BY <1>1, <1>3
  <2> DEFINE U == T \ {x}
  <2>2. /\ IsFiniteSet(U) /\ x \notin U /\ U \cup {x} = T
        /\ \A w \in f[U] : IsSorting(w, U, order)
        /\ IsStrictOrder(order) => f[U] # {}
    BY <1>3, FS_Subset
  <2>3. f[T] = Extended(f[U], x, order)
    BY <2>1
  <2> HIDE DEF U
  <2>4. ASSUME NEW v \in f[T] PROVE IsSorting(v, T, order)
    <3>1. PICK w \in f[U] : v \in Insertions(w, x, order)
      BY <2>3, <2>4 DEF Extended
    <3> QED
      BY <2>2, <3>1, InsertionSorts
  <2>5. ASSUME IsStrictOrder(order) PROVE f[T] # {}
    <3>1. PICK w \in f[U] : IsSorting(w, U, order)
      BY <2>2, <2>5
    <3>2. Insertions(w, x, order) # {}
      BY <2>5, <3>1, InsertionExists
    <3> QED
      BY <2>3, <3>2 DEF Extended
  <2> QED
    BY <2>4, <2>5
<1>4. SUBSET S \subseteq P
  <2> HIDE DEF P
  <2> QED
    BY <1>2, <1>3, SubsetInduction
<1> QED
  BY <1>1, <1>4

-----------------------------------------------------------------------------
(* Sets of distances.                                                      *)
Triples == Nodes \X Nodes \X Nat

(* D tells for two nodes at most one distance.                             *)
OneDistance(D) ==
  \A u, v \in Nodes : \A c, d \in Nat : <<u, v, c>> \in D /\ <<u, v, d>> \in D => c = d

(* According to D the way from u to v is not longer than d.                *)
AtMost(D, u, v, d) == \E c \in Nat : <<u, v, c>> \in D /\ c <= d

EdgeSet(E) == \A e \in E : e.src \in Nodes /\ e.tgt \in Nodes /\ e.dist \in Nat

(* A potential rises along each edge at most by its length.                *)
Potential(p, E) == p \in [Nodes -> Int] /\ \A e \in E : p[e.tgt] <= p[e.src] + e.dist

(* A potential rises no faster along the distances of D.                   *)
Bounds(p, D) == \A u, v \in Nodes : \A d \in Nat : <<u, v, d>> \in D => p[v] <= p[u] + d

(* Among the triples of a set are the shortest.                            *)
LEMMA ShortestProperties ==
  ASSUME NEW T \in SUBSET Triples
  PROVE  /\ Shortest(T) \subseteq T /\ OneDistance(Shortest(T))
         /\ \A u, v \in Nodes : \A d \in Nat : <<u, v, d>> \in T => AtMost(Shortest(T), u, v, d)
<1>1. Shortest(T) \subseteq T
  BY DEF Shortest
<1>2. OneDistance(Shortest(T))
  <2> SUFFICES ASSUME NEW u \in Nodes, NEW v \in Nodes, NEW c \in Nat, NEW d \in Nat,
                      <<u, v, c>> \in Shortest(T), <<u, v, d>> \in Shortest(T)
               PROVE  c = d
    BY DEF OneDistance
  <2> QED
    BY DEF Shortest
<1>3. ASSUME NEW u \in Nodes, NEW v \in Nodes, NEW d \in Nat, <<u, v, d>> \in T
      PROVE  AtMost(Shortest(T), u, v, d)
  <2> DEFINE S == {c \in Nat : <<u, v, c>> \in T}
  <2>1. PICK c \in S : \A y \in S : c <= y
    BY <1>3, LeastNumber
  <2>2. <<u, v, c>> \in Shortest(T)
    <3>1. \A o \in T : o = <<o[1], o[2], o[3]>> /\ o[3] \in Nat
      BY DEF Triples
    <3> QED
      BY <2>1, <3>1 DEF Shortest
  <2> QED
    BY <1>3, <2>1, <2>2 DEF AtMost
<1> QED
  BY <1>1, <1>2, <1>3

(* Joined() adds up the distances of two ways with a common node.          *)
LEMMA JoinedProperties ==
  ASSUME NEW A \in SUBSET Triples, NEW B \in SUBSET Triples
  PROVE  /\ Joined(A, B) \subseteq Triples
         /\ \A u, v, w \in Nodes : \A c, d \in Nat :
              <<u, v, c>> \in A /\ <<v, w, d>> \in B => <<u, w, c + d>> \in Joined(A, B)
         /\ \A u, w \in Nodes : \A d \in Nat :
              <<u, w, d>> \in Joined(A, B) =>
                \E v \in Nodes : \E a, b \in Nat :
                  <<u, v, a>> \in A /\ <<v, w, b>> \in B /\ d = a + b
<1>1. \A t \in A \cup B : /\ t = <<t[1], t[2], t[3]>>
                          /\ t[1] \in Nodes /\ t[2] \in Nodes /\ t[3] \in Nat
  BY DEF Triples
<1>2. \A x : x \in Joined(A, B) <=>
        \E a \in A, b \in B : b[1] = a[2] /\ x = <<a[1], b[2], a[3] + b[3]>>
  BY DEF Joined
<1>3. Joined(A, B) \subseteq Triples
  BY <1>1, <1>2 DEF Triples
<1>4. ASSUME NEW u \in Nodes, NEW v \in Nodes, NEW w \in Nodes, NEW c \in Nat, NEW d \in Nat,
             <<u, v, c>> \in A, <<v, w, d>> \in B
      PROVE  <<u, w, c + d>> \in Joined(A, B)
  BY <1>2, <1>4
<1>5. ASSUME NEW u \in Nodes, NEW w \in Nodes, NEW d \in Nat, <<u, w, d>> \in Joined(A, B)
      PROVE  \E v \in Nodes : \E a, b \in Nat :
               <<u, v, a>> \in A /\ <<v, w, b>> \in B /\ d = a + b
  <2>1. PICK x \in A, y \in B : y[1] = x[2] /\ <<u, w, d>> = <<x[1], y[2], x[3] + y[3]>>
    BY <1>2, <1>5
  <2> QED
    BY <1>1, <2>1
<1> QED
  BY <1>3, <1>4, <1>5

-----------------------------------------------------------------------------
(* What holds of the distances over paths whose inner nodes are below n:   *)
(* they satisfy the triangle inequality at those nodes, and no potential   *)
(* rises faster.                                                           *)
DistancesBelow(D, E, n) ==
  /\ D \in SUBSET Triples /\ OneDistance(D)
  /\ \A v \in Nodes : AtMost(D, v, v, 0)
  /\ \A e \in E : AtMost(D, e.src, e.tgt, e.dist)
  /\ \A k \in Nodes : k < n =>
       \A u, w \in Nodes : \A c, d \in Nat :
         <<u, k, c>> \in D /\ <<k, w, d>> \in D => AtMost(D, u, w, c + d)
  /\ \A p : Potential(p, E) => Bounds(p, D)

(* The edges themselves have no inner nodes.                               *)
LEMMA DirectProperties ==
  ASSUME NEW E, EdgeSet(E)
  PROVE  DistancesBelow(Direct(E), E, 0)
<1> DEFINE T == {<<e.src, e.tgt, e.dist>> : e \in E} \cup {<<v, v, 0>> : v \in Nodes}
<1>1. T \in SUBSET Triples
  BY DEF EdgeSet, Triples
<1>2. /\ Shortest(T) \subseteq T /\ OneDistance(Shortest(T))
      /\ \A u, v \in Nodes : \A d \in Nat : <<u, v, d>> \in T => AtMost(Shortest(T), u, v, d)
  BY <1>1, ShortestProperties
<1>3. /\ \A v \in Nodes : AtMost(Shortest(T), v, v, 0)
      /\ \A e \in E : AtMost(Shortest(T), e.src, e.tgt, e.dist)
  BY <1>2 DEF EdgeSet
<1>4. ASSUME NEW p, Potential(p, E) PROVE Bounds(p, Shortest(T))
  <2> SUFFICES ASSUME NEW u \in Nodes, NEW v \in Nodes, NEW d \in Nat, <<u, v, d>> \in T
               PROVE  p[v] <= p[u] + d
    BY <1>2 DEF Bounds
  <2>1. CASE \E e \in E : u = e.src /\ v = e.tgt /\ d = e.dist
    BY <1>4, <2>1 DEF Potential
  <2>2. CASE u = v /\ d = 0
    BY <1>4, <2>2 DEF Potential
  <2> QED
    BY <2>1, <2>2
<1>5. \A k \in Nodes : ~(k < 0)
  BY DEF Nodes
<1>6. Direct(E) = Shortest(T)
  BY DEF Direct
<1> QED
  BY <1>1, <1>2, <1>3, <1>4, <1>5, <1>6 DEF DistancesBelow

(* A way from u to w of length d over n.                                   *)
Over(D, n, u, w, d) ==
  \E a, b \in Nat : <<u, n, a>> \in D /\ <<n, w, b>> \in D /\ d = a + b

(* One more inner node: where it lies on the way, the ways before and after*)
(* it do not meet it.                                                      *)
LEMMA AllowNodeProperties ==
  ASSUME NEW E, EdgeSet(E), NEW n \in Nodes, NEW D, DistancesBelow(D, E, n)
  PROVE  DistancesBelow(AllowNode(D, n), E, n + 1)
<1> DEFINE A == {t \in D : t[2] = n}
           B == {t \in D : t[1] = n}
           T == D \cup Joined(A, B)
           N == Shortest(T)
<1>1. D \in SUBSET Triples /\ A \in SUBSET Triples /\ B \in SUBSET Triples
  BY DEF DistancesBelow
<1>2. /\ \A u, v \in Nodes : \A c \in Nat : <<u, v, c>> \in A <=> v = n /\ <<u, n, c>> \in D
      /\ \A u, v \in Nodes : \A c \in Nat : <<u, v, c>> \in B <=> u = n /\ <<n, v, c>> \in D
  OBVIOUS
<1>3. T \in SUBSET Triples
  BY <1>1, JoinedProperties
<1>4. \A u, w \in Nodes : \A c, d \in Nat :
        <<u, n, c>> \in D /\ <<n, w, d>> \in D => <<u, w, c + d>> \in T
  BY <1>1, <1>2, JoinedProperties
<1>5. \A u, w \in Nodes : \A d \in Nat :
        <<u, w, d>> \in T => <<u, w, d>> \in D \/ Over(D, n, u, w, d)
  <2>1. ASSUME NEW u \in Nodes, NEW w \in Nodes, NEW d \in Nat, <<u, w, d>> \in Joined(A, B)
        PROVE  Over(D, n, u, w, d)
    <3> HIDE DEF A, B
    <3>1. \A x, z \in Nodes : \A c \in Nat :
            <<x, z, c>> \in Joined(A, B) =>
              \E v \in Nodes : \E a, b \in Nat : <<x, v, a>> \in A /\ <<v, z, b>> \in B /\ c = a + b
      BY <1>1, JoinedProperties
    <3>2. PICK v \in Nodes : \E a, b \in Nat : <<u, v, a>> \in A /\ <<v, w, b>> \in B /\ d = a + b
      BY <2>1, <3>1
    <3> QED
      BY <1>2, <3>2 DEF Over
  <2> QED
    BY <2>1
<1> HIDE DEF T, A, B
<1>6. /\ N \in SUBSET Triples /\ OneDistance(N) /\ N \subseteq T
      /\ \A u, v \in Nodes : \A d \in Nat : <<u, v, d>> \in T => AtMost(N, u, v, d)
  BY <1>3, ShortestProperties
<1>7. D \subseteq T
  BY DEF T
<1> HIDE DEF N
<1>8. \A u, v \in Nodes : \A d \in Nat : AtMost(D, u, v, d) => AtMost(N, u, v, d)
  BY <1>6, <1>7 DEF AtMost
<1>9. \A u, v \in Nodes : \A c, d \in Nat : AtMost(N, u, v, c) /\ c <= d => AtMost(N, u, v, d)
  BY DEF AtMost
<1>10. \A u, w \in Nodes : \A d \in Nat :
         <<u, w, d>> \in N => <<u, w, d>> \in D \/ Over(D, n, u, w, d)
  BY <1>5, <1>6
<1>11. \A u, w \in Nodes : \A c, d \in Nat :
         <<u, n, c>> \in D /\ <<n, w, d>> \in D => AtMost(N, u, w, c + d)
  <2>1. \A c, d \in Nat : c + d \in Nat
    OBVIOUS
  <2> QED
    BY <1>4, <1>6, <2>1
<1>12. \A k \in Nodes : k < n =>
         \A u, w \in Nodes : \A c, d \in Nat :
           <<u, k, c>> \in D /\ <<k, w, d>> \in D => AtMost(D, u, w, c + d)
  BY DEF DistancesBelow
<1>13. ASSUME NEW u \in Nodes, NEW w \in Nodes, NEW c \in Nat, NEW d \in Nat,
              <<u, n, c>> \in N, <<n, w, d>> \in N
       PROVE  AtMost(N, u, w, c + d)
  <2>1. <<u, n, c>> \in D \/ Over(D, n, u, n, c)
    BY <1>10, <1>13
  <2>2. <<n, w, d>> \in D \/ Over(D, n, n, w, d)
    BY <1>10, <1>13
  <2>3. PICK x \in Nat : <<u, n, x>> \in D /\ x <= c
    <3>1. \A a, b \in Nat : a <= a /\ a <= a + b
      OBVIOUS
    <3> QED
      BY <2>1, <3>1 DEF Over
  <2>4. PICK y \in Nat : <<n, w, y>> \in D /\ y <= d
    <3>1. \A a, b \in Nat : b <= b /\ b <= a + b
      OBVIOUS
    <3> QED
      BY <2>2, <3>1 DEF Over
  <2>5. AtMost(N, u, w, x + y) /\ x + y \in Nat /\ x + y <= c + d /\ c + d \in Nat
    BY <1>11, <2>3, <2>4
  <2> QED
    BY <1>9, <2>5
<1>14. ASSUME NEW k \in Nodes, k < n, NEW u \in Nodes, NEW w \in Nodes, NEW c \in Nat, NEW d \in Nat,
              <<u, k, c>> \in N, <<k, w, d>> \in N
       PROVE  AtMost(N, u, w, c + d)
  <2>1. CASE <<u, k, c>> \in D /\ <<k, w, d>> \in D
    BY <1>8, <1>12, <1>14, <2>1
  <2>2. ASSUME NEW a \in Nat, NEW b \in Nat, <<u, n, a>> \in D, <<n, k, b>> \in D, c = a + b,
               <<k, w, d>> \in D
        PROVE  AtMost(N, u, w, c + d)
    <3>1. PICK x \in Nat : <<n, w, x>> \in D /\ x <= b + d
      BY <1>12, <1>14, <2>2 DEF AtMost
    <3>2. AtMost(N, u, w, a + x) /\ a + x \in Nat /\ a + x <= c + d /\ c + d \in Nat
      BY <1>11, <2>2, <3>1
    <3> QED
      BY <1>9, <3>2
  <2>3. ASSUME NEW a \in Nat, NEW b \in Nat, <<k, n, a>> \in D, <<n, w, b>> \in D, d = a + b,
               <<u, k, c>> \in D
        PROVE  AtMost(N, u, w, c + d)
    <3>1. PICK x \in Nat : <<u, n, x>> \in D /\ x <= c + a
      BY <1>12, <1>14, <2>3 DEF AtMost
    <3>2. AtMost(N, u, w, x + b) /\ x + b \in Nat /\ x + b <= c + d /\ c + d \in Nat
      BY <1>11, <2>3, <3>1
    <3> QED
      BY <1>9, <3>2
  <2>4. ASSUME NEW a \in Nat, NEW b \in Nat, <<u, n, a>> \in D, <<n, k, b>> \in D, c = a + b,
               NEW x \in Nat, NEW y \in Nat, <<k, n, x>> \in D, <<n, w, y>> \in D, d = x + y
        PROVE  AtMost(N, u, w, c + d)
    <3>1. AtMost(N, u, w, a + y) /\ a + y \in Nat /\ a + y <= c + d /\ c + d \in Nat
      BY <1>11, <2>4
    <3> QED
      BY <1>9, <3>1
  <2> QED
    <3>1. <<u, k, c>> \in D \/ Over(D, n, u, k, c)
      BY <1>10, <1>14
    <3>2. <<k, w, d>> \in D \/ Over(D, n, k, w, d)
      BY <1>10, <1>14
    <3> QED
      BY <2>1, <2>2, <2>3, <2>4, <3>1, <3>2 DEF Over
<1>15. ASSUME NEW k \in Nodes, k < n + 1, NEW u \in Nodes, NEW w \in Nodes, NEW c \in Nat, NEW d \in Nat,
              <<u, k, c>> \in N, <<k, w, d>> \in N
       PROVE  AtMost(N, u, w, c + d)
  <2>1. k = n \/ k < n
    BY <1>15 DEF Nodes
  <2> QED
    BY <1>13, <1>14, <1>15, <2>1
<1>16. ASSUME NEW p, Potential(p, E) PROVE Bounds(p, N)
  <2>1. \A u, v \in Nodes : \A d \in Nat : <<u, v, d>> \in D => p[v] <= p[u] + d
    BY <1>16 DEF DistancesBelow, Bounds
  <2>2. \A v \in Nodes : p[v] \in Int
    BY <1>16 DEF Potential
  <2> SUFFICES ASSUME NEW u \in Nodes, NEW w \in Nodes, NEW d \in Nat, <<u, w, d>> \in N
               PROVE  p[w] <= p[u] + d
    BY DEF Bounds
  <2>3. CASE <<u, w, d>> \in D
    BY <2>1, <2>3
  <2>4. ASSUME NEW a \in Nat, NEW b \in Nat, <<u, n, a>> \in D, <<n, w, b>> \in D, d = a + b
        PROVE  p[w] <= p[u] + d
    <3>1. p[n] <= p[u] + a /\ p[w] <= p[n] + b
      BY <2>1, <2>4
    <3> QED
      BY <2>2, <2>4, <3>1
  <2>5. <<u, w, d>> \in D \/ Over(D, n, u, w, d)
    BY <1>10
  <2> QED
    BY <2>3, <2>4, <2>5 DEF Over
<1>17. /\ \A v \in Nodes : AtMost(N, v, v, 0)
       /\ \A e \in E : AtMost(N, e.src, e.tgt, e.dist)
  BY <1>8 DEF DistancesBelow, EdgeSet
<1>18. AllowNode(D, n) = N
  BY DEF AllowNode, N, T, A, B
<1> QED
  BY <1>6, <1>15, <1>16, <1>17, <1>18 DEF DistancesBelow

-----------------------------------------------------------------------------
(* The function in Distances() takes the values its definition gives.      *)
LEMMA DistancesDefined ==
  ASSUME NEW E, EdgeSet(E), NrOfNodes \in Nat
  PROVE  \E known \in [0..NrOfNodes -> SUBSET Triples] :
           /\ known[0] = Direct(E)
           /\ \A n \in 1..NrOfNodes : known[n] = AllowNode(known[n - 1], n - 1)
           /\ Distances(E) = known[NrOfNodes]
<1> DEFINE X == SUBSET Triples
           s == [x \in (1..NrOfNodes) \X X |-> AllowNode(x[2], x[1] - 1)]
<1>1. Direct(E) \in X
  BY DirectProperties DEF DistancesBelow
<1>2. \A D \in X : \A n : AllowNode(D, n) \in X
  <2> TAKE D \in X
  <2> TAKE n
  <2>1. Joined({t \in D : t[2] = n}, {t \in D : t[1] = n}) \subseteq Triples
    BY JoinedProperties
  <2> QED
    BY <2>1 DEF AllowNode, Shortest
<1>3. s \in [(1..NrOfNodes) \X X -> X]
  BY <1>2
<1>4. \A n \in 1..NrOfNodes, D \in X : s[<<n, D>>] = AllowNode(D, n - 1)
  OBVIOUS
<1> HIDE DEF X, s
<1>5. PICK f \in [0..NrOfNodes -> X] :
        f[0] = Direct(E) /\ \A n \in 1..NrOfNodes : f[n] = s[<<n, f[n - 1]>>]
  <2>1. PICK f \in [0..NrOfNodes -> X] : Follows(f, NrOfNodes, Direct(E), s)
    BY <1>1, <1>3, IntervalRecursion
  <2> QED
    BY <2>1 DEF Follows
<1>6. \A n \in 1..NrOfNodes : f[n] = AllowNode(f[n - 1], n - 1)
  <2>1. \A n \in 1..NrOfNodes : n - 1 \in 0..NrOfNodes
    OBVIOUS
  <2>2. \A n \in 1..NrOfNodes : f[n - 1] \in X
    BY <1>5, <2>1
  <2> QED
    BY <1>4, <1>5, <2>2
<1> DEFINE Body(g) == [n \in 0..NrOfNodes |-> IF n = 0 THEN Direct(E)
                                             ELSE UNION {AllowNode(fewer, n - 1) : fewer \in {g[n - 1]}}]
           known == CHOOSE g : g = Body(g)
<1>0. \A D, n : UNION {AllowNode(fewer, n) : fewer \in {D}} = AllowNode(D, n)
  OBVIOUS
<1>7. f = Body(f)
  <2>1. \A n \in 0..NrOfNodes : n = 0 \/ n \in 1..NrOfNodes
    OBVIOUS
  <2>2. \A n \in 0..NrOfNodes : f[n] = IF n = 0 THEN Direct(E) ELSE AllowNode(f[n - 1], n - 1)
    BY <1>5, <1>6, <2>1
  <2> QED
    BY <1>0, <1>5, <2>2
<1>8. known = Body(known)
  BY <1>7
<1> HIDE DEF known
<1>9. \A n \in 0..NrOfNodes :
        known[n] = IF n = 0 THEN Direct(E) ELSE AllowNode(known[n - 1], n - 1)
  BY <1>0, <1>8
<1>10. known[0] = Direct(E) /\ \A n \in 1..NrOfNodes : known[n] = AllowNode(known[n - 1], n - 1)
  BY <1>9
<1>11. \A n \in 0..NrOfNodes : known[n] \in X
  <2>1. known[0] \in X
    BY <1>1, <1>10
  <2>2. \A n \in Nat : (n <= NrOfNodes => known[n] \in X) => (n + 1 <= NrOfNodes => known[n + 1] \in X)
    BY <1>2, <1>10 DEF X
  <2> DEFINE S == {n \in Nat : n <= NrOfNodes => known[n] \in X}
  <2>3. 0 \in S /\ \A n \in Nat : n \in S => n + 1 \in S
    BY <2>1, <2>2
  <2> HIDE DEF S
  <2>4. Nat \subseteq S
    BY <2>3, NatSetInduction
  <2> QED
    BY <2>4 DEF S
<1>12. known \in [0..NrOfNodes -> X]
  BY <1>8, <1>11
<1>13. Distances(E) = known[NrOfNodes]
  BY DEF Distances, known
<1> QED
  BY <1>10, <1>12, <1>13 DEF X

(* Distances() are distances: the triangle inequality holds at every node, *)
(* and they are the largest for which each edge has its length at most.    *)
THEOREM DistancesAreDistances ==
  ASSUME NEW E, EdgeSet(E), NrOfNodes \in Nat
  PROVE  DistancesBelow(Distances(E), E, NrOfNodes)
<1>1. PICK known \in [0..NrOfNodes -> SUBSET Triples] :
        /\ known[0] = Direct(E)
        /\ \A n \in 1..NrOfNodes : known[n] = AllowNode(known[n - 1], n - 1)
        /\ Distances(E) = known[NrOfNodes]
  BY DistancesDefined
<1> DEFINE S == {n \in Nat : n <= NrOfNodes => DistancesBelow(known[n], E, n)}
<1>2. 0 \in S
  BY <1>1, DirectProperties
<1>3. ASSUME NEW n \in Nat, n \in S PROVE n + 1 \in S
  <2> SUFFICES ASSUME n + 1 <= NrOfNodes PROVE DistancesBelow(known[n + 1], E, n + 1)
    OBVIOUS
  <2>1. n \in Nodes /\ known[n + 1] = AllowNode(known[n], n) /\ DistancesBelow(known[n], E, n)
    BY <1>1, <1>3 DEF Nodes
  <2> QED
    BY <2>1, AllowNodeProperties
<1> HIDE DEF S
<1>4. Nat \subseteq S
  BY <1>2, <1>3, NatSetInduction
<1> QED
  BY <1>1, <1>4 DEF S

-----------------------------------------------------------------------------
(* Distances.                                                              *)

(* D tells the way from a node to itself, and the way over a third node is *)
(* not shorter than what it tells.                                         *)
Triangular(D) ==
  /\ D \in SUBSET Triples /\ OneDistance(D)
  /\ \A v \in Nodes : <<v, v, 0>> \in D
  /\ \A u, v, w \in Nodes : \A c, d \in Nat :
       AtMost(D, u, v, c) /\ AtMost(D, v, w, d) => AtMost(D, u, w, c + d)

(* Distances are.                                                          *)
LEMMA DistancesTriangular ==
  ASSUME NEW E, EdgeSet(E)
  PROVE  /\ Triangular(Distances(E))
         /\ \A e \in E : AtMost(Distances(E), e.src, e.tgt, e.dist)
         /\ \A p : Potential(p, E) => Bounds(p, Distances(E))
<1>1. NrOfNodes \in Nat
  BY SizeAssumption
<1> DEFINE D == Distances(E)
<1>2. DistancesBelow(D, E, NrOfNodes)
  BY <1>1, DistancesAreDistances
<1> HIDE DEF D
<1>3. ASSUME NEW u \in Nodes, NEW v \in Nodes, NEW w \in Nodes, NEW c \in Nat, NEW d \in Nat,
             AtMost(D, u, v, c), AtMost(D, v, w, d)
      PROVE  AtMost(D, u, w, c + d)
  <2>1. PICK x \in Nat, y \in Nat : <<u, v, x>> \in D /\ x <= c /\ <<v, w, y>> \in D /\ y <= d
    BY <1>3 DEF AtMost
  <2>2. v < NrOfNodes
    BY <1>1 DEF Nodes
  <2>3. AtMost(D, u, w, x + y)
    BY <1>2, <2>1, <2>2 DEF DistancesBelow
  <2> QED
    BY <2>1, <2>3 DEF AtMost
<1>4. ASSUME NEW v \in Nodes PROVE <<v, v, 0>> \in D
  <2>1. PICK c \in Nat : <<v, v, c>> \in D /\ c <= 0
    BY <1>2 DEF DistancesBelow, AtMost
  <2>2. c = 0
    BY <2>1
  <2> QED
    BY <2>1, <2>2
<1> QED
  BY <1>2, <1>3, <1>4 DEF D, DistancesBelow, Triangular

(* The pairs of R, a node and a length, are the ways from a that are found *)
(* by following edges, as far as they are not longer than d.               *)
FollowsEdges(R, E, a, d) ==
  /\ <<a, 0>> \in R
  /\ \A e \in E, c \in Nat :
       <<e.src, c>> \in R /\ c + e.dist <= d =>
         \E b \in Nat : b <= c + e.dist /\ <<e.tgt, b>> \in R

(* Whatever follows all edges finds every shortest path.                   *)
LEMMA FollowingFinds ==
  ASSUME NEW E, EdgeSet(E), NEW a \in Nodes, NEW d \in Nat, NEW R, FollowsEdges(R, E, a, d),
         NEW v \in Nodes, <<a, v, d>> \in Distances(E)
  PROVE  \E c \in Nat : c <= d /\ <<v, c>> \in R
<1> DEFINE S(n) == {c \in Nat : c = d + 1 \/ (c <= d /\ <<n, c>> \in R)}
           Least(n) == CHOOSE c \in S(n) : \A x \in S(n) : c <= x
<1>1. ASSUME NEW n PROVE Least(n) \in S(n) /\ \A x \in S(n) : Least(n) <= x
  <2>1. S(n) \in SUBSET Nat /\ d + 1 \in S(n)
    OBVIOUS
  <2> HIDE DEF S
  <2>2. S(n) # {}
    BY <2>1
  <2>3. \E c \in S(n) : \A x \in S(n) : c <= x
    BY <2>1, <2>2, LeastNumber
  <2> QED
    BY <2>3
<1>2. \A n : \A c \in S(n) : c \in Nat /\ c <= d + 1 /\ (c <= d => <<n, c>> \in R)
  OBVIOUS
<1>3. \A n : \A c \in Nat : c <= d /\ <<n, c>> \in R => c \in S(n)
  OBVIOUS
<1> HIDE DEF Least, S
<1>4. PICK p \in [Nodes -> Nat] :
        /\ \A n \in Nodes : p[n] <= d + 1 /\ (p[n] <= d => <<n, p[n]>> \in R)
        /\ \A n \in Nodes, c \in Nat : c <= d /\ <<n, c>> \in R => p[n] <= c
  <2> DEFINE q == [n \in Nodes |-> Least(n)]
  <2>1. \A n : Least(n) \in Nat /\ Least(n) <= d + 1 /\ (Least(n) <= d => <<n, Least(n)>> \in R)
    BY <1>1, <1>2
  <2>2. \A n : \A c \in Nat : c <= d /\ <<n, c>> \in R => Least(n) <= c
    BY <1>1, <1>3
  <2>3. q \in [Nodes -> Nat]
    BY <2>1
  <2>4. \A n \in Nodes : q[n] = Least(n)
    OBVIOUS
  <2> HIDE DEF q
  <2> QED
    BY <2>1, <2>2, <2>3, <2>4
<1>5. p[a] = 0
  <2>1. <<a, 0>> \in R /\ 0 <= d
    BY DEF FollowsEdges
  <2>2. p[a] <= 0
    BY <1>4, <2>1
  <2> QED
    BY <2>2
<1>6. ASSUME NEW e \in E PROVE p[e.tgt] <= p[e.src] + e.dist
  <2>1. e.src \in Nodes /\ e.tgt \in Nodes /\ e.dist \in Nat
    BY DEF EdgeSet
  <2>2. CASE p[e.src] + e.dist <= d
    <3>1. p[e.src] \in Nat /\ p[e.src] <= d
      BY <1>4, <2>1, <2>2
    <3>2. <<e.src, p[e.src]>> \in R
      BY <1>4, <2>1, <3>1
    <3>3. PICK b \in Nat : b <= p[e.src] + e.dist /\ <<e.tgt, b>> \in R
      BY <2>2, <3>1, <3>2 DEF FollowsEdges
    <3>4. p[e.tgt] <= b
      BY <1>4, <2>1, <2>2, <3>1, <3>3
    <3> QED
      BY <2>1, <2>2, <3>1, <3>3, <3>4
  <2>3. CASE ~(p[e.src] + e.dist <= d)
    <3>1. p[e.tgt] <= d + 1 /\ p[e.tgt] \in Nat /\ p[e.src] \in Nat
      BY <1>4, <2>1
    <3> QED
      BY <2>1, <2>3, <3>1
  <2> QED
    BY <2>2, <2>3
<1>7. Potential(p, E)
  BY <1>4, <1>6 DEF Potential
<1>8. p[v] <= p[a] + d
  BY <1>7, DistancesTriangular DEF Bounds
<1> QED
  BY <1>4, <1>5, <1>8

(* F tells nothing E does not tell: where it has a way, E has one that is  *)
(* not longer.                                                             *)
NoShorter(F, E) ==
  \A u, v \in Nodes : \A d \in Nat : <<u, v, d>> \in Distances(F) => AtMost(Distances(E), u, v, d)

(* That is so if it is so for each edge of F.                              *)
LEMMA EdgesNoShorter ==
  ASSUME NEW E, EdgeSet(E), NEW F, EdgeSet(F), \A f \in F : AtMost(Distances(E), f.src, f.tgt, f.dist)
  PROVE  NoShorter(F, E)
<1> SUFFICES ASSUME NEW u \in Nodes, NEW v \in Nodes, NEW d \in Nat, <<u, v, d>> \in Distances(F)
             PROVE  AtMost(Distances(E), u, v, d)
  BY DEF NoShorter
<1> DEFINE D == Distances(E)
           R == {w \in Nodes \X Nat : <<u, w[1], w[2]>> \in D}
<1>1. Triangular(D)
  BY DistancesTriangular
<1>2. \A n \in Nodes, c \in Nat : <<n, c>> \in R <=> <<u, n, c>> \in D
  OBVIOUS
<1>3. \A x : x \in R => x[1] \in Nodes /\ x[2] \in Nat
  OBVIOUS
<1>4. \A f \in F : AtMost(D, f.src, f.tgt, f.dist)
  OBVIOUS
<1> HIDE DEF D, R
<1>5. ASSUME NEW e \in F, NEW c \in Nat, <<e.src, c>> \in R, c + e.dist <= d
      PROVE  \E b \in Nat : b <= c + e.dist /\ <<e.tgt, b>> \in R
  <2>1. e.src \in Nodes /\ e.tgt \in Nodes /\ e.dist \in Nat
    BY DEF EdgeSet
  <2>2. AtMost(D, u, e.src, c)
    BY <1>2, <1>5, <2>1 DEF AtMost
  <2>3. AtMost(D, u, e.tgt, c + e.dist)
    BY <1>1, <1>4, <2>1, <2>2 DEF Triangular
  <2> QED
    BY <1>2, <2>1, <2>3 DEF AtMost
<1>6. <<u, 0>> \in R
  BY <1>1, <1>2 DEF Triangular
<1>7. FollowsEdges(R, F, u, d)
  BY <1>5, <1>6 DEF FollowsEdges
<1>8. PICK c \in Nat : c <= d /\ <<v, c>> \in R
  BY <1>7, FollowingFinds
<1> QED
  BY <1>2, <1>8 DEF AtMost, D

-----------------------------------------------------------------------------
(* Recursion that ends because a measure falls.                            *)

(* The value of f at a state is given by r where the recursion ends, and   *)
(* otherwise the value at the next state.                                  *)
Continues(f, S, done, r, next) == \A x \in S : f[x] = IF x \in done THEN r[x] ELSE f[next[x]]

(* The measure falls from each state to the next.                          *)
Falls(m, S, done, next) == \A x \in S : x \notin done => next[x] \in S /\ m[next[x]] < m[x]

(* Such a function exists, if the measure has a limit.                     *)
LEMMA FallingRecursion ==
  ASSUME NEW S, NEW X, NEW done, NEW r \in [S -> X], NEW next, NEW limit \in Nat,
         NEW m \in [S -> 0..limit], Falls(m, S, done, next)
  PROVE  \E f \in [S -> X] : Continues(f, S, done, r, next)
<1> DEFINE Upto(n) == {x \in S : m[x] <= n}
           Works(f, n) == /\ f \in [Upto(n) -> X]
                          /\ \A x \in Upto(n) : f[x] = IF x \in done THEN r[x] ELSE f[next[x]]
           N == {n \in Nat : \E f : Works(f, n)}
<1>1. \A x \in S : m[x] \in Nat /\ m[x] <= limit /\ r[x] \in X
  OBVIOUS
<1>2. \A x \in S : x \notin done => next[x] \in S /\ m[next[x]] < m[x]
  BY DEF Falls
<1>3. 0 \in N
  <2> DEFINE f == [x \in Upto(0) |-> r[x]]
  <2>1. \A x \in Upto(0) : x \in done
    BY <1>1, <1>2
  <2>2. Works(f, 0)
    BY <1>1, <2>1
  <2> QED
    BY <2>2
<1>4. ASSUME NEW n \in Nat, n \in N PROVE n + 1 \in N
  <2>1. PICK f : Works(f, n)
    BY <1>4
  <2> DEFINE g == [x \in Upto(n + 1) |-> IF x \in done THEN r[x] ELSE f[next[x]]]
  <2>2. \A x \in Upto(n + 1) : x \notin done => next[x] \in Upto(n)
    BY <1>1, <1>2
  <2>3. \A x \in Upto(n) : x \in Upto(n + 1)
    BY <1>1
  <2>4. \A x \in Upto(n + 1) : g[x] \in X
    BY <1>1, <2>1, <2>2
  <2>5. \A x \in Upto(n) : g[x] = f[x]
    BY <2>1, <2>3
  <2>6. \A x \in Upto(n + 1) : g[x] = IF x \in done THEN r[x] ELSE g[next[x]]
    BY <2>2, <2>5
  <2>7. Works(g, n + 1)
    BY <2>4, <2>6
  <2> HIDE DEF g, Works
  <2>8. \E h : Works(h, n + 1)
    BY <2>7
  <2> QED
    BY <2>8
<1>5. Nat \subseteq N
  <2>1. \A n \in Nat : n \in N => n + 1 \in N
    BY <1>4
  <2> HIDE DEF N
  <2> QED
    BY <1>3, <2>1, NatSetInduction
<1>6. PICK f : Works(f, limit)
  BY <1>5
<1>7. Upto(limit) = S
  BY <1>1
<1> QED
  BY <1>6, <1>7 DEF Continues

(* What holds where the recursion ends, and of a state if it holds of the  *)
(* next, holds everywhere.                                                 *)
LEMMA FallingInduction ==
  ASSUME NEW S, NEW done, NEW next, NEW m \in [S -> Nat], Falls(m, S, done, next), NEW P,
         \A x \in S : x \in done => x \in P,
         \A x \in S : x \notin done /\ next[x] \in P => x \in P
  PROVE  S \subseteq P
<1> DEFINE N == {n \in Nat : \A x \in S : m[x] <= n => x \in P}
<1>1. \A x \in S : m[x] \in Nat
  OBVIOUS
<1>2. \A x \in S : x \notin done => next[x] \in S /\ m[next[x]] < m[x]
  BY DEF Falls
<1>3. 0 \in N
  BY <1>1, <1>2
<1>4. ASSUME NEW n \in Nat, n \in N PROVE n + 1 \in N
  <2> SUFFICES ASSUME NEW x \in S, m[x] <= n + 1, x \notin done PROVE x \in P
    OBVIOUS
  <2>1. next[x] \in S /\ m[next[x]] <= n
    BY <1>1, <1>2
  <2>2. next[x] \in P
    BY <1>4, <2>1
  <2> QED
    BY <2>2
<1>5. Nat \subseteq N
  <2>1. \A n \in Nat : n \in N => n + 1 \in N
    BY <1>4
  <2> HIDE DEF N
  <2> QED
    BY <1>3, <2>1, NatSetInduction
<1> QED
  BY <1>1, <1>5

-----------------------------------------------------------------------------
(* A graph without some of its nodes.                                      *)

(* The edges of F make up for the nodes T of the graph E: they replace each*)
(* edge between other nodes and each way over one node of T, unless that   *)
(* way is not a shortest one.                                              *)
MakesUp(F, E, T) ==
  /\ EdgeSet(E) /\ EdgeSet(F)
  /\ \A e \in E : e.src \notin T \/ e.tgt \notin T
  /\ \A e \in E : e.src \notin T /\ e.tgt \notin T => AtMost(Distances(F), e.src, e.tgt, e.dist)
  /\ \A l, e \in E :
       l.tgt = e.src /\ e.src \in T /\ l.src # e.tgt =>
         \/ AtMost(Distances(F), l.src, e.tgt, l.dist + e.dist)
         \/ \E d \in Nat : d < l.dist + e.dist /\ <<l.src, e.tgt, d>> \in Distances(E)

KeepsWays(F, E, T, d) ==
  \A u, v \in Nodes \ T : <<u, v, d>> \in Distances(E) => AtMost(Distances(F), u, v, d)

(* If all shorter ways are kept, the ways of one length are.               *)
LEMMA ShorterWaysKept ==
  ASSUME NEW E, NEW F, NEW T, MakesUp(F, E, T), NEW d \in Nat,
         \A c \in Nat : c < d => KeepsWays(F, E, T, c)
  PROVE  KeepsWays(F, E, T, d)
<1> SUFFICES ASSUME NEW u \in Nodes \ T, NEW v \in Nodes \ T, <<u, v, d>> \in Distances(E)
             PROVE  AtMost(Distances(F), u, v, d)
  BY DEF KeepsWays
<1> DEFINE D == Distances(F)
           R == {w \in Nodes \X Nat :
                   \/ w[1] \notin T /\ AtMost(D, u, w[1], w[2])
                   \/ \E l \in E : /\ l.tgt = w[1] /\ w[1] \in T
                                   /\ \E c \in Nat : AtMost(D, u, l.src, c) /\ w[2] = c + l.dist}
<1>0. EdgeSet(E) /\ EdgeSet(F) /\ u \in Nodes /\ v \in Nodes
  BY DEF MakesUp
<1>1. Triangular(D) /\ Triangular(Distances(E))
  BY <1>0, DistancesTriangular
<1>2. \A n \in Nodes, c \in Nat : n \notin T => (<<n, c>> \in R <=> AtMost(D, u, n, c))
  OBVIOUS
<1>3. \A n \in Nodes, c \in Nat :
        n \in T => (<<n, c>> \in R <=> \E l \in E : /\ l.tgt = n
                                       /\ \E b \in Nat : AtMost(D, u, l.src, b) /\ c = b + l.dist)
  OBVIOUS
<1> HIDE DEF R, D
<1>4. \A e \in E : e.src \in Nodes /\ e.tgt \in Nodes /\ e.dist \in Nat
  BY <1>0 DEF EdgeSet
<1>5. <<u, 0>> \in R
  BY <1>1, <1>2 DEF Triangular, AtMost
<1>6. ASSUME NEW e \in E, NEW c \in Nat, <<e.src, c>> \in R, c + e.dist <= d
      PROVE  \E b \in Nat : b <= c + e.dist /\ <<e.tgt, b>> \in R
  <2>1. CASE e.src \notin T /\ e.tgt \notin T
    <3>1. AtMost(D, u, e.src, c) /\ AtMost(D, e.src, e.tgt, e.dist)
      BY <1>2, <1>4, <1>6, <2>1 DEF MakesUp, D
    <3>2. AtMost(D, u, e.tgt, c + e.dist)
      BY <1>0, <1>1, <1>4, <3>1 DEF Triangular
    <3>3. c + e.dist \in Nat /\ c + e.dist <= c + e.dist
      BY <1>4
    <3> QED
      BY <1>2, <1>4, <2>1, <3>2, <3>3
  <2>2. CASE e.src \notin T /\ e.tgt \in T
    <3>1. AtMost(D, u, e.src, c)
      BY <1>2, <1>4, <1>6, <2>2
    <3>2. c + e.dist \in Nat /\ c + e.dist <= c + e.dist
      BY <1>4
    <3>3. <<e.tgt, c + e.dist>> \in R
      BY <1>3, <1>4, <2>2, <3>1, <3>2
    <3> QED
      BY <3>2, <3>3
  <2>3. CASE e.src \in T
    <3>1. e.tgt \notin T
      BY <2>3 DEF MakesUp
    <3>2. PICK l \in E, b \in Nat : l.tgt = e.src /\ AtMost(D, u, l.src, b) /\ c = b + l.dist
      BY <1>3, <1>4, <1>6, <2>3
    <3>3. l.src \notin T
      BY <2>3, <3>2 DEF MakesUp
    <3>4. /\ l.dist \in Nat /\ e.dist \in Nat /\ c + e.dist = b + (l.dist + e.dist)
          /\ b <= c + e.dist /\ l.dist + e.dist <= d /\ l.dist + e.dist \in Nat /\ c + e.dist \in Nat
      BY <1>4, <1>6, <3>2
    <3>5. CASE l.src = e.tgt
      <4>1. <<e.tgt, b>> \in R
        BY <1>2, <1>4, <3>1, <3>2, <3>5
      <4> QED
        BY <3>4, <4>1
    <3>6. CASE l.src # e.tgt
      <4>1. AtMost(D, l.src, e.tgt, l.dist + e.dist)
        <5>1. CASE AtMost(Distances(F), l.src, e.tgt, l.dist + e.dist)
          BY <5>1 DEF D
        <5>2. ASSUME NEW x \in Nat, x < l.dist + e.dist, <<l.src, e.tgt, x>> \in Distances(E)
              PROVE  AtMost(D, l.src, e.tgt, l.dist + e.dist)
          <6>1. x < d
            BY <3>4, <5>2
          <6>2. AtMost(D, l.src, e.tgt, x)
            BY <1>4, <3>1, <3>3, <5>2, <6>1 DEF KeepsWays, D
          <6>3. PICK y \in Nat : <<l.src, e.tgt, y>> \in D /\ y <= x
            BY <6>2 DEF AtMost
          <6>4. y <= l.dist + e.dist
            BY <3>4, <5>2, <6>3
          <6> QED
            BY <6>3, <6>4 DEF AtMost
        <5> QED
          BY <2>3, <3>2, <3>6, <5>1, <5>2 DEF MakesUp
      <4>2. AtMost(D, u, e.tgt, b + (l.dist + e.dist))
        BY <1>0, <1>1, <1>4, <3>2, <3>4, <4>1 DEF Triangular
      <4>3. <<e.tgt, c + e.dist>> \in R
        BY <1>2, <1>4, <3>1, <3>4, <4>2
      <4>4. c + e.dist <= c + e.dist
        BY <3>4
      <4> QED
        BY <3>4, <4>3, <4>4
    <3> QED
      BY <3>5, <3>6
  <2> QED
    BY <2>1, <2>2, <2>3
<1>7. FollowsEdges(R, E, u, d)
  BY <1>5, <1>6 DEF FollowsEdges
<1>8. PICK c \in Nat : c <= d /\ <<v, c>> \in R
  BY <1>0, <1>7, FollowingFinds
<1>9. AtMost(D, u, v, c)
  BY <1>2, <1>8
<1>10. PICK y \in Nat : <<u, v, y>> \in D /\ y <= c
  BY <1>9 DEF AtMost
<1>11. y <= d
  BY <1>8, <1>10
<1> QED
  BY <1>10, <1>11 DEF AtMost, D

(* So no way between nodes that stay gets longer.                          *)
LEMMA WaysKept ==
  ASSUME NEW E, NEW F, NEW T, MakesUp(F, E, T), NEW d \in Nat
  PROVE  KeepsWays(F, E, T, d)
<1> DEFINE N == {n \in Nat : \A c \in Nat : c < n => KeepsWays(F, E, T, c)}
<1>1. 0 \in N
  OBVIOUS
<1>2. ASSUME NEW n \in Nat, n \in N PROVE n + 1 \in N
  <2>1. KeepsWays(F, E, T, n)
    BY <1>2, ShorterWaysKept
  <2> SUFFICES ASSUME NEW c \in Nat, c < n + 1 PROVE KeepsWays(F, E, T, c)
    OBVIOUS
  <2>2. c < n \/ c = n
    OBVIOUS
  <2> QED
    BY <1>2, <2>1, <2>2
<1>3. Nat \subseteq N
  <2> HIDE DEF N
  <2> QED
    BY <1>1, <1>2, NatSetInduction
<1>4. d + 1 \in N /\ d < d + 1
  BY <1>3
<1> QED
  BY <1>4

(* F is made of the shortcuts and edges of E, without the nodes of T.      *)
IsMadeOf(F, E, T) ==
  \A f \in F : f.src \notin T /\ f.tgt \notin T /\ AtMost(Distances(E), f.src, f.tgt, f.dist)

(* Then the nodes that stay keep their distances.                          *)
LEMMA StayingKeepDistances ==
  ASSUME NEW E, NEW F, NEW T, MakesUp(F, E, T), IsMadeOf(F, E, T),
         NEW u \in Nodes \ T, NEW v \in Nodes \ T, NEW d \in Nat
  PROVE  <<u, v, d>> \in Distances(F) <=> <<u, v, d>> \in Distances(E)
<1>1. EdgeSet(E) /\ EdgeSet(F)
  BY DEF MakesUp
<1>2. OneDistance(Distances(E)) /\ OneDistance(Distances(F))
  BY <1>1, DistancesTriangular DEF Triangular
<1>3. NoShorter(F, E)
  BY <1>1, EdgesNoShorter DEF IsMadeOf
<1>4. ASSUME NEW c \in Nat, <<u, v, c>> \in Distances(E)
      PROVE  <<u, v, c>> \in Distances(F)
  <2>1. PICK x \in Nat : <<u, v, x>> \in Distances(F) /\ x <= c
    BY <1>4, WaysKept DEF KeepsWays, AtMost
  <2>2. PICK y \in Nat : <<u, v, y>> \in Distances(E) /\ y <= x
    BY <1>3, <2>1 DEF NoShorter, AtMost
  <2>3. y = c
    BY <1>2, <1>4, <2>2 DEF OneDistance
  <2>4. x = c
    BY <2>1, <2>2, <2>3
  <2> QED
    BY <2>1, <2>4
<1>5. ASSUME <<u, v, d>> \in Distances(F) PROVE <<u, v, d>> \in Distances(E)
  <2>1. PICK y \in Nat : <<u, v, y>> \in Distances(E) /\ y <= d
    BY <1>3, <1>5 DEF NoShorter, AtMost
  <2>2. <<u, v, y>> \in Distances(F)
    BY <1>4, <2>1
  <2>3. y = d
    BY <1>2, <1>5, <2>2 DEF OneDistance
  <2> QED
    BY <2>1, <2>3
<1> QED
  BY <1>4, <1>5

(* A way that is shorter than AtMost says, is enough.                      *)
LEMMA AtMostWeakens ==
  ASSUME NEW D, NEW u, NEW v, NEW c \in Nat, NEW d \in Nat, AtMost(D, u, v, c), c <= d
  PROVE  AtMost(D, u, v, d)
<1>1. PICK x \in Nat : <<u, v, x>> \in D /\ x <= c
  BY DEF AtMost
<1>2. x <= d
  BY <1>1
<1> QED
  BY <1>1, <1>2 DEF AtMost

(* A way between two nodes begins with an edge.                            *)
LEMMA FirstEdgeOfWay ==
  ASSUME NEW E, EdgeSet(E), NEW a \in Nodes, NEW b \in Nodes, a # b, NEW d \in Nat,
         AtMost(Distances(E), a, b, d)
  PROVE  \E f \in E, c \in Nat : f.src = a /\ AtMost(Distances(E), f.tgt, b, c) /\ f.dist + c <= d
<1> DEFINE D == Distances(E)
           R == {w \in Nodes \X Nat :
                   \/ w[1] = a /\ w[2] = 0
                   \/ \E f \in E, c \in Nat : f.src = a /\ AtMost(D, f.tgt, w[1], c) /\ w[2] = f.dist + c}
<1>1. Triangular(D) /\ \A e \in E : AtMost(D, e.src, e.tgt, e.dist)
  BY DistancesTriangular
<1>2. \A n \in Nodes, x \in Nat :
        <<n, x>> \in R <=> \/ n = a /\ x = 0
                           \/ \E f \in E, c \in Nat : f.src = a /\ AtMost(D, f.tgt, n, c) /\ x = f.dist + c
  OBVIOUS
<1>3. PICK y \in Nat : <<a, b, y>> \in D /\ y <= d
  BY DEF AtMost
<1> HIDE DEF R, D
<1>4. \A e \in E : e.src \in Nodes /\ e.tgt \in Nodes /\ e.dist \in Nat
  BY DEF EdgeSet
<1>5. ASSUME NEW e \in E, NEW x \in Nat, <<e.src, x>> \in R
      PROVE  <<e.tgt, x + e.dist>> \in R /\ x + e.dist \in Nat /\ x + e.dist <= x + e.dist
  <2>1. x + e.dist \in Nat /\ x + e.dist <= x + e.dist
    BY <1>4
  <2>2. CASE e.src = a /\ x = 0
    <3>1. AtMost(D, e.tgt, e.tgt, 0) /\ x + e.dist = e.dist + 0
      BY <1>1, <1>4, <2>2 DEF Triangular, AtMost
    <3> QED
      BY <1>2, <1>4, <2>1, <2>2, <3>1
  <2>3. ASSUME NEW f \in E, NEW c \in Nat, f.src = a, AtMost(D, f.tgt, e.src, c), x = f.dist + c
        PROVE  <<e.tgt, x + e.dist>> \in R
    <3>1. AtMost(D, f.tgt, e.tgt, c + e.dist)
      BY <1>1, <1>4, <2>3 DEF Triangular
    <3>2. c + e.dist \in Nat /\ x + e.dist = f.dist + (c + e.dist)
      BY <1>4, <2>3
    <3> QED
      BY <1>2, <1>4, <2>1, <2>3, <3>1, <3>2
  <2> QED
    BY <1>2, <1>4, <1>5, <2>1, <2>2, <2>3
<1>6. FollowsEdges(R, E, a, y)
  BY <1>2, <1>5 DEF FollowsEdges
<1>7. PICK x \in Nat : x <= y /\ <<b, x>> \in R
  BY <1>3, <1>6, FollowingFinds DEF D
<1>8. PICK f \in E, c \in Nat : f.src = a /\ AtMost(D, f.tgt, b, c) /\ x = f.dist + c
  BY <1>2, <1>7
<1>9. f.dist + c <= d
  BY <1>3, <1>7, <1>8
<1> QED
  BY <1>8, <1>9 DEF D

(* And it ends with one.                                                   *)
LEMMA LastEdgeOfWay ==
  ASSUME NEW E, EdgeSet(E), NEW a \in Nodes, NEW b \in Nodes, a # b, NEW d \in Nat,
         AtMost(Distances(E), a, b, d)
  PROVE  \E l \in E, c \in Nat : l.tgt = b /\ AtMost(Distances(E), a, l.src, c) /\ c + l.dist <= d
<1> DEFINE D == Distances(E)
           R == {w \in Nodes \X Nat :
                   \/ w[1] = a /\ w[2] = 0
                   \/ \E l \in E, c \in Nat : l.tgt = w[1] /\ AtMost(D, a, l.src, c) /\ w[2] = c + l.dist}
<1>1. Triangular(D) /\ \A e \in E : AtMost(D, e.src, e.tgt, e.dist)
  BY DistancesTriangular
<1>2. \A n \in Nodes, x \in Nat :
        <<n, x>> \in R <=> \/ n = a /\ x = 0
                           \/ \E l \in E, c \in Nat : l.tgt = n /\ AtMost(D, a, l.src, c) /\ x = c + l.dist
  OBVIOUS
<1>3. PICK y \in Nat : <<a, b, y>> \in D /\ y <= d
  BY DEF AtMost
<1> HIDE DEF R, D
<1>4. \A e \in E : e.src \in Nodes /\ e.tgt \in Nodes /\ e.dist \in Nat
  BY DEF EdgeSet
<1>5. ASSUME NEW e \in E, NEW x \in Nat, <<e.src, x>> \in R
      PROVE  <<e.tgt, x + e.dist>> \in R /\ x + e.dist \in Nat /\ x + e.dist <= x + e.dist
  <2>1. x + e.dist \in Nat /\ x + e.dist <= x + e.dist
    BY <1>4
  <2>2. AtMost(D, a, e.src, x)
    <3>1. CASE e.src = a /\ x = 0
      BY <1>1, <3>1 DEF Triangular, AtMost
    <3>2. ASSUME NEW l \in E, NEW c \in Nat, l.tgt = e.src, AtMost(D, a, l.src, c), x = c + l.dist
          PROVE  AtMost(D, a, e.src, x)
      <4>1. AtMost(D, l.src, l.tgt, l.dist)
        BY <1>1
      <4> QED
        BY <1>1, <1>4, <3>2, <4>1 DEF Triangular
    <3> QED
      BY <1>2, <1>4, <1>5, <3>1, <3>2
  <2> QED
    BY <1>2, <1>4, <2>1, <2>2
<1>6. FollowsEdges(R, E, a, y)
  BY <1>2, <1>5 DEF FollowsEdges
<1>7. PICK x \in Nat : x <= y /\ <<b, x>> \in R
  BY <1>3, <1>6, FollowingFinds DEF D
<1>8. PICK l \in E, c \in Nat : l.tgt = b /\ AtMost(D, a, l.src, c) /\ x = c + l.dist
  BY <1>2, <1>7
<1>9. c + l.dist <= d
  BY <1>3, <1>7, <1>8
<1> QED
  BY <1>8, <1>9 DEF D

(* More edges have no longer ways.                                         *)
LEMMA MoreEdges ==
  ASSUME NEW F, EdgeSet(F), NEW E \in SUBSET F, NEW u \in Nodes, NEW v \in Nodes, NEW d \in Nat,
         AtMost(Distances(E), u, v, d)
  PROVE  AtMost(Distances(F), u, v, d)
<1>1. EdgeSet(E) /\ \A e \in E : AtMost(Distances(F), e.src, e.tgt, e.dist)
  BY DistancesTriangular DEF EdgeSet
<1>2. NoShorter(E, F)
  BY <1>1, EdgesNoShorter
<1>3. PICK c \in Nat : <<u, v, c>> \in Distances(E) /\ c <= d
  BY DEF AtMost
<1> QED
  BY <1>2, <1>3, AtMostWeakens DEF NoShorter

(* A way of at most d that goes up, then through the graph, then down.     *)
UpAndDown(Up, E, Down, u, v, d) ==
  \E a, b \in Nodes : \E x, y, z \in Nat :
    /\ AtMost(Distances(Up), u, a, x)
    /\ AtMost(Distances(E), a, b, y)
    /\ AtMost(Distances(Down), b, v, z)
    /\ x + y + z <= d

(* If F makes up for the nodes of T, and the edges that left with them lead*)
(* up from T and down to it, every way of E is one of these.               *)
LEMMA LeavingUpAndDown ==
  ASSUME NEW E, NEW F, NEW T, MakesUp(F, E, T), NEW Up, EdgeSet(Up), NEW Down, EdgeSet(Down),
         \A e \in E : e.src \in T => e \in Up, \A e \in E : e.tgt \in T => e \in Down,
         NEW u \in Nodes, NEW v \in Nodes, NEW d \in Nat, AtMost(Distances(E), u, v, d)
  PROVE  UpAndDown(Up, F, Down, u, v, d)
<1> DEFINE M == Distances(F)
           U == Distances(Up)
           L == Distances(Down)
<1>0. EdgeSet(E) /\ EdgeSet(F)
  BY DEF MakesUp
<1>1. Triangular(U) /\ Triangular(M) /\ Triangular(L)
  BY <1>0, DistancesTriangular
<1>2. \A e \in E : e.src \in T => AtMost(U, e.src, e.tgt, e.dist)
  BY DistancesTriangular
<1>3. \A e \in E : e.tgt \in T => AtMost(L, e.src, e.tgt, e.dist)
  BY DistancesTriangular
<1>4. \A e \in E : e.src \in Nodes /\ e.tgt \in Nodes /\ e.dist \in Nat
  BY <1>0 DEF EdgeSet
<1>5. \A n \in Nodes : AtMost(U, n, n, 0) /\ AtMost(M, n, n, 0) /\ AtMost(L, n, n, 0)
  BY <1>1 DEF Triangular, AtMost
<1>6. ASSUME NEW a \in Nodes \ T, NEW b \in Nodes \ T, NEW c \in Nat, AtMost(Distances(E), a, b, c)
      PROVE  AtMost(M, a, b, c)
  <2>1. PICK x \in Nat : <<a, b, x>> \in Distances(E) /\ x <= c
    BY <1>6 DEF AtMost
  <2>2. AtMost(M, a, b, x)
    BY <2>1, WaysKept DEF KeepsWays
  <2> QED
    BY <2>1, <2>2, AtMostWeakens
<1> HIDE DEF M, U, L
<1>7. ASSUME NEW a \in Nodes \ T, NEW c \in Nat, AtMost(Distances(E), a, v, c)
      PROVE  \E b \in Nodes : \E y, z \in Nat : AtMost(M, a, b, y) /\ AtMost(L, b, v, z) /\ y + z <= c
  <2>1. CASE v \notin T
    <3>1. AtMost(M, a, v, c) /\ AtMost(L, v, v, 0) /\ c + 0 <= c
      BY <1>5, <1>6, <1>7, <2>1
    <3> QED
      BY <3>1
  <2>2. CASE v \in T
    <3>1. PICK l \in E, y \in Nat : l.tgt = v /\ AtMost(Distances(E), a, l.src, y) /\ y + l.dist <= c
      BY <1>0, <1>7, <2>2, LastEdgeOfWay
    <3>2. l.src \in Nodes \ T
      BY <1>4, <2>2, <3>1 DEF MakesUp
    <3>3. AtMost(M, a, l.src, y) /\ AtMost(L, l.src, v, l.dist) /\ l.dist \in Nat
      BY <1>3, <1>4, <1>6, <2>2, <3>1, <3>2
    <3> QED
      BY <3>1, <3>2, <3>3
  <2> QED
    BY <2>1, <2>2
<1>8. CASE u \notin T
  <2>1. PICK b \in Nodes, y \in Nat, z \in Nat : AtMost(M, u, b, y) /\ AtMost(L, b, v, z) /\ y + z <= d
    BY <1>7, <1>8
  <2>2. AtMost(U, u, u, 0) /\ 0 + y + z <= d
    BY <1>5, <2>1
  <2> QED
    BY <2>1, <2>2 DEF UpAndDown, M, U, L
<1>9. CASE u = v
  <2>1. AtMost(U, u, u, 0) /\ AtMost(M, u, u, 0) /\ AtMost(L, u, v, 0) /\ 0 + 0 + 0 <= d
    BY <1>5, <1>9
  <2> QED
    BY <2>1 DEF UpAndDown, M, U, L
<1>10. CASE u \in T /\ u # v
  <2>1. PICK f \in E, c \in Nat : f.src = u /\ AtMost(Distances(E), f.tgt, v, c) /\ f.dist + c <= d
    BY <1>0, <1>10, FirstEdgeOfWay
  <2>2. f.tgt \in Nodes \ T
    BY <1>4, <1>10, <2>1 DEF MakesUp
  <2>3. PICK b \in Nodes, y \in Nat, z \in Nat : AtMost(M, f.tgt, b, y) /\ AtMost(L, b, v, z) /\ y + z <= c
    BY <1>7, <2>1, <2>2
  <2>4. AtMost(U, u, f.tgt, f.dist) /\ f.dist \in Nat
    BY <1>2, <1>4, <1>10, <2>1
  <2>5. f.dist + y + z <= d
    BY <2>1, <2>3, <2>4
  <2> QED
    BY <2>2, <2>3, <2>4, <2>5 DEF UpAndDown, M, U, L
<1> QED
  BY <1>8, <1>9, <1>10

(* So every way that went up and down before still does.                   *)
LEMMA StillUpAndDown ==
  ASSUME NEW E, NEW F, NEW T, MakesUp(F, E, T), NEW NewUp, EdgeSet(NewUp), NEW NewDown, EdgeSet(NewDown),
         \A e \in E : e.src \in T => e \in NewUp, \A e \in E : e.tgt \in T => e \in NewDown,
         NEW Up \in SUBSET NewUp, NEW Down \in SUBSET NewDown,
         NEW u \in Nodes, NEW v \in Nodes, NEW d \in Nat, UpAndDown(Up, E, Down, u, v, d)
  PROVE  UpAndDown(NewUp, F, NewDown, u, v, d)
<1>1. PICK a \in Nodes, b \in Nodes, x \in Nat, y \in Nat, z \in Nat :
        /\ AtMost(Distances(Up), u, a, x)
        /\ AtMost(Distances(E), a, b, y)
        /\ AtMost(Distances(Down), b, v, z)
        /\ x + y + z <= d
  BY DEF UpAndDown
<1>2. AtMost(Distances(NewUp), u, a, x) /\ AtMost(Distances(NewDown), b, v, z)
  BY <1>1, MoreEdges
<1>3. UpAndDown(NewUp, F, NewDown, a, b, y)
  BY <1>1, LeavingUpAndDown
<1>4. PICK p \in Nodes, q \in Nodes, i \in Nat, j \in Nat, k \in Nat :
        /\ AtMost(Distances(NewUp), a, p, i)
        /\ AtMost(Distances(F), p, q, j)
        /\ AtMost(Distances(NewDown), q, b, k)
        /\ i + j + k <= y
  BY <1>3 DEF UpAndDown
<1>5. Triangular(Distances(NewUp)) /\ Triangular(Distances(NewDown))
  BY DistancesTriangular
<1>6. AtMost(Distances(NewUp), u, p, x + i) /\ AtMost(Distances(NewDown), q, v, k + z)
  BY <1>1, <1>2, <1>4, <1>5 DEF Triangular
<1>7. (x + i) \in Nat /\ (k + z) \in Nat /\ (x + i) + j + (k + z) <= d
  BY <1>1, <1>4
<1> QED
  BY <1>4, <1>6, <1>7 DEF UpAndDown

-----------------------------------------------------------------------------
(* Edges with other payloads.                                              *)

(* What of an edge has a part in distances.                                *)
Arcs(E) == {<<e.src, e.tgt, e.dist>> : e \in E}

(* The rest, ids and children, has none.                                   *)
LEMMA SameArcsSameDistances ==
  ASSUME NEW E, NEW F, Arcs(E) = Arcs(F)
  PROVE  Distances(E) = Distances(F)
<1>1. Direct(E) = Direct(F)
  BY DEF Direct, Arcs
<1> QED
  BY <1>1 DEF Distances

(* The edges that join two nodes in the way P says.                        *)
Joining(E, P) == {e \in E : <<e.src, e.tgt>> \in P}

(* A part of the edges that their ends choose has the same arcs.           *)
LEMMA SameArcsChosen ==
  ASSUME NEW E, NEW F, Arcs(E) = Arcs(F), NEW P
  PROVE  /\ Arcs(Joining(E, P)) = Arcs(Joining(F, P))
         /\ EdgeSet(E) => EdgeSet(F)
<1>1. \A e \in E : \E f \in F : f.src = e.src /\ f.tgt = e.tgt /\ f.dist = e.dist
  <2> SUFFICES ASSUME NEW e \in E PROVE \E f \in F : f.src = e.src /\ f.tgt = e.tgt /\ f.dist = e.dist
    OBVIOUS
  <2>1. <<e.src, e.tgt, e.dist>> \in Arcs(F)
    BY DEF Arcs
  <2> QED
    BY <2>1 DEF Arcs
<1>2. \A f \in F : \E e \in E : f.src = e.src /\ f.tgt = e.tgt /\ f.dist = e.dist
  <2> SUFFICES ASSUME NEW f \in F PROVE \E e \in E : f.src = e.src /\ f.tgt = e.tgt /\ f.dist = e.dist
    OBVIOUS
  <2>1. <<f.src, f.tgt, f.dist>> \in Arcs(E)
    BY DEF Arcs
  <2> QED
    BY <2>1 DEF Arcs
<1>3. EdgeSet(E) => EdgeSet(F)
  BY <1>2 DEF EdgeSet
<1> DEFINE G == Joining(E, P)
           H == Joining(F, P)
<1>4. ASSUME NEW t \in Arcs(G) PROVE t \in Arcs(H)
  <2>1. PICK e \in G : t = <<e.src, e.tgt, e.dist>>
    BY <1>4 DEF Arcs, Joining
  <2>2. PICK f \in F : f.src = e.src /\ f.tgt = e.tgt /\ f.dist = e.dist
    BY <1>1 DEF Joining
  <2> QED
    BY <2>1, <2>2 DEF Arcs, Joining
<1>5. ASSUME NEW t \in Arcs(H) PROVE t \in Arcs(G)
  <2>1. PICK f \in H : t = <<f.src, f.tgt, f.dist>>
    BY <1>5 DEF Arcs, Joining
  <2>2. PICK e \in E : f.src = e.src /\ f.tgt = e.tgt /\ f.dist = e.dist
    BY <1>2 DEF Joining
  <2> QED
    BY <2>1, <2>2 DEF Arcs, Joining
<1>6. Arcs(G) = Arcs(H)
  BY <1>4, <1>5
<1> QED
  BY <1>3, <1>6

(* A distance found is the one between its nodes.                          *)
LEMMA DistanceFound ==
  ASSUME NEW E, EdgeSet(E), NEW s \in Nodes, NEW t \in Nodes, NEW d, <<s, t, d>> \in Distances(E)
  PROVE  DistanceOrNone(E, s, t) = d
<1>1. Distances(E) \in SUBSET Triples /\ OneDistance(Distances(E))
  <2>1. NrOfNodes \in Nat
    BY SizeAssumption
  <2> QED
    BY <2>1, DistancesAreDistances DEF DistancesBelow
<1> DEFINE between == {x \in Distances(E) : x[1] = s /\ x[2] = t}
<1>2. <<s, t, d>> \in between
  OBVIOUS
<1>3. \A x \in between : x[3] = d
  <2> SUFFICES ASSUME NEW x \in between PROVE x[3] = d
    OBVIOUS
  <2>1. x \in Triples /\ <<s, t, d>> \in Triples
    BY <1>1
  <2>2. x = <<s, t, x[3]>> /\ x[3] \in Nat /\ d \in Nat
    BY <2>1 DEF Triples
  <2> QED
    BY <1>1, <2>2 DEF OneDistance
<1> HIDE DEF between
<1>4. (CHOOSE x \in between : TRUE) \in between /\ between # {}
  BY <1>2
<1> QED
  BY <1>3, <1>4 DEF DistanceOrNone, between

(* Where there is none, none is found.                                     *)
LEMMA DistanceMissing ==
  ASSUME NEW E, EdgeSet(E), NEW s, NEW t, \A d \in Nat : <<s, t, d>> \notin Distances(E)
  PROVE  DistanceOrNone(E, s, t) = NO_DIST
<1>1. Distances(E) \in SUBSET Triples
  <2>1. NrOfNodes \in Nat
    BY SizeAssumption
  <2> QED
    BY <2>1, DistancesAreDistances DEF DistancesBelow
<1>2. ASSUME NEW x \in Distances(E), x[1] = s, x[2] = t PROVE FALSE
  <2>1. x = <<s, t, x[3]>> /\ x[3] \in Nat
    BY <1>1, <1>2 DEF Triples
  <2> QED
    BY <1>2, <2>1
<1> QED
  BY <1>2 DEF DistanceOrNone
=============================================================================
