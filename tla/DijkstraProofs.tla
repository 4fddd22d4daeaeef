--------------------------- MODULE DijkstraProofs ---------------------------
(***************************************************************************)
(* Proofs about class Dijkstra, for every number of nodes and every input  *)
(* graph whose lengths fit into a uint: the replies are distances, and the *)
(* paths are as long as the replies say.                                   *)
(***************************************************************************)
EXTENDS Dijkstra, GraphVectorsProofs

(* In these the graph is a set of edges E, s the source of the query, ds   *)
(* the labels, fb what is in _found_by, and W the nodes that are settled.  *)

(* The distance d of n is that of a settled node and an edge from there,   *)
(* the one with the given id.                                              *)
Justified(E, s, W, ds, n, id, d) ==
  \/ n = s /\ d = 0
  \/ \E e \in E : e.id = id /\ e.tgt = n /\ e.src \in W /\ ds[e.src] + e.dist = d

(* The labels of the settled nodes are their distances.  The source is the *)
(* first of them.                                                          *)
Settled(E, s, W, ds, fb) ==
  /\ ds[s] = 0 /\ (s \in W \/ W = {})
  /\ \A n \in W : /\ ds[n] < NO_DIST /\ <<s, n, ds[n]>> \in Distances(E)
                  /\ Justified(E, s, W, ds, n, fb[n], ds[n])

(* The other labels are the lengths of ways and have an element in the     *)
(* queue, which is not before those of the settled nodes were.  The edges  *)
(* in relaxed are relaxed.                                                 *)
Frontier(E, s, W, ds, queue, relaxed) ==
  /\ \A x \in queue : ds[x.node] <= x.dist
  /\ \A x, y \in queue : x.node = y.node /\ x.dist = y.dist => x = y
  /\ \A n \in Nodes \ W : ds[n] # NO_DIST => \E x \in queue : x.node = n /\ x.dist = ds[n]
  /\ \A n \in W, x \in queue : ds[n] <= x.dist /\ (x.node = n => ds[n] # x.dist)
  /\ \A e \in relaxed : ds[e.tgt] <= ds[e.src] + e.dist
  /\ \A n \in Nodes : ds[n] # NO_DIST => AtMost(Distances(E), s, n, ds[n])
  /\ \A x \in queue : Justified(E, s, W, ds, x.node, x.found_by, x.dist)

PQElements == [node : Nodes, found_by : Uint, dist : 0..(NO_DIST - 1)]

TypeOK ==
  /\ task \in {"none", "search", "backtrack", "answered"}
  /\ task # "none" => ends \in Nodes \X Nodes
  /\ pq \in SUBSET PQElements
  /\ found_by \in [Nodes -> Uint] /\ dists \in [Nodes -> Uint]
  /\ reset_dists \in SUBSET Nodes
  /\ answer \in Uint

(* Nobody changes the graph.                                               *)
GraphKept ==
  /\ out_edges \in InputGraphs
  /\ out_offsets = Offsets(out_edges, "OUT")
  /\ id_to_index = [id \in 0..(Len(out_edges) - 1) |->
                      CHOOSE i \in DOMAIN out_edges : out_edges[i].id = id]

SearchInv ==
  task = "search" =>
    /\ path = <<>>
    /\ \E W \in SUBSET Nodes :
         /\ ends[2] \notin W
         /\ Settled(Edges, ends[1], W, dists, found_by)
         /\ Frontier(Edges, ends[1], W, dists, pq, {e \in Edges : e.src \in W})

(* The edges found so far lead from bt_node to the target, and each is as  *)
(* long as the labels of its ends are apart.                               *)
WalkInv ==
  task = "backtrack" \/ (task = "answered" /\ answer # NO_DIST) =>
    /\ path \in Seq(Uint)
    /\ <<ends[1], ends[2], answer>> \in Distances(Edges)
    /\ dists[ends[1]] = 0 /\ dists[ends[2]] = answer
    /\ \A k \in DOMAIN path :
         LET e == GetEdge(path[k])
         IN  /\ e \in Edges
             /\ e.tgt = IF k = 1 THEN ends[2] ELSE GetEdge(path[k - 1]).src
             /\ dists[e.src] + e.dist = dists[e.tgt]
    /\ bt_node = IF path = <<>> THEN ends[2] ELSE GetEdge(path[Len(path)]).src

BacktrackInv ==
  task = "backtrack" =>
    \E W \in SUBSET Nodes :
      /\ Settled(Edges, ends[1], W, dists, found_by)
      /\ Justified(Edges, ends[1], W, dists, ends[2], found_by[ends[2]], answer)
      /\ bt_node = ends[2] \/ bt_node \in W

(* What does not depend on the lengths, and what the search finds out.     *)
PlainInv == TypeOK /\ GraphKept /\ LabelsWillBeReset

QueryInv ==
  /\ SearchInv /\ WalkInv /\ BacktrackInv
  /\ task = "answered" /\ answer # NO_DIST => bt_node = ends[1]

IInv == PlainInv /\ QueryInv

-----------------------------------------------------------------------------
(* Relaxing the edges of a node.                                           *)

States == [dists : [Nodes -> Uint], reset : SUBSET Nodes, queue : SUBSET PQElements]

(* A uint stays one.                                                       *)
LEMMA UintAddType ==
  ASSUME NEW a \in Nat, NEW b \in Nat
  PROVE  UintAdd(a, b) \in Uint /\ (a + b < NO_DIST => UintAdd(a, b) = a + b)
<1>1. MaxUint \in Nat
  BY SizeAssumption
<1>2. (a + b) % (MaxUint + 1) \in 0..MaxUint
  BY <1>1
<1>3. a + b < MaxUint => (a + b) % (MaxUint + 1) = a + b
  BY <1>1
<1> QED
  BY <1>2, <1>3 DEF UintAdd, Uint, NO_DIST

(* Relaxing an edge keeps the types.                                       *)
LEMMA RelaxType ==
  ASSUME NEW top \in PQElements, NEW st \in States, NEW e \in CHEdge
  PROVE  Relax(top, st, e) \in States
<1> DEFINE d == UintAdd(top.dist, e.dist)
<1>1. e.tgt \in Nodes /\ e.id \in Uint /\ e.dist \in Nat /\ top.dist \in Nat
  BY SizeAssumption DEF CHEdge, PQElements, Uint, NO_DIST
<1>2. d \in Uint
  BY <1>1, UintAddType
<1> HIDE DEF d
<1>3. CASE d < st.dists[e.tgt]
  <2>1. st.dists[e.tgt] \in Uint
    BY <1>1 DEF States
  <2>2. d \in 0..(NO_DIST - 1)
    BY <1>2, <1>3, <2>1, SizeAssumption DEF Uint, NO_DIST
  <2>3. PQElement(e.tgt, e.id, d) \in PQElements
    BY <1>1, <2>2 DEF PQElement, PQElements
  <2>4. [st.dists EXCEPT ![e.tgt] = d] \in [Nodes -> Uint]
    BY <1>1, <1>2 DEF States
  <2>5. Remember(st.reset, e.tgt, st.dists[e.tgt]) \in SUBSET Nodes
    BY <1>1 DEF States, Remember
  <2>6. Relax(top, st, e) = [dists |-> [st.dists EXCEPT ![e.tgt] = d],
                             reset |-> Remember(st.reset, e.tgt, st.dists[e.tgt]),
                             queue |-> st.queue \cup {PQElement(e.tgt, e.id, d)}]
    BY <1>3 DEF Relax, Better, d
  <2>7. st.queue \cup {PQElement(e.tgt, e.id, d)} \in SUBSET PQElements
    BY <2>3 DEF States
  <2> QED
    BY <2>4, <2>5, <2>6, <2>7 DEF States
<1>4. CASE ~(d < st.dists[e.tgt])
  BY <1>4 DEF Relax, Better, d
<1> QED
  BY <1>3, <1>4

(* RelaxAllEdges() relaxes one edge after the other.                       *)
LEMMA RelaxOneByOne ==
  ASSUME NEW top \in PQElements, NEW r, r = NodeEdgesRange(top.node, "OUT"), r \in Seq(CHEdge),
         NEW start \in States, start = [dists |-> dists, reset |-> reset_dists, queue |-> pq \ {top}]
  PROVE  \E st : /\ st[0] = start /\ st[Len(r)] = RelaxAllEdges(top)
                 /\ \A k \in 1..Len(r) : st[k] = Relax(top, st[k - 1], r[k])
<1> DEFINE n == Len(r)
           s == [p \in (1..n) \X States |-> Relax(top, p[2], r[p[1]])]
<1>1. n \in Nat /\ DOMAIN r = 1..n /\ \A k \in 1..n : r[k] \in CHEdge
  OBVIOUS
<1> HIDE DEF n
<1>2. s \in [(1..n) \X States -> States]
  BY <1>1, RelaxType
<1>3. \A k \in 1..n, x \in States : s[<<k, x>>] = Relax(top, x, r[k])
  OBVIOUS
<1> HIDE DEF s
<1>4. PICK g \in [SUBSET (1..n) -> States] : SetFollows(g, 1..n, start, LastOf(n), s)
  BY <1>1, <1>2, FoldExists
<1> DEFINE Body(h) == [T \in SUBSET DOMAIN r |->
                         IF T = {} THEN start
                         ELSE LET x == Max(T) IN Relax(top, h[T \ {x}], r[x])]
           f == CHOOSE h : h = Body(h)
<1>5. g = Body(g)
  <2>1. ASSUME NEW T \in SUBSET (1..n), T # {}
        PROVE  g[T] = Relax(top, g[T \ {Max(T)}], r[Max(T)])
    <3> DEFINE m == Max(T)
    <3>1. m \in T
      BY <1>1, <2>1, MaxOfPositions
    <3>2. LastOf(n)[T] = m
      BY DEF LastOf
    <3> HIDE DEF m
    <3>3. m \in 1..n /\ g[T \ {m}] \in States
      BY <1>4, <3>1
    <3>4. g[T] = s[<<m, g[T \ {m}]>>]
      BY <1>4, <2>1, <3>2 DEF SetFollows
    <3>5. g[T] = Relax(top, g[T \ {m}], r[m])
      BY <1>3, <3>3, <3>4
    <3> QED
      BY <3>5 DEF m
  <2>2. g[{}] = start
    BY <1>4 DEF SetFollows
  <2>3. \A T \in SUBSET (1..n) :
          g[T] = IF T = {} THEN start ELSE LET x == Max(T) IN Relax(top, g[T \ {x}], r[x])
    BY <2>1, <2>2
  <2> QED
    BY <1>1, <1>4, <2>3
<1>6. f = Body(f)
  <2> HIDE DEF Body
  <2> QED
    BY <1>5
<1>7. RelaxAllEdges(top) = f[1..n]
  BY <1>1 DEF RelaxAllEdges, FoldLeft, MapThenFoldSet
<1> HIDE DEF f
<1> DEFINE st == [k \in 0..n |-> f[1..k]]
<1>8. st[0] = start
  <2>1. 1..0 = {}
    OBVIOUS
  <2> QED
    BY <1>1, <1>6, <2>1
<1>9. st[n] = RelaxAllEdges(top)
  BY <1>1, <1>7
<1>10. ASSUME NEW k \in 1..n PROVE st[k] = Relax(top, st[k - 1], r[k])
  <2>1. Max(1..k) = k /\ (1..k) \ {k} = 1..(k - 1) /\ 1..k # {} /\ 1..k \in SUBSET (1..n)
    BY <1>1, LastPosition
  <2>2. f[1..k] = Relax(top, f[(1..k) \ {Max(1..k)}], r[Max(1..k)])
    BY <1>1, <1>6, <2>1
  <2>3. k \in 0..n /\ k - 1 \in 0..n
    BY <1>1
  <2> QED
    BY <2>1, <2>2, <2>3
<1> QED
  BY <1>8, <1>9, <1>10 DEF n

(* A way to a node, and an edge from there, are a way.                     *)
LEMMA WayAndEdge ==
  ASSUME NEW E, EdgeSet(E), NEW s \in Nodes, NEW e \in E, NEW d \in Nat,
         <<s, e.src, d>> \in Distances(E)
  PROVE  AtMost(Distances(E), s, e.tgt, d + e.dist)
<1> DEFINE D == Distances(E)
<1>1. NrOfNodes \in Nat
  BY SizeAssumption
<1>2. DistancesBelow(D, E, NrOfNodes)
  BY <1>1, DistancesAreDistances
<1>3. e.src \in Nodes /\ e.tgt \in Nodes /\ e.dist \in Nat /\ e.src < NrOfNodes
  BY <1>1 DEF EdgeSet, Nodes
<1> HIDE DEF D
<1>4. PICK c \in Nat : <<e.src, e.tgt, c>> \in D /\ c <= e.dist
  BY <1>2 DEF DistancesBelow, AtMost
<1>5. AtMost(D, s, e.tgt, d + c)
  BY <1>2, <1>3, <1>4 DEF DistancesBelow, D
<1>6. PICK x \in Nat : <<s, e.tgt, x>> \in D /\ x <= d + c
  BY <1>5 DEF AtMost
<1>7. x <= d + e.dist
  BY <1>3, <1>4, <1>6
<1> QED
  BY <1>6, <1>7 DEF AtMost, D

SameLabels(W, ds1, ds2) == \A n \in W : ds1[n] = ds2[n]

(* Relaxing an edge of a settled node leaves the settled ones alone.       *)
LEMMA RelaxKeeps ==
  ASSUME NEW E, E \in SUBSET CHEdge, NEW s \in Nodes, NEW W \in SUBSET Nodes,
         NEW top \in PQElements, top.node \in W, <<s, top.node, top.dist>> \in Distances(E),
         NEW st \in States, st.dists[top.node] = top.dist, \A n \in W : st.dists[n] <= top.dist,
         NEW R \in SUBSET E, \A x \in R : x.src \in W,
         Frontier(E, s, W, st.dists, st.queue, R),
         NEW e \in E, e.src = top.node, top.dist + e.dist < NO_DIST
  PROVE  /\ Frontier(E, s, W, Relax(top, st, e).dists, Relax(top, st, e).queue, R \cup {e})
         /\ SameLabels(W, Relax(top, st, e).dists, st.dists)
<1> DEFINE ds == st.dists
           q == st.queue
           nds == Relax(top, st, e).dists
           nq == Relax(top, st, e).queue
           d == top.dist + e.dist
<1>1. /\ e \in CHEdge /\ e.src \in Nodes /\ e.tgt \in Nodes /\ e.dist \in Nat /\ e.id \in Uint
      /\ top.dist \in Nat /\ d \in Nat /\ d < NO_DIST /\ top.dist <= d
  BY SizeAssumption DEF CHEdge, PQElements, Uint, NO_DIST
<1>2. UintAdd(top.dist, e.dist) = d
  BY <1>1, UintAddType
<1>3. /\ ds \in [Nodes -> Uint] /\ q \in SUBSET PQElements /\ Uint \subseteq Nat
      /\ \A n \in Nodes : ds[n] \in Nat
      /\ \A x \in q : x.node \in Nodes /\ x.dist \in Nat
  BY SizeAssumption DEF States, Uint, PQElements, NO_DIST
<1>4. Frontier(E, s, W, ds, q, R)
  OBVIOUS
<1>5. CASE ~(d < ds[e.tgt])
  <2>1. Relax(top, st, e) = st
    BY <1>2, <1>5 DEF Relax, Better
  <2>2. ds[e.tgt] <= ds[e.src] + e.dist
    BY <1>1, <1>3, <1>5
  <2> HIDE DEF ds, q
  <2>3. Frontier(E, s, W, ds, q, R \cup {e})
    BY <1>4, <2>2 DEF Frontier
  <2> QED
    BY <2>1, <2>3 DEF ds, q, SameLabels
<1>6. CASE d < ds[e.tgt]
  <2> DEFINE new == PQElement(e.tgt, e.id, d)
  <2>1. /\ Relax(top, st, e).dists = [ds EXCEPT ![e.tgt] = d]
        /\ Relax(top, st, e).queue = q \cup {new}
    BY <1>2, <1>6 DEF Relax, Better
  <2>2. \A n \in Nodes : nds[n] = IF n = e.tgt THEN d ELSE ds[n]
    BY <1>1, <1>3, <2>1
  <2>3. nq = q \cup {new}
    BY <2>1
  <2>4. new.node = e.tgt /\ new.found_by = e.id /\ new.dist = d
    BY DEF PQElement
  <2>5. e.tgt \notin W
    BY <1>1, <1>3, <1>6
  <2>6. ds[top.node] = top.dist /\ \A n \in W : ds[n] <= top.dist
    OBVIOUS
  <2> HIDE DEF ds, q, nds, nq, d, new
  <2>7. \A n \in W : nds[n] = ds[n]
    BY <2>2, <2>5
  <2>8. \A x \in q : ds[x.node] <= x.dist
    BY <1>4 DEF Frontier
  <2>9. \A x \in nq : nds[x.node] <= x.dist
    <3>1. \A n \in Nodes : nds[n] <= ds[n]
      BY <1>1, <1>3, <1>6, <2>2
    <3>2. \A x \in q : nds[x.node] <= x.dist
      <4> TAKE x \in q
      <4>1. nds[x.node] <= ds[x.node] /\ ds[x.node] <= x.dist /\ nds[x.node] \in Nat
            /\ ds[x.node] \in Nat /\ x.dist \in Nat
        BY <1>1, <1>3, <2>2, <2>8, <3>1
      <4> QED
        BY <4>1
    <3>3. nds[new.node] <= new.dist
      BY <1>1, <2>2, <2>4
    <3> QED
      BY <2>3, <3>2, <3>3
  <2>10. \A x, y \in nq : x.node = y.node /\ x.dist = y.dist => x = y
    <3>1. \A x, y \in q : x.node = y.node /\ x.dist = y.dist => x = y
      BY <1>4 DEF Frontier
    <3>2. \A x \in q : x.node = new.node => x.dist # new.dist
      <4> SUFFICES ASSUME NEW x \in q, x.node = new.node, x.dist = new.dist PROVE FALSE
        OBVIOUS
      <4>1. ds[e.tgt] <= d
        BY <2>4, <2>8
      <4> QED
        BY <1>1, <1>3, <1>6, <4>1
    <3> QED
      BY <2>3, <3>1, <3>2
  <2>11. \A n \in Nodes \ W : nds[n] # NO_DIST => \E x \in nq : x.node = n /\ x.dist = nds[n]
    <3>1. \A n \in Nodes \ W : ds[n] # NO_DIST => \E x \in q : x.node = n /\ x.dist = ds[n]
      BY <1>4 DEF Frontier
    <3> QED
      BY <2>2, <2>3, <2>4, <3>1
  <2>12. \A n \in W, x \in nq : nds[n] <= x.dist /\ (x.node = n => nds[n] # x.dist)
    <3>1. \A n \in W, x \in q : ds[n] <= x.dist /\ (x.node = n => ds[n] # x.dist)
      BY <1>4 DEF Frontier
    <3>2. \A n \in W : ds[n] <= d
      <4> TAKE n \in W
      <4>1. ds[n] \in Nat /\ ds[n] <= top.dist
        BY <1>3, <2>6
      <4> QED
        BY <1>1, <4>1
    <3> QED
      BY <2>3, <2>4, <2>5, <2>7, <3>1, <3>2
  <2>13. \A x \in R \cup {e} : nds[x.tgt] <= nds[x.src] + x.dist
    <3>1. \A x \in R : ds[x.tgt] <= ds[x.src] + x.dist
      BY <1>4 DEF Frontier
    <3>2. ASSUME NEW x \in R PROVE nds[x.tgt] <= nds[x.src] + x.dist
      <4>1. /\ x.src \in W /\ x.src \in Nodes /\ x.tgt \in Nodes /\ x.dist \in Nat
            /\ nds[x.src] = ds[x.src]
        BY <2>7, SizeAssumption DEF CHEdge, Uint
      <4>2. nds[x.tgt] <= ds[x.tgt] /\ nds[x.tgt] \in Nat
        BY <1>1, <1>3, <1>6, <2>2, <4>1
      <4> QED
        BY <1>3, <3>1, <4>1, <4>2
    <3>3. nds[e.tgt] <= nds[e.src] + e.dist
      <4>1. nds[e.tgt] = d /\ nds[e.src] = top.dist
        BY <1>1, <2>2, <2>6, <2>7
      <4> QED
        BY <1>1, <4>1 DEF d
    <3> QED
      BY <3>2, <3>3
  <2>14. \A n \in Nodes : nds[n] # NO_DIST => AtMost(Distances(E), s, n, nds[n])
    <3>1. \A n \in Nodes : ds[n] # NO_DIST => AtMost(Distances(E), s, n, ds[n])
      BY <1>4 DEF Frontier
    <3>2. AtMost(Distances(E), s, e.tgt, d)
      <4>1. EdgeSet(E)
        BY SizeAssumption DEF EdgeSet, CHEdge, Uint
      <4> QED
        BY <1>1, <4>1, WayAndEdge DEF d
    <3> QED
      BY <2>2, <3>1, <3>2
  <2>15. \A x \in nq : Justified(E, s, W, nds, x.node, x.found_by, x.dist)
    <3>1. ASSUME NEW x \in q PROVE Justified(E, s, W, nds, x.node, x.found_by, x.dist)
      <4>1. Justified(E, s, W, ds, x.node, x.found_by, x.dist)
        BY <1>4 DEF Frontier
      <4> QED
        BY <2>7, <4>1 DEF Justified
    <3>2. Justified(E, s, W, nds, new.node, new.found_by, new.dist)
      <4>1. nds[e.src] + e.dist = d /\ e.src \in W
        BY <2>6, <2>7 DEF d
      <4> QED
        BY <2>4, <4>1 DEF Justified
    <3> QED
      BY <2>3, <3>1, <3>2
  <2>16. Frontier(E, s, W, nds, nq, R \cup {e})
    BY <2>9, <2>10, <2>11, <2>12, <2>13, <2>14, <2>15 DEF Frontier
  <2> QED
    BY <2>7, <2>16 DEF nds, nq, ds, SameLabels
<1> QED
  BY <1>5, <1>6

-----------------------------------------------------------------------------
(* The search.                                                             *)

(* The sums of distances and edges fit into a uint.                        *)
Fits(E) == \A t \in Distances(E), e \in E : t[2] = e.src => t[3] + e.dist < NO_DIST

(* What is true of the edges of a graph.                                   *)
LEMMA EdgeTypes ==
  ASSUME NEW E, E \in SUBSET CHEdge
  PROVE  /\ EdgeSet(E)
         /\ \A e \in E : e.src \in Nodes /\ e.tgt \in Nodes /\ e.dist \in Nat /\ e.id \in Uint
BY SizeAssumption DEF EdgeSet, CHEdge, Uint

(* If every edge that leaves the settled nodes ends at least big away, then*)
(* every other node is at least that far.                                  *)
LEMMA UnsettledFar ==
  ASSUME NEW E, E \in SUBSET CHEdge, NEW s \in Nodes, NEW W \in SUBSET Nodes,
         NEW ds \in [Nodes -> Uint], ds[s] = 0, NEW big \in Nat,
         \A n \in W : ds[n] <= big,
         \A e \in E : e.src \in W =>
           IF e.tgt \in W THEN ds[e.tgt] <= ds[e.src] + e.dist ELSE big <= ds[e.src] + e.dist,
         s \in W \/ big = 0,
         NEW n \in Nodes \ W, NEW d \in Nat, <<s, n, d>> \in Distances(E)
  PROVE  big <= d
<1> DEFINE p == [v \in Nodes |-> IF v \in W THEN ds[v] ELSE big]
<1>1. \A v \in Nodes : ds[v] \in Nat
  BY SizeAssumption DEF Uint
<1>2. \A v \in Nodes : p[v] = IF v \in W THEN ds[v] ELSE big
  OBVIOUS
<1>3. p \in [Nodes -> Int]
  BY <1>1
<1> HIDE DEF p
<1>4. ASSUME NEW e \in E PROVE p[e.tgt] <= p[e.src] + e.dist
  <2>1. e.src \in Nodes /\ e.tgt \in Nodes /\ e.dist \in Nat
    BY EdgeTypes
  <2>2. CASE e.src \in W
    BY <1>2, <2>1, <2>2
  <2>3. CASE e.src \notin W
    <3>1. p[e.tgt] <= big /\ p[e.src] = big /\ p[e.tgt] \in Nat
      BY <1>1, <1>2, <2>1, <2>3
    <3> QED
      BY <2>1, <3>1
  <2> QED
    BY <2>2, <2>3
<1>5. Potential(p, E)
  BY <1>3, <1>4 DEF Potential
<1>6. Bounds(p, Distances(E))
  <2>1. EdgeSet(E) /\ NrOfNodes \in Nat
    BY EdgeTypes, SizeAssumption
  <2>2. DistancesBelow(Distances(E), E, NrOfNodes)
    BY <2>1, DistancesAreDistances
  <2> QED
    BY <1>5, <2>2 DEF DistancesBelow
<1>7. p[s] = 0 /\ p[n] = big
  BY <1>2
<1>8. p[n] <= p[s] + d
  BY <1>6 DEF Bounds
<1> QED
  BY <1>7, <1>8

(* The sum of a settled label and an edge from there fits.                 *)
LEMMA SettledSumsFit ==
  ASSUME NEW E, E \in SUBSET CHEdge, Fits(E), NEW s \in Nodes, NEW W \in SUBSET Nodes,
         NEW ds \in [Nodes -> Uint], NEW fb, Settled(E, s, W, ds, fb), NEW e \in E, e.src \in W
  PROVE  ds[e.src] + e.dist < NO_DIST /\ ds[e.src] + e.dist \in Nat
<1>1. <<s, e.src, ds[e.src]>> \in Distances(E)
  BY DEF Settled
<1>2. ds[e.src] \in Nat /\ e.dist \in Nat
  BY EdgeTypes, SizeAssumption DEF Uint
<1> QED
  BY <1>1, <1>2 DEF Fits

(* The search settles nodes by their distances: that of the top is one     *)
(* when its node is not settled.                                           *)
LEMMA TopIsExact ==
  ASSUME NEW E, E \in SUBSET CHEdge, Fits(E), NEW s \in Nodes, NEW W \in SUBSET Nodes,
         NEW ds \in [Nodes -> Uint], NEW fb, Settled(E, s, W, ds, fb),
         NEW queue \in SUBSET PQElements, Frontier(E, s, W, ds, queue, {e \in E : e.src \in W}),
         NEW top \in queue, \A o \in queue : top.dist <= o.dist, top.node \notin W
  PROVE  <<s, top.node, top.dist>> \in Distances(E) /\ ds[top.node] = top.dist
<1>1. /\ top.node \in Nodes /\ top.dist \in Nat /\ top.dist < NO_DIST /\ NO_DIST \in Nat
      /\ \A x \in queue : x.dist \in Nat /\ x.node \in Nodes
  BY SizeAssumption DEF PQElements, NO_DIST
<1>2. \A v \in Nodes : ds[v] \in Nat
  BY SizeAssumption DEF Uint
<1>3. ds[s] = 0
  BY DEF Settled
<1>4. \A n \in Nodes \ W : ds[n] < NO_DIST => top.dist <= ds[n]
  <2> SUFFICES ASSUME NEW n \in Nodes \ W, ds[n] < NO_DIST PROVE top.dist <= ds[n]
    OBVIOUS
  <2>1. ds[n] # NO_DIST
    BY <1>1, <1>2
  <2>2. PICK x \in queue : x.node = n /\ x.dist = ds[n]
    BY <2>1 DEF Frontier
  <2> QED
    BY <2>2
<1>5. ds[top.node] = top.dist
  <2>1. ds[top.node] <= top.dist
    BY DEF Frontier
  <2> QED
    BY <1>1, <1>2, <1>4, <2>1
<1>6. PICK c \in Nat : <<s, top.node, c>> \in Distances(E) /\ c <= top.dist
  <2>1. AtMost(Distances(E), s, top.node, ds[top.node])
    BY <1>1, <1>5 DEF Frontier
  <2> QED
    BY <1>5, <2>1 DEF AtMost
<1>7. top.dist <= c
  <2> DEFINE big == top.dist
  <2>1. \A n \in W : ds[n] <= big
    BY DEF Frontier
  <2>2. ASSUME NEW e \in E, e.src \in W
        PROVE  IF e.tgt \in W THEN ds[e.tgt] <= ds[e.src] + e.dist ELSE big <= ds[e.src] + e.dist
    <3>1. ds[e.tgt] <= ds[e.src] + e.dist
      BY <2>2 DEF Frontier
    <3>2. ds[e.src] + e.dist < NO_DIST /\ ds[e.src] + e.dist \in Nat
      BY <2>2, SettledSumsFit
    <3>3. e.tgt \in Nodes
      BY EdgeTypes
    <3>4. e.tgt \notin W => top.dist <= ds[e.tgt]
      BY <1>1, <1>2, <1>4, <3>1, <3>2, <3>3
    <3> QED
      BY <1>1, <1>2, <3>1, <3>2, <3>3, <3>4
  <2>3. s \in W \/ big = 0
    BY <1>1, <1>3, <1>4
  <2>4. big \in Nat
    BY <1>1
  <2>5. top.node \in Nodes \ W
    BY <1>1
  <2> HIDE DEF big
  <2>6. big <= c
    BY <1>3, <1>6, <2>1, <2>2, <2>3, <2>4, <2>5, UnsettledFar
  <2> QED
    BY <2>6 DEF big
<1>8. c = top.dist
  BY <1>1, <1>6, <1>7
<1> QED
  BY <1>5, <1>6, <1>8

(* When the queue is empty there is no way to the nodes left.              *)
LEMMA NoWayLeft ==
  ASSUME NEW E, E \in SUBSET CHEdge, Fits(E), NEW s \in Nodes, NEW W \in SUBSET Nodes,
         NEW ds \in [Nodes -> Uint], NEW fb, Settled(E, s, W, ds, fb),
         Frontier(E, s, W, ds, {}, {e \in E : e.src \in W}),
         NEW n \in Nodes \ W, NEW d \in Nat, <<s, n, d>> \in Distances(E)
  PROVE  FALSE
<1> DEFINE big == d + NO_DIST + 1
<1>1. NO_DIST \in Nat /\ big \in Nat /\ ~(big <= d)
  BY SizeAssumption DEF NO_DIST
<1>2. \A v \in Nodes : ds[v] \in Nat
  BY SizeAssumption DEF Uint
<1>3. ds[s] = 0
  BY DEF Settled
<1>4. \A v \in Nodes : v \in W \/ ds[v] = NO_DIST
  BY DEF Frontier
<1>5. \A v \in W : ds[v] <= big
  <2> TAKE v \in W
  <2>1. ds[v] < NO_DIST /\ ds[v] \in Nat
    BY <1>2 DEF Settled
  <2> QED
    BY <1>1, <2>1
<1>6. ASSUME NEW e \in E, e.src \in W
      PROVE  IF e.tgt \in W THEN ds[e.tgt] <= ds[e.src] + e.dist ELSE big <= ds[e.src] + e.dist
  <2>1. ds[e.tgt] <= ds[e.src] + e.dist
    BY <1>6 DEF Frontier
  <2>2. ds[e.src] + e.dist < NO_DIST /\ ds[e.src] + e.dist \in Nat
    BY <1>6, SettledSumsFit
  <2>3. e.tgt \in Nodes
    BY EdgeTypes
  <2>4. e.tgt \in W
    BY <1>1, <1>2, <1>4, <2>1, <2>2, <2>3
  <2> QED
    BY <2>1, <2>4
<1>7. s \in W
  <2>1. NO_DIST # 0
    BY SizeAssumption DEF Nodes, NO_DIST
  <2> QED
    BY <1>3, <1>4, <2>1
<1> HIDE DEF big
<1>8. big <= d
  BY <1>1, <1>3, <1>5, <1>6, <1>7, UnsettledFar
<1> QED
  BY <1>1, <1>8

-----------------------------------------------------------------------------
(* The graph.                                                              *)

(* The vector of edges of an input graph is sorted by the sources, and each*)
(* id below its length is that of one edge.                                *)
LEMMA InputGraphIds ==
  ASSUME NEW g, IsInputGraph(g)
  PROVE  /\ g \in Seq(CHEdge) /\ SortedByKey(g, "OUT")
         /\ \A i \in DOMAIN g : g[i].id \in 0..(Len(g) - 1)
         /\ \A i, j \in DOMAIN g : g[i].id = g[j].id => i = j
<1>1. /\ g \in Seq(CHEdge) /\ Len(g) \in Nat /\ DOMAIN g = 1..Len(g)
      /\ \A i \in 1..Len(g) : g[i] \in CHEdge
  BY DEF IsInputGraph
<1>2. ASSUME NEW i \in 1..Len(g)
      PROVE  g[i].id \in Nat /\ g[i].id < Len(g) /\ g[i].src \in Nat /\ g[i].tgt \in Nat
  <2>1. g[i] \in CHEdge
    BY <1>1
  <2>2. g[i].id \in Nat /\ g[i].src \in Nat /\ g[i].tgt \in Nat
    BY <2>1, SizeAssumption DEF CHEdge, Uint, Nodes
  <2>3. g[i].id < Len(g)
    BY DEF IsInputGraph
  <2> QED
    BY <2>2, <2>3
<1>3. \A i, j \in 1..Len(g) : i < j => SrcTgtLess(g[i], g[j]) /\ g[i].id # g[j].id
  BY DEF IsInputGraph
<1>4. SortedByKey(g, "OUT")
  BY <1>1, <1>2, <1>3 DEF SortedByKey, KeyNode, OtherNode, Opposite, SrcTgtLess
<1>5. \A i, j \in DOMAIN g : g[i].id = g[j].id => i = j
  BY <1>1, <1>3
<1> QED
  BY <1>1, <1>2, <1>4, <1>5

(* getEdge() finds every edge of the graph.                                *)
LEMMA EdgeFound ==
  ASSUME GraphKept, NEW e \in Edges
  PROVE  GetEdge(e.id) = e
<1>1. IsInputGraph(out_edges)
  BY InputAssumption DEF GraphKept
<1>2. PICK i \in DOMAIN out_edges : e = out_edges[i]
  BY DEF Edges, Range
<1>3. e.id \in 0..(Len(out_edges) - 1)
  BY <1>1, <1>2, InputGraphIds
<1>4. id_to_index[e.id] = CHOOSE j \in DOMAIN out_edges : out_edges[j].id = e.id
  BY <1>3 DEF GraphKept
<1>5. id_to_index[e.id] \in DOMAIN out_edges /\ out_edges[id_to_index[e.id]].id = e.id
  BY <1>2, <1>4
<1>6. id_to_index[e.id] = i
  BY <1>1, <1>2, <1>5, InputGraphIds
<1> QED
  BY <1>2, <1>6 DEF GetEdge

(* nodeEdges() are the edges that leave the node.                          *)
LEMMA EdgesOfNode ==
  ASSUME GraphKept, NEW n \in Nodes, NEW r, r = NodeEdgesRange(n, "OUT")
  PROVE  /\ r \in Seq(CHEdge)
         /\ \A k \in 1..Len(r) : r[k] \in Edges /\ r[k].src = n
         /\ \A e \in Edges : e.src = n => \E k \in 1..Len(r) : r[k] = e
<1>1. IsInputGraph(out_edges)
  BY InputAssumption DEF GraphKept
<1>2. out_edges \in Seq(CHEdge) /\ SortedByKey(out_edges, "OUT")
  BY <1>1, InputGraphIds
<1>3. out_offsets = Offsets(out_edges, "OUT")
  BY DEF GraphKept
<1>4. r = SubSeq(out_edges, out_offsets[n] + 1, out_offsets[n + 1])
  BY DEF NodeEdgesRange
<1>5. /\ r \in Seq(CHEdge)
      /\ \A k \in 1..Len(r) : out_offsets[n] + k \in EdgesAt(out_edges, "OUT", n)
                              /\ r[k] = out_edges[out_offsets[n] + k]
      /\ \A i \in EdgesAt(out_edges, "OUT", n) :
           i - out_offsets[n] \in 1..Len(r) /\ out_edges[i] = r[i - out_offsets[n]]
  BY <1>2, <1>3, <1>4, SliceOfNode DEF IsCut
<1>6. \A i : i \in EdgesAt(out_edges, "OUT", n) <=> i \in DOMAIN out_edges /\ out_edges[i].src = n
  BY DEF EdgesAt, KeyNode, OtherNode, Opposite
<1>7. \A k \in 1..Len(r) : r[k] \in Edges /\ r[k].src = n
  BY <1>5, <1>6 DEF Edges, Range
<1>8. ASSUME NEW e \in Edges, e.src = n PROVE \E k \in 1..Len(r) : r[k] = e
  <2>1. PICK i \in DOMAIN out_edges : e = out_edges[i]
    BY DEF Edges, Range
  <2> QED
    BY <1>5, <1>6, <1>8, <2>1
<1> QED
  BY <1>5, <1>7, <1>8

-----------------------------------------------------------------------------
(* All edges of a node.                                                    *)

(* What holds before the first edge and is kept by each holds after all.   *)
LEMMA RelaxInduction ==
  ASSUME NEW top \in PQElements, NEW r, r = NodeEdgesRange(top.node, "OUT"), r \in Seq(CHEdge),
         NEW start \in States, start = [dists |-> dists, reset |-> reset_dists, queue |-> pq \ {top}],
         NEW P \in SUBSET (Nat \X States), <<0, start>> \in P,
         \A k \in 1..Len(r), st \in States :
           <<k - 1, st>> \in P => <<k, Relax(top, st, r[k])>> \in P
  PROVE  <<Len(r), RelaxAllEdges(top)>> \in P
<1>1. PICK st : /\ st[0] = start /\ st[Len(r)] = RelaxAllEdges(top)
                /\ \A k \in 1..Len(r) : st[k] = Relax(top, st[k - 1], r[k])
  BY RelaxOneByOne
<1> DEFINE S == {k \in Nat : k <= Len(r) => <<k, st[k]>> \in P}
<1>2. 0 \in S
  BY <1>1
<1>3. ASSUME NEW k \in Nat, k \in S PROVE k + 1 \in S
  <2> SUFFICES ASSUME k + 1 <= Len(r) PROVE <<k + 1, st[k + 1]>> \in P
    OBVIOUS
  <2>1. k + 1 \in 1..Len(r) /\ (k + 1) - 1 = k /\ k <= Len(r)
    OBVIOUS
  <2>2. <<k, st[k]>> \in P
    BY <1>3, <2>1
  <2>3. st[k] \in States
    BY <2>2
  <2>4. st[k + 1] = Relax(top, st[k], r[k + 1])
    BY <1>1, <2>1
  <2>5. \A j \in 1..Len(r), x \in States : <<j - 1, x>> \in P => <<j, Relax(top, x, r[j])>> \in P
    OBVIOUS
  <2>6. <<k + 1, Relax(top, st[k], r[k + 1])>> \in P
    BY <2>1, <2>2, <2>3, <2>5
  <2> QED
    BY <2>4, <2>6
<1> HIDE DEF S
<1>4. Nat \subseteq S
  BY <1>2, <1>3, NatSetInduction
<1>5. Len(r) \in Nat /\ Len(r) \in S
  BY <1>4
<1>6. <<Len(r), st[Len(r)]>> \in P
  BY <1>5 DEF S
<1> QED
  BY <1>1, <1>6

(* Every label that is set is listed for the next reset.                   *)
Listed(st) == \A n \in Nodes : st.dists[n] # NO_DIST => n \in st.reset

(* Relaxing the edges of a node lists what it changes.                     *)
LEMMA RelaxAllListed ==
  ASSUME NEW top \in PQElements, GraphKept, TypeOK, LabelsWillBeReset
  PROVE  RelaxAllEdges(top) \in States /\ Listed(RelaxAllEdges(top))
<1> DEFINE r == NodeEdgesRange(top.node, "OUT")
           start == [dists |-> dists, reset |-> reset_dists, queue |-> pq \ {top}]
           P == {p \in Nat \X States : Listed(p[2])}
<1>1. r \in Seq(CHEdge)
  BY EdgesOfNode DEF PQElements
<1>2. start \in States
  BY DEF States, TypeOK
<1>3. <<0, start>> \in P
  BY <1>2 DEF Listed, LabelsWillBeReset
<1>4. ASSUME NEW k \in 1..Len(r), NEW st \in States, <<k - 1, st>> \in P
      PROVE  <<k, Relax(top, st, r[k])>> \in P
  <2> DEFINE e == r[k]
  <2>1. e \in CHEdge /\ k \in Nat
    BY <1>1
  <2>2. Listed(st)
    BY <1>4
  <2> HIDE DEF e
  <2>3. Relax(top, st, e) \in States
    BY <2>1, RelaxType
  <2>4. st.dists \in [Nodes -> Uint]
    BY DEF States
  <2>5. Listed(Relax(top, st, e))
    BY <2>2, <2>4 DEF Listed, Relax, Remember
  <2> QED
    BY <2>1, <2>3, <2>5 DEF e
<1>5. P \in SUBSET (Nat \X States)
  OBVIOUS
<1> HIDE DEF r, start, P
<1>6. <<Len(r), RelaxAllEdges(top)>> \in P
  BY <1>1, <1>2, <1>3, <1>4, <1>5, RelaxInduction DEF r, start
<1> QED
  BY <1>6 DEF P

(* Relaxing the edges of the node settled last leads to a state of the     *)
(* search with all edges of the settled nodes relaxed.                     *)
LEMMA RelaxAllKeeps ==
  ASSUME GraphKept, TypeOK, Edges \in SUBSET CHEdge, NEW s \in Nodes, NEW W \in SUBSET Nodes,
         NEW top \in PQElements, top.node \in W, <<s, top.node, top.dist>> \in Distances(Edges),
         dists[top.node] = top.dist, \A n \in W : dists[n] <= top.dist,
         \A e \in Edges : e.src = top.node => top.dist + e.dist < NO_DIST,
         Frontier(Edges, s, W, dists, pq \ {top}, {e \in Edges : e.src \in W \ {top.node}})
  PROVE  LET R == RelaxAllEdges(top)
         IN  /\ Frontier(Edges, s, W, R.dists, R.queue, {e \in Edges : e.src \in W})
             /\ \A n \in W : R.dists[n] = dists[n]
<1> DEFINE r == NodeEdgesRange(top.node, "OUT")
           start == [dists |-> dists, reset |-> reset_dists, queue |-> pq \ {top}]
           Rel(k) == {e \in Edges : e.src \in W \ {top.node}} \cup {r[j] : j \in 1..k}
           P == {p \in Nat \X States :
                   p[1] <= Len(r) =>
                   /\ Frontier(Edges, s, W, p[2].dists, p[2].queue, Rel(p[1]))
                   /\ \A n \in W : p[2].dists[n] = dists[n]}
<1>1. /\ r \in Seq(CHEdge)
      /\ \A k \in 1..Len(r) : r[k] \in Edges /\ r[k].src = top.node
      /\ \A e \in Edges : e.src = top.node => \E k \in 1..Len(r) : r[k] = e
  <2>1. top.node \in Nodes /\ r = NodeEdgesRange(top.node, "OUT")
    BY DEF PQElements
  <2> HIDE DEF r
  <2> QED
    BY <2>1, EdgesOfNode
<1>2. start \in States
  BY DEF States, TypeOK
<1> HIDE DEF r
<1>3. <<0, start>> \in P
  <2>1. Rel(0) = {e \in Edges : e.src \in W \ {top.node}}
    OBVIOUS
  <2> HIDE DEF Rel
  <2> QED
    BY <1>2, <2>1
<1>4. ASSUME NEW k \in 1..Len(r), NEW st \in States, <<k - 1, st>> \in P
      PROVE  <<k, Relax(top, st, r[k])>> \in P
  <2> DEFINE e == r[k]
  <2>1. e \in CHEdge /\ e \in Edges /\ e.src = top.node /\ k \in Nat /\ k - 1 \in Nat
        /\ k - 1 <= Len(r)
    BY <1>1
  <2>2. Rel(k) = Rel(k - 1) \cup {e}
    <3>1. 1..k = (1..(k - 1)) \cup {k}
      OBVIOUS
    <3> QED
      BY <3>1
  <2>3. Rel(k - 1) \in SUBSET Edges /\ \A x \in Rel(k - 1) : x.src \in W
    BY <1>1
  <2> DEFINE Q == Rel(k - 1)
  <2> HIDE DEF e, Rel
  <2>4. /\ Frontier(Edges, s, W, st.dists, st.queue, Rel(k - 1))
        /\ \A n \in W : st.dists[n] = dists[n]
    BY <1>4, <2>1
  <2>5. Relax(top, st, e) \in States
    BY <2>1, RelaxType
  <2>6. st.dists[top.node] = top.dist /\ \A n \in W : st.dists[n] <= top.dist
    BY <2>4
  <2>7. top.dist + e.dist < NO_DIST
    BY <2>1
  <2>8. Q \in SUBSET Edges /\ (\A x \in Q : x.src \in W) /\ Frontier(Edges, s, W, st.dists, st.queue, Q)
    BY <2>3, <2>4
  <2> HIDE DEF Q, P, start
  <2>9. Frontier(Edges, s, W, Relax(top, st, e).dists, Relax(top, st, e).queue, Q \cup {e})
    BY <2>1, <2>6, <2>7, <2>8, RelaxKeeps
  <2>10. SameLabels(W, Relax(top, st, e).dists, st.dists)
    BY <2>1, <2>6, <2>7, <2>8, RelaxKeeps
  <2> QED
    BY <2>1, <2>2, <2>4, <2>5, <2>9, <2>10 DEF e, P, Q, SameLabels
<1>5. P \in SUBSET (Nat \X States)
  OBVIOUS
<1>6. Rel(Len(r)) = {e \in Edges : e.src \in W}
  BY <1>1
<1> HIDE DEF start, P, Rel
<1>7. <<Len(r), RelaxAllEdges(top)>> \in P
  BY <1>1, <1>2, <1>3, <1>4, <1>5, RelaxInduction DEF r, start
<1>8. Len(r) <= Len(r)
  BY <1>1
<1> QED
  BY <1>6, <1>7, <1>8 DEF P

-----------------------------------------------------------------------------
(* The steps.                                                              *)

(* A query starts with its source alone in the queue.                      *)
LEMMA SearchStarts ==
  ASSUME NEW E, E \in SUBSET CHEdge, NEW s \in Nodes, NEW fb, NEW ds,
         ds = [n \in Nodes |-> IF n = s THEN 0 ELSE NO_DIST]
  PROVE  /\ Settled(E, s, {}, ds, fb)
         /\ Frontier(E, s, {}, ds, {PQElement(s, NO_EID, 0)}, {e \in E : e.src \in {}})
         /\ PQElement(s, NO_EID, 0) \in PQElements
<1>1. NO_DIST \in Nat /\ NO_DIST # 0 /\ NO_EID \in Uint
  BY SizeAssumption DEF Nodes, NO_DIST, NO_EID, Uint
<1>2. \A v \in Nodes : AtMost(Distances(E), v, v, 0)
  <2>1. EdgeSet(E) /\ NrOfNodes \in Nat
    BY EdgeTypes, SizeAssumption
  <2> QED
    BY <2>1, DistancesAreDistances DEF DistancesBelow
<1> DEFINE x == PQElement(s, NO_EID, 0)
<1>3. x.node = s /\ x.dist = 0 /\ x.found_by = NO_EID
  BY DEF PQElement
<1>4. x \in PQElements
  BY <1>1 DEF PQElement, PQElements
<1>5. Settled(E, s, {}, ds, fb)
  BY DEF Settled
<1>6. {e \in E : e.src \in {}} = {}
  OBVIOUS
<1> HIDE DEF x
<1>7. Frontier(E, s, {}, ds, {x}, {})
  BY <1>1, <1>2, <1>3 DEF Frontier, Justified
<1> QED
  BY <1>4, <1>5, <1>6, <1>7 DEF x

(* The node of an up-to-date top is not settled yet.  When it is settled,  *)
(* only its edges are left to relax.                                       *)
LEMMA TopSettled ==
  ASSUME NEW E, E \in SUBSET CHEdge, NEW s \in Nodes, NEW W \in SUBSET Nodes,
         NEW ds \in [Nodes -> Uint], NEW queue \in SUBSET PQElements,
         Frontier(E, s, W, ds, queue, {e \in E : e.src \in W}),
         NEW top \in queue, \A o \in queue : top.dist <= o.dist, ds[top.node] = top.dist
  PROVE  /\ top.node \in Nodes \ W
         /\ Frontier(E, s, W \cup {top.node}, ds, queue \ {top},
                     {e \in E : e.src \in (W \cup {top.node}) \ {top.node}})
<1>1. top.node \in Nodes \ W
  BY DEF Frontier, PQElements
<1> DEFINE V == W \cup {top.node}
           rest == queue \ {top}
           relaxed == {e \in E : e.src \in W}
<1>3. {e \in E : e.src \in V \ {top.node}} = relaxed
  BY <1>1
<1>4. \A x \in rest : x \in queue /\ x # top
  OBVIOUS
<1>5. \A n \in V : n \in W \/ n = top.node
  OBVIOUS
<1>6. W \subseteq V /\ top.node \in V
  OBVIOUS
<1>7. Frontier(E, s, W, ds, queue, relaxed)
  OBVIOUS
<1> HIDE DEF V, rest, relaxed
<1>8. \A x \in rest : ds[x.node] <= x.dist
  BY <1>4, <1>7 DEF Frontier
<1>9. \A x, y \in rest : x.node = y.node /\ x.dist = y.dist => x = y
  BY <1>4, <1>7 DEF Frontier
<1>10. ASSUME NEW n \in Nodes \ V, ds[n] # NO_DIST PROVE \E x \in rest : x.node = n /\ x.dist = ds[n]
  <2>1. PICK x \in queue : x.node = n /\ x.dist = ds[n]
    BY <1>6, <1>7, <1>10 DEF Frontier
  <2>2. x # top
    BY <1>6, <2>1
  <2> QED
    BY <2>1, <2>2 DEF rest
<1>11. ASSUME NEW n \in V, NEW x \in rest PROVE ds[n] <= x.dist /\ (x.node = n => ds[n] # x.dist)
  <2>1. CASE n \in W
    BY <1>4, <1>7, <2>1 DEF Frontier
  <2>2. CASE n = top.node
    <3>1. ds[n] <= x.dist
      BY <1>4, <2>2
    <3>2. x.node = top.node => x.dist # top.dist
      BY <1>4, <1>7 DEF Frontier
    <3> QED
      BY <2>2, <3>1, <3>2
  <2> QED
    BY <1>5, <2>1, <2>2
<1>12. \A e \in relaxed : ds[e.tgt] <= ds[e.src] + e.dist
  BY <1>7 DEF Frontier
<1>13. \A n \in Nodes : ds[n] # NO_DIST => AtMost(Distances(E), s, n, ds[n])
  BY <1>7 DEF Frontier
<1>14. ASSUME NEW x \in rest PROVE Justified(E, s, V, ds, x.node, x.found_by, x.dist)
  <2>1. Justified(E, s, W, ds, x.node, x.found_by, x.dist)
    BY <1>4, <1>7 DEF Frontier
  <2> QED
    BY <1>6, <2>1 DEF Justified
<1>15. Frontier(E, s, V, ds, rest, relaxed)
  BY <1>8, <1>9, <1>10, <1>11, <1>12, <1>13, <1>14 DEF Frontier
<1> QED
  BY <1>1, <1>3, <1>15 DEF V, rest

(* An outdated element of the queue is of no use.                          *)
LEMMA OutdatedTop ==
  ASSUME NEW E, NEW s, NEW W \in SUBSET Nodes, NEW ds, NEW queue, NEW R,
         Frontier(E, s, W, ds, queue, R), NEW top \in queue, ds[top.node] # top.dist
  PROVE  Frontier(E, s, W, ds, queue \ {top}, R)
<1> DEFINE rest == queue \ {top}
<1>1. \A x \in rest : x \in queue
  OBVIOUS
<1>2. ASSUME NEW n \in Nodes \ W, ds[n] # NO_DIST PROVE \E x \in rest : x.node = n /\ x.dist = ds[n]
  <2>1. PICK x \in queue : x.node = n /\ x.dist = ds[n]
    BY <1>2 DEF Frontier
  <2> QED
    BY <2>1
<1> HIDE DEF rest
<1>3. Frontier(E, s, W, ds, rest, R)
  BY <1>1, <1>2 DEF Frontier
<1> QED
  BY <1>3 DEF rest

(* The labels of the nodes settled stay distances when one more is settled.*)
LEMMA SettledGrows ==
  ASSUME NEW E, NEW s \in Nodes, NEW W \in SUBSET Nodes, NEW ds \in [Nodes -> Uint],
         NEW fb \in [Nodes -> Uint], Settled(E, s, W, ds, fb),
         NEW n \in Nodes, n \notin W, NEW id, <<s, n, ds[n]>> \in Distances(E), ds[n] < NO_DIST,
         Justified(E, s, W, ds, n, id, ds[n]),
         NEW nds, SameLabels(W \cup {n}, nds, ds)
  PROVE  Settled(E, s, W \cup {n}, nds, [fb EXCEPT ![n] = id])
<1> DEFINE V == W \cup {n}
           nfb == [fb EXCEPT ![n] = id]
<1>1. s \in V
  BY DEF Settled, Justified
<1>2. \A v \in V : nds[v] = ds[v]
  BY DEF SameLabels
<1>3. nds[s] = 0
  BY <1>1, <1>2 DEF Settled
<1>4. ASSUME NEW v \in V
      PROVE  /\ nds[v] < NO_DIST /\ <<s, v, nds[v]>> \in Distances(E)
             /\ Justified(E, s, V, nds, v, nfb[v], nds[v])
  <2>1. ds[v] < NO_DIST /\ <<s, v, ds[v]>> \in Distances(E)
    BY DEF Settled
  <2>2. Justified(E, s, W, ds, v, nfb[v], ds[v])
    BY DEF Settled
  <2>3. W \subseteq V
    OBVIOUS
  <2> HIDE DEF V, nfb
  <2>4. Justified(E, s, V, nds, v, nfb[v], ds[v])
    BY <1>2, <2>2, <2>3 DEF Justified
  <2> QED
    BY <1>2, <2>1, <2>4
<1> QED
  BY <1>1, <1>3, <1>4 DEF Settled

-----------------------------------------------------------------------------
(* The invariant.                                                          *)

(* What the types of the parts are in every state.                         *)
LEMMA GraphTypes ==
  ASSUME GraphKept
  PROVE  Edges \in SUBSET CHEdge /\ (LengthsFit => Fits(Edges))
<1>1. IsInputGraph(out_edges)
  BY InputAssumption DEF GraphKept
<1>2. out_edges \in Seq(CHEdge)
  BY <1>1 DEF IsInputGraph
<1>3. Edges \in SUBSET CHEdge
  BY <1>2 DEF Edges
<1>4. LengthsFit => Fits(Edges)
  BY DEF LengthsFit, Fits, Edges, GraphKept
<1> QED
  BY <1>3, <1>4

(* The invariant holds before the first query.                             *)
LEMMA InitInv ==
  ASSUME Init
  PROVE  IInv
<1>1. TypeOK
  BY SizeAssumption DEF Init, TypeOK, Uint, NO_DIST
<1>2. GraphKept
  BY DEF Init, GraphInit, VectorsInit, GraphKept
<1>3. LabelsWillBeReset
  BY DEF Init, LabelsWillBeReset
<1>4. SearchInv /\ WalkInv /\ BacktrackInv
  BY DEF Init, SearchInv, WalkInv, BacktrackInv
<1> QED
  BY <1>1, <1>2, <1>3, <1>4 DEF Init, IInv, PlainInv, QueryInv

(* A new query keeps the types, the graph and the list of labels to reset. *)
LEMMA CalcShopaPlain ==
  ASSUME PlainInv, NEW src \in Nodes, NEW tgt \in Nodes, CalcShopa(src, tgt)
  PROVE  PlainInv' /\ dists' = [n \in Nodes |-> IF n = src THEN 0 ELSE NO_DIST]
<1>1. GraphKept'
  BY DEF PlainInv, GraphKept, CalcShopa, all_graph_vars, graph_vars, vector_vars
<1>2. \A n \in Nodes : dists[n] # NO_DIST => n \in reset_dists
  BY DEF PlainInv, LabelsWillBeReset
<1>3. dists \in [Nodes -> Uint]
  BY DEF PlainInv, TypeOK
<1>4. ResetDists = [n \in Nodes |-> NO_DIST]
  BY <1>2, <1>3 DEF ResetDists
<1>5. dists' = [n \in Nodes |-> IF n = src THEN 0 ELSE NO_DIST]
  BY <1>4 DEF CalcShopa
<1>6. dists' \in [Nodes -> Uint] /\ NO_EID \in Uint
  BY <1>5, SizeAssumption DEF Uint, NO_DIST, NO_EID
<1>7. PQElement(src, NO_EID, 0) \in PQElements
  BY <1>6, SizeAssumption DEF PQElement, PQElements, Nodes, NO_DIST
<1>8. TypeOK'
  BY <1>6, <1>7 DEF PlainInv, TypeOK, CalcShopa
<1>9. LabelsWillBeReset'
  BY <1>5 DEF LabelsWillBeReset, CalcShopa
<1> QED
  BY <1>1, <1>5, <1>8, <1>9 DEF PlainInv

(* So does a step of the search.                                           *)
LEMMA SearchStepPlain ==
  ASSUME PlainInv, SearchStep
  PROVE  PlainInv'
<1>1. GraphKept'
  BY DEF PlainInv, GraphKept, SearchStep, all_graph_vars, graph_vars, vector_vars
<1>2. PICK top \in Tops :
        IF dists[top.node] = top.dist
        THEN /\ found_by' = [found_by EXCEPT ![top.node] = top.found_by]
             /\ dists' = RelaxAllEdges(top).dists
             /\ reset_dists' = RelaxAllEdges(top).reset
             /\ pq' = RelaxAllEdges(top).queue
        ELSE /\ pq' = pq \ {top}
             /\ UNCHANGED labels
  BY DEF SearchStep
<1>3. top \in PQElements
  BY DEF Tops, PlainInv, TypeOK
<1>4. UNCHANGED <<task, ends, answer>>
  BY DEF SearchStep, walk_vars
<1>5. CASE dists[top.node] = top.dist
  <2>1. RelaxAllEdges(top) \in States /\ Listed(RelaxAllEdges(top))
    BY <1>3, RelaxAllListed DEF PlainInv
  <2> DEFINE R == RelaxAllEdges(top)
  <2>2. dists' = R.dists /\ reset_dists' = R.reset /\ pq' = R.queue
    BY <1>2, <1>5
  <2>3. found_by' \in [Nodes -> Uint]
    BY <1>2, <1>3, <1>5 DEF PlainInv, TypeOK, PQElements
  <2> HIDE DEF R
  <2>4. TypeOK'
    BY <1>4, <2>1, <2>2, <2>3 DEF PlainInv, TypeOK, States, R
  <2>5. LabelsWillBeReset'
    BY <2>1, <2>2 DEF LabelsWillBeReset, Listed, R
  <2> QED
    BY <1>1, <2>4, <2>5 DEF PlainInv
<1>6. CASE dists[top.node] # top.dist
  <2>1. pq' = pq \ {top} /\ UNCHANGED <<found_by, dists, reset_dists>>
    BY <1>2, <1>6 DEF labels
  <2>2. TypeOK'
    BY <1>4, <2>1 DEF PlainInv, TypeOK
  <2>3. LabelsWillBeReset'
    BY <2>1 DEF PlainInv, LabelsWillBeReset
  <2> QED
    BY <1>1, <2>2, <2>3 DEF PlainInv
<1> QED
  BY <1>5, <1>6

(* And so do the other steps.                                              *)
LEMMA OtherStepsPlain ==
  ASSUME PlainInv, NoPathFound \/ TargetReached \/ Backtrack \/ PathFound \/ UNCHANGED vars
  PROVE  PlainInv'
<1>1. UNCHANGED <<out_edges, out_offsets, id_to_index, dists, reset_dists, pq, ends>>
  BY DEF NoPathFound, TargetReached, Backtrack, PathFound, vars, all_graph_vars, graph_vars,
         vector_vars, labels
<1>2. GraphKept' /\ LabelsWillBeReset'
  BY <1>1 DEF PlainInv, GraphKept, LabelsWillBeReset
<1>3. ASSUME NoPathFound PROVE TypeOK'
  BY <1>1, <1>3, SizeAssumption DEF PlainInv, TypeOK, NoPathFound, labels, walk_vars, Uint, NO_DIST
<1>4. ASSUME TargetReached PROVE TypeOK'
  <2>1. PICK top \in pq : found_by' = [found_by EXCEPT ![ends[2]] = top.found_by] /\ answer' = top.dist
    BY <1>4 DEF TargetReached, TargetFoundBy, Tops
  <2>2. top.found_by \in Uint /\ top.dist \in Uint
    BY SizeAssumption DEF PlainInv, TypeOK, PQElements, Uint, NO_DIST
  <2>3. found_by' \in [Nodes -> Uint]
    BY <2>1, <2>2 DEF PlainInv, TypeOK
  <2> QED
    BY <1>1, <1>4, <2>1, <2>2, <2>3 DEF PlainInv, TypeOK, TargetReached
<1>5. ASSUME Backtrack PROVE TypeOK'
  BY <1>1, <1>5 DEF PlainInv, TypeOK, Backtrack, labels
<1>6. ASSUME PathFound PROVE TypeOK'
  BY <1>1, <1>6 DEF PlainInv, TypeOK, PathFound, labels, walk_vars
<1>7. ASSUME UNCHANGED vars PROVE TypeOK'
  BY <1>7 DEF PlainInv, TypeOK, vars, labels, walk_vars
<1> QED
  BY <1>2, <1>3, <1>4, <1>5, <1>6, <1>7 DEF PlainInv

(* Without any assumption on the lengths: a query starts with clean labels.*)
THEOREM CleanLabels == Spec => []LabelsWillBeReset
<1>1. Init => PlainInv
  BY InitInv DEF IInv, PlainInv
<1>2. PlainInv /\ [Next]_vars => PlainInv'
  <2> SUFFICES ASSUME PlainInv, [Next]_vars PROVE PlainInv'
    OBVIOUS
  <2>1. CASE AskQuery
    BY <2>1, CalcShopaPlain DEF AskQuery
  <2>2. CASE SearchStep
    BY <2>2, SearchStepPlain
  <2>3. CASE NoPathFound \/ TargetReached \/ Backtrack \/ PathFound \/ UNCHANGED vars
    BY <2>3, OtherStepsPlain
  <2> QED
    BY <2>1, <2>2, <2>3 DEF Next, AnswerQuery
<1>3. PlainInv => LabelsWillBeReset
  BY DEF PlainInv
<1> QED
  BY <1>1, <1>2, <1>3, PTL DEF Spec

(* An edge found by its id does not change with the graph unchanged.       *)
LEMMA EdgesStay ==
  ASSUME UNCHANGED all_graph_vars
  PROVE  Edges' = Edges /\ \A id : GetEdge(id)' = GetEdge(id)
BY DEF Edges, GetEdge, all_graph_vars, graph_vars, vector_vars

(* A new query starts a search.                                            *)
LEMMA CalcShopaInv ==
  ASSUME PlainInv, NEW src \in Nodes, NEW tgt \in Nodes, CalcShopa(src, tgt)
  PROVE  QueryInv'
<1>1. dists' = [n \in Nodes |-> IF n = src THEN 0 ELSE NO_DIST]
  BY CalcShopaPlain
<1>2. /\ task' = "search" /\ ends' = <<src, tgt>> /\ pq' = {PQElement(src, NO_EID, 0)}
      /\ path' = <<>> /\ found_by' = found_by /\ UNCHANGED all_graph_vars
  BY DEF CalcShopa
<1>3. Edges' = Edges /\ Edges \in SUBSET CHEdge
  BY <1>2, EdgesStay, GraphTypes DEF PlainInv
<1>4. PICK E : E = Edges
  OBVIOUS
<1>5. PICK ds : ds = dists'
  OBVIOUS
<1>6. PICK fb : fb = found_by'
  OBVIOUS
<1>7. /\ Settled(E, src, {}, ds, fb)
      /\ Frontier(E, src, {}, ds, {PQElement(src, NO_EID, 0)}, {e \in E : e.src \in {}})
  BY <1>1, <1>3, <1>4, <1>5, SearchStarts
<1>8. SearchInv'
  <2>1. {} \in SUBSET Nodes /\ ends'[2] \notin {} /\ ends'[1] = src
    BY <1>2
  <2>2. Settled(Edges', ends'[1], {}, dists', found_by')
    BY <1>3, <1>4, <1>5, <1>6, <1>7, <2>1
  <2>3. Frontier(Edges', ends'[1], {}, dists', pq', {e \in Edges' : e.src \in {}})
    BY <1>2, <1>3, <1>4, <1>5, <1>7, <2>1
  <2> QED
    BY <1>2, <2>1, <2>2, <2>3 DEF SearchInv
<1>9. WalkInv' /\ BacktrackInv' /\ (task' = "answered" => FALSE)
  BY <1>2 DEF WalkInv, BacktrackInv
<1> QED
  BY <1>8, <1>9 DEF QueryInv

(* A step of the search settles one more node or drops an element.         *)
LEMMA SearchStepInv ==
  ASSUME PlainInv, QueryInv, LengthsFit, SearchStep
  PROVE  QueryInv'
<1>1. /\ task = "search" /\ UNCHANGED <<all_graph_vars, task, ends, path>>
  BY DEF SearchStep, walk_vars
<1>2. PICK top \in Tops :
        /\ top.node # ends[2]
        /\ IF dists[top.node] = top.dist
           THEN /\ found_by' = [found_by EXCEPT ![top.node] = top.found_by]
                /\ dists' = RelaxAllEdges(top).dists
                /\ reset_dists' = RelaxAllEdges(top).reset
                /\ pq' = RelaxAllEdges(top).queue
           ELSE /\ pq' = pq \ {top}
                /\ UNCHANGED labels
  BY DEF SearchStep
<1>3. /\ path = <<>>
      /\ \E W \in SUBSET Nodes :
           /\ ends[2] \notin W
           /\ Settled(Edges, ends[1], W, dists, found_by)
           /\ Frontier(Edges, ends[1], W, dists, pq, {e \in Edges : e.src \in W})
  BY <1>1 DEF QueryInv, SearchInv
<1>4. PICK W \in SUBSET Nodes :
        /\ ends[2] \notin W
        /\ Settled(Edges, ends[1], W, dists, found_by)
        /\ Frontier(Edges, ends[1], W, dists, pq, {e \in Edges : e.src \in W})
  BY <1>3
<1>5. Edges' = Edges /\ Edges \in SUBSET CHEdge /\ Fits(Edges)
  BY <1>1, EdgesStay, GraphTypes DEF PlainInv
<1>6. /\ ends \in Nodes \X Nodes /\ pq \in SUBSET PQElements
      /\ dists \in [Nodes -> Uint] /\ found_by \in [Nodes -> Uint]
  BY <1>1 DEF PlainInv, TypeOK
<1>7. PICK s \in Nodes : s = ends[1]
  BY <1>6
<1>8. /\ top \in pq /\ top \in PQElements /\ top.node \in Nodes
      /\ \A o \in pq : top.dist <= o.dist
  BY <1>6 DEF Tops, PQElements
<1>9. /\ Settled(Edges, s, W, dists, found_by)
      /\ Frontier(Edges, s, W, dists, pq, {e \in Edges : e.src \in W})
  BY <1>4, <1>7
<1>10. SearchInv'
  <2>1. CASE dists[top.node] = top.dist
    <3> DEFINE V == W \cup {top.node}
    <3>1. /\ top.node \in Nodes \ W /\ \A n \in W : dists[n] <= top.dist
          /\ Frontier(Edges, s, V, dists, pq \ {top}, {e \in Edges : e.src \in V \ {top.node}})
      <4>1. top.node \in Nodes \ W
        BY <1>8, <1>9, <2>1 DEF Frontier
      <4>2. Frontier(Edges, s, V, dists, pq \ {top}, {e \in Edges : e.src \in V \ {top.node}})
        BY <1>5, <1>6, <1>8, <1>9, <2>1, TopSettled
      <4>3. \A n \in W : dists[n] <= top.dist
        BY <1>8, <1>9 DEF Frontier
      <4> QED
        BY <4>1, <4>2, <4>3
    <3>2. <<s, top.node, top.dist>> \in Distances(Edges)
      BY <1>5, <1>6, <1>8, <1>9, <3>1, TopIsExact
    <3>3. V \in SUBSET Nodes /\ top.node \in V /\ ends[2] \notin V
      BY <1>2, <1>4, <1>8
    <3>4. top.dist \in Nat /\ top.dist < NO_DIST
      BY <1>8, SizeAssumption DEF PQElements, NO_DIST
    <3>5. \A n \in V : dists[n] <= top.dist
      BY <2>1, <3>1, <3>4
    <3>6. \A e \in Edges : e.src = top.node => top.dist + e.dist < NO_DIST
      BY <1>5, <3>2 DEF Fits
    <3> HIDE DEF V
    <3>7. /\ Frontier(Edges, s, V, RelaxAllEdges(top).dists, RelaxAllEdges(top).queue,
                      {e \in Edges : e.src \in V})
          /\ \A n \in V : RelaxAllEdges(top).dists[n] = dists[n]
      BY <1>5, <1>8, <2>1, <3>1, <3>2, <3>3, <3>5, <3>6, RelaxAllKeeps DEF PlainInv
    <3>8. dists' = RelaxAllEdges(top).dists /\ pq' = RelaxAllEdges(top).queue
          /\ found_by' = [found_by EXCEPT ![top.node] = top.found_by]
      BY <1>2, <2>1
    <3>9. SameLabels(V, dists', dists)
      BY <3>7, <3>8 DEF SameLabels
    <3>10. Justified(Edges, s, W, dists, top.node, top.found_by, dists[top.node])
      BY <1>8, <1>9, <2>1 DEF Frontier
    <3>11. PICK nds : nds = dists'
      OBVIOUS
    <3>12. SameLabels(W \cup {top.node}, nds, dists)
      BY <3>9, <3>11 DEF V
    <3>13. dists[top.node] < NO_DIST /\ <<s, top.node, dists[top.node]>> \in Distances(Edges)
          /\ top.node \notin W
      BY <2>1, <3>1, <3>2, <3>4
    <3>14. Settled(Edges, s, W \cup {top.node}, nds, [found_by EXCEPT ![top.node] = top.found_by])
      BY <1>6, <1>8, <1>9, <3>10, <3>12, <3>13, SettledGrows
    <3>15. Settled(Edges', ends'[1], V, dists', found_by')
      BY <1>1, <1>5, <1>7, <3>8, <3>11, <3>14 DEF V
    <3>16. Frontier(Edges', ends'[1], V, dists', pq', {e \in Edges' : e.src \in V})
      BY <1>1, <1>5, <1>7, <3>7, <3>8
    <3> QED
      BY <1>1, <1>3, <3>3, <3>15, <3>16 DEF SearchInv
  <2>2. CASE dists[top.node] # top.dist
    <3>1. pq' = pq \ {top} /\ UNCHANGED <<found_by, dists>>
      BY <1>2, <2>2 DEF labels
    <3>2. Frontier(Edges, s, W, dists, pq \ {top}, {e \in Edges : e.src \in W})
      BY <1>8, <1>9, <2>2, OutdatedTop
    <3>3. Settled(Edges', ends'[1], W, dists', found_by')
      BY <1>1, <1>4, <1>5, <3>1
    <3>4. Frontier(Edges', ends'[1], W, dists', pq', {e \in Edges' : e.src \in W})
      BY <1>1, <1>5, <1>7, <3>1, <3>2
    <3> QED
      BY <1>1, <1>3, <1>4, <3>3, <3>4 DEF SearchInv
  <2> QED
    BY <2>1, <2>2
<1> QED
  BY <1>1, <1>10 DEF QueryInv, WalkInv, BacktrackInv

(* The target has its distance when it is on top of the queue.             *)
LEMMA TargetReachedInv ==
  ASSUME PlainInv, QueryInv, LengthsFit, TargetReached
  PROVE  QueryInv'
<1>1. /\ task = "search" /\ task' = "backtrack" /\ bt_node' = ends[2]
      /\ UNCHANGED <<all_graph_vars, ends, dists, path>>
  BY DEF TargetReached
<1>2. PICK top \in Tops :
        /\ top.node = ends[2] /\ answer' = top.dist
        /\ found_by' = [found_by EXCEPT ![ends[2]] = top.found_by]
  BY DEF TargetReached, TargetFoundBy
<1>3. /\ path = <<>>
      /\ \E W \in SUBSET Nodes :
           /\ ends[2] \notin W
           /\ Settled(Edges, ends[1], W, dists, found_by)
           /\ Frontier(Edges, ends[1], W, dists, pq, {e \in Edges : e.src \in W})
  BY <1>1 DEF QueryInv, SearchInv
<1>4. PICK W \in SUBSET Nodes :
        /\ ends[2] \notin W
        /\ Settled(Edges, ends[1], W, dists, found_by)
        /\ Frontier(Edges, ends[1], W, dists, pq, {e \in Edges : e.src \in W})
  BY <1>3
<1>5. Edges' = Edges /\ Edges \in SUBSET CHEdge /\ Fits(Edges)
  BY <1>1, EdgesStay, GraphTypes DEF PlainInv
<1>6. /\ ends \in Nodes \X Nodes /\ pq \in SUBSET PQElements
      /\ dists \in [Nodes -> Uint] /\ found_by \in [Nodes -> Uint]
  BY <1>1 DEF PlainInv, TypeOK
<1>7. PICK s \in Nodes : s = ends[1]
  BY <1>6
<1>8. top \in pq /\ \A o \in pq : top.dist <= o.dist
  BY DEF Tops
<1>9. /\ Settled(Edges, s, W, dists, found_by)
      /\ Frontier(Edges, s, W, dists, pq, {e \in Edges : e.src \in W})
  BY <1>4, <1>7
<1>10. <<s, top.node, top.dist>> \in Distances(Edges) /\ dists[top.node] = top.dist
  BY <1>2, <1>4, <1>5, <1>6, <1>8, <1>9, TopIsExact
<1>11. dists[s] = 0
  BY <1>9 DEF Settled
<1>12. WalkInv'
  <2>1. path' = <<>> /\ DOMAIN path' = {} /\ path' \in Seq(Uint)
    BY <1>1, <1>3
  <2>2. <<ends'[1], ends'[2], answer'>> \in Distances(Edges')
    BY <1>1, <1>2, <1>5, <1>7, <1>10
  <2>3. dists'[ends'[1]] = 0 /\ dists'[ends'[2]] = answer'
    BY <1>1, <1>2, <1>7, <1>10, <1>11
  <2> QED
    BY <1>1, <2>1, <2>2, <2>3 DEF WalkInv
<1>13. BacktrackInv'
  <2>1. Settled(Edges, s, W, dists, found_by')
    BY <1>2, <1>4, <1>6, <1>9 DEF Settled
  <2>2. Justified(Edges, s, W, dists, ends[2], top.found_by, top.dist)
    BY <1>2, <1>8, <1>9 DEF Frontier
  <2>3. found_by'[ends[2]] = top.found_by
    BY <1>2, <1>6
  <2>4. Settled(Edges', ends'[1], W, dists', found_by')
    BY <1>1, <1>5, <1>7, <2>1
  <2>5. Justified(Edges', ends'[1], W, dists', ends'[2], found_by'[ends'[2]], answer')
    BY <1>1, <1>2, <1>5, <1>7, <2>2, <2>3
  <2> QED
    BY <1>1, <2>4, <2>5 DEF BacktrackInv
<1> QED
  BY <1>1, <1>12, <1>13 DEF QueryInv, SearchInv

(* The walk back follows an edge the search found its node by.             *)
LEMMA BacktrackStepInv ==
  ASSUME PlainInv, QueryInv, Backtrack
  PROVE  QueryInv'
<1>1. /\ task = "backtrack" /\ task' = "backtrack" /\ bt_node # ends[1]
      /\ bt_node' = GetEdge(found_by[bt_node]).src
      /\ path' = Append(path, found_by[bt_node])
      /\ UNCHANGED <<all_graph_vars, ends, found_by, dists, answer>>
  BY DEF Backtrack, labels
<1>2. WalkInv /\ BacktrackInv /\ GraphKept /\ ends \in Nodes \X Nodes
      /\ found_by \in [Nodes -> Uint] /\ dists \in [Nodes -> Uint]
  BY <1>1 DEF QueryInv, PlainInv, TypeOK
<1>3. PICK W \in SUBSET Nodes :
        /\ Settled(Edges, ends[1], W, dists, found_by)
        /\ Justified(Edges, ends[1], W, dists, ends[2], found_by[ends[2]], answer)
        /\ bt_node = ends[2] \/ bt_node \in W
  BY <1>1, <1>2 DEF BacktrackInv
<1>4. /\ path \in Seq(Uint)
      /\ <<ends[1], ends[2], answer>> \in Distances(Edges)
      /\ dists[ends[1]] = 0 /\ dists[ends[2]] = answer
      /\ \A k \in DOMAIN path :
           LET e == GetEdge(path[k])
           IN  /\ e \in Edges
               /\ e.tgt = IF k = 1 THEN ends[2] ELSE GetEdge(path[k - 1]).src
               /\ dists[e.src] + e.dist = dists[e.tgt]
      /\ bt_node = IF path = <<>> THEN ends[2] ELSE GetEdge(path[Len(path)]).src
  BY <1>1, <1>2 DEF WalkInv
<1>5. bt_node \in Nodes /\ Justified(Edges, ends[1], W, dists, bt_node, found_by[bt_node], dists[bt_node])
  <2>1. CASE bt_node = ends[2]
    BY <1>2, <1>3, <1>4, <2>1
  <2>2. CASE bt_node \in W
    BY <1>3, <2>2 DEF Settled
  <2> QED
    BY <1>3, <2>1, <2>2
<1>6. PICK e \in Edges : /\ e.id = found_by[bt_node] /\ e.tgt = bt_node /\ e.src \in W
                         /\ dists[e.src] + e.dist = dists[bt_node]
  BY <1>1, <1>5 DEF Justified
<1>7. GetEdge(found_by[bt_node]) = e
  BY <1>2, <1>6, EdgeFound
<1>8. Edges' = Edges /\ \A id : GetEdge(id)' = GetEdge(id)
  BY <1>1, EdgesStay
<1> DEFINE n == Len(path)
<1>9. /\ n \in Nat /\ DOMAIN path = 1..n /\ DOMAIN path' = 1..(n + 1) /\ path' \in Seq(Uint)
      /\ Len(path') = n + 1 /\ path' # <<>>
      /\ path'[n + 1] = found_by[bt_node] /\ \A k \in 1..n : path'[k] = path[k]
  <2>1. found_by[bt_node] \in Uint
    BY <1>2, <1>5
  <2> QED
    BY <1>1, <1>4, <2>1
<1> DEFINE Edge(k) == GetEdge(path'[k])
<1>10. ASSUME NEW k \in 1..(n + 1)
       PROVE  /\ Edge(k) \in Edges
              /\ Edge(k).tgt = IF k = 1 THEN ends[2] ELSE Edge(k - 1).src
              /\ dists[Edge(k).src] + Edge(k).dist = dists[Edge(k).tgt]
  <2>1. CASE k \in 1..n
    <3>1. path'[k] = path[k] /\ (k # 1 => path'[k - 1] = path[k - 1])
      <4>1. k # 1 => k - 1 \in 1..n
        BY <1>9, <2>1
      <4> QED
        BY <1>9, <2>1, <4>1
    <3>2. k \in DOMAIN path
      BY <1>9, <2>1
    <3>3. /\ GetEdge(path[k]) \in Edges
          /\ GetEdge(path[k]).tgt = IF k = 1 THEN ends[2] ELSE GetEdge(path[k - 1]).src
          /\ dists[GetEdge(path[k]).src] + GetEdge(path[k]).dist = dists[GetEdge(path[k]).tgt]
      BY <1>4, <3>2
    <3> QED
      BY <3>1, <3>3
  <2>2. CASE k = n + 1
    <3>1. Edge(k) = e
      BY <1>7, <1>9, <2>2
    <3>2. bt_node = IF k = 1 THEN ends[2] ELSE Edge(k - 1).src
      <4>1. CASE k = 1
        <5>1. path = <<>>
          BY <1>4, <1>9, <2>2, <4>1
        <5> QED
          BY <1>4, <4>1, <5>1
      <4>2. CASE k # 1
        <5>1. n \in 1..n /\ k - 1 = n /\ path # <<>>
          BY <1>9, <2>2, <4>2
        <5>2. path'[k - 1] = path[n]
          BY <1>9, <5>1
        <5> QED
          BY <1>4, <4>2, <5>1, <5>2
      <4> QED
        BY <4>1, <4>2
    <3> QED
      BY <1>6, <3>1, <3>2
  <2> QED
    BY <1>9, <2>1, <2>2
<1>11. WalkInv'
  <2>1. \A k \in DOMAIN path' :
          LET x == GetEdge(path[k])'
          IN  /\ x \in Edges'
              /\ x.tgt = IF k = 1 THEN ends'[2] ELSE GetEdge(path[k - 1])'.src
              /\ dists'[x.src] + x.dist = dists'[x.tgt]
    BY <1>1, <1>8, <1>9, <1>10 DEF GetEdge, all_graph_vars, graph_vars, vector_vars
  <2>2. bt_node' = GetEdge(path[Len(path)])'.src
    BY <1>1, <1>9 DEF GetEdge, all_graph_vars, graph_vars, vector_vars
  <2>3. /\ <<ends'[1], ends'[2], answer'>> \in Distances(Edges')
        /\ dists'[ends'[1]] = 0 /\ dists'[ends'[2]] = answer'
    BY <1>1, <1>4, <1>8
  <2> QED
    BY <1>9, <2>1, <2>2, <2>3 DEF WalkInv
<1>12. BacktrackInv'
  <2>1. Settled(Edges', ends'[1], W, dists', found_by')
    BY <1>1, <1>3, <1>8
  <2>2. Justified(Edges', ends'[1], W, dists', ends'[2], found_by'[ends'[2]], answer')
    BY <1>1, <1>3, <1>8
  <2>3. bt_node' \in W
    BY <1>1, <1>6, <1>7
  <2> QED
    BY <2>1, <2>2, <2>3 DEF BacktrackInv
<1> QED
  BY <1>1, <1>11, <1>12 DEF QueryInv, SearchInv

(* The other steps leave what was found as it is.                          *)
LEMMA LastStepsInv ==
  ASSUME PlainInv, QueryInv, NoPathFound \/ PathFound \/ UNCHANGED vars
  PROVE  QueryInv'
<1>1. UNCHANGED <<out_edges, id_to_index, ends, pq, found_by, dists, bt_node, path>>
  BY DEF NoPathFound, PathFound, vars, all_graph_vars, graph_vars, vector_vars, labels, walk_vars
<1>2. ASSUME NoPathFound PROVE QueryInv'
  BY <1>2 DEF NoPathFound, QueryInv, SearchInv, WalkInv, BacktrackInv
<1>3. ASSUME PathFound PROVE QueryInv'
  BY <1>1, <1>3 DEF PathFound, QueryInv, SearchInv, WalkInv, BacktrackInv, Edges, GetEdge
<1>4. ASSUME UNCHANGED vars PROVE QueryInv'
  <2>1. UNCHANGED <<task, answer>>
    BY <1>4 DEF vars
  <2>2. SearchInv' /\ BacktrackInv'
    BY <1>1, <2>1 DEF QueryInv, SearchInv, BacktrackInv, Edges
  <2>3. WalkInv' /\ (task' = "answered" /\ answer' # NO_DIST => bt_node' = ends'[1])
    BY <1>1, <2>1 DEF QueryInv, WalkInv, Edges, GetEdge
  <2> QED
    BY <2>2, <2>3 DEF QueryInv
<1> QED
  BY <1>2, <1>3, <1>4

(* The invariant of the queries whose lengths fit.                         *)
LEMMA Invariance ==
  ASSUME LengthsFit
  PROVE  Spec => []IInv
<1>1. Init => IInv
  BY InitInv
<1>2. IInv /\ [Next]_vars => IInv'
  <2> SUFFICES ASSUME PlainInv, QueryInv, [Next]_vars PROVE PlainInv' /\ QueryInv'
    BY DEF IInv
  <2>1. CASE AskQuery
    BY <2>1, CalcShopaPlain, CalcShopaInv DEF AskQuery
  <2>2. CASE SearchStep
    BY <2>2, SearchStepPlain, SearchStepInv
  <2>3. CASE TargetReached
    BY <2>3, OtherStepsPlain, TargetReachedInv
  <2>4. CASE Backtrack
    BY <2>4, OtherStepsPlain, BacktrackStepInv
  <2>5. CASE NoPathFound \/ PathFound \/ UNCHANGED vars
    BY <2>5, OtherStepsPlain, LastStepsInv
  <2> QED
    BY <2>1, <2>2, <2>3, <2>4, <2>5 DEF Next, AnswerQuery
<1> QED
  BY <1>1, <1>2, PTL DEF Spec

-----------------------------------------------------------------------------
(* What the queries return.                                                *)

(* The path of a reply leads from the source to the target and is as long  *)
(* as the reply says.                                                      *)
LEMMA PathOfReply ==
  ASSUME IInv, task = "answered", answer # NO_DIST
  PROVE  PathsLead
<1> DEFINE n == Len(path)
           walk == [i \in DOMAIN path |-> GetEdge(Reverse(path)[i])]
<1>1. /\ path \in Seq(Uint)
      /\ dists[ends[1]] = 0 /\ dists[ends[2]] = answer
      /\ \A k \in DOMAIN path :
           /\ GetEdge(path[k]) \in Edges
           /\ GetEdge(path[k]).tgt = IF k = 1 THEN ends[2] ELSE GetEdge(path[k - 1]).src
           /\ dists[GetEdge(path[k]).src] + GetEdge(path[k]).dist = dists[GetEdge(path[k]).tgt]
      /\ ends[1] = IF path = <<>> THEN ends[2] ELSE GetEdge(path[Len(path)]).src
  BY DEF IInv, QueryInv, WalkInv
<1>2. n \in Nat /\ DOMAIN path = 1..n /\ (path = <<>> <=> n = 0)
  BY <1>1
<1>3. \A i \in 1..n : Reverse(path)[i] = path[(n - i) + 1] /\ (n - i) + 1 \in 1..n
  BY <1>2 DEF Reverse
<1>4. DOMAIN walk = 1..n /\ \A i \in 1..n : walk[i] = GetEdge(path[(n - i) + 1])
  BY <1>2, <1>3
<1>5. Len(walk) = n
  <2>1. walk = [i \in 1..n |-> GetEdge(Reverse(path)[i])]
    BY <1>2
  <2> QED
    BY <1>2, <2>1
<1>6. walk = <<>> <=> n = 0
  BY <1>2, <1>4, <1>5
<1> HIDE DEF walk, n
<1>7. \A i \in 1..n : walk[i] \in Edges /\ dists[walk[i].src] + walk[i].dist = dists[walk[i].tgt]
  <2> SUFFICES ASSUME NEW i \in 1..n
               PROVE  walk[i] \in Edges /\ dists[walk[i].src] + walk[i].dist = dists[walk[i].tgt]
    OBVIOUS
  <2> DEFINE k == (n - i) + 1
  <2>1. walk[i] = GetEdge(path[k]) /\ k \in DOMAIN path
    BY <1>2, <1>3, <1>4
  <2> HIDE DEF k
  <2> QED
    BY <1>1, <2>1
<1>8. \A i \in 1..(n - 1) : walk[i].tgt = walk[i + 1].src
  <2> SUFFICES ASSUME NEW i \in 1..(n - 1) PROVE walk[i].tgt = walk[i + 1].src
    OBVIOUS
  <2> DEFINE k == (n - i) + 1
  <2>1. i \in 1..n /\ i + 1 \in 1..n /\ k \in 1..n /\ k # 1 /\ k - 1 = (n - (i + 1)) + 1
    BY <1>2
  <2>2. walk[i] = GetEdge(path[k]) /\ walk[i + 1] = GetEdge(path[k - 1])
    BY <1>4, <2>1
  <2> HIDE DEF k
  <2>3. GetEdge(path[k]).tgt = GetEdge(path[k - 1]).src
    BY <1>1, <1>2, <2>1
  <2> QED
    BY <2>2, <2>3
<1>9. n # 0 => walk[1].src = ends[1] /\ walk[n].tgt = ends[2]
  <2> SUFFICES ASSUME n # 0 PROVE walk[1].src = ends[1] /\ walk[n].tgt = ends[2]
    OBVIOUS
  <2>1. 1 \in 1..n /\ n \in 1..n /\ (n - 1) + 1 = n /\ (n - n) + 1 = 1
    BY <1>2
  <2>2. walk[1] = GetEdge(path[n]) /\ walk[n] = GetEdge(path[1])
    BY <1>4, <2>1
  <2> QED
    BY <1>1, <1>2, <2>1, <2>2 DEF n
<1>10. Leads(walk, ends[1], ends[2])
  BY <1>1, <1>2, <1>5, <1>6, <1>8, <1>9 DEF Leads
<1>11. LengthOf(walk) = answer
  <2>1. Edges \in SUBSET CHEdge /\ dists \in [Nodes -> Uint]
    BY GraphTypes DEF IInv, PlainInv, TypeOK
  <2>2. \A i \in 1..n : walk[i].dist \in Nat /\ walk[i].src \in Nodes /\ walk[i].tgt \in Nodes
    BY <1>7, <2>1, EdgeTypes
  <2>3. PICK sum \in [0..n -> Nat] :
          /\ sum[0] = 0 /\ sum[n] = LengthOf(walk)
          /\ \A k \in 1..n : sum[k] = sum[k - 1] + walk[k].dist
    BY <1>2, <1>4, <1>5, <2>2, SumOneByOne
  <2> DEFINE S == {k \in Nat : k <= n => sum[k] = IF k = 0 THEN 0 ELSE dists[walk[k].tgt]}
  <2>4. 0 \in S
    BY <2>3
  <2>5. ASSUME NEW k \in Nat, k \in S PROVE k + 1 \in S
    <3> SUFFICES ASSUME k + 1 <= n PROVE sum[k + 1] = dists[walk[k + 1].tgt]
      OBVIOUS
    <3>1. k + 1 \in 1..n /\ (k + 1) - 1 = k /\ k <= n
      BY <1>2, <2>5
    <3>2. sum[k + 1] = sum[k] + walk[k + 1].dist
      BY <2>3, <3>1
    <3>3. sum[k] = dists[walk[k + 1].src]
      <4>1. CASE k = 0
        BY <1>1, <1>9, <2>3, <3>1, <4>1
      <4>2. CASE k # 0
        <5>1. k \in 1..(n - 1)
          BY <1>2, <3>1, <4>2
        <5> QED
          BY <1>8, <2>5, <3>1, <4>2, <5>1
      <4> QED
        BY <4>1, <4>2
    <3> QED
      BY <1>7, <3>1, <3>2, <3>3
  <2> HIDE DEF S
  <2>6. Nat \subseteq S
    BY <2>4, <2>5, NatSetInduction
  <2>7. sum[n] = IF n = 0 THEN 0 ELSE dists[walk[n].tgt]
    BY <1>2, <2>6 DEF S
  <2> QED
    BY <1>1, <1>2, <1>9, <2>3, <2>7
<1> QED
  BY <1>10, <1>11 DEF PathsLead, walk

(* The path of every query leads from its source to its target and is as   *)
(* long as the reply says.                                                 *)
THEOREM PathsAlwaysLead ==
  ASSUME LengthsFit
  PROVE  Spec => []PathsLead
<1>1. IInv => PathsLead
  BY PathOfReply DEF PathsLead
<1> QED
  BY <1>1, Invariance, PTL

(* What the model of the queries calls distance is the one meant here.     *)
LEMMA SameDistance ==
  ASSUME NEW E, NEW s, NEW t
  PROVE  Queries!DistanceOrNone(E, s, t) = DistanceOrNone(E, s, t)
BY DEF Queries!DistanceOrNone, DistanceOrNone, Queries!Distances, Distances, Queries!Direct,
       Direct, Queries!AllowNode, AllowNode, Queries!Shortest, Shortest, Queries!Joined, Joined,
       Queries!Nodes, Nodes, Queries!NO_DIST, NO_DIST

(* No distance is found where no way is left.                              *)
LEMMA NoDistance ==
  ASSUME IInv, LengthsFit, task = "search", pq = {}
  PROVE  DistanceOrNone(Edges, ends[1], ends[2]) = NO_DIST
<1>1. PICK W \in SUBSET Nodes :
        /\ ends[2] \notin W
        /\ Settled(Edges, ends[1], W, dists, found_by)
        /\ Frontier(Edges, ends[1], W, dists, {}, {e \in Edges : e.src \in W})
  BY DEF IInv, QueryInv, SearchInv
<1>2. /\ Edges \in SUBSET CHEdge /\ Fits(Edges) /\ dists \in [Nodes -> Uint]
      /\ ends[1] \in Nodes /\ ends[2] \in Nodes
  BY GraphTypes DEF IInv, PlainInv, TypeOK
<1>3. Distances(Edges) \in SUBSET Triples
  <2>1. EdgeSet(Edges) /\ NrOfNodes \in Nat
    BY <1>2, EdgeTypes, SizeAssumption
  <2> QED
    BY <2>1, DistancesAreDistances DEF DistancesBelow
<1>4. ASSUME NEW x \in Distances(Edges), x[1] = ends[1], x[2] = ends[2] PROVE FALSE
  <2>1. x = <<ends[1], ends[2], x[3]>> /\ x[3] \in Nat
    BY <1>3, <1>4 DEF Triples
  <2>2. ends[2] \in Nodes \ W
    BY <1>1, <1>2
  <2> QED
    BY <1>1, <1>2, <1>4, <2>1, <2>2, NoWayLeft
<1> QED
  BY <1>4 DEF DistanceOrNone

(* The object keeps the promise of a query object: every reply is the      *)
(* distance, whatever was asked before.                                    *)
THEOREM RepliesAreDistances ==
  ASSUME LengthsFit
  PROVE  Spec => ImplementsQueries
<1>1. Init => Queries!Init
  <2> SUFFICES ASSUME Init PROVE Queries!Init
    OBVIOUS
  <2>1. out_edges \in InputGraphs /\ task = "none"
    BY DEF Init, GraphInit
  <2> QED
    BY <2>1 DEF Queries!Init, Edges
<1>2. IInv /\ [Next]_vars => [Queries!Next]_Queries!query_vars
  <2> SUFFICES ASSUME IInv, [Next]_vars PROVE [Queries!Next]_Queries!query_vars
    OBVIOUS
  <2> DEFINE question == IF task = "none" THEN <<>> ELSE ends
             reply == IF task = "answered" THEN answer ELSE -1
  <2>1. /\ task \in {"none", "search", "backtrack", "answered"}
        /\ task # "none" => ends \in Nodes \X Nodes
        /\ answer \in Nat
    BY SizeAssumption DEF IInv, PlainInv, TypeOK, Uint
  <2>2. task # "none" => question # <<>>
    BY <2>1
  <2>3. CASE AskQuery
    <3>1. PICK src, tgt \in Nodes : CalcShopa(src, tgt)
      BY <2>3 DEF AskQuery
    <3>2. /\ task \in {"none", "answered"} /\ task' = "search" /\ ends' = <<src, tgt>>
          /\ Edges' = Edges
      BY <3>1, EdgesStay DEF CalcShopa
    <3>3. question = <<>> \/ reply # -1
      BY <2>1, <3>2
    <3>4. question' \in Nodes \X Nodes /\ reply' = -1
      BY <3>2
    <3>5. Queries!Ask
      BY <3>2, <3>3, <3>4 DEF Queries!Ask, Queries!Nodes, Nodes
    <3> QED
      BY <3>5 DEF Queries!Next
  <2>4. CASE SearchStep \/ TargetReached \/ Backtrack
    <3>1. /\ task \in {"search", "backtrack"} /\ task' \in {"search", "backtrack"} /\ ends' = ends
          /\ Edges' = Edges
      BY <2>4, EdgesStay DEF SearchStep, TargetReached, Backtrack
    <3> QED
      BY <3>1 DEF Queries!query_vars
  <2>5. CASE NoPathFound
    <3>1. /\ task = "search" /\ pq = {} /\ task' = "answered" /\ answer' = NO_DIST /\ ends' = ends
          /\ Edges' = Edges
      BY <2>5, EdgesStay DEF NoPathFound
    <3>2. answer' = Queries!DistanceOrNone(Edges, ends[1], ends[2])
      BY <3>1, NoDistance, SameDistance
    <3>3. Queries!Reply
      BY <2>2, <3>1, <3>2 DEF Queries!Reply
    <3> QED
      BY <3>3 DEF Queries!Next
  <2>6. CASE PathFound
    <3>1. /\ task = "backtrack" /\ task' = "answered" /\ UNCHANGED <<answer, ends>>
          /\ Edges' = Edges
      BY <2>6, EdgesStay DEF PathFound
    <3>2. <<ends[1], ends[2], answer>> \in Distances(Edges)
      BY <3>1 DEF IInv, QueryInv, WalkInv
    <3>3. EdgeSet(Edges) /\ ends[1] \in Nodes /\ ends[2] \in Nodes
      BY <2>1, <3>1, GraphTypes, EdgeTypes DEF IInv, PlainInv
    <3>4. answer = Queries!DistanceOrNone(Edges, ends[1], ends[2])
      BY <3>2, <3>3, DistanceFound, SameDistance
    <3>5. Queries!Reply
      BY <2>2, <3>1, <3>4 DEF Queries!Reply
    <3> QED
      BY <3>5 DEF Queries!Next
  <2>7. CASE UNCHANGED vars
    <3>1. UNCHANGED <<out_edges, task, ends, answer>>
      BY <2>7 DEF vars, all_graph_vars, graph_vars
    <3> QED
      BY <3>1 DEF Queries!query_vars, Edges
  <2> QED
    BY <2>3, <2>4, <2>5, <2>6, <2>7 DEF Next, AnswerQuery
<1> QED
  BY <1>1, <1>2, Invariance, PTL DEF Spec, ImplementsQueries, Queries!Spec
=============================================================================
