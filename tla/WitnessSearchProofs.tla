------------------------ MODULE WitnessSearchProofs ------------------------
(***************************************************************************)
(* Proofs about the searches of the threads, for every number of nodes and *)
(* threads and every input graph: the labels that are set are listed, a    *)
(* search finds the distances, and the searches of all threads, however    *)
(* they are interleaved, amount to the single step CHConstructor takes for *)
(* a node.                                                                 *)
(***************************************************************************)
EXTENDS WitnessSearch, CHConstructorProofs

(* The data of a thread have a label for every node.                       *)
HasLabels(td) ==
  td = [pq |-> td.pq, dists |-> [n \in Nodes |-> td.dists[n]], reset_dists |-> td.reset_dists]

ThreadDataShape ==
  /\ thread_data = [t \in Threads |-> thread_data[t]]
  /\ \A t \in Threads : HasLabels(thread_data[t])

(* The labels that are set are listed.                                     *)
Listed(td) == \A n \in Nodes : td.dists[n] # NO_DIST => n \in td.reset_dists

LabelsInv == ThreadDataShape /\ \A t \in Threads : Listed(thread_data[t])

-----------------------------------------------------------------------------
(* If one thread changes its data, only these have to be looked at.        *)
LEMMA OneThreadChanges ==
  ASSUME LabelsInv, NEW u \in Threads, NEW td, HasLabels(td), Listed(td),
         thread_data' = [thread_data EXCEPT ![u] = td]
  PROVE  LabelsInv'
<1>1. thread_data' = [t \in Threads |-> IF t = u THEN td ELSE thread_data[t]]
  BY DEF LabelsInv, ThreadDataShape
<1>2. \A t \in Threads : thread_data'[t] = IF t = u THEN td ELSE thread_data[t]
  BY <1>1
<1>3. thread_data' = [t \in Threads |-> thread_data'[t]]
  BY <1>1
<1>4. \A t \in Threads : HasLabels(thread_data'[t]) /\ Listed(thread_data'[t])
  BY <1>2 DEF LabelsInv, ThreadDataShape
<1> QED
  BY <1>3, <1>4 DEF LabelsInv, ThreadDataShape, HasLabels, Listed

(* Clearing the labels that are listed clears all of them.                 *)
LEMMA ClearingClears ==
  ASSUME NEW td, Listed(td)
  PROVE  ClearedLabels(td) = [n \in Nodes |-> NO_DIST]
BY DEF ClearedLabels, Listed

(* A search starts with one label, and it is listed.                       *)
LEMMA StartSearchLists ==
  ASSUME LabelsInv, NEW t \in Threads, StartSearch(t)
  PROVE  LabelsInv'
<1>1. PICK e \in job[t].start_edges :
        LET start_node == OtherNode(e, Opposite(job[t].type))
        IN  thread_data' = [thread_data EXCEPT ![t] =
              [pq |-> {PQElement(start_node, 0)},
               dists |-> [ClearedLabels(thread_data[t]) EXCEPT ![start_node] = 0],
               reset_dists |-> {start_node}]]
  BY DEF StartSearch
<1> DEFINE start_node == OtherNode(e, Opposite(job[t].type))
           td == [pq |-> {PQElement(start_node, 0)},
                  dists |-> [ClearedLabels(thread_data[t]) EXCEPT ![start_node] = 0],
                  reset_dists |-> {start_node}]
<1>2. ClearedLabels(thread_data[t]) = [n \in Nodes |-> NO_DIST]
  BY ClearingClears DEF LabelsInv
<1>3. td.dists = [n \in Nodes |-> IF n = start_node THEN 0 ELSE NO_DIST]
  BY <1>2
<1>4. HasLabels(td) /\ Listed(td)
  BY <1>3 DEF HasLabels, Listed
<1>5. thread_data' = [thread_data EXCEPT ![t] = td]
  BY <1>1
<1> HIDE DEF td
<1> QED
  BY <1>4, <1>5, OneThreadChanges

(* Taking an element out of the queue changes no label.                    *)
LEMMA PopTopLists ==
  ASSUME LabelsInv, NEW t \in Threads, PopTop(t)
  PROVE  LabelsInv'
<1>1. PICK top : thread_data' = [thread_data EXCEPT ![t].pq = @ \ {top}]
  BY DEF PopTop
<1> DEFINE td == [thread_data[t] EXCEPT !.pq = @ \ {top}]
<1>2. thread_data[t] = [pq |-> thread_data[t].pq,
                        dists |-> [n \in Nodes |-> thread_data[t].dists[n]],
                        reset_dists |-> thread_data[t].reset_dists]
  BY DEF LabelsInv, ThreadDataShape, HasLabels
<1>3. /\ td.dists = thread_data[t].dists /\ td.reset_dists = thread_data[t].reset_dists
      /\ td = [pq |-> td.pq, dists |-> thread_data[t].dists, reset_dists |-> td.reset_dists]
  BY <1>2
<1>4. HasLabels(td)
  BY <1>2, <1>3 DEF HasLabels
<1>5. Listed(td)
  BY <1>3 DEF LabelsInv, Listed
<1>6. thread_data' = [thread_data EXCEPT ![t] = td]
  BY <1>1
<1> HIDE DEF td
<1> QED
  BY <1>4, <1>5, <1>6, OneThreadChanges

(* A node gets a label and is listed, or had one and was listed before.    *)
LEMMA RelaxedLists ==
  ASSUME NEW td, HasLabels(td), Listed(td), NEW n, NEW d
  PROVE  HasLabels(Relaxed(td, n, d)) /\ Listed(Relaxed(td, n, d))
<1>1. CASE ~Better(d, td.dists[n])
  BY <1>1 DEF Relaxed
<1>2. CASE Better(d, td.dists[n])
  <2> DEFINE new == Relaxed(td, n, d)
  <2>1. new = [pq |-> td.pq \cup {PQElement(n, d)},
               dists |-> [td.dists EXCEPT ![n] = d],
               reset_dists |-> IF td.dists[n] = NO_DIST THEN ListForReset(td, n)
                               ELSE td.reset_dists]
    BY <1>2 DEF Relaxed
  <2>2. td.dists = [m \in Nodes |-> td.dists[m]]
    BY DEF HasLabels
  <2>3. new.dists = [m \in Nodes |-> IF m = n THEN d ELSE td.dists[m]]
    BY <2>1, <2>2
  <2>4. HasLabels(new)
    BY <2>1, <2>3 DEF HasLabels
  <2>5. Listed(new)
    BY <2>1, <2>3 DEF Listed, ListForReset
  <2> QED
    BY <2>4, <2>5
<1> QED
  BY <1>1, <1>2

(* So relaxing an edge keeps the labels of all threads listed.            *)
LEMMA RelaxEdgeLists ==
  ASSUME LabelsInv, NEW t \in Threads, RelaxEdge(t)
  PROVE  LabelsInv'
<1>1. PICK e \in job[t].edges :
        thread_data' = [thread_data EXCEPT ![t] =
          Relaxed(thread_data[t], OtherNode(e, job[t].type), UintAdd(job[t].top.dist, e.dist))]
  BY DEF RelaxEdge
<1>2. HasLabels(thread_data[t]) /\ Listed(thread_data[t])
  BY DEF LabelsInv, ThreadDataShape
<1> QED
  BY <1>1, <1>2, RelaxedLists, OneThreadChanges

(* The other steps leave the data of the threads alone.                    *)
LEMMA OthersList ==
  ASSUME LabelsInv, UNCHANGED thread_data
  PROVE  LabelsInv'
BY DEF LabelsInv, ThreadDataShape, HasLabels, Listed

(* They are when the construction begins.                                  *)
LEMMA LabelsBegin == SearchInit => LabelsInv
<1> SUFFICES ASSUME SearchInit PROVE LabelsInv
  OBVIOUS
<1>1. thread_data = [t \in Threads |-> [pq |-> {}, dists |-> [n \in Nodes |-> NO_DIST], reset_dists |-> {}]]
  BY DEF SearchInit
<1>2. ThreadDataShape
  BY <1>1 DEF ThreadDataShape, HasLabels
<1>3. \A t \in Threads : Listed(thread_data[t])
  BY <1>1 DEF Listed
<1> QED
  BY <1>2, <1>3 DEF LabelsInv

(* No step breaks it.                                                      *)
LEMMA LabelsStay == LabelsInv /\ [SearchNext]_witness_vars => LabelsInv'
<1> SUFFICES ASSUME LabelsInv, [SearchNext]_witness_vars PROVE LabelsInv'
  OBVIOUS
<1>1. ASSUME NEW t \in Threads, Search(t) PROVE LabelsInv'
  <2>1. CASE TakeNode(t) \/ FinishSearch(t) \/ FinishNode(t)
    BY <2>1, OthersList DEF TakeNode, FinishSearch, FinishNode, search_vars
  <2>2. CASE StartSearch(t)
    BY <2>2, StartSearchLists
  <2>3. CASE PopTop(t)
    BY <2>3, PopTopLists
  <2>4. CASE RelaxEdge(t)
    BY <2>4, RelaxEdgeLists
  <2> QED
    BY <1>1, <2>1, <2>2, <2>3, <2>4 DEF Search
<1>2. CASE OtherStep \/ UNCHANGED witness_vars
  BY <1>2, OthersList DEF OtherStep, witness_vars, search_vars
<1> QED
  BY <1>1, <1>2 DEF SearchNext

-----------------------------------------------------------------------------
(* The labels that are set are listed at every moment: whatever a thread   *)
(* has searched before, however its searches were interleaved with those   *)
(* of the others, its next search starts with clean labels.                *)
THEOREM LabelsStayListed == SearchSpec => []LabelsListed
<1>1. LabelsInv => LabelsListed
  BY DEF LabelsInv, Listed, LabelsListed
<1> QED
  BY <1>1, LabelsBegin, LabelsStay, PTL DEF SearchSpec
-----------------------------------------------------------------------------
(* What one search knows.                                                  *)

(* The labels are the lengths of ways; what is not in the queue has been   *)
(* relaxed, except for the pending edges of the element popped last.       *)
Underway(td, pending, E, type, start) ==
  /\ td.dists \in [Nodes -> Uint]
  /\ td.dists[start] = 0
  /\ \A n \in Nodes : td.dists[n] # NO_DIST => AtMost(Ways(E, type), start, n, td.dists[n])
  /\ \A q \in td.pq :
       /\ q = PQElement(q.node, q.dist) /\ q.node \in Nodes /\ q.dist \in Uint
       /\ q.dist # NO_DIST /\ td.dists[q.node] <= q.dist
  /\ \A e \in E \ pending :
       LET n == FromNode(e, type)
       IN  td.dists[n] # NO_DIST /\ PQElement(n, td.dists[n]) \notin td.pq =>
             td.dists[OtherNode(e, type)] <= td.dists[n] + e.dist

(* The element popped last has the shortest distance of its node.          *)
TopSettled(td, top, pending, E, type, start) ==
  pending # {} =>
    /\ top.node \in Nodes /\ top.dist \in Nat /\ td.dists[top.node] = top.dist
    /\ <<start, top.node, top.dist>> \in Ways(E, type)
    /\ \A e \in pending : e \in E /\ FromNode(e, type) = top.node

(* The same state as the recursive search has it.                          *)
AsSearch(td) == [dists |-> td.dists, queue |-> {<<q.node, q.dist>> : q \in td.pq}]

(* The types of what an edge and a label are made of.                      *)
LEMMA SearchTypes ==
  ASSUME NEW E, EdgeSet(E), NEW type \in EdgeType
  PROVE  /\ \A e \in E : FromNode(e, type) \in Nodes /\ OtherNode(e, type) \in Nodes /\ e.dist \in Nat
         /\ NO_DIST \in Nat /\ NO_DIST \in Uint /\ 0 \in Uint /\ Uint \subseteq Nat
         /\ \A x \in Uint : x \in Nat /\ x <= NO_DIST
         /\ \A x \in Nat : x < NO_DIST => x \in Uint
<1>1. \A e \in E : FromNode(e, type) \in Nodes /\ OtherNode(e, type) \in Nodes /\ e.dist \in Nat
  BY DEF EdgeSet, FromNode, OtherNode, Opposite
<1> QED
  BY <1>1, SizeAssumption DEF Uint, NO_DIST

(* Between two elements of the queue both are the same search.             *)
LEMMA SameSearch ==
  ASSUME NEW E, EdgeSet(E), NEW type \in EdgeType, NEW start, NEW td, Underway(td, {}, E, type, start)
  PROVE  SearchInv(AsSearch(td), E, type, start)
<1>1. PICK s : s = AsSearch(td)
  OBVIOUS
<1>2. s.dists = td.dists /\ s.queue = {<<q.node, q.dist>> : q \in td.pq}
  BY <1>1 DEF AsSearch
<1>3. \A q \in td.pq : /\ q = PQElement(q.node, q.dist) /\ q.node \in Nodes /\ q.dist \in Uint
                       /\ q.dist # NO_DIST /\ td.dists[q.node] <= q.dist
  BY DEF Underway
<1>4. s \in SearchStates
  <2>1. s.queue \in SUBSET (Nodes \X Uint) /\ s.dists \in [Nodes -> Uint]
    BY <1>2, <1>3 DEF Underway
  <2>2. s = [dists |-> s.dists, queue |-> s.queue]
    BY <1>1 DEF AsSearch
  <2> QED
    BY <2>1, <2>2 DEF SearchStates
<1>5. \A q \in s.queue : q[2] # NO_DIST /\ s.dists[q[1]] <= q[2]
  BY <1>2, <1>3
<1>6. ASSUME NEW n, NEW d PROVE <<n, d>> \in s.queue <=> PQElement(n, d) \in td.pq
  <2>1. ASSUME <<n, d>> \in s.queue PROVE PQElement(n, d) \in td.pq
    <3>1. PICK q \in td.pq : <<n, d>> = <<q.node, q.dist>>
      BY <1>2, <2>1
    <3>2. q.node = n /\ q.dist = d
      BY <3>1
    <3> QED
      BY <1>3, <3>2
  <2>2. PQElement(n, d).node = n /\ PQElement(n, d).dist = d
    BY DEF PQElement
  <2> QED
    BY <1>2, <2>1, <2>2
<1>7. \A e \in E :
        LET n == FromNode(e, type)
        IN  s.dists[n] # NO_DIST /\ <<n, s.dists[n]>> \notin s.queue =>
              s.dists[OtherNode(e, type)] <= s.dists[n] + e.dist
  BY <1>2, <1>6 DEF Underway
<1>8. s.dists[start] = 0 /\ \A n \in Nodes : s.dists[n] # NO_DIST => AtMost(Ways(E, type), start, n, s.dists[n])
  BY <1>2 DEF Underway
<1> QED
  BY <1>1, <1>4, <1>5, <1>7, <1>8 DEF SearchInv

(* It starts with one label.                                               *)
LEMMA SearchStarts ==
  ASSUME NEW E, EdgeSet(E), NEW type \in EdgeType, NEW start \in Nodes, NEW td,
         td.dists = [[n \in Nodes |-> NO_DIST] EXCEPT ![start] = 0],
         td.pq = {PQElement(start, 0)}
  PROVE  Underway(td, {}, E, type, start)
<1>1. td.dists = [n \in Nodes |-> IF n = start THEN 0 ELSE NO_DIST]
  OBVIOUS
<1>2. \A e \in E : FromNode(e, type) \in Nodes
  BY SearchTypes
<1>3. NO_DIST \in Uint /\ 0 \in Uint
  BY SearchTypes
<1>4. AtMost(Ways(E, type), start, start, 0)
  BY WaysAreDistances DEF Triangular, AtMost
<1>5. 0 # NO_DIST
  BY NodesAreUint, SizeAssumption DEF NO_DIST, Nodes
<1>6. PQElement(start, 0).node = start /\ PQElement(start, 0).dist = 0
  BY DEF PQElement
<1>7. /\ td.dists \in [Nodes -> Uint] /\ td.dists[start] = 0
      /\ \A n \in Nodes : td.dists[n] # NO_DIST => n = start
  BY <1>1, <1>3
<1>8. \A q \in td.pq : q = PQElement(start, 0)
  OBVIOUS
<1>9. \A q \in td.pq :
        /\ q = PQElement(q.node, q.dist) /\ q.node \in Nodes /\ q.dist \in Uint
        /\ q.dist # NO_DIST /\ td.dists[q.node] <= q.dist
  BY <1>3, <1>5, <1>6, <1>7, <1>8
<1>10. \A e \in E : td.dists[FromNode(e, type)] # NO_DIST => PQElement(FromNode(e, type), td.dists[FromNode(e, type)]) \in td.pq
  BY <1>2, <1>7
<1> QED
  BY <1>4, <1>7, <1>9, <1>10 DEF Underway

LeastIn(top, pq) == top \in pq /\ \A o \in pq : top.dist <= o.dist

(* The element with the least distance has the distance of its node, or is *)
(* outdated.                                                               *)
LEMMA PopKeeps ==
  ASSUME NEW E, EdgeSet(E), NEW type \in EdgeType, NEW start \in Nodes, NEW td,
         Underway(td, {}, E, type, start),
         NEW top, LeastIn(top, td.pq),
         NEW td2, td2.pq = td.pq \ {top}, td2.dists = td.dists,
         NEW pending,
         pending = IF td.dists[top.node] # top.dist THEN {} ELSE {e \in E : FromNode(e, type) = top.node}
  PROVE  /\ Underway(td2, pending, E, type, start)
         /\ TopSettled(td2, top, pending, E, type, start)
<1>0. top \in td.pq /\ \A o \in td.pq : top.dist <= o.dist
  BY DEF LeastIn
<1>1. /\ top = PQElement(top.node, top.dist) /\ top.node \in Nodes /\ top.dist \in Uint
      /\ top.dist # NO_DIST
  BY <1>0 DEF Underway
<1>2. \A n, d : PQElement(n, d) = top <=> n = top.node /\ d = top.dist
  <2>1. \A n, d : PQElement(n, d).node = n /\ PQElement(n, d).dist = d
    BY DEF PQElement
  <2> QED
    BY <1>1, <2>1
<1>3. \A n, d : PQElement(n, d) \notin td2.pq => PQElement(n, d) \notin td.pq \/ (n = top.node /\ d = top.dist)
  BY <1>2
<1>4. Underway(td2, pending, E, type, start)
  <2>1. ASSUME NEW e \in E \ pending, td2.dists[FromNode(e, type)] # NO_DIST,
               PQElement(FromNode(e, type), td2.dists[FromNode(e, type)]) \notin td2.pq
        PROVE  td2.dists[OtherNode(e, type)] <= td2.dists[FromNode(e, type)] + e.dist
    <3>1. PQElement(FromNode(e, type), td.dists[FromNode(e, type)]) \notin td.pq
      BY <1>3, <2>1
    <3> QED
      BY <2>1, <3>1 DEF Underway
  <2>2. \A q \in td2.pq : q \in td.pq
    OBVIOUS
  <2> QED
    BY <2>1, <2>2 DEF Underway
<1>5. ASSUME td.dists[top.node] = top.dist
      PROVE  <<start, top.node, top.dist>> \in Ways(E, type)
  <2>1. PICK s : s = AsSearch(td)
    OBVIOUS
  <2>2. SearchInv(s, E, type, start) /\ s.dists = td.dists /\ s.queue = {<<q.node, q.dist>> : q \in td.pq}
    BY <2>1, SameSearch DEF AsSearch
  <2>3. top.dist \in Nat /\ top.dist <= NO_DIST
    BY <1>1, SearchTypes
  <2>4. \A q \in s.queue : top.dist <= q[2]
    BY <1>0, <2>2
  <2>5. PICK b \in Nat : <<start, top.node, b>> \in Ways(E, type) /\ b <= top.dist
    BY <1>1, <1>5 DEF Underway, AtMost
  <2>6. s.dists[top.node] <= b \/ top.dist <= b
    BY <1>1, <2>2, <2>3, <2>4, <2>5, LabelsWithinQueue
  <2>7. top.dist <= b
    BY <1>5, <2>2, <2>6
  <2>8. b = top.dist
    BY <2>3, <2>5, <2>7
  <2> QED
    BY <2>5, <2>8
<1>6. top.dist \in Nat
  BY <1>1, SearchTypes
<1> QED
  BY <1>1, <1>4, <1>5, <1>6 DEF TopSettled

(* A pending edge is relaxed.                                              *)
LEMMA RelaxKeeps ==
  ASSUME NEW E, EdgeSet(E), NEW type \in EdgeType, NEW start \in Nodes, SumsFit(E, type, start),
         NEW td, NEW pending, NEW top, HasLabels(td),
         Underway(td, pending, E, type, start), TopSettled(td, top, pending, E, type, start),
         NEW e \in pending,
         NEW td2, td2 = Relaxed(td, OtherNode(e, type), UintAdd(top.dist, e.dist))
  PROVE  /\ Underway(td2, pending \ {e}, E, type, start)
         /\ TopSettled(td2, top, pending \ {e}, E, type, start)
<1> DEFINE m == OtherNode(e, type)
           sum == top.dist + e.dist
<1>1. /\ top.node \in Nodes /\ top.dist \in Nat /\ td.dists[top.node] = top.dist
      /\ <<start, top.node, top.dist>> \in Ways(E, type)
      /\ e \in E /\ FromNode(e, type) = top.node
      /\ \A x \in pending : x \in E /\ FromNode(x, type) = top.node
  BY DEF TopSettled
<1>2. /\ m \in Nodes /\ e.dist \in Nat /\ NO_DIST \in Nat /\ Uint \subseteq Nat
      /\ \A x \in Nat : x < NO_DIST => x \in Uint
      /\ \A x \in E : FromNode(x, type) \in Nodes /\ OtherNode(x, type) \in Nodes /\ x.dist \in Nat
  BY <1>1, SearchTypes
<1>3. sum \in Nat /\ sum < NO_DIST /\ sum \in Uint
  BY <1>1, <1>2 DEF SumsFit
<1>4. UintAdd(top.dist, e.dist) = sum
  <2>1. \A c \in Nat : c < NO_DIST => c % (MaxUint + 1) = c
    BY SizeAssumption DEF NO_DIST
  <2> QED
    BY <1>3, <2>1 DEF UintAdd
<1>5. AtMost(Ways(E, type), start, m, sum)
  <2>1. AtMost(Ways(E, type), top.node, m, e.dist) /\ Triangular(Ways(E, type))
    BY <1>1, WaysAreDistances
  <2>2. AtMost(Ways(E, type), start, top.node, top.dist)
    BY <1>1 DEF AtMost
  <2> QED
    BY <1>1, <1>2, <2>1, <2>2 DEF Triangular
<1>6. td.dists \in [Nodes -> Uint] /\ \A n \in Nodes : td.dists[n] \in Nat
  BY <1>2 DEF Underway
<1>7. td2 = Relaxed(td, m, sum)
  BY <1>4
<1> HIDE DEF m, sum
<1>8. CASE ~Better(sum, td.dists[m])
  <2>1. td2 = td
    BY <1>7, <1>8 DEF Relaxed
  <2>2. td.dists[m] <= sum
    BY <1>2, <1>3, <1>6, <1>8 DEF Better
  <2>3. td.dists[OtherNode(e, type)] <= td.dists[FromNode(e, type)] + e.dist
    BY <1>1, <2>2 DEF m, sum
  <2>4. Underway(td, pending \ {e}, E, type, start)
    BY <2>3 DEF Underway
  <2> QED
    BY <2>1, <2>4 DEF TopSettled
<1>9. CASE Better(sum, td.dists[m])
  <2>1. /\ td2.pq = td.pq \cup {PQElement(m, sum)}
        /\ td2.dists = [td.dists EXCEPT ![m] = sum]
    BY <1>7, <1>9 DEF Relaxed
  <2>2. sum < td.dists[m]
    BY <1>9 DEF Better
  <2>3. /\ td2.dists \in [Nodes -> Uint] /\ td2.dists[m] = sum
        /\ \A n \in Nodes : n # m => td2.dists[n] = td.dists[n]
        /\ \A n \in Nodes : td2.dists[n] <= td.dists[n] /\ td2.dists[n] \in Nat
    BY <1>2, <1>3, <1>6, <2>1, <2>2
  <2>4. m # top.node
    <3>1. top.dist <= sum
      BY <1>1, <1>2 DEF sum
    <3> QED
      BY <1>1, <1>3, <2>2, <3>1
  <2>5. m # start
    BY <1>3, <2>2 DEF Underway
  <2>6. td2.dists[start] = 0 /\ td2.dists[top.node] = top.dist
    BY <1>1, <2>3, <2>4, <2>5 DEF Underway
  <2>7. \A n \in Nodes : td2.dists[n] # NO_DIST => AtMost(Ways(E, type), start, n, td2.dists[n])
    BY <1>5, <2>3 DEF Underway
  <2>8. ASSUME NEW q \in td2.pq
        PROVE  /\ q = PQElement(q.node, q.dist) /\ q.node \in Nodes /\ q.dist \in Uint
               /\ q.dist # NO_DIST /\ td2.dists[q.node] <= q.dist
    <3>1. CASE q \in td.pq
      <4>1. /\ q = PQElement(q.node, q.dist) /\ q.node \in Nodes /\ q.dist \in Uint
            /\ q.dist # NO_DIST /\ td.dists[q.node] <= q.dist
        BY <3>1 DEF Underway
      <4>2. td2.dists[q.node] <= td.dists[q.node] /\ td2.dists[q.node] \in Nat /\ td.dists[q.node] \in Nat /\ q.dist \in Nat
        BY <1>2, <1>6, <2>3, <4>1
      <4>3. td2.dists[q.node] <= q.dist
        BY <4>1, <4>2
      <4> QED
        BY <4>1, <4>3
    <3>2. CASE q = PQElement(m, sum)
      <4>1. q.node = m /\ q.dist = sum
        BY <3>2 DEF PQElement
      <4>2. m \in Nodes
        BY <1>2 DEF m
      <4> QED
        BY <1>3, <2>3, <3>2, <4>1, <4>2
    <3> QED
      BY <2>1, <3>1, <3>2
  <2>9. ASSUME NEW x \in E \ (pending \ {e}), NEW n, n = FromNode(x, type), td2.dists[n] # NO_DIST,
               PQElement(n, td2.dists[n]) \notin td2.pq
        PROVE  td2.dists[OtherNode(x, type)] <= td2.dists[n] + x.dist
    <3>1. n # m
      BY <2>1, <2>3, <2>9
    <3>2. n \in Nodes /\ td2.dists[n] = td.dists[n] /\ OtherNode(x, type) \in Nodes /\ x.dist \in Nat
      BY <1>2, <2>3, <2>9, <3>1
    <3>3. CASE x = e
      <4>1. n = top.node /\ td2.dists[n] = top.dist
        BY <1>1, <2>6, <2>9, <3>3
      <4>2. td2.dists[OtherNode(x, type)] = sum
        BY <2>3, <3>3 DEF m
      <4>3. sum = td2.dists[n] + x.dist
        BY <3>3, <4>1 DEF sum
      <4> QED
        BY <1>3, <4>2, <4>3
    <3>4. CASE x # e
      <4>1. PQElement(n, td.dists[n]) \notin td.pq /\ td.dists[n] # NO_DIST /\ x \in E \ pending
        BY <2>1, <2>9, <3>2, <3>4
      <4>2. td.dists[OtherNode(x, type)] <= td.dists[n] + x.dist
        BY <2>9, <4>1 DEF Underway
      <4>3. /\ td2.dists[OtherNode(x, type)] <= td.dists[OtherNode(x, type)]
            /\ td2.dists[OtherNode(x, type)] \in Nat /\ td.dists[OtherNode(x, type)] \in Nat /\ td.dists[n] \in Nat
        BY <1>6, <2>3, <3>2
      <4> QED
        BY <3>2, <4>2, <4>3
    <3> QED
      BY <3>3, <3>4
  <2>10. \A x \in E \ (pending \ {e}) :
           LET n == FromNode(x, type)
           IN  td2.dists[n] # NO_DIST /\ PQElement(n, td2.dists[n]) \notin td2.pq =>
                 td2.dists[OtherNode(x, type)] <= td2.dists[n] + x.dist
    BY <2>9
  <2>11. Underway(td2, pending \ {e}, E, type, start)
    BY <2>3, <2>6, <2>7, <2>8, <2>10 DEF Underway
  <2>12. TopSettled(td2, top, pending \ {e}, E, type, start)
    BY <1>1, <2>6 DEF TopSettled
  <2> QED
    BY <2>11, <2>12
<1> QED
  BY <1>8, <1>9

(* A search that has nothing left within its radius has found all there is.*)
LEMMA SearchIsExact ==
  ASSUME NEW E, EdgeSet(E), NEW type \in EdgeType, NEW start \in Nodes, NEW td,
         Underway(td, {}, E, type, start), NEW radius \in Nat, radius < NO_DIST,
         {q \in td.pq : (\A o \in td.pq : q.dist <= o.dist) /\ WithinRadius(q.dist, radius)} = {},
         NEW n \in Nodes, NEW d \in Nat, d <= radius
  PROVE  td.dists[n] = d <=> <<start, n, d>> \in Ways(E, type)
<1>1. \A q \in td.pq : q.dist \in Nat
  BY SearchTypes DEF Underway
<1>2. ASSUME NEW q \in td.pq PROVE radius + 1 <= q.dist
  <2> DEFINE lengths == {x.dist : x \in td.pq}
  <2>1. lengths \in SUBSET Nat /\ lengths # {}
    BY <1>1
  <2> HIDE DEF lengths
  <2>2. PICK c \in lengths : \A x \in lengths : c <= x
    BY <2>1, LeastNumber
  <2>3. PICK least \in td.pq : c = least.dist
    BY DEF lengths
  <2>4. \A o \in td.pq : least.dist <= o.dist
    BY <2>2, <2>3 DEF lengths
  <2>5. ~(least.dist <= radius)
    BY <2>4 DEF WithinRadius
  <2>6. least.dist <= q.dist /\ least.dist \in Nat /\ q.dist \in Nat
    BY <1>1, <2>4
  <2> QED
    BY <2>5, <2>6
<1>3. PICK s : s = AsSearch(td)
  OBVIOUS
<1>4. SearchInv(s, E, type, start) /\ s.dists = td.dists /\ s.queue = {<<q.node, q.dist>> : q \in td.pq}
  BY <1>3, SameSearch DEF AsSearch
<1>5. \A q \in s.queue : radius + 1 <= q[2]
  BY <1>2, <1>4
<1>6. s.dists[n] = d <=> <<start, n, d>> \in Ways(E, type)
  BY <1>4, <1>5, LabelsAreDistances
<1> QED
  BY <1>4, <1>6

(* So it decides on the shortcuts as the recursive search does.            *)
LEMMA SameShortcutsFound ==
  ASSUME Edges \in SUBSET CHEdge, NEW S \in SUBSET Nodes, NEW bound, ShortLengths(Edges, S, bound),
         NEW j, j.type \in EdgeType, j.node \in Nodes, j.start_edge \in NodeEdges(j.node, Opposite(j.type)),
         NEW dists,
         \A n \in Nodes : \A d \in Nat : d <= SearchRadius(j) =>
           (dists[n] = d <=> <<FromNode(j.start_edge, j.type), n, d>> \in Ways(Edges, j.type))
  PROVE  ShortcutsFound(j, dists) = CalcShortcuts(j.start_edge, j.node, j.type)
<1> DEFINE found2 == SearchDists(j.start_edge, j.node, j.type)
           start == FromNode(j.start_edge, j.type)
<1>0. PICK a, n, type : a = j.start_edge /\ n = j.node /\ type = j.type
  OBVIOUS
<1>1. PICK radius : /\ a = j.start_edge /\ n = j.node /\ type = j.type
                    /\ radius = Radius({e.dist : e \in Targets(a, n, type)}, a)
  BY <1>0
<1>2. /\ radius \in Nat /\ radius < NO_DIST /\ a.dist \in Nat /\ a.dist <= radius
      /\ \A b \in Targets(a, n, type) :
           b.dist \in Nat /\ a.dist + b.dist <= radius /\ UintAdd(a.dist, b.dist) = a.dist + b.dist
  BY <1>1, RadiusFits
<1>3. SearchRadius(j) = radius
  BY <1>1 DEF SearchRadius
<1>4. a \in Edges /\ start \in S /\ start \in Nodes
  BY <1>1 DEF NodeEdges, ShortLengths, FromNode, OtherNode
<1>5. SumsFit(Edges, type, start)
  BY <1>1, <1>4, ShortLengthsFit
<1>6. found2 = CalcShortestDists(Edges, start, type, radius)
  BY <1>1 DEF SearchDists, FromNode
<1> HIDE DEF start, found2
<1>7. ASSUME NEW x \in Nodes, NEW d \in Nat, d <= radius
      PROVE  found2[x] = d <=> dists[x] = d
  <2>1. CalcShortestDists(Edges, start, type, radius)[x] = d <=> <<start, x, d>> \in Ways(Edges, type)
    BY <1>1, <1>2, <1>4, <1>5, <1>7, SearchFinds
  <2>2. dists[x] = d <=> <<start, x, d>> \in Ways(Edges, type)
    BY <1>1, <1>3, <1>7 DEF start
  <2> QED
    BY <1>6, <2>1, <2>2
<1>8. found2[n] = a.dist <=> dists[n] = a.dist
  BY <1>1, <1>2, <1>7
<1>9. ASSUME NEW e \in Targets(a, n, type)
      PROVE  found2[OtherNode(e, type)] = UintAdd(a.dist, e.dist) <=> dists[OtherNode(e, type)] = UintAdd(a.dist, e.dist)
  <2>1. OtherNode(e, type) \in Nodes
    BY DEF Targets, NodeEdges, CHEdge, OtherNode
  <2>2. a.dist + e.dist \in Nat /\ a.dist + e.dist <= radius /\ UintAdd(a.dist, e.dist) = a.dist + e.dist
    BY <1>2
  <2> QED
    BY <1>7, <2>1, <2>2
<1>10. {e \in Targets(a, n, type) : found2[OtherNode(e, type)] = UintAdd(a.dist, e.dist)}
         = {e \in Targets(a, n, type) : dists[OtherNode(e, type)] = UintAdd(a.dist, e.dist)}
  BY <1>9
<1>11. CalcShortcuts(a, n, type)
         = IF found2[n] # a.dist THEN {}
           ELSE {CreateShortcut(a, e, type) :
                   e \in {x \in Targets(a, n, type) : found2[OtherNode(x, type)] = UintAdd(a.dist, x.dist)}}
  BY <1>1 DEF CalcShortcuts, found2
<1>12. ShortcutsFound(j, dists)
         = IF dists[n] # a.dist THEN {}
           ELSE {CreateShortcut(a, e, type) :
                   e \in {x \in Targets(a, n, type) : dists[OtherNode(x, type)] = UintAdd(a.dist, x.dist)}}
  BY <1>1 DEF ShortcutsFound
<1>13. ShortcutsFound(j, dists) = CalcShortcuts(a, n, type)
  BY <1>8, <1>10, <1>11, <1>12
<1> QED
  BY <1>1, <1>13

-----------------------------------------------------------------------------
(* CHConstructor, where a node is contracted in one step.                  *)

Atomic == INSTANCE CHConstructorProofs WITH
  pc <- AbstractPc, found <- AbstractFound, edge_diffs <- AbstractEdgeDiffs

(* The same assumptions hold of it.                                        *)
LEMMA AtomicAssumptions ==
  /\ \A S : Atomic!IsFiniteSet(S) <=> IsFiniteSet(S)
  /\ \A g : Atomic!IsInputGraph(g) <=> IsInputGraph(g)
<1>1. \A S : Atomic!IsFiniteSet(S) <=> IsFiniteSet(S)
  BY DEF Atomic!IsFiniteSet, IsFiniteSet
<1>2. \A g : Atomic!IsInputGraph(g) <=> IsInputGraph(g)
  BY DEF Atomic!IsInputGraph, IsInputGraph, Atomic!Nodes, Nodes, Atomic!Uint, Uint, Atomic!NO_EID, NO_EID,
         Atomic!CHEdge, CHEdge, Atomic!SrcTgtLess, SrcTgtLess, Atomic!InputEdge, InputEdge,
         Atomic!NO_NID, NO_NID
<1> QED
  BY <1>1, <1>2

(* So its steps keep the distances.                                        *)
LEMMA AtomicKeepsDistances == Atomic!DistanceInv /\ [Atomic!Next]_(Atomic!vars) => Atomic!DistanceInv'
BY Atomic!NextKeepsDistances, AtomicAssumptions,
   SizeAssumption, InputAssumption, ThreadsAssumption, QuickAssumption

(* And its graph is the graph that is searched.                            *)
LEMMA GraphIsSearched ==
  /\ Atomic!Edges = Edges /\ Atomic!Nodes = Nodes /\ Atomic!CHEdge = CHEdge
  /\ \A E : Atomic!Distances(E) = Distances(E)
  /\ \A E, S, bound : Atomic!ShortLengths(E, S, bound) <=> ShortLengths(E, S, bound)
<1>1. Atomic!Edges = Edges
  BY DEF Atomic!Edges, Edges
<1>2. Atomic!Nodes = Nodes /\ Atomic!CHEdge = CHEdge
  BY DEF Atomic!Nodes, Nodes, Atomic!CHEdge, CHEdge, Atomic!Uint, Uint
<1>3. \A E : Atomic!Distances(E) = Distances(E)
  BY DEF Atomic!Distances, Distances, Atomic!Direct, Direct, Atomic!AllowNode, AllowNode,
         Atomic!Shortest, Shortest, Atomic!Joined, Joined, Atomic!Nodes, Nodes
<1>4. \A E, S, bound : Atomic!ShortLengths(E, S, bound) <=> ShortLengths(E, S, bound)
  BY <1>3 DEF Atomic!ShortLengths, ShortLengths, Atomic!NO_DIST, NO_DIST
<1> QED
  BY <1>1, <1>2, <1>3, <1>4

(* What is known of the state, whatever the threads have found so far.     *)
LEMMA KnownOfGraph ==
  ASSUME Atomic!DistanceInv
  PROVE  /\ Edges \in SUBSET CHEdge
         /\ \E S \in SUBSET Nodes : \E bound : ShortLengths(Edges, S, bound)
         /\ independent_set \in Seq(Nodes) /\ next_index \in Nat \ {0}
         /\ phase = "parallel" => 1..(next_index - 1) \subseteq DOMAIN independent_set
         /\ phase = "select" => Chosen \subseteq marked
<1>1. /\ Atomic!Edges \in SUBSET Atomic!CHEdge
      /\ \E S \in SUBSET Atomic!Nodes : \E bound : Atomic!ShortLengths(Atomic!Edges, S, bound)
  BY Atomic!LengthsOfGraph, AtomicAssumptions,
     SizeAssumption, InputAssumption, ThreadsAssumption, QuickAssumption
<1>2. Atomic!IInv /\ Atomic!NoneLost
  BY DEF Atomic!DistanceInv, Atomic!LoopInv
<1>3. independent_set \in Seq(Nodes) /\ next_index \in Nat \ {0}
  BY <1>2, GraphIsSearched DEF Atomic!IInv, Atomic!VariableTypes
<1>4. phase = "parallel" => 1..(next_index - 1) \subseteq DOMAIN independent_set
  BY <1>2 DEF Atomic!NoneLost
<1>5. phase = "select" => Chosen \subseteq marked
  BY <1>2 DEF Atomic!IInv, Atomic!Independent, Atomic!Chosen, Chosen
<1> QED
  BY <1>1, <1>3, <1>4, <1>5, GraphIsSearched

(* Threads work in the parallel loop only, and begin with nothing.         *)
LEMMA KnownOfThreads ==
  ASSUME Atomic!DistanceInv
  PROVE  /\ phase # "parallel" => \A t \in Threads : pc[t] = "idle"
         /\ \A t \in Threads : pc[t] = "idle" => found[t] = {}
<1>1. /\ \A t \in Threads : AbstractPc[t] = "idle" => AbstractFound[t] = {}
      /\ phase # "parallel" => \A t \in Threads : AbstractPc[t] = "idle"
  BY DEF Atomic!DistanceInv, Atomic!LoopInv, Atomic!IInv, Atomic!LocalsScoped
<1>2. \A t \in Threads : /\ AbstractPc[t] = (IF Contracting(t) THEN "insert" ELSE pc[t])
                         /\ AbstractFound[t] = (IF Contracting(t) THEN promised[t] ELSE found[t])
  BY DEF AbstractPc, AbstractFound
<1>3. \A t \in Threads : AbstractPc[t] = "idle" <=> pc[t] = "idle"
  BY <1>2 DEF Contracting
<1>4. \A t \in Threads : pc[t] = "idle" => ~Contracting(t)
  BY DEF Contracting
<1> QED
  BY <1>1, <1>2, <1>3, <1>4

-----------------------------------------------------------------------------
(* What the threads have done of their nodes.                              *)

StartEdgesOf(j) == {e \in NodeEdges(j.node, Opposite(j.type)) : NoLoop(e)}

Unfinished(t) ==
  job[t].start_edges \cup (IF pc[t] = "search" THEN {job[t].start_edge} ELSE {})

Searching(td, j) ==
  LET start == FromNode(j.start_edge, j.type)
  IN  Underway(td, j.edges, Edges, j.type, start) /\ TopSettled(td, j.top, j.edges, Edges, j.type, start)

ShortcutsFrom(starts, n, type) == UNION {CalcShortcuts(e, n, type) : e \in starts}

(* The shortcuts a thread has found and those of the searches it has not   *)
(* finished are the shortcuts of its node.                                 *)
OnTheJob(t) ==
  /\ mode = "contract"
  /\ \E i \in 1..(next_index - 1) : job[t].node = independent_set[i]
  /\ job[t].type = SearchDirection(job[t].node)
  /\ Unfinished(t) \subseteq StartEdgesOf(job[t])
  /\ promised[t] = ShortcutsOf(job[t].node)
  /\ promised[t] = found[t] \cup ShortcutsFrom(Unfinished(t), job[t].node, job[t].type)
  /\ pc[t] = "contract" => job[t].edges = {}
  /\ pc[t] = "search" => Searching(thread_data[t], job[t])

HasFields(j) ==
  j = [f \in {"node", "type", "start_edges", "start_edge", "top", "edges"} |-> j[f]]

Shapes ==
  /\ pc = [t \in Threads |-> pc[t]] /\ found = [t \in Threads |-> found[t]]
  /\ job = [t \in Threads |-> job[t]] /\ promised = [t \in Threads |-> promised[t]]
  /\ edge_diffs = [n \in Nodes |-> edge_diffs[n]]
  /\ \A t \in Threads : HasFields(job[t])

(* No node is in the independent set twice.                                *)
ChosenOnce ==
  phase \in {"select", "parallel"} =>
    \A i, k \in DOMAIN independent_set : independent_set[i] = independent_set[k] => i = k

JobsInv ==
  /\ Shapes /\ ChosenOnce
  /\ \A t \in Threads : Contracting(t) => OnTheJob(t)
  /\ \A t, u \in Threads : Contracting(t) /\ Contracting(u) /\ job[t].node = job[u].node => t = u

SearchesInv == Atomic!DistanceInv /\ LabelsInv /\ JobsInv

-----------------------------------------------------------------------------
(* What a thread leaves alone.                                             *)

(* The graph decides on the shortcuts.                                     *)
LEMMA SameGraphSameSearches ==
  ASSUME UNCHANGED out_edges
  PROVE  /\ Edges' = Edges
         /\ \A n, type : NodeEdges(n, type)' = NodeEdges(n, type)
         /\ \A n : SearchDirection(n)' = SearchDirection(n) /\ ShortcutsOf(n)' = ShortcutsOf(n)
                   /\ NrOfEdges(n)' = NrOfEdges(n)
         /\ \A starts, n, type : ShortcutsFrom(starts, n, type)' = ShortcutsFrom(starts, n, type)
<1>1. Edges' = Edges
  BY DEF Edges
<1>2. \A n, type : NodeEdges(n, type)' = NodeEdges(n, type)
  BY <1>1 DEF NodeEdges
<1>3. \A n : SearchDirection(n)' = SearchDirection(n) /\ NrOfEdges(n)' = NrOfEdges(n)
  BY <1>2 DEF SearchDirection, NrOfEdgesOf, NrOfEdges
<1>4. \A e, n, type : Targets(e, n, type)' = Targets(e, n, type)
  BY <1>2 DEF Targets
<1>5. \A e, n, type : SearchDists(e, n, type)' = SearchDists(e, n, type)
  BY <1>1, <1>4 DEF SearchDists
<1>6. \A e, n, type : CalcShortcuts(e, n, type)' = CalcShortcuts(e, n, type)
  BY <1>4, <1>5 DEF CalcShortcuts
<1>7. \A n : ShortcutsOf(n)' = ShortcutsOf(n)
  BY <1>2, <1>3, <1>6 DEF ShortcutsOf
<1>8. \A starts, n, type : ShortcutsFrom(starts, n, type)' = ShortcutsFrom(starts, n, type)
  BY <1>6 DEF ShortcutsFrom
<1> QED
  BY <1>1, <1>2, <1>3, <1>7, <1>8

(* While a thread is on its job the graph stays as it is.                  *)
GraphRests ==
  UNCHANGED <<out_edges, mode, phase, independent_set>> /\ next_index' \in {next_index, next_index + 1}

(* Other threads do not disturb it.                                        *)
LEMMA UndisturbedJob ==
  ASSUME GraphRests, next_index \in Nat, NEW t, OnTheJob(t),
         pc'[t] = pc[t], found'[t] = found[t], job'[t] = job[t], promised'[t] = promised[t],
         thread_data'[t] = thread_data[t]
  PROVE  OnTheJob(t)'
<1>1. /\ UNCHANGED <<out_edges, mode, independent_set>> /\ mode' = "contract"
      /\ \A i \in 1..(next_index - 1) : i \in 1..(next_index' - 1)
  <2>1. next_index' = next_index \/ next_index' = next_index + 1
    BY DEF GraphRests
  <2>2. \A i \in 1..(next_index - 1) : i \in 1..(next_index' - 1)
    BY <2>1
  <2> QED
    BY <2>2 DEF GraphRests, OnTheJob
<1>2. /\ Edges' = Edges
      /\ \A n, type : NodeEdges(n, type)' = NodeEdges(n, type)
      /\ \A n : SearchDirection(n)' = SearchDirection(n) /\ ShortcutsOf(n)' = ShortcutsOf(n)
      /\ \A starts, n, type : ShortcutsFrom(starts, n, type)' = ShortcutsFrom(starts, n, type)
  BY <1>1, SameGraphSameSearches
<1>3. Unfinished(t)' = Unfinished(t)
  BY DEF Unfinished
<1>4. StartEdgesOf(job[t])' = StartEdgesOf(job[t])
  BY <1>2 DEF StartEdgesOf
<1>5. pc[t] = "search" => Searching(thread_data[t], job[t])'
  BY <1>2 DEF OnTheJob, Searching
<1>6. \E i \in 1..(next_index' - 1) : job'[t].node = independent_set'[i]
  BY <1>1 DEF OnTheJob
<1>7. ShortcutsFrom(Unfinished(t), job[t].node, job[t].type)'
        = ShortcutsFrom(Unfinished(t), job[t].node, job[t].type)
  BY <1>2, <1>3
<1>8. job'[t].type = SearchDirection(job[t].node)' /\ promised'[t] = ShortcutsOf(job[t].node)'
  BY <1>2 DEF OnTheJob
<1> QED
  BY <1>1, <1>3, <1>4, <1>5, <1>6, <1>7, <1>8 DEF OnTheJob

(* If one thread changes its job, the other jobs have not to be looked at. *)
LEMMA OneThreadWorks ==
  ASSUME JobsInv, GraphRests, next_index \in Nat, NEW t \in Threads, Shapes',
         \A u \in Threads \ {t} :
           /\ pc'[u] = pc[u] /\ found'[u] = found[u] /\ job'[u] = job[u] /\ promised'[u] = promised[u]
           /\ thread_data'[u] = thread_data[u],
         Contracting(t)' => /\ OnTheJob(t)'
                            /\ \A u \in Threads \ {t} : Contracting(u) => job'[t].node # job[u].node
  PROVE  JobsInv'
<1>1. ChosenOnce'
  BY DEF JobsInv, ChosenOnce, GraphRests
<1>2. \A u \in Threads \ {t} : Contracting(u)' <=> Contracting(u)
  BY DEF Contracting
<1>3. ASSUME NEW u \in Threads, Contracting(u)' PROVE OnTheJob(u)'
  <2>1. CASE u = t
    BY <1>3, <2>1
  <2>2. CASE u # t
    <3>1. OnTheJob(u)
      BY <1>2, <1>3, <2>2 DEF JobsInv
    <3> QED
      BY <2>2, <3>1, UndisturbedJob
  <2> QED
    BY <2>1, <2>2
<1>4. ASSUME NEW u \in Threads, NEW v \in Threads, Contracting(u)', Contracting(v)', job'[u].node = job'[v].node
      PROVE  u = v
  <2>1. CASE u = t /\ v # t
    BY <1>2, <1>4, <2>1
  <2>2. CASE u # t /\ v = t
    BY <1>2, <1>4, <2>2
  <2>3. CASE u # t /\ v # t
    BY <1>2, <1>4, <2>3 DEF JobsInv
  <2> QED
    BY <2>1, <2>2, <2>3
<1> QED
  BY <1>1, <1>3, <1>4 DEF JobsInv

-----------------------------------------------------------------------------
(* The steps of a search.                                                  *)

(* What becomes of a job.                                                  *)
JobFor(node, type, S) == [NoJob EXCEPT !.node = node, !.type = type, !.start_edges = S]

WithStartEdge(j, e) == [j EXCEPT !.start_edges = @ \ {e}, !.start_edge = e]

WithTop(j, top, S) == [j EXCEPT !.top = top, !.edges = S]

WithoutEdge(j, e) == [j EXCEPT !.edges = @ \ {e}]

(* Each step changes the fields it is about.                               *)
LEMMA NewJob ==
  ASSUME NEW node, NEW type, NEW S, NEW j, j = JobFor(node, type, S)
  PROVE  /\ HasFields(j) /\ HasFields(NoJob)
         /\ j.node = node /\ j.type = type /\ j.start_edges = S /\ j.edges = {}
<1>1. PICK a, q : NoJob = [node |-> NO_NID, type |-> "OUT", start_edges |-> {}, start_edge |-> a, top |-> q, edges |-> {}]
  BY DEF NoJob
<1>2. HasFields(NoJob) /\ NoJob.edges = {}
  BY <1>1 DEF HasFields
<1> QED
  BY <1>2 DEF HasFields, JobFor

(* A start edge is taken.                                                  *)
LEMMA NextStartEdge ==
  ASSUME NEW j, HasFields(j), NEW e, NEW k, k = WithStartEdge(j, e)
  PROVE  /\ HasFields(k) /\ k.node = j.node /\ k.type = j.type /\ k.start_edges = j.start_edges \ {e}
         /\ k.start_edge = e /\ k.edges = j.edges
BY DEF HasFields, WithStartEdge

(* A top is taken.                                                         *)
LEMMA NextTop ==
  ASSUME NEW j, HasFields(j), NEW top, NEW S, NEW k, k = WithTop(j, top, S)
  PROVE  /\ HasFields(k) /\ k.node = j.node /\ k.type = j.type /\ k.start_edges = j.start_edges
         /\ k.start_edge = j.start_edge /\ k.top = top /\ k.edges = S
BY DEF HasFields, WithTop

(* An edge of it is taken.                                                 *)
LEMMA NextEdge ==
  ASSUME NEW j, HasFields(j), NEW e, NEW k, k = WithoutEdge(j, e)
  PROVE  /\ HasFields(k) /\ k.node = j.node /\ k.type = j.type /\ k.start_edges = j.start_edges
         /\ k.start_edge = j.start_edge /\ k.top = j.top /\ k.edges = j.edges \ {e}
BY DEF HasFields, WithoutEdge

(* A node is taken; none of its edges has been searched from.              *)
LEMMA TakeNodeWorks ==
  ASSUME SearchesInv, NEW t \in Threads, TakeNode(t)
  PROVE  JobsInv'
<1>0. PICK node, type : node = independent_set[next_index] /\ type = SearchDirection(node)
  OBVIOUS
<1>a. PICK starts : starts = {e \in NodeEdges(node, Opposite(type)) : NoLoop(e)}
  OBVIOUS
<1>b. PICK j : j = JobFor(node, type, starts)
  OBVIOUS
<1>1. /\ phase = "parallel" /\ mode = "contract" /\ pc[t] = "idle" /\ next_index <= Len(independent_set)
      /\ job' = [job EXCEPT ![t] = j]
      /\ promised' = [promised EXCEPT ![t] = ShortcutsOf(node)]
      /\ next_index' = next_index + 1 /\ pc' = [pc EXCEPT ![t] = "contract"]
      /\ UNCHANGED <<out_edges, mode, phase, independent_set, found, edge_diffs, thread_data>>
  BY <1>0, <1>a, <1>b DEF JobFor, TakeNode, graph_vars, loop_vars, select_vars
<1>2. Shapes /\ next_index \in Nat \ {0} /\ independent_set \in Seq(Nodes)
      /\ 1..(next_index - 1) \subseteq DOMAIN independent_set /\ found[t] = {}
  BY <1>1, KnownOfGraph, KnownOfThreads DEF SearchesInv, JobsInv
<1>3. /\ job' = [u \in Threads |-> IF u = t THEN j ELSE job[u]]
      /\ promised' = [u \in Threads |-> IF u = t THEN ShortcutsOf(node) ELSE promised[u]]
      /\ pc' = [u \in Threads |-> IF u = t THEN "contract" ELSE pc[u]]
  BY <1>1, <1>2 DEF Shapes
<1>4. HasFields(j) /\ j.node = node /\ j.type = type /\ j.start_edges = starts /\ j.edges = {}
  BY <1>b, NewJob
<1>6. Shapes'
  <2>1. \A u \in Threads : job'[u] = IF u = t THEN j ELSE job[u]
    BY <1>3
  <2>2. \A u \in Threads : HasFields(job'[u])
    BY <1>2, <1>4, <2>1 DEF Shapes
  <2> QED
    BY <1>1, <1>2, <1>3, <2>2 DEF Shapes, HasFields
<1>7. GraphRests
  BY <1>1 DEF GraphRests
<1>8. /\ job'[t] = j /\ promised'[t] = ShortcutsOf(node) /\ pc'[t] = "contract" /\ found'[t] = {}
  BY <1>1, <1>2, <1>3
<1>9. OnTheJob(t)'
  <2>1. /\ SearchDirection(node)' = type /\ ShortcutsOf(node)' = ShortcutsOf(node)
        /\ \A S, n, c : ShortcutsFrom(S, n, c)' = ShortcutsFrom(S, n, c)
        /\ \A n, c : NodeEdges(n, c)' = NodeEdges(n, c)
    BY <1>0, <1>1, SameGraphSameSearches
  <2>2. Unfinished(t)' = starts
    BY <1>4, <1>8 DEF Unfinished
  <2>3. StartEdgesOf(job[t])' = starts
    BY <1>a, <1>4, <1>8, <2>1 DEF StartEdgesOf
  <2>4. next_index \in 1..(next_index' - 1) /\ job'[t].node = independent_set'[next_index]
    <3>1. next_index' - 1 = next_index /\ next_index \in 1..next_index
      BY <1>1, <1>2
    <3>2. independent_set'[next_index] = node
      BY <1>0, <1>1
    <3> QED
      BY <1>4, <1>8, <3>1, <3>2
  <2>5. ShortcutsOf(node) = ShortcutsFrom(starts, node, type)
    BY <1>0, <1>a DEF ShortcutsOf, ShortcutsFrom
  <2>6. promised'[t] = found'[t] \cup ShortcutsFrom(Unfinished(t), job[t].node, job[t].type)'
    BY <1>4, <1>8, <2>1, <2>2, <2>5
  <2>7. job'[t].type = SearchDirection(job[t].node)' /\ promised'[t] = ShortcutsOf(job[t].node)'
    BY <1>4, <1>8, <2>1
  <2> QED
    BY <1>1, <1>4, <1>8, <2>2, <2>3, <2>4, <2>6, <2>7 DEF OnTheJob
<1>10. ASSUME NEW u \in Threads \ {t}, Contracting(u) PROVE job'[t].node # job[u].node
  <2>1. PICK i \in 1..(next_index - 1) : job[u].node = independent_set[i]
    BY <1>10 DEF SearchesInv, JobsInv, OnTheJob
  <2>2. i \in DOMAIN independent_set /\ next_index \in DOMAIN independent_set /\ i # next_index
    BY <1>1, <1>2
  <2> QED
    BY <1>0, <1>1, <1>4, <1>8, <2>1, <2>2 DEF SearchesInv, JobsInv, ChosenOnce
<1> QED
  BY <1>1, <1>2, <1>3, <1>6, <1>7, <1>9, <1>10, OneThreadWorks DEF SearchesInv

(* The search from a start edge begins.                                    *)
LEMMA StartSearchWorks ==
  ASSUME SearchesInv, NEW t \in Threads, StartSearch(t)
  PROVE  JobsInv'
<1>1. PICK e \in job[t].start_edges :
        LET start_node == OtherNode(e, Opposite(job[t].type))
        IN  /\ job' = [job EXCEPT ![t].start_edges = @ \ {e}, ![t].start_edge = e]
            /\ thread_data' = [thread_data EXCEPT ![t] =
                 [pq |-> {PQElement(start_node, 0)},
                  dists |-> [ClearedLabels(thread_data[t]) EXCEPT ![start_node] = 0],
                  reset_dists |-> {start_node}]]
  BY DEF StartSearch
<1>a. PICK j : j = WithStartEdge(job[t], e)
  OBVIOUS
<1> DEFINE start == FromNode(e, job[t].type)
           td == [pq |-> {PQElement(start, 0)},
                  dists |-> [ClearedLabels(thread_data[t]) EXCEPT ![start] = 0],
                  reset_dists |-> {start}]
<1>2. /\ pc[t] = "contract" /\ pc' = [pc EXCEPT ![t] = "search"]
      /\ UNCHANGED <<out_edges, mode, phase, independent_set, next_index, found, edge_diffs, promised>>
  BY DEF StartSearch, graph_vars, loop_vars, select_vars
<1>3. Shapes /\ OnTheJob(t) /\ next_index \in Nat /\ job[t].edges = {}
  BY <1>2, KnownOfGraph DEF SearchesInv, JobsInv, Contracting, OnTheJob
<1>4. /\ job' = [u \in Threads |-> IF u = t THEN j ELSE job[u]]
      /\ pc' = [u \in Threads |-> IF u = t THEN "search" ELSE pc[u]]
  BY <1>1, <1>2, <1>3, <1>a DEF Shapes, WithStartEdge
<1>5. thread_data' = [u \in Threads |-> IF u = t THEN td ELSE thread_data[u]]
  BY <1>1 DEF FromNode, SearchesInv, LabelsInv, ThreadDataShape
<1>6. HasFields(job[t])
  BY <1>3 DEF Shapes
<1>7. /\ j.node = job[t].node /\ j.type = job[t].type /\ j.start_edges = job[t].start_edges \ {e}
      /\ j.start_edge = e /\ j.edges = {} /\ HasFields(j)
  BY <1>3, <1>6, <1>a, NextStartEdge
<1>8. td.pq = {PQElement(start, 0)} /\ td.dists = [ClearedLabels(thread_data[t]) EXCEPT ![start] = 0]
  OBVIOUS
<1> HIDE DEF td
<1>9. Shapes'
  <2>1. \A u \in Threads : job'[u] = IF u = t THEN j ELSE job[u]
    BY <1>4
  <2>2. \A u \in Threads : HasFields(job'[u])
    BY <1>3, <1>7, <2>1 DEF Shapes
  <2> QED
    BY <1>2, <1>3, <1>4, <2>2 DEF Shapes, HasFields
<1>10. GraphRests
  BY <1>2 DEF GraphRests
<1>11. job'[t] = j /\ thread_data'[t] = td /\ pc'[t] = "search" /\ found'[t] = found[t] /\ promised'[t] = promised[t]
  BY <1>2, <1>4, <1>5
<1>12. /\ Edges' = Edges /\ \A n, type : NodeEdges(n, type)' = NodeEdges(n, type)
       /\ \A n : SearchDirection(n)' = SearchDirection(n) /\ ShortcutsOf(n)' = ShortcutsOf(n)
       /\ \A S, n, type : ShortcutsFrom(S, n, type)' = ShortcutsFrom(S, n, type)
  BY <1>2, SameGraphSameSearches
<1>13. e \in Edges /\ job[t].type \in EdgeType /\ EdgeSet(Edges)
  <2>1. e \in NodeEdges(job[t].node, Opposite(job[t].type))
    BY <1>3 DEF OnTheJob, Unfinished, StartEdgesOf
  <2>2. Edges \in SUBSET CHEdge
    BY KnownOfGraph DEF SearchesInv
  <2> QED
    BY <1>3, <2>1, <2>2, NodesAreUint DEF NodeEdges, OnTheJob, SearchDirection, EdgeType, EdgeSet, CHEdge
<1>14. Searching(td, j)
  <2>1. start \in Nodes
    BY <1>13, SearchTypes
  <2>2. ClearedLabels(thread_data[t]) = [n \in Nodes |-> NO_DIST]
    BY ClearingClears DEF SearchesInv, LabelsInv
  <2>3. Underway(td, {}, Edges, job[t].type, start)
    BY <1>8, <1>13, <2>1, <2>2, SearchStarts
  <2> QED
    BY <1>7, <2>3 DEF Searching, TopSettled
<1>15. Unfinished(t)' = Unfinished(t)
  BY <1>2, <1>7, <1>11 DEF Unfinished
<1>16. OnTheJob(t)'
  <2>1. StartEdgesOf(job[t])' = StartEdgesOf(job[t])
    BY <1>7, <1>11, <1>12 DEF StartEdgesOf
  <2>2. Searching(thread_data[t], job[t])'
    <3>1. /\ Underway(td, j.edges, Edges, j.type, FromNode(j.start_edge, j.type))
          /\ TopSettled(td, j.top, j.edges, Edges, j.type, FromNode(j.start_edge, j.type))
      BY <1>14 DEF Searching
    <3> QED
      BY <1>11, <1>12, <3>1 DEF Searching
  <2>3. ShortcutsFrom(Unfinished(t), job[t].node, job[t].type)'
          = ShortcutsFrom(Unfinished(t), job[t].node, job[t].type)
    BY <1>7, <1>11, <1>12, <1>15
  <2>4. \E i \in 1..(next_index' - 1) : job'[t].node = independent_set'[i]
    BY <1>2, <1>3, <1>7, <1>11 DEF OnTheJob
  <2> QED
    BY <1>2, <1>3, <1>7, <1>11, <1>12, <1>15, <2>1, <2>2, <2>3, <2>4 DEF OnTheJob
<1>17. \A u \in Threads \ {t} : Contracting(u) => job'[t].node # job[u].node
  BY <1>2, <1>7, <1>11 DEF SearchesInv, JobsInv, Contracting
<1> QED
  BY <1>2, <1>3, <1>4, <1>5, <1>9, <1>10, <1>16, <1>17, OneThreadWorks DEF SearchesInv


(* What a thread on its job can rely on.                                   *)
LEMMA KnownOfJob ==
  ASSUME SearchesInv, NEW t \in Threads, Contracting(t)
  PROVE  /\ Shapes /\ OnTheJob(t) /\ HasFields(job[t]) /\ phase = "parallel" /\ mode = "contract"
         /\ next_index \in Nat
         /\ job[t].node \in Nodes /\ job[t].node \in Chosen /\ job[t].type \in EdgeType
         /\ Edges \in SUBSET CHEdge /\ EdgeSet(Edges)
<1>1. Shapes /\ OnTheJob(t) /\ HasFields(job[t]) /\ mode = "contract"
  BY DEF SearchesInv, JobsInv, OnTheJob, Shapes
<1>2. phase = "parallel"
  BY KnownOfThreads DEF SearchesInv, Contracting
<1>3. /\ independent_set \in Seq(Nodes) /\ next_index \in Nat /\ Edges \in SUBSET CHEdge
      /\ 1..(next_index - 1) \subseteq DOMAIN independent_set
  BY <1>2, KnownOfGraph DEF SearchesInv
<1>4. job[t].node \in Nodes /\ job[t].node \in Chosen
  <2>1. PICK i \in DOMAIN independent_set : job[t].node = independent_set[i]
    BY <1>1, <1>3 DEF OnTheJob
  <2>2. independent_set[i] \in Nodes
    BY <1>3, <2>1
  <2> QED
    BY <2>1, <2>2 DEF Chosen
<1>5. job[t].type \in EdgeType
  BY <1>1 DEF OnTheJob, SearchDirection, EdgeType
<1>6. EdgeSet(Edges)
  BY <1>3, NodesAreUint DEF EdgeSet, CHEdge
<1> QED
  BY <1>1, <1>2, <1>3, <1>4, <1>5, <1>6

(* And on its search.                                                      *)
LEMMA KnownOfSearch ==
  ASSUME SearchesInv, NEW t \in Threads, pc[t] = "search",
         NEW start, start = FromNode(job[t].start_edge, job[t].type)
  PROVE  /\ job[t].start_edge \in NodeEdges(job[t].node, Opposite(job[t].type))
         /\ start \in Nodes /\ SumsFit(Edges, job[t].type, start)
         /\ Underway(thread_data[t], job[t].edges, Edges, job[t].type, start)
         /\ TopSettled(thread_data[t], job[t].top, job[t].edges, Edges, job[t].type, start)
<1>1. OnTheJob(t) /\ job[t].type \in EdgeType /\ Edges \in SUBSET CHEdge /\ EdgeSet(Edges)
  BY KnownOfJob DEF Contracting
<1>2. job[t].start_edge \in NodeEdges(job[t].node, Opposite(job[t].type))
  BY <1>1 DEF OnTheJob, Unfinished, StartEdgesOf
<1>3. job[t].start_edge \in Edges
  BY <1>2 DEF NodeEdges
<1>4. PICK S \in SUBSET Nodes : \E bound : ShortLengths(Edges, S, bound)
  BY KnownOfGraph DEF SearchesInv
<1>5. PICK bound : ShortLengths(Edges, S, bound)
  BY <1>4
<1>6. start \in S
  BY <1>3, <1>5 DEF ShortLengths, FromNode, OtherNode
<1>7. start \in Nodes /\ SumsFit(Edges, job[t].type, start)
  BY <1>1, <1>5, <1>6, ShortLengthsFit
<1> QED
  BY <1>1, <1>2, <1>7 DEF OnTheJob, Searching

(* A step within the search of a thread.                                   *)
LEMMA SearchStepWorks ==
  ASSUME SearchesInv, NEW t \in Threads, pc[t] = "search", UNCHANGED <<vars, promised>>,
         NEW td, thread_data' = [u \in Threads |-> IF u = t THEN td ELSE thread_data[u]],
         NEW j, job' = [u \in Threads |-> IF u = t THEN j ELSE job[u]],
         HasFields(j), j.node = job[t].node, j.type = job[t].type,
         j.start_edges = job[t].start_edges, j.start_edge = job[t].start_edge,
         Searching(td, j)
  PROVE  JobsInv'
<1>1. Shapes /\ OnTheJob(t) /\ next_index \in Nat
  BY KnownOfJob DEF Contracting
<1>2. UNCHANGED <<pc, found, edge_diffs, out_edges, mode, phase, independent_set, next_index, promised>>
  BY DEF vars, graph_vars, loop_vars, select_vars, thread_vars
<1>3. Shapes'
  <2>1. \A u \in Threads : HasFields(job'[u])
    BY <1>1 DEF Shapes
  <2> QED
    BY <1>1, <1>2, <2>1 DEF Shapes, HasFields
<1>4. GraphRests
  BY <1>2 DEF GraphRests
<1>5. job'[t] = j /\ thread_data'[t] = td
  OBVIOUS
<1>6. /\ Edges' = Edges /\ \A n, type : NodeEdges(n, type)' = NodeEdges(n, type)
      /\ \A n : SearchDirection(n)' = SearchDirection(n) /\ ShortcutsOf(n)' = ShortcutsOf(n)
      /\ \A S, n, type : ShortcutsFrom(S, n, type)' = ShortcutsFrom(S, n, type)
  BY <1>2, SameGraphSameSearches
<1>7. Unfinished(t)' = Unfinished(t)
  BY <1>2, <1>5 DEF Unfinished
<1>8. OnTheJob(t)'
  <2>1. StartEdgesOf(job[t])' = StartEdgesOf(job[t])
    BY <1>5, <1>6 DEF StartEdgesOf
  <2>2. Searching(thread_data[t], job[t])'
    <3>1. /\ Underway(td, j.edges, Edges, j.type, FromNode(j.start_edge, j.type))
          /\ TopSettled(td, j.top, j.edges, Edges, j.type, FromNode(j.start_edge, j.type))
      BY DEF Searching
    <3> QED
      BY <1>5, <1>6, <3>1 DEF Searching
  <2>3. ShortcutsFrom(Unfinished(t), job[t].node, job[t].type)'
          = ShortcutsFrom(Unfinished(t), job[t].node, job[t].type)
    BY <1>5, <1>6, <1>7
  <2>4. \E i \in 1..(next_index' - 1) : job'[t].node = independent_set'[i]
    BY <1>1, <1>2, <1>5 DEF OnTheJob
  <2>5. mode' = "contract" /\ pc'[t] = "search"
    BY <1>1, <1>2 DEF OnTheJob
  <2> QED
    BY <1>1, <1>2, <1>5, <1>6, <1>7, <2>1, <2>2, <2>3, <2>4, <2>5 DEF OnTheJob
<1>9. \A u \in Threads \ {t} : Contracting(u) => job'[t].node # job[u].node
  BY <1>5 DEF SearchesInv, JobsInv, Contracting
<1> QED
  BY <1>1, <1>2, <1>3, <1>4, <1>8, <1>9, OneThreadWorks DEF SearchesInv

(* The top of the queue is taken.                                          *)
LEMMA PopTopWorks ==
  ASSUME SearchesInv, NEW t \in Threads, PopTop(t)
  PROVE  JobsInv'
<1>1. /\ pc[t] = "search" /\ job[t].edges = {} /\ UNCHANGED <<vars, promised>>
  BY DEF PopTop
<1>2. PICK top \in TopsWithinRadius(t) :
        /\ thread_data' = [thread_data EXCEPT ![t].pq = @ \ {top}]
        /\ job' = IF thread_data[t].dists[top.node] # top.dist THEN job
                  ELSE [job EXCEPT ![t].top = top, ![t].edges = NodeEdges(top.node, job[t].type)]
  BY DEF PopTop
<1>3. top \in thread_data[t].pq /\ \A o \in thread_data[t].pq : top.dist <= o.dist
  BY <1>2 DEF TopsWithinRadius
<1>4. Shapes /\ HasFields(job[t]) /\ job[t].type \in EdgeType /\ EdgeSet(Edges)
  BY <1>1, KnownOfJob DEF Contracting
<1>5. PICK start : start = FromNode(job[t].start_edge, job[t].type)
  OBVIOUS
<1>6. start \in Nodes /\ Underway(thread_data[t], {}, Edges, job[t].type, start)
  BY <1>1, <1>5, KnownOfSearch
<1>7. PICK old : old = thread_data[t]
  OBVIOUS
<1>8. PICK td : td = [old EXCEPT !.pq = @ \ {top}]
  OBVIOUS
<1>9. td.pq = old.pq \ {top} /\ td.dists = old.dists
  <2>1. HasLabels(old)
    BY <1>7 DEF SearchesInv, LabelsInv, ThreadDataShape
  <2>2. PICK a, b, c : old = [pq |-> a, dists |-> b, reset_dists |-> c]
    BY <2>1 DEF HasLabels
  <2> QED
    BY <1>8, <2>2
<1>10. thread_data' = [u \in Threads |-> IF u = t THEN td ELSE thread_data[u]]
  BY <1>2, <1>7, <1>8 DEF SearchesInv, LabelsInv, ThreadDataShape
<1>11. PICK pending :
         pending = IF old.dists[top.node] # top.dist THEN {} ELSE {e \in Edges : FromNode(e, job[t].type) = top.node}
  OBVIOUS
<1>12. /\ Underway(td, pending, Edges, job[t].type, start)
       /\ TopSettled(td, top, pending, Edges, job[t].type, start)
  <2>1. PICK type \in EdgeType : type = job[t].type
    BY <1>4
  <2>2. Underway(old, {}, Edges, type, start)
    BY <1>6, <1>7, <2>1
  <2>3. LeastIn(top, old.pq)
    BY <1>3, <1>7 DEF LeastIn
  <2>4. pending = IF old.dists[top.node] # top.dist THEN {} ELSE {e \in Edges : FromNode(e, type) = top.node}
    BY <1>11, <2>1
  <2>5. Underway(td, pending, Edges, type, start) /\ TopSettled(td, top, pending, Edges, type, start)
    BY <1>4, <1>6, <1>9, <2>2, <2>3, <2>4, PopKeeps
  <2> QED
    BY <2>1, <2>5
<1>13. CASE old.dists[top.node] # top.dist
  <2>1. job' = [u \in Threads |-> IF u = t THEN job[t] ELSE job[u]]
    BY <1>2, <1>4, <1>7, <1>13 DEF Shapes
  <2>2. Searching(td, job[t])
    BY <1>1, <1>5, <1>11, <1>12, <1>13 DEF Searching, TopSettled
  <2> QED
    BY <1>1, <1>4, <1>10, <2>1, <2>2, SearchStepWorks
<1>14. CASE old.dists[top.node] = top.dist
  <2>1. pending = NodeEdges(top.node, job[t].type)
    BY <1>11, <1>14 DEF NodeEdges, FromNode
  <2>2. PICK j : j = WithTop(job[t], top, pending)
    OBVIOUS
  <2>3. job' = [u \in Threads |-> IF u = t THEN j ELSE job[u]]
    BY <1>2, <1>4, <1>7, <1>14, <2>1, <2>2 DEF Shapes, WithTop
  <2>4. /\ HasFields(j) /\ j.node = job[t].node /\ j.type = job[t].type /\ j.start_edges = job[t].start_edges
        /\ j.start_edge = job[t].start_edge /\ j.top = top /\ j.edges = pending
    BY <1>4, <2>2, NextTop
  <2>5. Searching(td, j)
    BY <1>5, <1>12, <2>4 DEF Searching
  <2> QED
    BY <1>1, <1>10, <2>3, <2>4, <2>5, SearchStepWorks
<1> QED
  BY <1>13, <1>14

(* An edge of the top is relaxed.                                          *)
LEMMA RelaxEdgeWorks ==
  ASSUME SearchesInv, NEW t \in Threads, RelaxEdge(t)
  PROVE  JobsInv'
<1>1. pc[t] = "search" /\ UNCHANGED <<vars, promised>>
  BY DEF RelaxEdge
<1>2. PICK e \in job[t].edges :
        /\ job' = [job EXCEPT ![t].edges = @ \ {e}]
        /\ thread_data' = [thread_data EXCEPT ![t] =
             Relaxed(@, OtherNode(e, job[t].type), UintAdd(job[t].top.dist, e.dist))]
  BY DEF RelaxEdge
<1>3. Shapes /\ HasFields(job[t]) /\ job[t].type \in EdgeType /\ EdgeSet(Edges)
  BY <1>1, KnownOfJob DEF Contracting
<1>4. PICK start : start = FromNode(job[t].start_edge, job[t].type)
  OBVIOUS
<1>5. /\ start \in Nodes /\ SumsFit(Edges, job[t].type, start)
      /\ Underway(thread_data[t], job[t].edges, Edges, job[t].type, start)
      /\ TopSettled(thread_data[t], job[t].top, job[t].edges, Edges, job[t].type, start)
  BY <1>1, <1>4, KnownOfSearch
<1>6. HasLabels(thread_data[t])
  BY DEF SearchesInv, LabelsInv, ThreadDataShape
<1>7. PICK td : td = Relaxed(thread_data[t], OtherNode(e, job[t].type), UintAdd(job[t].top.dist, e.dist))
  OBVIOUS
<1>8. thread_data' = [u \in Threads |-> IF u = t THEN td ELSE thread_data[u]]
  BY <1>2, <1>7 DEF SearchesInv, LabelsInv, ThreadDataShape
<1>9. /\ Underway(td, job[t].edges \ {e}, Edges, job[t].type, start)
      /\ TopSettled(td, job[t].top, job[t].edges \ {e}, Edges, job[t].type, start)
  BY <1>2, <1>3, <1>5, <1>6, <1>7, RelaxKeeps
<1>10. PICK j : j = WithoutEdge(job[t], e)
  OBVIOUS
<1>11. job' = [u \in Threads |-> IF u = t THEN j ELSE job[u]]
  BY <1>2, <1>3, <1>10 DEF Shapes, WithoutEdge
<1>12. /\ HasFields(j) /\ j.node = job[t].node /\ j.type = job[t].type /\ j.start_edges = job[t].start_edges
       /\ j.start_edge = job[t].start_edge /\ j.top = job[t].top /\ j.edges = job[t].edges \ {e}
  BY <1>3, <1>10, NextEdge
<1>13. Searching(td, j)
  BY <1>4, <1>9, <1>12 DEF Searching
<1> QED
  BY <1>1, <1>8, <1>11, <1>12, <1>13, SearchStepWorks

-----------------------------------------------------------------------------
(* The end of a search.                                                    *)

SearchDone(t) == pc[t] = "search" /\ job[t].edges = {} /\ TopsWithinRadius(t) = {}

(* The labels within the radius are the distances.                         *)
LEMMA FinishedSearchIsExact ==
  ASSUME SearchesInv, NEW t \in Threads, SearchDone(t),
         NEW start, start = FromNode(job[t].start_edge, job[t].type)
  PROVE  \A n \in Nodes : \A d \in Nat : d <= SearchRadius(job[t]) =>
           (thread_data[t].dists[n] = d <=> <<start, n, d>> \in Ways(Edges, job[t].type))
<1>1. /\ job[t].node \in Nodes /\ job[t].type \in EdgeType /\ Edges \in SUBSET CHEdge /\ EdgeSet(Edges)
  BY KnownOfJob DEF SearchDone, Contracting
<1>2. /\ job[t].start_edge \in NodeEdges(job[t].node, Opposite(job[t].type))
      /\ start \in Nodes /\ Underway(thread_data[t], {}, Edges, job[t].type, start)
  BY KnownOfSearch DEF SearchDone
<1>3. PICK S \in SUBSET Nodes : \E bound : ShortLengths(Edges, S, bound)
  BY KnownOfGraph DEF SearchesInv
<1>4. PICK bound : ShortLengths(Edges, S, bound)
  BY <1>3
<1>5a. PICK td : td = thread_data[t]
  OBVIOUS
<1>5b. PICK type \in EdgeType : type = job[t].type
  BY <1>1
<1>5. PICK node \in Nodes : node = job[t].node /\ type = job[t].type /\ td = thread_data[t]
  BY <1>1, <1>5a, <1>5b
<1>6. PICK a \in NodeEdges(node, Opposite(type)) : a = job[t].start_edge
  BY <1>2, <1>5
<1>7. PICK radius : radius = Radius({e.dist : e \in Targets(a, node, type)}, a)
  OBVIOUS
<1>8. radius \in Nat /\ radius < NO_DIST
  BY <1>1, <1>4, <1>7, RadiusFits
<1>9. SearchRadius(job[t]) = radius
  BY <1>5, <1>6, <1>7 DEF SearchRadius
<1>10. {q \in td.pq : (\A o \in td.pq : q.dist <= o.dist) /\ WithinRadius(q.dist, radius)} = {}
  BY <1>5, <1>9 DEF SearchDone, TopsWithinRadius
<1>11. Underway(td, {}, Edges, type, start)
  BY <1>2, <1>5
<1>12. ASSUME NEW n \in Nodes, NEW d \in Nat, d <= radius
       PROVE  td.dists[n] = d <=> <<start, n, d>> \in Ways(Edges, type)
  BY <1>1, <1>2, <1>8, <1>10, <1>11, <1>12, SearchIsExact
<1> QED
  BY <1>5, <1>9, <1>12

(* The shortcuts found are those of the start edge.                        *)
LEMMA FinishSearchWorks ==
  ASSUME SearchesInv, NEW t \in Threads, FinishSearch(t)
  PROVE  JobsInv'
<1>1. /\ SearchDone(t) /\ pc[t] = "search" /\ pc' = [pc EXCEPT ![t] = "contract"]
      /\ found' = [found EXCEPT ![t] = @ \cup ShortcutsFound(job[t], thread_data[t].dists)]
      /\ UNCHANGED <<out_edges, mode, phase, independent_set, next_index, edge_diffs, job, thread_data, promised>>
  BY DEF FinishSearch, SearchDone, graph_vars, loop_vars, select_vars, search_vars
<1>2. /\ Shapes /\ OnTheJob(t) /\ next_index \in Nat
      /\ job[t].node \in Nodes /\ job[t].type \in EdgeType /\ Edges \in SUBSET CHEdge
  BY <1>1, KnownOfJob DEF Contracting
<1>3. PICK start : start = FromNode(job[t].start_edge, job[t].type)
  OBVIOUS
<1>4. job[t].start_edge \in NodeEdges(job[t].node, Opposite(job[t].type))
  BY <1>1, <1>3, KnownOfSearch
<1>5. PICK S \in SUBSET Nodes : \E bound : ShortLengths(Edges, S, bound)
  BY KnownOfGraph DEF SearchesInv
<1>6. PICK bound : ShortLengths(Edges, S, bound)
  BY <1>5
<1>7. PICK j, dists : j = job[t] /\ dists = thread_data[t].dists
  OBVIOUS
<1>8. \A n \in Nodes : \A d \in Nat : d <= SearchRadius(j) =>
        (dists[n] = d <=> <<FromNode(j.start_edge, j.type), n, d>> \in Ways(Edges, j.type))
  BY <1>1, <1>3, <1>7, FinishedSearchIsExact
<1>9. ShortcutsFound(j, dists) = CalcShortcuts(j.start_edge, j.node, j.type)
  BY <1>2, <1>4, <1>6, <1>7, <1>8, SameShortcutsFound
<1>10. /\ pc' = [u \in Threads |-> IF u = t THEN "contract" ELSE pc[u]]
       /\ found' = [u \in Threads |-> IF u = t THEN found[t] \cup CalcShortcuts(j.start_edge, j.node, j.type)
                                      ELSE found[u]]
  BY <1>1, <1>2, <1>7, <1>9 DEF Shapes
<1>11. Shapes'
  <2>1. \A u \in Threads : HasFields(job'[u])
    BY <1>1, <1>2 DEF Shapes
  <2> QED
    BY <1>1, <1>2, <1>10, <2>1 DEF Shapes, HasFields
<1>12. GraphRests
  BY <1>1 DEF GraphRests
<1>13. /\ Edges' = Edges /\ \A n, type : NodeEdges(n, type)' = NodeEdges(n, type)
       /\ \A n : SearchDirection(n)' = SearchDirection(n) /\ ShortcutsOf(n)' = ShortcutsOf(n)
       /\ \A X, n, type : ShortcutsFrom(X, n, type)' = ShortcutsFrom(X, n, type)
  BY <1>1, SameGraphSameSearches
<1>14. pc'[t] = "contract" /\ found'[t] = found[t] \cup CalcShortcuts(j.start_edge, j.node, j.type)
  BY <1>10
<1>15. Unfinished(t) = j.start_edges \cup {j.start_edge} /\ Unfinished(t)' = j.start_edges
  BY <1>1, <1>7, <1>14 DEF Unfinished
<1>16. OnTheJob(t)'
  <2>1. StartEdgesOf(job[t])' = StartEdgesOf(job[t])
    BY <1>1, <1>13 DEF StartEdgesOf
  <2>2. Unfinished(t)' \subseteq StartEdgesOf(job[t])'
    BY <1>2, <1>15, <2>1 DEF OnTheJob
  <2>3. ShortcutsFrom(Unfinished(t), j.node, j.type)
          = ShortcutsFrom(j.start_edges, j.node, j.type) \cup CalcShortcuts(j.start_edge, j.node, j.type)
    BY <1>15 DEF ShortcutsFrom
  <2>4. ShortcutsFrom(Unfinished(t), job[t].node, job[t].type)' = ShortcutsFrom(j.start_edges, j.node, j.type)
    BY <1>1, <1>7, <1>13, <1>15
  <2>5. promised[t] = found[t] \cup ShortcutsFrom(Unfinished(t), j.node, j.type)
    BY <1>2, <1>7 DEF OnTheJob
  <2>6. promised'[t] = found'[t] \cup ShortcutsFrom(Unfinished(t), job[t].node, job[t].type)'
    BY <1>1, <1>14, <2>3, <2>4, <2>5
  <2>7. \E i \in 1..(next_index' - 1) : job'[t].node = independent_set'[i]
    BY <1>1, <1>2 DEF OnTheJob
  <2>8. mode' = "contract" /\ job'[t].edges = {}
    BY <1>1, <1>2 DEF OnTheJob, SearchDone
  <2>9. job'[t].type = SearchDirection(job[t].node)' /\ promised'[t] = ShortcutsOf(job[t].node)'
    BY <1>1, <1>2, <1>13 DEF OnTheJob
  <2> QED
    BY <1>14, <2>2, <2>6, <2>7, <2>8, <2>9 DEF OnTheJob
<1>17. \A u \in Threads \ {t} : Contracting(u) => job'[t].node # job[u].node
  BY <1>1 DEF SearchesInv, JobsInv, Contracting
<1> QED
  BY <1>1, <1>2, <1>10, <1>11, <1>12, <1>16, <1>17, OneThreadWorks DEF SearchesInv

(* The node is done.                                                       *)
LEMMA FinishNodeWorks ==
  ASSUME SearchesInv, NEW t \in Threads, FinishNode(t)
  PROVE  JobsInv'
<1>1. /\ pc[t] = "contract" /\ pc' = [pc EXCEPT ![t] = "insert"]
      /\ edge_diffs' = [edge_diffs EXCEPT ![job[t].node] = Cardinality(found[t]) - NrOfEdges(job[t].node)]
      /\ job' = [job EXCEPT ![t] = NoJob] /\ promised' = [promised EXCEPT ![t] = {}]
      /\ UNCHANGED <<out_edges, mode, phase, independent_set, next_index, found, thread_data>>
  BY DEF FinishNode, graph_vars, loop_vars, select_vars
<1>2. Shapes /\ next_index \in Nat
  BY <1>1, KnownOfJob DEF Contracting
<1>3. /\ pc' = [u \in Threads |-> IF u = t THEN "insert" ELSE pc[u]]
      /\ job' = [u \in Threads |-> IF u = t THEN NoJob ELSE job[u]]
      /\ promised' = [u \in Threads |-> IF u = t THEN {} ELSE promised[u]]
  BY <1>1, <1>2 DEF Shapes
<1>4. edge_diffs' = [n \in Nodes |-> edge_diffs'[n]]
  BY <1>1, <1>2 DEF Shapes
<1>5. HasFields(NoJob)
  BY NewJob
<1>6. Shapes'
  <2>1. \A u \in Threads : job'[u] = IF u = t THEN NoJob ELSE job[u]
    BY <1>3
  <2>2. \A u \in Threads : HasFields(job'[u])
    BY <1>2, <1>5, <2>1 DEF Shapes
  <2> QED
    BY <1>1, <1>2, <1>3, <1>4, <2>2 DEF Shapes, HasFields
<1>7. GraphRests
  BY <1>1 DEF GraphRests
<1>8. ~Contracting(t)'
  BY <1>3 DEF Contracting
<1>9. \A u \in Threads \ {t} :
        /\ pc'[u] = pc[u] /\ found'[u] = found[u] /\ job'[u] = job[u] /\ promised'[u] = promised[u]
        /\ thread_data'[u] = thread_data[u]
  BY <1>1, <1>3
<1> QED
  BY <1>2, <1>6, <1>7, <1>8, <1>9, OneThreadWorks DEF SearchesInv

-----------------------------------------------------------------------------
(* The other steps.                                                        *)

(* Where no thread is on a job, only these have to be looked at.           *)
LEMMA NobodyOnTheJob ==
  ASSUME Shapes', ChosenOnce', \A t \in Threads : ~Contracting(t)'
  PROVE  JobsInv'
BY DEF JobsInv

(* The steps outside of the parallel loop.                                 *)
LEMMA OtherPhasesWork ==
  ASSUME SearchesInv, UNCHANGED <<search_vars, pc, found, edge_diffs>>,
         \A t \in Threads : pc[t] = "idle", ChosenOnce'
  PROVE  JobsInv'
<1>1. UNCHANGED <<job, promised, pc, found, edge_diffs>>
  BY DEF search_vars
<1>2. Shapes
  BY DEF SearchesInv, JobsInv
<1>3. Shapes'
  <2>1. \A t \in Threads : HasFields(job'[t])
    BY <1>1, <1>2 DEF Shapes
  <2> QED
    BY <1>1, <1>2, <2>1 DEF Shapes, HasFields
<1>4. \A t \in Threads : ~Contracting(t)'
  BY <1>1 DEF Contracting
<1> QED
  BY <1>3, <1>4, NobodyOnTheJob

(* A node that is chosen was not chosen before.                            *)
LEMMA SelectNodeWorks ==
  ASSUME SearchesInv, SelectNode
  PROVE  ChosenOnce'
<1>1. phase = "select" /\ phase' = phase /\ ChosenOnce
  BY DEF SelectNode, loop_vars, SearchesInv, JobsInv
<1>2. Chosen \subseteq marked /\ independent_set \in Seq(Nodes)
  BY <1>1, KnownOfGraph DEF SearchesInv
<1>3. \A i, k \in DOMAIN independent_set : independent_set[i] = independent_set[k] => i = k
  BY <1>1 DEF ChosenOnce
<1>4. CASE UNCHANGED independent_set
  BY <1>1, <1>4 DEF ChosenOnce
<1>5. CASE \E n \in unvisited : n \notin marked /\ independent_set' = Append(independent_set, n)
  <2>1. PICK n : n \notin marked /\ independent_set' = Append(independent_set, n)
    BY <1>5
  <2>2. \A i \in DOMAIN independent_set : independent_set[i] # n
    BY <1>2, <2>1 DEF Chosen
  <2>3. PICK l \in Nat : l = Len(independent_set) /\ DOMAIN independent_set = 1..l
    BY <1>2
  <2>4. /\ DOMAIN independent_set' = 1..(l + 1)
        /\ independent_set'[l + 1] = n
        /\ \A i \in 1..l : independent_set'[i] = independent_set[i]
    BY <1>2, <2>1, <2>3
  <2>5. \A i \in 1..(l + 1) : i \in 1..l \/ i = l + 1
    BY <2>3
  <2>6. \A i, k \in 1..(l + 1) : independent_set'[i] = independent_set'[k] => i = k
    BY <1>3, <2>2, <2>3, <2>4, <2>5
  <2> QED
    BY <2>4, <2>6 DEF ChosenOnce
<1>6. UNCHANGED independent_set \/ \E n \in unvisited : n \notin marked /\ independent_set' = Append(independent_set, n)
  BY DEF SelectNode
<1> QED
  BY <1>4, <1>5, <1>6

(* The steps of the threads that are not about searching.                  *)
LEMMA InsertWorks ==
  ASSUME SearchesInv, NEW t \in Threads, LockInsert(t) \/ FinishInsert(t), UNCHANGED search_vars
  PROVE  JobsInv'
<1>1. PICK now, new :
        /\ ~(now \in {"contract", "search"}) /\ pc' = [pc EXCEPT ![t] = now]
        /\ found' = [found EXCEPT ![t] = new]
  <2>1. CASE LockInsert(t)
    <3>1. found' = [found EXCEPT ![t] = found[t]]
      BY <2>1 DEF LockInsert, SearchesInv, JobsInv, Shapes
    <3>2. pc' = [pc EXCEPT ![t] = "inserting"]
      BY <2>1 DEF LockInsert
    <3> QED
      BY <3>1, <3>2
  <2>2. CASE FinishInsert(t)
    BY <2>2 DEF FinishInsert
  <2> QED
    BY <2>1, <2>2
<1>2. UNCHANGED <<out_edges, mode, phase, independent_set, next_index, edge_diffs, job, thread_data, promised>>
  BY DEF LockInsert, FinishInsert, graph_vars, loop_vars, select_vars, search_vars
<1>3. Shapes /\ next_index \in Nat
  BY KnownOfGraph DEF SearchesInv, JobsInv
<1>4. /\ pc' = [u \in Threads |-> IF u = t THEN now ELSE pc[u]]
      /\ found' = [u \in Threads |-> IF u = t THEN new ELSE found[u]]
  BY <1>1, <1>3 DEF Shapes
<1>5. Shapes'
  <2>1. \A u \in Threads : HasFields(job'[u])
    BY <1>2, <1>3 DEF Shapes
  <2> QED
    BY <1>2, <1>3, <1>4, <2>1 DEF Shapes, HasFields
<1>6. GraphRests
  BY <1>2 DEF GraphRests
<1>7. ~Contracting(t)'
  BY <1>1, <1>4 DEF Contracting
<1>8. \A u \in Threads \ {t} :
        /\ pc'[u] = pc[u] /\ found'[u] = found[u] /\ job'[u] = job[u] /\ promised'[u] = promised[u]
        /\ thread_data'[u] = thread_data[u]
  BY <1>2, <1>4
<1> QED
  BY <1>3, <1>5, <1>6, <1>7, <1>8, OneThreadWorks DEF SearchesInv

(* In quickContract() no thread searches.                                  *)
LEMMA QuickNodeWorks ==
  ASSUME SearchesInv, NEW t \in Threads, mode = "quick", ContractNode(t), UNCHANGED search_vars
  PROVE  JobsInv' /\ \A u \in Threads : ~Contracting(u) /\ ~Contracting(u)'
<1>1. /\ phase = "parallel" /\ pc' = [pc EXCEPT ![t] = "insert"]
      /\ found' = [found EXCEPT ![t] = Shortcuts(independent_set[next_index])]
      /\ UNCHANGED <<mode, phase, independent_set, edge_diffs, job, promised>>
  BY DEF ContractNode, loop_vars, select_vars, search_vars
<1>2. Shapes /\ ChosenOnce
  BY DEF SearchesInv, JobsInv
<1>3. \A u \in Threads : ~Contracting(u)
  BY DEF SearchesInv, JobsInv, OnTheJob
<1>4. /\ pc' = [u \in Threads |-> IF u = t THEN "insert" ELSE pc[u]]
      /\ found' = [u \in Threads |-> IF u = t THEN Shortcuts(independent_set[next_index]) ELSE found[u]]
  BY <1>1, <1>2 DEF Shapes
<1>5. Shapes'
  <2>1. \A u \in Threads : HasFields(job'[u])
    BY <1>1, <1>2 DEF Shapes
  <2>2. found' = [u \in Threads |-> found'[u]]
    BY <1>4
  <2> QED
    BY <1>1, <1>2, <1>4, <2>1, <2>2 DEF Shapes, HasFields
<1>6. \A u \in Threads : ~Contracting(u)'
  BY <1>3, <1>4 DEF Contracting
<1>7. ChosenOnce'
  BY <1>1, <1>2 DEF ChosenOnce
<1> QED
  BY <1>3, <1>5, <1>6, <1>7, NobodyOnTheJob

(* Every step keeps what is known of the jobs.                             *)
LEMMA StepsKeepJobs ==
  ASSUME SearchesInv, [SearchNext]_witness_vars
  PROVE  JobsInv'
<1>1. ASSUME NEW t \in Threads, Search(t) PROVE JobsInv'
  BY <1>1, TakeNodeWorks, StartSearchWorks, PopTopWorks, RelaxEdgeWorks, FinishSearchWorks, FinishNodeWorks DEF Search
<1>2. CASE UNCHANGED witness_vars
  <2>1. UNCHANGED <<search_vars, pc, found, edge_diffs, mode, phase, independent_set, out_edges, next_index>>
    BY <1>2 DEF witness_vars, vars, graph_vars, loop_vars, select_vars, thread_vars
  <2>2. UNCHANGED <<job, thread_data, promised>> /\ Shapes /\ next_index \in Nat /\ JobsInv
    BY <2>1, KnownOfGraph DEF SearchesInv, JobsInv, search_vars
  <2>3. Shapes'
    <3>1. \A t \in Threads : HasFields(job'[t])
      BY <2>2 DEF Shapes
    <3> QED
      BY <2>1, <2>2, <3>1 DEF Shapes, HasFields
  <2>4. ChosenOnce' /\ GraphRests
    BY <2>1, <2>2 DEF ChosenOnce, JobsInv, GraphRests
  <2>5. \A t \in Threads : Contracting(t)' => Contracting(t)
    BY <2>1 DEF Contracting
  <2>6. ASSUME NEW t \in Threads, Contracting(t)' PROVE OnTheJob(t)'
    BY <2>1, <2>2, <2>4, <2>5, <2>6, UndisturbedJob DEF JobsInv
  <2> QED
    BY <2>2, <2>3, <2>4, <2>5, <2>6 DEF JobsInv
<1>3. ASSUME OtherStep PROVE JobsInv'
  <2>1. UNCHANGED search_vars
    BY <1>3 DEF OtherStep
  <2>2. phase # "parallel" => \A t \in Threads : pc[t] = "idle"
    BY KnownOfThreads DEF SearchesInv
  <2>3. ChosenOnce /\ phase \in {"select", "parallel"} => \A i, k \in DOMAIN independent_set : independent_set[i] = independent_set[k] => i = k
    BY DEF ChosenOnce
  <2>4. ChosenOnce
    BY DEF SearchesInv, JobsInv
  <2>5. CASE StartRound
    <3>1. phase = "round" /\ independent_set' = <<>> /\ UNCHANGED <<pc, found, edge_diffs>>
      BY <2>5 DEF StartRound
    <3>2. ChosenOnce'
      BY <3>1 DEF ChosenOnce
    <3> QED
      BY <2>1, <2>2, <3>1, <3>2, OtherPhasesWork
  <2>6. CASE QuickContractReturns \/ ContractReturns
    <3>1. phase # "parallel" /\ phase' \in {"round", "contracted"} /\ UNCHANGED <<pc, found, edge_diffs>>
      BY <2>6 DEF QuickContractReturns, ContractReturns, thread_vars
    <3>2. ChosenOnce'
      BY <3>1 DEF ChosenOnce
    <3> QED
      BY <2>1, <2>2, <3>1, <3>2, OtherPhasesWork
  <2>7. CASE SelectNode
    <3>1. phase = "select" /\ UNCHANGED <<pc, found, edge_diffs>>
      BY <2>7 DEF SelectNode, thread_vars
    <3> QED
      BY <2>1, <2>2, <2>7, <3>1, SelectNodeWorks, OtherPhasesWork
  <2>8. CASE EnterParallelLoop
    <3>1. phase = "select" /\ UNCHANGED <<pc, found, edge_diffs, independent_set>>
      BY <2>8 DEF EnterParallelLoop, select_vars
    <3>2. ChosenOnce'
      BY <2>3, <2>4, <3>1 DEF ChosenOnce
    <3> QED
      BY <2>1, <2>2, <3>1, <3>2, OtherPhasesWork
  <2>9. ASSUME NEW t \in Threads, (mode = "quick" /\ ContractNode(t)) \/ LockInsert(t) \/ FinishInsert(t)
        PROVE  JobsInv'
    BY <2>1, <2>9, QuickNodeWorks, InsertWorks
  <2>10. CASE ChooseRemoveNodes
    <3>1. (\A t \in Threads : pc[t] = "idle") /\ phase' = "restructure" /\ UNCHANGED <<pc, found, edge_diffs>>
      BY <2>10 DEF ChooseRemoveNodes, LoopDone, thread_vars
    <3>2. ChosenOnce'
      BY <3>1 DEF ChosenOnce
    <3> QED
      BY <2>1, <3>1, <3>2, OtherPhasesWork
  <2>11. CASE Restructure \/ EndRound
    <3>1. phase = "restructure" /\ phase' \in {"restructure", "round"} /\ UNCHANGED <<pc, found, edge_diffs>>
      BY <2>11 DEF Restructure, EndRound, thread_vars, loop_vars
    <3>2. ChosenOnce'
      BY <3>1 DEF ChosenOnce
    <3> QED
      BY <2>1, <2>2, <3>1, <3>2, OtherPhasesWork
  <2>12. CASE Terminated
    <3>1. UNCHANGED witness_vars
      BY <2>1, <2>12 DEF Terminated, witness_vars
    <3> QED
      BY <1>2, <3>1
  <2> QED
    BY <1>3, <2>5, <2>6, <2>7, <2>8, <2>9, <2>10, <2>11, <2>12 DEF OtherStep
<1> QED
  BY <1>1, <1>2, <1>3 DEF SearchNext

-----------------------------------------------------------------------------
(* What CHConstructor sees.                                                *)

AtNode(n) == {t \in Threads : Contracting(t) /\ job[t].node = n}

(* A thread on a job stands for its node.                                  *)
LEMMA EdgeDiffsSeen ==
  /\ \A n \in Nodes : AbstractEdgeDiffs[n] =
       IF AtNode(n) = {} THEN edge_diffs[n]
       ELSE Cardinality(UNION {promised[t] : t \in AtNode(n)}) - NrOfEdges(n)
  /\ \A t \in Threads : /\ AbstractPc[t] = (IF Contracting(t) THEN "insert" ELSE pc[t])
                        /\ AbstractFound[t] = (IF Contracting(t) THEN promised[t] ELSE found[t])
  /\ AbstractPc = [t \in Threads |-> AbstractPc[t]]
  /\ AbstractFound = [t \in Threads |-> AbstractFound[t]]
  /\ AbstractEdgeDiffs = [n \in Nodes |-> AbstractEdgeDiffs[n]]
BY DEF AbstractEdgeDiffs, AbstractPc, AbstractFound, AtNode

(* Where no thread is on a job, it sees what there is.                     *)
LEMMA NothingHidden ==
  Shapes /\ (\A t \in Threads : ~Contracting(t)) =>
    AbstractPc = pc /\ AbstractFound = found /\ AbstractEdgeDiffs = edge_diffs
<1> SUFFICES ASSUME Shapes, \A t \in Threads : ~Contracting(t)
             PROVE  AbstractPc = pc /\ AbstractFound = found /\ AbstractEdgeDiffs = edge_diffs
  OBVIOUS
<1>1. \A n \in Nodes : AtNode(n) = {}
  BY DEF AtNode
<1>2. /\ AbstractPc = [t \in Threads |-> pc[t]] /\ AbstractFound = [t \in Threads |-> found[t]]
      /\ AbstractEdgeDiffs = [n \in Nodes |-> edge_diffs[n]]
  BY <1>1 DEF AbstractPc, AbstractFound, AbstractEdgeDiffs, AtNode
<1> QED
  BY <1>2 DEF Shapes

(* The same of the next state.                                             *)
LEMMA NothingHiddenNext ==
  ASSUME Shapes', \A t \in Threads : ~Contracting(t)'
  PROVE  AbstractPc' = pc' /\ AbstractFound' = found' /\ AbstractEdgeDiffs' = edge_diffs'
<1>1. \A n \in Nodes : AtNode(n)' = {}
  BY DEF AtNode
<1>2. AbstractPc' = [t \in Threads |-> pc'[t]] /\ AbstractFound' = [t \in Threads |-> found'[t]]
  BY DEF AbstractPc, AbstractFound
<1>3. AbstractEdgeDiffs' = [n \in Nodes |-> edge_diffs'[n]]
  BY <1>1 DEF AbstractEdgeDiffs, AtNode
<1> QED
  BY <1>2, <1>3 DEF Shapes

(* It does not see the steps of a search.                                  *)
LEMMA SearchUnseen ==
  ASSUME UNCHANGED <<promised, edge_diffs, out_edges>>,
         \A t \in Threads : job'[t].node = job[t].node,
         \A t \in Threads : Contracting(t)' <=> Contracting(t),
         \A t \in Threads : ~Contracting(t) => pc'[t] = pc[t] /\ found'[t] = found[t]
  PROVE  UNCHANGED <<AbstractPc, AbstractFound, AbstractEdgeDiffs>>
<1>1. AbstractPc' = AbstractPc
  BY DEF AbstractPc
<1>2. AbstractFound' = AbstractFound
  BY DEF AbstractFound
<1>3. \A n : AtNode(n)' = AtNode(n)
  BY DEF AtNode
<1>4. \A n : NrOfEdges(n)' = NrOfEdges(n)
  BY SameGraphSameSearches
<1>5. ASSUME NEW n \in Nodes PROVE AbstractEdgeDiffs'[n] = AbstractEdgeDiffs[n]
  <2>1. AbstractEdgeDiffs'[n] =
          IF AtNode(n)' = {} THEN edge_diffs'[n]
          ELSE Cardinality(UNION {promised'[t] : t \in AtNode(n)'}) - NrOfEdges(n)'
    BY DEF AbstractEdgeDiffs, AtNode
  <2>2. AbstractEdgeDiffs[n] =
          IF AtNode(n) = {} THEN edge_diffs[n]
          ELSE Cardinality(UNION {promised[t] : t \in AtNode(n)}) - NrOfEdges(n)
    BY EdgeDiffsSeen
  <2>3. edge_diffs' = edge_diffs /\ promised' = promised
    OBVIOUS
  <2>4. {promised'[t] : t \in AtNode(n)'} = {promised[t] : t \in AtNode(n)}
    BY <1>3, <2>3
  <2> QED
    BY <1>3, <1>4, <2>1, <2>2, <2>3, <2>4
<1>6. AbstractEdgeDiffs' = [n \in Nodes |-> AbstractEdgeDiffs'[n]]
  BY DEF AbstractEdgeDiffs
<1> QED
  BY <1>1, <1>2, <1>5, <1>6, EdgeDiffsSeen

(* The shortcuts of a node and the number of its edges are the same for    *)
(* both.                                                                   *)
LEMMA SameForBoth ==
  /\ \A n, type : Atomic!NodeEdges(n, type) = NodeEdges(n, type)
  /\ \A n : Atomic!NrOfEdges(n) = NrOfEdges(n) /\ Atomic!ShortcutsOf(n) = ShortcutsOf(n)
           /\ Atomic!QuickShortcutsOf(n) = QuickShortcutsOf(n)
           /\ Atomic!InOutProduct(n) = InOutProduct(n) /\ Atomic!Neighbours(n) = Neighbours(n)
  /\ \A S : Atomic!Cardinality(S) = Cardinality(S)
<1>1. \A n, type : Atomic!NodeEdges(n, type) = NodeEdges(n, type)
  BY DEF Atomic!NodeEdges, NodeEdges, Atomic!Edges, Edges, Atomic!OtherNode, OtherNode, Atomic!Opposite, Opposite
<1>2. \A S : Atomic!Cardinality(S) = Cardinality(S)
  BY DEF Atomic!Cardinality, Cardinality
<1>3. \A n, type : Atomic!NrOfEdgesOf(n, type) = NrOfEdgesOf(n, type)
  BY <1>1, <1>2 DEF Atomic!NrOfEdgesOf, NrOfEdgesOf
<1>4. \A n : /\ Atomic!NrOfEdges(n) = NrOfEdges(n) /\ Atomic!InOutProduct(n) = InOutProduct(n)
             /\ Atomic!SearchDirection(n) = SearchDirection(n)
  BY <1>3 DEF Atomic!NrOfEdges, NrOfEdges, Atomic!InOutProduct, InOutProduct,
              Atomic!SearchDirection, SearchDirection
<1>5. \A n : Atomic!Neighbours(n) = Neighbours(n)
  BY <1>1 DEF Atomic!Neighbours, Neighbours, Atomic!OtherNode, OtherNode, Atomic!EdgeType, EdgeType
<1>6. \A e, n, type : Atomic!Targets(e, n, type) = Targets(e, n, type)
  BY <1>1 DEF Atomic!Targets, Targets, Atomic!NoLoop, NoLoop, Atomic!OtherNode, OtherNode,
              Atomic!Opposite, Opposite
<1>7. \A S, e : Atomic!Radius(S, e) = Radius(S, e)
  BY DEF Atomic!Radius, Radius, Atomic!UintAdd, UintAdd, Atomic!Max, Max
<1>8. \A E, s, type, r : Atomic!CalcShortestDists(E, s, type, r) = CalcShortestDists(E, s, type, r)
  BY DEF Atomic!CalcShortestDists, CalcShortestDists, Atomic!SearchStates, SearchStates,
         Atomic!SearchStart, SearchStart, Atomic!SearchEnds, SearchEnds, Atomic!Top, Top,
         Atomic!PopAndRelax, PopAndRelax, Atomic!WithinRadius, WithinRadius, Atomic!UintAdd, UintAdd,
         Atomic!OtherNode, OtherNode, Atomic!Opposite, Opposite, Atomic!Min, Min,
         Atomic!Nodes, Nodes, Atomic!Uint, Uint, Atomic!NO_DIST, NO_DIST
<1>9. \A e, n, type : Atomic!SearchDists(e, n, type) = SearchDists(e, n, type)
  BY <1>6, <1>7, <1>8 DEF Atomic!SearchDists, SearchDists, Atomic!Edges, Edges,
              Atomic!OtherNode, OtherNode, Atomic!Opposite, Opposite
<1>10. \A e, n, type : Atomic!CalcShortcuts(e, n, type) = CalcShortcuts(e, n, type)
  <2>1. \A a, b : Atomic!MakeShortcut(a, b) = MakeShortcut(a, b)
    BY DEF Atomic!MakeShortcut, MakeShortcut, Atomic!UintAdd, UintAdd, Atomic!NO_EID, NO_EID
  <2>2. \A a, b, type : Atomic!CreateShortcut(a, b, type) = CreateShortcut(a, b, type)
    BY <2>1 DEF Atomic!CreateShortcut, CreateShortcut
  <2>3. \A a, type : Atomic!OtherNode(a, type) = OtherNode(a, type)
    BY DEF Atomic!OtherNode, OtherNode
  <2>4. \A a, b : Atomic!UintAdd(a, b) = UintAdd(a, b)
    BY DEF Atomic!UintAdd, UintAdd
  <2>5. ASSUME NEW e, NEW n, NEW type PROVE Atomic!CalcShortcuts(e, n, type) = CalcShortcuts(e, n, type)
    <3>1. PICK dists : dists = SearchDists(e, n, type)
      OBVIOUS
    <3>2. PICK T : T = Targets(e, n, type)
      OBVIOUS
    <3>3. CalcShortcuts(e, n, type) =
            IF dists[n] # e.dist THEN {}
            ELSE {CreateShortcut(e, x, type) : x \in {y \in T : dists[OtherNode(y, type)] = UintAdd(e.dist, y.dist)}}
      BY <3>1, <3>2 DEF CalcShortcuts
    <3>4. Atomic!CalcShortcuts(e, n, type) =
            IF dists[n] # e.dist THEN {}
            ELSE {Atomic!CreateShortcut(e, x, type) :
                    x \in {y \in T : dists[Atomic!OtherNode(y, type)] = Atomic!UintAdd(e.dist, y.dist)}}
      BY <1>6, <1>9, <3>1, <3>2 DEF Atomic!CalcShortcuts
    <3> QED
      BY <2>2, <2>3, <2>4, <3>3, <3>4
  <2> QED
    BY <2>5
<1>11. \A n : Atomic!ShortcutsOf(n) = ShortcutsOf(n)
  BY <1>1, <1>4, <1>10 DEF Atomic!ShortcutsOf, ShortcutsOf, Atomic!NoLoop, NoLoop, Atomic!Opposite, Opposite
<1>12. \A n : Atomic!QuickShortcutsOf(n) = QuickShortcutsOf(n)
  BY <1>1 DEF Atomic!QuickShortcutsOf, QuickShortcutsOf, Atomic!CreateShortcut, CreateShortcut,
              Atomic!MakeShortcut, MakeShortcut, Atomic!UintAdd, UintAdd, Atomic!NoLoop, NoLoop,
              Atomic!NO_EID, NO_EID
<1> QED
  BY <1>1, <1>2, <1>4, <1>5, <1>11, <1>12

(* A node is taken: all it will find is seen at once.                      *)
LEMMA TakeNodeSeen ==
  ASSUME SearchesInv, JobsInv', NEW t \in Threads, TakeNode(t)
  PROVE  Atomic!ContractNode(t)
<1>0. PICK node : node = independent_set[next_index]
  OBVIOUS
<1>a. PICK j : j = JobFor(node, SearchDirection(node), {e \in NodeEdges(node, Opposite(SearchDirection(node))) : NoLoop(e)})
  OBVIOUS
<1>1. /\ phase = "parallel" /\ mode = "contract" /\ pc[t] = "idle" /\ next_index <= Len(independent_set)
      /\ job' = [job EXCEPT ![t] = j]
      /\ promised' = [promised EXCEPT ![t] = ShortcutsOf(node)]
      /\ next_index' = next_index + 1 /\ pc' = [pc EXCEPT ![t] = "contract"]
      /\ UNCHANGED <<graph_vars, loop_vars, select_vars, found, seen, mutex,
                     new_shortcuts, edge_diffs, to_remove, thread_data>>
  BY <1>0, <1>a DEF TakeNode, JobFor
<1>2. Shapes /\ independent_set \in Seq(Nodes) /\ next_index \in Nat \ {0}
  BY KnownOfGraph DEF SearchesInv, JobsInv
<1>3. /\ job' = [u \in Threads |-> IF u = t THEN j ELSE job[u]]
      /\ promised' = [u \in Threads |-> IF u = t THEN ShortcutsOf(node) ELSE promised[u]]
      /\ pc' = [u \in Threads |-> IF u = t THEN "contract" ELSE pc[u]]
  BY <1>1, <1>2 DEF Shapes
<1>4. j.node = node /\ node \in Nodes
  <2>1. node \in Nodes
    BY <1>0, <1>1, <1>2
  <2> QED
    BY <1>a, <2>1, NewJob
<1>5. Contracting(t)' /\ ~Contracting(t) /\ \A u \in Threads \ {t} : Contracting(u)' <=> Contracting(u)
  BY <1>1, <1>3 DEF Contracting
<1>6. AtNode(node)' = {t} /\ \A n : n # node => AtNode(n)' = AtNode(n)
  <2>1. \A u \in Threads : Contracting(u)' /\ job'[u].node = node => u = t
    BY <1>3, <1>4, <1>5 DEF JobsInv
  <2>2. t \in AtNode(node)'
    BY <1>3, <1>4, <1>5 DEF AtNode
  <2>3. AtNode(node)' = {t}
    BY <2>1, <2>2 DEF AtNode
  <2>4. \A n : n # node => \A u \in Threads : Contracting(u)' /\ job'[u].node = n <=> Contracting(u) /\ job[u].node = n
    BY <1>3, <1>4, <1>5
  <2> QED
    BY <2>3, <2>4 DEF AtNode
<1>7. \A n : NrOfEdges(n)' = NrOfEdges(n)
  BY <1>1, SameGraphSameSearches DEF graph_vars
<1>8. AbstractPc' = [AbstractPc EXCEPT ![t] = "insert"] /\ AbstractPc[t] = "idle"
  <2>1. \A u \in Threads : AbstractPc'[u] = IF u = t THEN "insert" ELSE AbstractPc[u]
    BY <1>3, <1>5 DEF AbstractPc
  <2>2. AbstractPc' = [u \in Threads |-> AbstractPc'[u]]
    BY DEF AbstractPc
  <2> QED
    BY <1>1, <1>5, <2>1, <2>2, EdgeDiffsSeen
<1>9. AbstractFound' = [AbstractFound EXCEPT ![t] = ShortcutsOf(node)]
  <2>1. \A u \in Threads : AbstractFound'[u] = IF u = t THEN ShortcutsOf(node) ELSE AbstractFound[u]
    BY <1>1, <1>3, <1>5 DEF AbstractFound
  <2>2. AbstractFound' = [u \in Threads |-> AbstractFound'[u]]
    BY DEF AbstractFound
  <2> QED
    BY <2>1, <2>2, EdgeDiffsSeen
<1>10. AbstractEdgeDiffs' = [AbstractEdgeDiffs EXCEPT ![node] = Cardinality(ShortcutsOf(node)) - NrOfEdges(node)]
  <2>1. \A n \in Nodes : AbstractEdgeDiffs'[n] =
          IF AtNode(n)' = {} THEN edge_diffs'[n]
          ELSE Cardinality(UNION {promised'[u] : u \in AtNode(n)'}) - NrOfEdges(n)'
    BY DEF AbstractEdgeDiffs, AtNode
  <2>2. ASSUME NEW n \in Nodes, n # node PROVE AbstractEdgeDiffs'[n] = AbstractEdgeDiffs[n]
    <3>1. \A u \in AtNode(n) : promised'[u] = promised[u]
      BY <1>3, <1>5 DEF AtNode
    <3>2. {promised'[u] : u \in AtNode(n)} = {promised[u] : u \in AtNode(n)}
      BY <3>1
    <3>3. AbstractEdgeDiffs'[n] =
            IF AtNode(n) = {} THEN edge_diffs[n]
            ELSE Cardinality(UNION {promised'[u] : u \in AtNode(n)}) - NrOfEdges(n)
      BY <1>1, <1>6, <1>7, <2>1, <2>2
    <3> QED
      BY <3>2, <3>3, EdgeDiffsSeen
  <2>3. AbstractEdgeDiffs'[node] = Cardinality(ShortcutsOf(node)) - NrOfEdges(node)
    <3>1. UNION {promised'[u] : u \in {t}} = ShortcutsOf(node)
      BY <1>3
    <3> QED
      BY <1>4, <1>6, <1>7, <2>1, <3>1
  <2>4. AbstractEdgeDiffs' = [n \in Nodes |-> AbstractEdgeDiffs'[n]]
    BY DEF AbstractEdgeDiffs
  <2> QED
    BY <2>2, <2>3, <2>4, EdgeDiffsSeen
<1>11. /\ UNCHANGED <<Atomic!graph_vars, Atomic!loop_vars, Atomic!select_vars, seen, mutex, new_shortcuts, to_remove>>
       /\ next_index <= Len(independent_set)
  BY <1>1 DEF Atomic!graph_vars, graph_vars, Atomic!loop_vars, loop_vars, Atomic!select_vars, select_vars
<1>12. Atomic!Shortcuts(node) = ShortcutsOf(node)
  BY <1>1, SameForBoth DEF Atomic!Shortcuts
<1> QED
  BY <1>0, <1>1, <1>8, <1>9, <1>10, <1>11, <1>12, SameForBoth DEF Atomic!ContractNode

(* The node is done: what was seen is there.                               *)
LEMMA FinishNodeUnseen ==
  ASSUME SearchesInv, NEW t \in Threads, FinishNode(t)
  PROVE  UNCHANGED <<AbstractPc, AbstractFound, AbstractEdgeDiffs>>
<1>0. PICK node : node = job[t].node
  OBVIOUS
<1>1. /\ pc[t] = "contract" /\ job[t].start_edges = {} /\ pc' = [pc EXCEPT ![t] = "insert"]
      /\ edge_diffs' = [edge_diffs EXCEPT ![node] = Cardinality(found[t]) - NrOfEdges(node)]
      /\ job' = [job EXCEPT ![t] = NoJob] /\ promised' = [promised EXCEPT ![t] = {}]
      /\ UNCHANGED <<out_edges, found>>
  BY <1>0 DEF FinishNode, graph_vars
<1>2. Shapes /\ OnTheJob(t) /\ Contracting(t)
  BY <1>1 DEF Contracting, SearchesInv, JobsInv
<1>3. /\ pc' = [u \in Threads |-> IF u = t THEN "insert" ELSE pc[u]]
      /\ job' = [u \in Threads |-> IF u = t THEN NoJob ELSE job[u]]
      /\ promised' = [u \in Threads |-> IF u = t THEN {} ELSE promised[u]]
  BY <1>1, <1>2 DEF Shapes
<1>4. promised[t] = found[t]
  <2>1. Unfinished(t) = {}
    BY <1>1 DEF Unfinished
  <2>2. ShortcutsFrom({}, job[t].node, job[t].type) = {}
    BY DEF ShortcutsFrom
  <2> QED
    BY <1>2, <2>1, <2>2 DEF OnTheJob
<1>5. ~Contracting(t)' /\ \A u \in Threads \ {t} : Contracting(u)' <=> Contracting(u)
  BY <1>3 DEF Contracting
<1>6. \A n : NrOfEdges(n)' = NrOfEdges(n)
  BY <1>1, SameGraphSameSearches
<1>7. AtNode(node) = {t} /\ AtNode(node)' = {} /\ \A n : n # node => AtNode(n)' = AtNode(n)
  <2>1. \A u \in Threads : Contracting(u) /\ job[u].node = node => u = t
    BY <1>0, <1>2 DEF SearchesInv, JobsInv
  <2>2. AtNode(node) = {t}
    BY <1>0, <1>2, <2>1 DEF AtNode
  <2>3. AtNode(node)' = {}
    BY <1>3, <1>5, <2>1 DEF AtNode
  <2>4. \A n : n # node => \A u \in Threads : Contracting(u)' /\ job'[u].node = n <=> Contracting(u) /\ job[u].node = n
    BY <1>0, <1>3, <1>5
  <2> QED
    BY <2>2, <2>3, <2>4 DEF AtNode
<1>8. AbstractPc' = AbstractPc
  <2>1. \A u \in Threads : AbstractPc'[u] = AbstractPc[u]
    BY <1>2, <1>3, <1>5 DEF AbstractPc
  <2>2. AbstractPc' = [u \in Threads |-> AbstractPc'[u]]
    BY DEF AbstractPc
  <2> QED
    BY <2>1, <2>2, EdgeDiffsSeen
<1>9. AbstractFound' = AbstractFound
  <2>1. \A u \in Threads : AbstractFound'[u] = AbstractFound[u]
    BY <1>1, <1>2, <1>3, <1>4, <1>5 DEF AbstractFound
  <2>2. AbstractFound' = [u \in Threads |-> AbstractFound'[u]]
    BY DEF AbstractFound
  <2> QED
    BY <2>1, <2>2, EdgeDiffsSeen
<1>10. AbstractEdgeDiffs' = AbstractEdgeDiffs
  <2>1. \A n \in Nodes : AbstractEdgeDiffs'[n] =
          IF AtNode(n)' = {} THEN edge_diffs'[n]
          ELSE Cardinality(UNION {promised'[u] : u \in AtNode(n)'}) - NrOfEdges(n)'
    BY DEF AbstractEdgeDiffs, AtNode
  <2>2. edge_diffs' = [n \in Nodes |-> IF n = node THEN Cardinality(found[t]) - NrOfEdges(node) ELSE edge_diffs[n]]
    BY <1>1, <1>2 DEF Shapes
  <2>3. ASSUME NEW n \in Nodes, n # node PROVE AbstractEdgeDiffs'[n] = AbstractEdgeDiffs[n]
    <3>1. \A u \in AtNode(n) : promised'[u] = promised[u]
      BY <1>0, <1>3, <2>3 DEF AtNode
    <3>2. {promised'[u] : u \in AtNode(n)} = {promised[u] : u \in AtNode(n)}
      BY <3>1
    <3>3. AbstractEdgeDiffs'[n] =
            IF AtNode(n) = {} THEN edge_diffs[n]
            ELSE Cardinality(UNION {promised'[u] : u \in AtNode(n)}) - NrOfEdges(n)
      BY <1>6, <1>7, <2>1, <2>2, <2>3
    <3> QED
      BY <3>2, <3>3, EdgeDiffsSeen
  <2>4. ASSUME node \in Nodes PROVE AbstractEdgeDiffs'[node] = AbstractEdgeDiffs[node]
    <3>1. AbstractEdgeDiffs'[node] = Cardinality(found[t]) - NrOfEdges(node)
      BY <1>7, <2>1, <2>2, <2>4
    <3>2. UNION {promised[u] : u \in {t}} = found[t]
      BY <1>4
    <3> QED
      BY <1>7, <2>4, <3>1, <3>2, EdgeDiffsSeen
  <2>5. AbstractEdgeDiffs' = [n \in Nodes |-> AbstractEdgeDiffs'[n]]
    BY DEF AbstractEdgeDiffs
  <2> QED
    BY <2>3, <2>4, <2>5, EdgeDiffsSeen
<1> QED
  BY <1>8, <1>9, <1>10

(* The other steps of a search change no more than the job.                *)
LEMMA SearchStepUnseen ==
  ASSUME SearchesInv, NEW t \in Threads, StartSearch(t) \/ PopTop(t) \/ RelaxEdge(t) \/ FinishSearch(t)
  PROVE  UNCHANGED <<AbstractPc, AbstractFound, AbstractEdgeDiffs>>
<1>1. Shapes
  BY DEF SearchesInv, JobsInv
<1>2. UNCHANGED <<promised, edge_diffs, out_edges>> /\ Contracting(t) /\ Contracting(t)'
  BY <1>1 DEF StartSearch, PopTop, RelaxEdge, FinishSearch, Contracting, graph_vars, vars, thread_vars,
              search_vars, Shapes
<1>3. \A u \in Threads \ {t} : pc'[u] = pc[u] /\ found'[u] = found[u] /\ job'[u] = job[u]
  BY <1>1 DEF StartSearch, PopTop, RelaxEdge, FinishSearch, vars, thread_vars, search_vars, Shapes
<1>4. job'[t].node = job[t].node
  <2>1. HasFields(job[t])
    BY <1>1 DEF Shapes
  <2>2. CASE StartSearch(t)
    <3>1. PICK e : job' = [job EXCEPT ![t] = WithStartEdge(job[t], e)]
      BY <2>2 DEF StartSearch, WithStartEdge
    <3> QED
      BY <1>1, <2>1, <3>1, NextStartEdge DEF Shapes
  <2>3. CASE PopTop(t)
    <3>0. PICK top :
            job' = IF thread_data[t].dists[top.node] # top.dist THEN job
                   ELSE [job EXCEPT ![t].top = top, ![t].edges = NodeEdges(top.node, job[t].type)]
      BY <2>3 DEF PopTop
    <3>1. job' = job \/ job' = [job EXCEPT ![t] = WithTop(job[t], top, NodeEdges(top.node, job[t].type))]
      BY <3>0 DEF WithTop
    <3> QED
      BY <1>1, <2>1, <3>1, NextTop DEF Shapes
  <2>4. CASE RelaxEdge(t)
    <3>1. PICK e : job' = [job EXCEPT ![t] = WithoutEdge(job[t], e)]
      BY <2>4 DEF RelaxEdge, WithoutEdge
    <3> QED
      BY <1>1, <2>1, <3>1, NextEdge DEF Shapes
  <2>5. CASE FinishSearch(t)
    BY <2>5 DEF FinishSearch, search_vars
  <2> QED
    BY <2>2, <2>3, <2>4, <2>5
<1>5. \A u \in Threads : job'[u].node = job[u].node /\ (Contracting(u)' <=> Contracting(u))
  BY <1>2, <1>3, <1>4 DEF Contracting
<1>6. \A u \in Threads : ~Contracting(u) => pc'[u] = pc[u] /\ found'[u] = found[u]
  BY <1>2, <1>3
<1> QED
  BY <1>2, <1>5, <1>6, SearchUnseen

-----------------------------------------------------------------------------
(* The other steps are steps CHConstructor takes.                          *)

(* Outside of the parallel loop nothing is hidden.                         *)
LEMMA NothingHiddenOutside ==
  ASSUME SearchesInv, JobsInv', \A t \in Threads : pc[t] = "idle", UNCHANGED pc
  PROVE  /\ AbstractPc = pc /\ AbstractFound = found /\ AbstractEdgeDiffs = edge_diffs
         /\ AbstractPc' = pc' /\ AbstractFound' = found' /\ AbstractEdgeDiffs' = edge_diffs'
<1>1. \A t \in Threads : ~Contracting(t) /\ ~Contracting(t)'
  BY DEF Contracting
<1>2. Shapes /\ Shapes'
  BY DEF SearchesInv, JobsInv
<1> QED
  BY <1>1, <1>2, NothingHidden, NothingHiddenNext

(* The graph is merged in the same way.                                    *)
LEMMA SameMerge ==
  /\ \A S, C : Atomic!BeginRestructure(S, C) <=> BeginRestructure(S, C)
  /\ \A S : /\ Atomic!MergeShortcut(S) <=> MergeShortcut(S)
            /\ Atomic!MergeEdge(S) <=> MergeEdge(S)
  /\ Atomic!FinishRestructure <=> FinishRestructure
<1>1. \A S, C : Atomic!BeginRestructure(S, C) <=> BeginRestructure(S, C)
  BY DEF Atomic!BeginRestructure, BeginRestructure, Atomic!LevelsLeft, LevelsLeft, Atomic!NO_LVL, NO_LVL,
         Atomic!Nodes, Nodes
<1>2. Atomic!FinishRestructure <=> FinishRestructure
  BY DEF Atomic!FinishRestructure, FinishRestructure
<1>3. /\ Atomic!NO_EID = NO_EID /\ Atomic!LastEdge = LastEdge /\ (Atomic!EdgeIdsLeft <=> EdgeIdsLeft)
      /\ \A e, f : /\ Atomic!EqualEndpoints(e, f) <=> EqualEndpoints(e, f)
                   /\ Atomic!SrcTgtLess(e, f) <=> SrcTgtLess(e, f)
      /\ \A e : Atomic!IsShortcut(e) <=> IsShortcut(e)
  BY DEF Atomic!NO_EID, NO_EID, Atomic!LastEdge, LastEdge, Atomic!EdgeIdsLeft, EdgeIdsLeft,
         Atomic!EqualEndpoints, EqualEndpoints, Atomic!SrcTgtLess, SrcTgtLess,
         Atomic!IsShortcut, IsShortcut, Atomic!NO_NID, NO_NID
<1>4. \A e : Atomic!AddNewEdge(e) <=> AddNewEdge(e)
  <2>1. \A e : Atomic!Duplicates(e) <=> Duplicates(e)
    BY <1>3 DEF Atomic!Duplicates, Duplicates
  <2>2. \A e : Atomic!IgnoreEdge(e) <=> IgnoreEdge(e)
    BY <1>3, <2>1 DEF Atomic!IgnoreEdge, IgnoreEdge
  <2>3. \A e : Atomic!ReplaceEdge(e) <=> ReplaceEdge(e)
    BY <1>3, <2>1 DEF Atomic!ReplaceEdge, ReplaceEdge
  <2>4. \A e : Atomic!AppendEdge(e) <=> AppendEdge(e)
    BY <1>3, <2>1 DEF Atomic!AppendEdge, AppendEdge
  <2> QED
    BY <2>2, <2>3, <2>4 DEF Atomic!AddNewEdge, AddNewEdge
<1>5. \A S : Atomic!MergeShortcut(S) <=> MergeShortcut(S)
  BY <1>3, <1>4 DEF Atomic!MergeShortcut, MergeShortcut, Atomic!AcceptsShortcut, AcceptsShortcut
<1>6. \A S : Atomic!MergeEdge(S) <=> MergeEdge(S)
  BY <1>3, <1>4 DEF Atomic!MergeEdge, MergeEdge, Atomic!Stays, Stays
<1> QED
  BY <1>1, <1>2, <1>5, <1>6

(* The nodes that are removed are the same.                                *)
LEMMA SameRemoved ==
  ASSUME AbstractEdgeDiffs = edge_diffs
  PROVE  Atomic!NodesToRemove = NodesToRemove
<1>1. Atomic!Chosen = Chosen
  BY DEF Atomic!Chosen, Chosen
<1>2. Atomic!EdgeDiffSum = EdgeDiffSum
  BY <1>1 DEF Atomic!EdgeDiffSum, EdgeDiffSum, Atomic!MapThenSumSet, MapThenSumSet,
              Atomic!MapThenFoldSet, MapThenFoldSet
<1>3. Atomic!LowEdgeDiffs = LowEdgeDiffs
  BY <1>1, <1>2, SameForBoth DEF Atomic!LowEdgeDiffs, LowEdgeDiffs
<1> QED
  BY <1>1, <1>3 DEF Atomic!NodesToRemove, NodesToRemove

(* The steps between the parallel loops.                                   *)
LEMMA OutsideSeen ==
  ASSUME SearchesInv, JobsInv', UNCHANGED search_vars,
         \/ StartRound \/ QuickContractReturns \/ ContractReturns \/ SelectNode \/ EnterParallelLoop
         \/ ChooseRemoveNodes \/ Restructure \/ EndRound
  PROVE  Atomic!Next
<1> USE DEF Atomic!graph_vars, graph_vars, Atomic!loop_vars, loop_vars, Atomic!select_vars, select_vars,
            Atomic!thread_vars, thread_vars
<1>1. (\A t \in Threads : pc[t] = "idle") /\ UNCHANGED pc
  <2>1. phase # "parallel" => \A t \in Threads : pc[t] = "idle"
    BY KnownOfThreads DEF SearchesInv
  <2>2. CASE StartRound \/ QuickContractReturns \/ ContractReturns
    BY <2>1, <2>2 DEF StartRound, QuickContractReturns, ContractReturns
  <2>3. CASE SelectNode \/ EnterParallelLoop
    BY <2>1, <2>3 DEF SelectNode, EnterParallelLoop
  <2>4. CASE ChooseRemoveNodes
    BY <2>4 DEF ChooseRemoveNodes, LoopDone
  <2>5. CASE Restructure \/ EndRound
    BY <2>1, <2>5 DEF Restructure, EndRound
  <2> QED
    BY <2>2, <2>3, <2>4, <2>5
<1>2. /\ AbstractPc = pc /\ AbstractFound = found /\ AbstractEdgeDiffs = edge_diffs
      /\ AbstractPc' = pc' /\ AbstractFound' = found' /\ AbstractEdgeDiffs' = edge_diffs'
  BY <1>1, NothingHiddenOutside
<1>3. CASE StartRound
  <2>1. Atomic!StartRound
    BY <1>2, <1>3 DEF Atomic!StartRound, StartRound
  <2> QED
    BY <2>1 DEF Atomic!Next, Atomic!StepWithinRound
<1>4. CASE QuickContractReturns
  <2>1. Atomic!QuickContractReturns
    BY <1>2, <1>4 DEF Atomic!QuickContractReturns, QuickContractReturns
  <2> QED
    BY <2>1 DEF Atomic!Next, Atomic!StepWithinRound
<1>5. CASE ContractReturns
  <2>1. Atomic!ContractReturns
    BY <1>2, <1>5 DEF Atomic!ContractReturns, ContractReturns
  <2> QED
    BY <2>1 DEF Atomic!Next, Atomic!StepWithinRound
<1>6. CASE SelectNode
  <2>1. \A n : Atomic!DegreeAccepted(n) <=> DegreeAccepted(n)
    BY SameForBoth DEF Atomic!DegreeAccepted, DegreeAccepted
  <2>2. Atomic!SelectNode
    BY <1>2, <1>6, <2>1, SameForBoth DEF Atomic!SelectNode, SelectNode
  <2> QED
    BY <2>2 DEF Atomic!Next, Atomic!StepWithinRound
<1>7. CASE EnterParallelLoop
  <2>1. Atomic!EnterParallelLoop
    BY <1>2, <1>7 DEF Atomic!EnterParallelLoop, EnterParallelLoop
  <2> QED
    BY <2>1 DEF Atomic!Next, Atomic!StepWithinRound
<1>8. CASE ChooseRemoveNodes
  <2>1. Atomic!LoopDone <=> LoopDone
    BY <1>2 DEF Atomic!LoopDone, LoopDone
  <2>2. Atomic!ChooseRemoveNodes
    BY <1>2, <1>8, <2>1, SameRemoved, SameMerge DEF Atomic!ChooseRemoveNodes, ChooseRemoveNodes
  <2> QED
    BY <2>2 DEF Atomic!Next, Atomic!StepWithinRound
<1>9. CASE Restructure
  <2>1. Atomic!Restructure
    BY <1>2, <1>9, SameMerge DEF Atomic!Restructure, Restructure
  <2> QED
    BY <2>1 DEF Atomic!Next, Atomic!StepWithinRound
<1>10. CASE EndRound
  <2>1. Atomic!EndRound
    BY <1>2, <1>10, SameMerge DEF Atomic!EndRound, EndRound
  <2> QED
    BY <2>1 DEF Atomic!Next
<1> QED
  BY <1>3, <1>4, <1>5, <1>6, <1>7, <1>8, <1>9, <1>10

(* A node of quickContract().                                              *)
LEMMA QuickNodeSeen ==
  ASSUME SearchesInv, JobsInv', UNCHANGED search_vars, NEW t \in Threads, mode = "quick", ContractNode(t)
  PROVE  Atomic!ContractNode(t)
<1>1. \A u \in Threads : ~Contracting(u) /\ ~Contracting(u)'
  BY QuickNodeWorks
<1>2. Shapes /\ Shapes'
  BY DEF SearchesInv, JobsInv
<1>3. /\ AbstractPc = pc /\ AbstractFound = found /\ AbstractEdgeDiffs = edge_diffs
      /\ AbstractPc' = pc' /\ AbstractFound' = found' /\ AbstractEdgeDiffs' = edge_diffs'
  BY <1>1, <1>2, NothingHidden, NothingHiddenNext
<1>4. \A n : Atomic!Shortcuts(n) = Shortcuts(n)
  BY SameForBoth DEF Atomic!Shortcuts, Shortcuts
<1>5. UNCHANGED <<Atomic!graph_vars, Atomic!loop_vars, Atomic!select_vars>>
  BY DEF ContractNode, Atomic!graph_vars, graph_vars, Atomic!loop_vars, loop_vars, Atomic!select_vars, select_vars
<1> QED
  BY <1>3, <1>4, <1>5 DEF Atomic!ContractNode, ContractNode

(* The shortcuts of a thread are inserted.                                 *)
LEMMA InsertSeen ==
  ASSUME SearchesInv, UNCHANGED search_vars, NEW t \in Threads, LockInsert(t) \/ FinishInsert(t)
  PROVE  Atomic!LockInsert(t) \/ Atomic!FinishInsert(t)
<1>0. Shapes
  BY DEF SearchesInv, JobsInv
<1>1. UNCHANGED <<Atomic!graph_vars, Atomic!loop_vars, Atomic!select_vars, out_edges, edge_diffs, job, promised>>
  BY DEF LockInsert, FinishInsert, Atomic!graph_vars, graph_vars, Atomic!loop_vars, loop_vars,
         Atomic!select_vars, select_vars, search_vars
<1>2. ~Contracting(t) /\ ~Contracting(t)'
  BY <1>0 DEF LockInsert, FinishInsert, Contracting, Shapes
<1>3. \A u \in Threads \ {t} : pc'[u] = pc[u] /\ found'[u] = found[u] /\ (Contracting(u)' <=> Contracting(u))
  BY <1>0 DEF LockInsert, FinishInsert, Contracting, Shapes
<1>4. AbstractEdgeDiffs' = AbstractEdgeDiffs
  <2>1. \A n : AtNode(n)' = AtNode(n)
    BY <1>1, <1>2, <1>3 DEF AtNode
  <2>2. \A n : NrOfEdges(n)' = NrOfEdges(n)
    BY <1>1, SameGraphSameSearches
  <2>3. \A n \in Nodes : AbstractEdgeDiffs'[n] =
          IF AtNode(n)' = {} THEN edge_diffs'[n]
          ELSE Cardinality(UNION {promised'[u] : u \in AtNode(n)'}) - NrOfEdges(n)'
    BY DEF AbstractEdgeDiffs, AtNode
  <2>4. ASSUME NEW n \in Nodes PROVE AbstractEdgeDiffs'[n] = AbstractEdgeDiffs[n]
    <3>1. {promised'[u] : u \in AtNode(n)'} = {promised[u] : u \in AtNode(n)}
      BY <1>1, <2>1
    <3>2. edge_diffs' = edge_diffs
      BY <1>1
    <3> QED
      BY <2>1, <2>2, <2>3, <3>1, <3>2, EdgeDiffsSeen
  <2>5. AbstractEdgeDiffs' = [n \in Nodes |-> AbstractEdgeDiffs'[n]]
    BY DEF AbstractEdgeDiffs
  <2> QED
    BY <2>4, <2>5, EdgeDiffsSeen
<1>5. AbstractPc[t] = pc[t] /\ AbstractFound[t] = found[t]
  BY <1>2, EdgeDiffsSeen
<1>6. /\ AbstractPc' = [AbstractPc EXCEPT ![t] = pc'[t]]
      /\ AbstractFound' = [AbstractFound EXCEPT ![t] = found'[t]]
  <2>1. \A u \in Threads : /\ AbstractPc'[u] = IF u = t THEN pc'[t] ELSE AbstractPc[u]
                           /\ AbstractFound'[u] = IF u = t THEN found'[t] ELSE AbstractFound[u]
    BY <1>1, <1>2, <1>3 DEF AbstractPc, AbstractFound
  <2>2. AbstractPc' = [u \in Threads |-> AbstractPc'[u]] /\ AbstractFound' = [u \in Threads |-> AbstractFound'[u]]
    BY DEF AbstractPc, AbstractFound
  <2> QED
    BY <2>1, <2>2, EdgeDiffsSeen
<1>7. CASE LockInsert(t)
  <2>1. pc'[t] = "inserting" /\ found'[t] = found[t]
    BY <1>0, <1>7 DEF LockInsert, Shapes
  <2>2. AbstractFound' = AbstractFound
    BY <1>5, <1>6, <2>1, EdgeDiffsSeen
  <2> QED
    BY <1>1, <1>4, <1>5, <1>6, <1>7, <2>1, <2>2 DEF Atomic!LockInsert, LockInsert
<1>8. CASE FinishInsert(t)
  <2>1. pc'[t] = "idle" /\ found'[t] = {}
    BY <1>0, <1>8 DEF FinishInsert, Shapes
  <2> QED
    BY <1>1, <1>4, <1>5, <1>6, <1>8, <2>1 DEF Atomic!FinishInsert, FinishInsert
<1> QED
  BY <1>7, <1>8

(* Every step is a step of CHConstructor or none.                          *)
LEMMA StepsAreSeen ==
  ASSUME SearchesInv, JobsInv', [SearchNext]_witness_vars
  PROVE  [Atomic!Next]_(Atomic!vars)
<1>1. ASSUME UNCHANGED <<AbstractPc, AbstractFound, AbstractEdgeDiffs>>,
             UNCHANGED <<graph_vars, loop_vars, select_vars, next_index, seen, mutex, new_shortcuts, to_remove>>
      PROVE  UNCHANGED Atomic!vars
  BY <1>1 DEF Atomic!vars, Atomic!graph_vars, graph_vars, Atomic!loop_vars, loop_vars,
              Atomic!select_vars, select_vars, Atomic!thread_vars
<1>2. ASSUME NEW t \in Threads, Search(t) PROVE [Atomic!Next]_(Atomic!vars)
  <2>1. CASE TakeNode(t)
    BY <2>1, TakeNodeSeen DEF Atomic!Next, Atomic!StepWithinRound
  <2>2. CASE StartSearch(t) \/ PopTop(t) \/ RelaxEdge(t) \/ FinishSearch(t)
    <3>1. UNCHANGED <<graph_vars, loop_vars, select_vars, next_index, seen, mutex, new_shortcuts, to_remove>>
      BY <2>2 DEF StartSearch, PopTop, RelaxEdge, FinishSearch, vars, thread_vars
    <3> QED
      BY <1>1, <2>2, <3>1, SearchStepUnseen
  <2>3. CASE FinishNode(t)
    <3>1. UNCHANGED <<graph_vars, loop_vars, select_vars, next_index, seen, mutex, new_shortcuts, to_remove>>
      BY <2>3 DEF FinishNode
    <3> QED
      BY <1>1, <2>3, <3>1, FinishNodeUnseen
  <2> QED
    BY <1>2, <2>1, <2>2, <2>3 DEF Search
<1>3. CASE UNCHANGED witness_vars
  <2>1. /\ UNCHANGED <<graph_vars, loop_vars, select_vars, next_index, seen, mutex, new_shortcuts, to_remove>>
        /\ UNCHANGED <<promised, edge_diffs, out_edges, job, pc, found>>
    BY <1>3 DEF witness_vars, vars, search_vars, thread_vars, graph_vars
  <2>2. UNCHANGED <<AbstractPc, AbstractFound, AbstractEdgeDiffs>>
    BY <2>1, SearchUnseen DEF Contracting
  <2> QED
    BY <1>1, <2>1, <2>2
<1>4. CASE OtherStep
  <2>1. UNCHANGED search_vars
    BY <1>4 DEF OtherStep
  <2>2. CASE \/ StartRound \/ QuickContractReturns \/ ContractReturns \/ SelectNode \/ EnterParallelLoop
             \/ ChooseRemoveNodes \/ Restructure \/ EndRound
    BY <2>1, <2>2, OutsideSeen
  <2>3. ASSUME NEW t \in Threads, (mode = "quick" /\ ContractNode(t)) \/ LockInsert(t) \/ FinishInsert(t)
        PROVE  Atomic!Next
    BY <2>1, <2>3, QuickNodeSeen, InsertSeen DEF Atomic!Next, Atomic!StepWithinRound
  <2>4. CASE Terminated
    BY <1>3, <2>1, <2>4 DEF Terminated, witness_vars
  <2> QED
    BY <1>4, <2>2, <2>3, <2>4 DEF OtherStep
<1> QED
  BY <1>2, <1>3, <1>4 DEF SearchNext

(* So every step keeps the invariant.                                      *)
LEMMA SearchesStayInv == SearchesInv /\ [SearchNext]_witness_vars => SearchesInv' /\ [Atomic!Next]_(Atomic!vars)
<1> SUFFICES ASSUME SearchesInv, [SearchNext]_witness_vars
             PROVE  SearchesInv' /\ [Atomic!Next]_(Atomic!vars)
  OBVIOUS
<1>1. JobsInv'
  BY StepsKeepJobs
<1>2. [Atomic!Next]_(Atomic!vars)
  BY <1>1, StepsAreSeen
<1>3. Atomic!DistanceInv'
  BY <1>2, AtomicKeepsDistances DEF SearchesInv
<1>4. LabelsInv'
  BY LabelsStay DEF SearchesInv
<1> QED
  BY <1>1, <1>2, <1>3, <1>4 DEF SearchesInv

(* It holds when the construction begins.                                  *)
LEMMA SearchesBegin ==
  ASSUME LengthsFit, SearchInit
  PROVE  SearchesInv /\ Atomic!Init
<1>1. Shapes
  <2>1. \A t \in Threads : HasFields(job[t])
    BY NewJob DEF SearchInit
  <2> QED
    BY <2>1 DEF SearchInit, Init, Shapes
<1>2. \A t \in Threads : ~Contracting(t)
  BY DEF SearchInit, Init, Contracting
<1>3. JobsInv
  BY <1>1, <1>2 DEF JobsInv, ChosenOnce, SearchInit, Init
<1>4. AbstractPc = pc /\ AbstractFound = found /\ AbstractEdgeDiffs = edge_diffs
  BY <1>1, <1>2, NothingHidden
<1>5. Atomic!Init
  BY <1>4 DEF SearchInit, Init, GraphInit, Atomic!Init, Atomic!GraphInit, Atomic!Nodes, Nodes, Atomic!NO_LVL, NO_LVL
<1>6. Atomic!LengthsFit
  <2>1. Atomic!Uint = Uint /\ Atomic!NO_DIST = NO_DIST
    BY DEF Atomic!Uint, Uint, Atomic!NO_DIST, NO_DIST
  <2>2. \A bound, E : Atomic!BoundsLengths(bound, E) <=> BoundsLengths(bound, E)
    BY <2>1, GraphIsSearched DEF Atomic!BoundsLengths, BoundsLengths
  <2> QED
    BY <2>1, <2>2 DEF LengthsFit, Atomic!LengthsFit
<1>7. Atomic!DistanceInv
  <2>1. Atomic!AnyInit
    BY <1>5 DEF Atomic!Init, Atomic!AnyInit
  <2> QED
    BY <2>1, <1>6, Atomic!InitDistances, AtomicAssumptions,
       SizeAssumption, InputAssumption, ThreadsAssumption, QuickAssumption
<1>8. LabelsInv
  BY LabelsBegin DEF SearchInit
<1> QED
  BY <1>3, <1>5, <1>7, <1>8 DEF SearchesInv

-----------------------------------------------------------------------------
(* CHConstructor itself: it is the module the proofs about it extend.      *)

(* Its helpers.                                                            *)
LEMMA SameHelpers ==
  /\ \A n, type : Constructor!NodeEdges(n, type) = Atomic!NodeEdges(n, type)
  /\ \A n : /\ Constructor!NrOfEdges(n) = Atomic!NrOfEdges(n)
            /\ Constructor!Shortcuts(n) = Atomic!Shortcuts(n)
            /\ Constructor!InOutProduct(n) = Atomic!InOutProduct(n)
            /\ Constructor!Neighbours(n) = Atomic!Neighbours(n)
  /\ \A S : Constructor!Cardinality(S) = Atomic!Cardinality(S)
<1>1. \A n, type : Constructor!NodeEdges(n, type) = Atomic!NodeEdges(n, type)
  BY DEF Atomic!NodeEdges, Constructor!NodeEdges, Atomic!Edges, Constructor!Edges,
         Atomic!OtherNode, Constructor!OtherNode, Atomic!Opposite, Constructor!Opposite
<1>2. \A S : Constructor!Cardinality(S) = Atomic!Cardinality(S)
  BY DEF Atomic!Cardinality, Constructor!Cardinality
<1>3. \A n, type : Constructor!NrOfEdgesOf(n, type) = Atomic!NrOfEdgesOf(n, type)
  BY <1>1, <1>2 DEF Atomic!NrOfEdgesOf, Constructor!NrOfEdgesOf
<1>4. \A n : /\ Constructor!NrOfEdges(n) = Atomic!NrOfEdges(n)
             /\ Constructor!InOutProduct(n) = Atomic!InOutProduct(n)
             /\ Constructor!SearchDirection(n) = Atomic!SearchDirection(n)
  BY <1>3 DEF Atomic!NrOfEdges, Constructor!NrOfEdges, Atomic!InOutProduct, Constructor!InOutProduct,
              Atomic!SearchDirection, Constructor!SearchDirection
<1>5. \A n : Constructor!Neighbours(n) = Atomic!Neighbours(n)
  BY <1>1 DEF Atomic!Neighbours, Constructor!Neighbours, Atomic!OtherNode, Constructor!OtherNode,
              Atomic!EdgeType, Constructor!EdgeType
<1>6. \A e, n, type : Constructor!Targets(e, n, type) = Atomic!Targets(e, n, type)
  BY <1>1 DEF Atomic!Targets, Constructor!Targets, Atomic!NoLoop, Constructor!NoLoop,
              Atomic!OtherNode, Constructor!OtherNode, Atomic!Opposite, Constructor!Opposite
<1>7. \A S, e : Constructor!Radius(S, e) = Atomic!Radius(S, e)
  BY DEF Atomic!Radius, Constructor!Radius, Atomic!UintAdd, Constructor!UintAdd, Atomic!Max, Constructor!Max
<1>8. \A E, s, type, r : Constructor!CalcShortestDists(E, s, type, r) = Atomic!CalcShortestDists(E, s, type, r)
  BY DEF Atomic!CalcShortestDists, Constructor!CalcShortestDists, Atomic!SearchStates, Constructor!SearchStates,
         Atomic!SearchStart, Constructor!SearchStart, Atomic!SearchEnds, Constructor!SearchEnds,
         Atomic!Top, Constructor!Top, Atomic!PopAndRelax, Constructor!PopAndRelax,
         Atomic!WithinRadius, Constructor!WithinRadius, Atomic!UintAdd, Constructor!UintAdd,
         Atomic!OtherNode, Constructor!OtherNode, Atomic!Opposite, Constructor!Opposite,
         Atomic!Min, Constructor!Min, Atomic!Nodes, Constructor!Nodes, Atomic!Uint, Constructor!Uint,
         Atomic!NO_DIST, Constructor!NO_DIST
<1>9. \A e, n, type : Constructor!SearchDists(e, n, type) = Atomic!SearchDists(e, n, type)
  BY <1>6, <1>7, <1>8 DEF Atomic!SearchDists, Constructor!SearchDists, Atomic!Edges, Constructor!Edges,
              Atomic!OtherNode, Constructor!OtherNode, Atomic!Opposite, Constructor!Opposite
<1>10. \A a, b, type : Constructor!CreateShortcut(a, b, type) = Atomic!CreateShortcut(a, b, type)
  BY DEF Atomic!MakeShortcut, Constructor!MakeShortcut, Atomic!UintAdd, Constructor!UintAdd,
         Atomic!NO_EID, Constructor!NO_EID, Atomic!CreateShortcut, Constructor!CreateShortcut
<1>11. /\ \A e, type : Constructor!OtherNode(e, type) = Atomic!OtherNode(e, type)
       /\ \A a, b : Constructor!UintAdd(a, b) = Atomic!UintAdd(a, b)
  BY DEF Atomic!OtherNode, Constructor!OtherNode, Atomic!UintAdd, Constructor!UintAdd
<1>12. \A e, n, type : Constructor!CalcShortcuts(e, n, type) = Atomic!CalcShortcuts(e, n, type)
  <2> SUFFICES ASSUME NEW e, NEW n, NEW type
               PROVE  Constructor!CalcShortcuts(e, n, type) = Atomic!CalcShortcuts(e, n, type)
    OBVIOUS
  <2>1. PICK dists : dists = Atomic!SearchDists(e, n, type)
    OBVIOUS
  <2>2. PICK T : T = Atomic!Targets(e, n, type)
    OBVIOUS
  <2>3. Atomic!CalcShortcuts(e, n, type) =
          IF dists[n] # e.dist THEN {}
          ELSE {Atomic!CreateShortcut(e, x, type) :
                  x \in {y \in T : dists[Atomic!OtherNode(y, type)] = Atomic!UintAdd(e.dist, y.dist)}}
    BY <2>1, <2>2 DEF Atomic!CalcShortcuts
  <2>4. Constructor!CalcShortcuts(e, n, type) =
          IF dists[n] # e.dist THEN {}
          ELSE {Constructor!CreateShortcut(e, x, type) :
                  x \in {y \in T : dists[Constructor!OtherNode(y, type)] = Constructor!UintAdd(e.dist, y.dist)}}
    BY <1>6, <1>9, <2>1, <2>2 DEF Constructor!CalcShortcuts
  <2> QED
    BY <1>10, <1>11, <2>3, <2>4
<1>13. \A n : Constructor!ShortcutsOf(n) = Atomic!ShortcutsOf(n)
  BY <1>1, <1>4, <1>12 DEF Atomic!ShortcutsOf, Constructor!ShortcutsOf, Atomic!NoLoop, Constructor!NoLoop,
              Atomic!Opposite, Constructor!Opposite
<1>14. \A n : Constructor!QuickShortcutsOf(n) = Atomic!QuickShortcutsOf(n)
  BY <1>1, <1>10 DEF Atomic!QuickShortcutsOf, Constructor!QuickShortcutsOf, Atomic!NoLoop, Constructor!NoLoop
<1>15. \A n : Constructor!Shortcuts(n) = Atomic!Shortcuts(n)
  BY <1>13, <1>14 DEF Atomic!Shortcuts, Constructor!Shortcuts
<1> QED
  BY <1>1, <1>2, <1>4, <1>5, <1>15

(* The merge of the graph.                                                 *)
LEMMA SameMergeSteps ==
  /\ \A S, C : Constructor!BeginRestructure(S, C) <=> Atomic!BeginRestructure(S, C)
  /\ \A S : /\ Constructor!MergeShortcut(S) <=> Atomic!MergeShortcut(S)
            /\ Constructor!MergeEdge(S) <=> Atomic!MergeEdge(S)
  /\ Constructor!FinishRestructure <=> Atomic!FinishRestructure
<1>1. \A S, C : Constructor!BeginRestructure(S, C) <=> Atomic!BeginRestructure(S, C)
  BY DEF Atomic!BeginRestructure, Constructor!BeginRestructure, Atomic!LevelsLeft, Constructor!LevelsLeft,
         Atomic!NO_LVL, Constructor!NO_LVL, Atomic!Nodes, Constructor!Nodes
<1>2. Constructor!FinishRestructure <=> Atomic!FinishRestructure
  BY DEF Atomic!FinishRestructure, Constructor!FinishRestructure
<1>3. /\ Constructor!NO_EID = Atomic!NO_EID /\ Constructor!LastEdge = Atomic!LastEdge
      /\ Constructor!EdgeIdsLeft <=> Atomic!EdgeIdsLeft
      /\ \A e, f : /\ Constructor!EqualEndpoints(e, f) <=> Atomic!EqualEndpoints(e, f)
                   /\ Constructor!SrcTgtLess(e, f) <=> Atomic!SrcTgtLess(e, f)
      /\ \A e : Constructor!IsShortcut(e) <=> Atomic!IsShortcut(e)
  BY DEF Atomic!NO_EID, Constructor!NO_EID, Atomic!LastEdge, Constructor!LastEdge,
         Atomic!EdgeIdsLeft, Constructor!EdgeIdsLeft, Atomic!EqualEndpoints, Constructor!EqualEndpoints,
         Atomic!SrcTgtLess, Constructor!SrcTgtLess, Atomic!IsShortcut, Constructor!IsShortcut,
         Atomic!NO_NID, Constructor!NO_NID
<1>4. \A e : Constructor!AddNewEdge(e) <=> Atomic!AddNewEdge(e)
  <2>1. \A e : Constructor!Duplicates(e) <=> Atomic!Duplicates(e)
    BY <1>3 DEF Atomic!Duplicates, Constructor!Duplicates
  <2>2. \A e : Constructor!IgnoreEdge(e) <=> Atomic!IgnoreEdge(e)
    BY <1>3, <2>1 DEF Atomic!IgnoreEdge, Constructor!IgnoreEdge
  <2>3. \A e : Constructor!ReplaceEdge(e) <=> Atomic!ReplaceEdge(e)
    BY <1>3, <2>1 DEF Atomic!ReplaceEdge, Constructor!ReplaceEdge
  <2>4. \A e : Constructor!AppendEdge(e) <=> Atomic!AppendEdge(e)
    BY <1>3, <2>1 DEF Atomic!AppendEdge, Constructor!AppendEdge
  <2> QED
    BY <2>2, <2>3, <2>4 DEF Atomic!AddNewEdge, Constructor!AddNewEdge
<1>5. \A S : Constructor!MergeShortcut(S) <=> Atomic!MergeShortcut(S)
  BY <1>3, <1>4 DEF Atomic!MergeShortcut, Constructor!MergeShortcut,
              Atomic!AcceptsShortcut, Constructor!AcceptsShortcut
<1>6. \A S : Constructor!MergeEdge(S) <=> Atomic!MergeEdge(S)
  BY <1>3, <1>4 DEF Atomic!MergeEdge, Constructor!MergeEdge, Atomic!Stays, Constructor!Stays
<1> QED
  BY <1>1, <1>2, <1>5, <1>6

(* The steps, and what they change.                                        *)
LEMMA SameSteps ==
  /\ Constructor!Init <=> Atomic!Init
  /\ Constructor!Next <=> Atomic!Next
  /\ Constructor!vars = Atomic!vars /\ Constructor!vars' = Atomic!vars'
<1>1. /\ Constructor!graph_vars = Atomic!graph_vars /\ Constructor!loop_vars = Atomic!loop_vars
      /\ Constructor!select_vars = Atomic!select_vars /\ Constructor!thread_vars = Atomic!thread_vars
      /\ Constructor!vars = Atomic!vars /\ Constructor!vars' = Atomic!vars'
  BY DEF Atomic!graph_vars, Constructor!graph_vars, Atomic!loop_vars, Constructor!loop_vars,
         Atomic!select_vars, Constructor!select_vars, Atomic!thread_vars, Constructor!thread_vars,
         Atomic!vars, Constructor!vars
<1>2. Constructor!Init <=> Atomic!Init
  BY DEF Atomic!Init, Constructor!Init, Atomic!GraphInit, Constructor!GraphInit, Atomic!Nodes, Constructor!Nodes,
         Atomic!NO_LVL, Constructor!NO_LVL
<1> USE DEF Atomic!graph_vars, Constructor!graph_vars, Atomic!loop_vars, Constructor!loop_vars,
            Atomic!select_vars, Constructor!select_vars, Atomic!thread_vars, Constructor!thread_vars
<1>3. Constructor!StartRound <=> Atomic!StartRound
  BY DEF Atomic!StartRound, Constructor!StartRound
<1>4. Constructor!QuickContractReturns <=> Atomic!QuickContractReturns
  BY DEF Atomic!QuickContractReturns, Constructor!QuickContractReturns
<1>5. Constructor!ContractReturns <=> Atomic!ContractReturns
  BY DEF Atomic!ContractReturns, Constructor!ContractReturns
<1>6. Constructor!SelectNode <=> Atomic!SelectNode
  <2>1. \A n : Constructor!DegreeAccepted(n) <=> Atomic!DegreeAccepted(n)
    BY SameHelpers DEF Atomic!DegreeAccepted, Constructor!DegreeAccepted
  <2> QED
    BY <2>1, SameHelpers DEF Atomic!SelectNode, Constructor!SelectNode
<1>7. Constructor!EnterParallelLoop <=> Atomic!EnterParallelLoop
  BY DEF Atomic!EnterParallelLoop, Constructor!EnterParallelLoop
<1>8. ASSUME NEW t \in Threads
      PROVE  /\ Constructor!ContractNode(t) <=> Atomic!ContractNode(t)
             /\ Constructor!LockInsert(t) <=> Atomic!LockInsert(t)
             /\ Constructor!FinishInsert(t) <=> Atomic!FinishInsert(t)
  <2>1. Constructor!ContractNode(t) <=> Atomic!ContractNode(t)
    BY SameHelpers DEF Atomic!ContractNode, Constructor!ContractNode
  <2>2. Constructor!LockInsert(t) <=> Atomic!LockInsert(t)
    BY DEF Atomic!LockInsert, Constructor!LockInsert
  <2>3. Constructor!FinishInsert(t) <=> Atomic!FinishInsert(t)
    BY DEF Atomic!FinishInsert, Constructor!FinishInsert
  <2> QED
    BY <2>1, <2>2, <2>3
<1>9. Constructor!ChooseRemoveNodes <=> Atomic!ChooseRemoveNodes
  <2>1. Constructor!Chosen = Atomic!Chosen
    BY DEF Atomic!Chosen, Constructor!Chosen
  <2>2. Constructor!EdgeDiffSum = Atomic!EdgeDiffSum
    BY <2>1 DEF Atomic!EdgeDiffSum, Constructor!EdgeDiffSum, Atomic!MapThenSumSet, Constructor!MapThenSumSet,
                Atomic!MapThenFoldSet, Constructor!MapThenFoldSet
  <2>3. Constructor!LowEdgeDiffs = Atomic!LowEdgeDiffs
    BY <2>1, <2>2, SameHelpers DEF Atomic!LowEdgeDiffs, Constructor!LowEdgeDiffs
  <2>4. Constructor!NodesToRemove = Atomic!NodesToRemove
    BY <2>1, <2>3 DEF Atomic!NodesToRemove, Constructor!NodesToRemove
  <2>5. Constructor!LoopDone <=> Atomic!LoopDone
    BY DEF Atomic!LoopDone, Constructor!LoopDone
  <2> QED
    BY <2>4, <2>5, SameMergeSteps DEF Atomic!ChooseRemoveNodes, Constructor!ChooseRemoveNodes
<1>10. Constructor!Restructure <=> Atomic!Restructure
  BY SameMergeSteps DEF Atomic!Restructure, Constructor!Restructure
<1>11. Constructor!EndRound <=> Atomic!EndRound
  BY SameMergeSteps DEF Atomic!EndRound, Constructor!EndRound
<1>12. Constructor!Terminated <=> Atomic!Terminated
  BY <1>1 DEF Atomic!Terminated, Constructor!Terminated
<1>13. Constructor!Next <=> Atomic!Next
  BY <1>3, <1>4, <1>5, <1>6, <1>7, <1>8, <1>9, <1>10, <1>11, <1>12
  DEF Atomic!Next, Constructor!Next, Atomic!StepWithinRound, Constructor!StepWithinRound
<1> QED
  BY <1>1, <1>2, <1>13

(* The searches of the threads, in any order and whatever a thread has     *)
(* searched before, amount to what CHConstructor takes in one step when a  *)
(* thread takes its node: the shortcuts of the node and its edge           *)
(* difference.                                                             *)
THEOREM SearchesImplementConstructor ==
  ASSUME LengthsFit
  PROVE  SearchSpec => ImplementsConstructor
<1>1. SearchInit => SearchesInv /\ Constructor!Init
  BY SearchesBegin, SameSteps
<1>2. SearchesInv /\ [SearchNext]_witness_vars => SearchesInv' /\ [Constructor!Next]_(Constructor!vars)
  BY SearchesStayInv, SameSteps
<1> QED
  BY <1>1, <1>2, PTL DEF SearchSpec, ImplementsConstructor

-----------------------------------------------------------------------------
(* The labels of a finished search are distances.                          *)

(* Whatever is as short as every edge and adds up is as short as the       *)
(* distances.                                                              *)
LEMMA CoveringDistances ==
  ASSUME NEW E, EdgeSet(E), NEW D, Triangular(D),
         \A e \in E : AtMost(D, e.src, e.tgt, e.dist),
         NEW u \in Nodes, NEW v \in Nodes, NEW d \in Nat, <<u, v, d>> \in Distances(E)
  PROVE  AtMost(D, u, v, d)
<1>1. PICK R : R = {x \in Nodes \X Nat : <<u, x[1], x[2]>> \in D}
  OBVIOUS
<1>2. \A n, c : <<n, c>> \in R <=> n \in Nodes /\ c \in Nat /\ <<u, n, c>> \in D
  BY <1>1
<1>3. <<u, 0>> \in R
  BY <1>2 DEF Triangular
<1>4. ASSUME NEW e \in E, NEW c \in Nat, <<e.src, c>> \in R
      PROVE  \E b \in Nat : b <= c + e.dist /\ <<e.tgt, b>> \in R
  <2>1. e.src \in Nodes /\ e.tgt \in Nodes /\ e.dist \in Nat
    BY DEF EdgeSet
  <2>2. AtMost(D, u, e.src, c) /\ AtMost(D, e.src, e.tgt, e.dist)
    BY <1>2, <1>4 DEF AtMost
  <2>3. AtMost(D, u, e.tgt, c + e.dist)
    BY <2>1, <2>2 DEF Triangular
  <2> QED
    BY <1>2, <2>1, <2>3 DEF AtMost
<1>5. FollowsEdges(R, E, u, d)
  BY <1>3, <1>4 DEF FollowsEdges
<1>6. \E c \in Nat : c <= d /\ <<v, c>> \in R
  BY <1>5, FollowingFinds
<1> QED
  BY <1>2, <1>6 DEF AtMost

Turned(e) == [e EXCEPT !.src = e.tgt, !.tgt = e.src]

(* A reversed edge is as long.                                             *)
LEMMA ReversedEdge ==
  ASSUME NEW e \in CHEdge
  PROVE  Turned(e).src = e.tgt /\ Turned(e).tgt = e.src /\ Turned(e).dist = e.dist
<1>a. PICK a : a = e.tgt
  OBVIOUS
<1>b. PICK b : b = e.src
  OBVIOUS
<1>g. PICK g : g = [e EXCEPT !.src = a, !.tgt = b]
  OBVIOUS
<1>1. PICK Fields : Fields = {"id", "src", "tgt", "dist", "child_edge1", "child_edge2", "center_node"}
  OBVIOUS
<1>2. e = [f \in Fields |-> e[f]]
  BY <1>1 DEF CHEdge
<1>3. PICK h : h = [e EXCEPT !.src = a]
  OBVIOUS
<1>4. h = [f \in Fields |-> IF f = "src" THEN a ELSE e[f]]
  BY <1>2, <1>3
<1>5. g = [h EXCEPT !.tgt = b]
  BY <1>3, <1>g
<1>6. g = [f \in Fields |-> IF f = "tgt" THEN b ELSE h[f]]
  BY <1>4, <1>5
<1>7. Turned(e) = g
  BY <1>a, <1>b, <1>g DEF Turned
<1> QED
  BY <1>1, <1>4, <1>6, <1>7, <1>a, <1>b

(* Backwards in the graph is forwards in the reversed graph.               *)
LEMMA ReversedWays ==
  ASSUME NEW E \in SUBSET CHEdge
  PROVE  Distances(Reversed(E)) = Ways(E, "IN")
<1>1. PICK F : F = Reversed(E)
  OBVIOUS
<1>2. EdgeSet(E)
  BY SizeAssumption DEF EdgeSet, CHEdge, Uint
<1>3. \A e \in E : Turned(e).src = e.tgt /\ Turned(e).tgt = e.src /\ Turned(e).dist = e.dist
  BY ReversedEdge
<1>4. /\ \A f \in F : \E e \in E : f.src = e.tgt /\ f.tgt = e.src /\ f.dist = e.dist
      /\ \A e \in E : \E f \in F : f.src = e.tgt /\ f.tgt = e.src /\ f.dist = e.dist
  <2>1. F = {Turned(e) : e \in E}
    BY <1>1 DEF Reversed, Turned
  <2> QED
    BY <1>3, <2>1
<1>5. EdgeSet(F)
  BY <1>2, <1>4 DEF EdgeSet
<1>6. "OUT" \in EdgeType /\ "IN" \in EdgeType /\ "IN" # "OUT"
  BY DEF EdgeType
<1>7. \A e : FromNode(e, "IN") = e.tgt /\ OtherNode(e, "IN") = e.src
  BY DEF FromNode, OtherNode, Opposite
<1>8. /\ Triangular(Ways(E, "IN")) /\ Triangular(Ways(F, "IN"))
      /\ \A e \in E : AtMost(Ways(E, "IN"), e.tgt, e.src, e.dist)
      /\ \A f \in F : AtMost(Ways(F, "IN"), f.tgt, f.src, f.dist)
  BY <1>2, <1>5, <1>6, <1>7, WaysAreDistances
<1>9. /\ \A f \in F : AtMost(Ways(E, "IN"), f.src, f.tgt, f.dist)
      /\ \A e \in E : AtMost(Ways(F, "IN"), e.src, e.tgt, e.dist)
  BY <1>4, <1>8
<1>10. ASSUME NEW G, EdgeSet(G)
       PROVE  \A u, v, d : <<u, v, d>> \in Ways(G, "IN") <=> <<v, u, d>> \in Distances(G)
  <2>1. \A t \in Distances(G) : t = <<t[1], t[2], t[3]>>
    BY <1>10, DistancesTriangular DEF Triangular, Triples
  <2>2. Ways(G, "IN") = {<<t[2], t[1], t[3]>> : t \in Distances(G)}
    BY <1>6 DEF Ways
  <2> QED
    BY <2>1, <2>2
<1>11. \A u, v \in Nodes : \A d \in Nat : <<u, v, d>> \in Distances(F) => AtMost(Ways(E, "IN"), u, v, d)
  BY <1>5, <1>8, <1>9, CoveringDistances
<1>12. \A u, v \in Nodes : \A d \in Nat : <<v, u, d>> \in Distances(E) => AtMost(Ways(F, "IN"), v, u, d)
  BY <1>2, <1>8, <1>9, CoveringDistances
<1>13. \A u, v \in Nodes : \A d \in Nat : <<u, v, d>> \in Ways(E, "IN") => AtMost(Distances(F), u, v, d)
  <2>1. \A u, v \in Nodes : \A d \in Nat : AtMost(Ways(F, "IN"), v, u, d) => AtMost(Distances(F), u, v, d)
    BY <1>5, <1>10 DEF AtMost
  <2> QED
    BY <1>2, <1>10, <1>12, <2>1
<1>14. Triangular(Distances(F))
  BY <1>5, DistancesTriangular
<1>15. ASSUME NEW A, NEW B, Triangular(A), Triangular(B), NEW u \in Nodes, NEW v \in Nodes, NEW d \in Nat,
              \A c \in Nat : <<u, v, c>> \in A => AtMost(B, u, v, c),
              \A c \in Nat : <<u, v, c>> \in B => AtMost(A, u, v, c),
              <<u, v, d>> \in A
       PROVE  <<u, v, d>> \in B
  <2>1. PICK c \in Nat : <<u, v, c>> \in B /\ c <= d
    BY <1>15 DEF AtMost
  <2>2. PICK b \in Nat : <<u, v, b>> \in A /\ b <= c
    BY <1>15, <2>1 DEF AtMost
  <2>3. b = d
    BY <1>15, <2>2 DEF Triangular, OneDistance
  <2>4. c = d
    BY <2>1, <2>2, <2>3
  <2> QED
    BY <2>1, <2>4
<1>16. \A u, v \in Nodes : \A d \in Nat : <<u, v, d>> \in Distances(F) <=> <<u, v, d>> \in Ways(E, "IN")
  BY <1>8, <1>11, <1>13, <1>14, <1>15
<1>17. Distances(F) \in SUBSET Triples /\ Ways(E, "IN") \in SUBSET Triples
  BY <1>8, <1>14 DEF Triangular
<1> QED
  BY <1>1, <1>16, <1>17 DEF Triples

(* When a search ends the nodes within its radius have their distances as  *)
(* labels and no label is less than a distance, whatever the other threads *)
(* do and whatever the thread has searched before.                         *)
THEOREM SearchesFindDistances ==
  ASSUME LengthsFit
  PROVE  SearchSpec => []DistancesFound
<1>1. SearchInit => SearchesInv
  BY SearchesBegin
<1>2. SearchesInv /\ [SearchNext]_witness_vars => SearchesInv'
  BY SearchesStayInv
<1>3. SearchesInv => DistancesFound
  <2> SUFFICES ASSUME SearchesInv, NEW t \in Threads, SearchDone(t)
               PROVE  LET j == job[t]
                          from == OtherNode(j.start_edge, Opposite(j.type))
                          distances == Distances(IF j.type = "OUT" THEN Edges ELSE Reversed(Edges))
                          labels == {<<from, n, thread_data[t].dists[n]>> : n \in Nodes}
                          within == {d \in distances : d[1] = from /\ WithinRadius(d[3], SearchRadius(j))}
                      IN  /\ within \subseteq labels
                          /\ \A l \in labels : l[3] # NO_DIST =>
                               \E d \in distances : d[1] = from /\ d[2] = l[2] /\ d[3] <= l[3]
    BY DEF DistancesFound, SearchDone
  <2>1. PICK from : from = OtherNode(job[t].start_edge, Opposite(job[t].type))
    OBVIOUS
  <2>2. PICK distances : distances = Distances(IF job[t].type = "OUT" THEN Edges ELSE Reversed(Edges))
    OBVIOUS
  <2>3. PICK labels : labels = {<<from, n, thread_data[t].dists[n]>> : n \in Nodes}
    OBVIOUS
  <2>4. from = FromNode(job[t].start_edge, job[t].type)
    BY <2>1 DEF FromNode
  <2>5. job[t].type \in EdgeType /\ Edges \in SUBSET CHEdge /\ EdgeSet(Edges)
    BY KnownOfJob DEF SearchDone, Contracting
  <2>6. distances = Ways(Edges, job[t].type)
    BY <2>2, <2>5, ReversedWays DEF Ways, EdgeType
  <2>7. \A n \in Nodes : \A d \in Nat : d <= SearchRadius(job[t]) =>
          (thread_data[t].dists[n] = d <=> <<from, n, d>> \in distances)
    BY <2>4, <2>6, FinishedSearchIsExact
  <2>8. /\ from \in Nodes
        /\ \A n \in Nodes : thread_data[t].dists[n] # NO_DIST => AtMost(distances, from, n, thread_data[t].dists[n])
    BY <2>4, <2>6, KnownOfSearch DEF SearchDone, Underway
  <2>9. distances \in SUBSET Triples
    BY <2>5, <2>6, WaysAreDistances DEF Triangular
  <2>10. ASSUME NEW d \in distances, d[1] = from, WithinRadius(d[3], SearchRadius(job[t]))
         PROVE  d \in labels
    <3>1. d = <<from, d[2], d[3]>> /\ d[2] \in Nodes /\ d[3] \in Nat
      BY <2>9, <2>10 DEF Triples
    <3>2. thread_data[t].dists[d[2]] = d[3]
      BY <2>7, <2>10, <3>1 DEF WithinRadius
    <3> QED
      BY <2>3, <3>1, <3>2
  <2>11. ASSUME NEW l \in labels, l[3] # NO_DIST
         PROVE  \E d \in distances : d[1] = from /\ d[2] = l[2] /\ d[3] <= l[3]
    <3>1. PICK n \in Nodes : l = <<from, n, thread_data[t].dists[n]>>
      BY <2>3
    <3>2. PICK c \in Nat : <<from, n, c>> \in distances /\ c <= thread_data[t].dists[n]
      BY <2>8, <2>11, <3>1 DEF AtMost
    <3> QED
      BY <3>1, <3>2
  <2> QED
    BY <2>1, <2>2, <2>3, <2>10, <2>11
<1> QED
  BY <1>1, <1>2, <1>3, PTL DEF SearchSpec
=============================================================================
