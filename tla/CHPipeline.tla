----------------------------- MODULE CHPipeline -----------------------------
(***************************************************************************)
(* The life of a hierarchy: it is constructed (CHConstructor), then either *)
(* exported at once, as main() does, or rebuilt to the complete graph,     *)
(* queried any number of times and exported, as the unit tests do.  The    *)
(* vectors of the graph and the labels of CHDijkstra live next to the      *)
(* construction.  An exported hierarchy is written to a file.              *)
(***************************************************************************)
EXTENDS CHConstructorProperties, CHDijkstra, FileFormats

CONSTANTS MaxQueries,   \* bound of the model: queries one CHDijkstra answers
          OutFormats    \* the formats the hierarchy may be written in

ASSUME MaxQueriesAssumption == MaxQueries \in Nat
ASSUME OutFormatsAssumption == OutFormats \subseteq DOMAIN WriterTypes

VARIABLES
  stage,          \* what the hierarchy is used for
  queries_left,   \* queries that may still be asked
  written         \* the file that was written

usage_vars == <<stage, queries_left, written>>
pipeline_vars == <<vars, vector_vars, query_vars, usage_vars>>

PipelineInit ==
  /\ Init /\ VectorsInit /\ QueryInit
  /\ stage = "construct" /\ queries_left = MaxQueries /\ written = <<>>

Construct ==
  /\ stage = "construct" /\ phase # "contracted"
  /\ \/ StepWithinRound /\ UNCHANGED vector_vars
     \/ EndRound /\ RestructureVectors
  /\ UNCHANGED <<query_vars, usage_vars>>

Rebuild ==
  /\ stage = "construct" /\ phase = "contracted"
  /\ RebuildCompleteGraph
  /\ stage' = "query"
  /\ UNCHANGED <<loop_vars, select_vars, thread_vars, to_remove, query_vars, queries_left,
                 written>>

AskQuery ==
  /\ stage = "query" /\ queries_left > 0
  /\ \E src, tgt \in Nodes : CalcShopa(src, tgt)
  /\ queries_left' = queries_left - 1
  /\ UNCHANGED <<vars, vector_vars, stage, written>>

Answer ==
  /\ AnswerQuery
  /\ UNCHANGED <<vars, vector_vars, usage_vars>>

(* The unit tests export after their last query.                           *)
Export ==
  /\ \/ stage = "construct" /\ phase = "contracted"
     \/ stage = "query" /\ task = "answered" /\ queries_left = 0
  /\ ExportData
  /\ stage' = "exported"
  /\ UNCHANGED <<loop_vars, select_vars, thread_vars, to_remove, query_vars, queries_left,
                 written>>

(* The exported vectors go to a file, line by line.                        *)
Write ==
  /\ stage = "exported"
  /\ \E format \in OutFormats : written' = WriteCHGraph(format, node_levels, out_edges)
  /\ stage' = "written"
  /\ UNCHANGED <<vars, vector_vars, query_vars, queries_left>>

Done == stage = "written" /\ UNCHANGED pipeline_vars

PipelineNext ==
  Construct \/ Rebuild \/ AskQuery \/ Answer \/ Export \/ Write \/ Done

PipelineSpec == PipelineInit /\ [][PipelineNext]_pipeline_vars

-----------------------------------------------------------------------------
(* The offsets cut the edges of a node out of either vector, all of them   *)
(* and no others, whenever restructure() or rebuildCompleteGraph() is done.*)
VectorsAgree ==
  ~Restructuring /\ stage \notin {"exported", "written"} =>
    \A n \in Nodes, type \in EdgeType :
      LET r == NodeEdgesRange(n, type)
      IN  /\ {r[i] : i \in DOMAIN r} = NodeEdges(n, type)
          /\ Len(r) = NrOfEdgesOf(n, type)

(* While the graph is not dirty the table finds every edge by its id.      *)
EdgesFoundById ==
  ~is_dirty =>
    \A e \in Edges :
      /\ e.id \in DOMAIN id_to_index /\ id_to_index[e.id] \in DOMAIN out_edges
      /\ GetEdge(e.id) = e

(* Every distance that is not NO_DIST will be reset: a query starts with   *)
(* clean labels in both directions.                                        *)
LabelsWillBeReset ==
  \A type \in EdgeType, n \in Nodes : dists[type][n] # NO_DIST => n \in reset_dists[type]

(* Queries of the hierarchy keep the promise every query object makes: the *)
(* reply is the distance in the graph that was read.                       *)
Queries == INSTANCE ShortestPathQueries WITH
  Graphs <- {{g[i] : i \in DOMAIN g} : g \in InputGraphs},
  NoQuestion <- <<>>,
  NoReply <- -1,
  graph <- EdgesRead,
  question <- IF task = "none" THEN <<>> ELSE <<ends["OUT"], ends["IN"]>>,
  reply <- IF task = "answered" THEN answer ELSE -1

ImplementsQueries == Queries!Spec

(* The path of a query leads from its source to its target and is as long  *)
(* as the answer says.                                                     *)
PathsLead ==
  stage = "query" /\ task = "answered" /\ answer # NO_DIST =>
    \E k \in 0..Len(path) :
      LET ids == Reverse(SubSeq(path, 1, k)) \o SubSeq(path, k + 1, Len(path))
          walk == [i \in DOMAIN ids |-> GetEdge(ids[i])]
      IN  /\ Leads(walk, ends["OUT"], ends["IN"])
          /\ LengthOf(walk) = answer

(* What was written can be used without the program.  A file of a hierarchy*)
(* answers queries: a shortest path goes up in the levels from both ends.  *)
(* One without levels holds a graph with the same distances.               *)
LineEdges(lines) == {[src |-> l[1], tgt |-> l[2], dist |-> l[3]] : l \in lines}

WrittenFileHasDistances ==
  stage = "written" =>
    LET lines == {written.edges[i] : i \in DOMAIN written.edges}
        lvl(n) == written.nodes[n + 1][1]
        up   == LineEdges({l \in lines : lvl(l[1]) < lvl(l[2])})
        down == LineEdges({l \in lines : lvl(l[1]) > lvl(l[2])})
    IN  IF written.format \in CHFormats
        THEN Shortest(Joined(Distances(up), Distances(down))) = Distances(EdgesRead)
        ELSE Distances(LineEdges(lines)) = Distances(EdgesRead)

(* The child fields of a line count lines: those of the two edges the      *)
(* shortcut stands for, which meet in a node of a lower level and are      *)
(* together as long as it is.                                              *)
WrittenShortcutsUnpack ==
  stage = "written" /\ written.format \in CHFormats =>
    \A i \in {k \in DOMAIN written.edges : written.edges[k][4] # -1} :
      LET x == written.edges[i]
          a == written.edges[x[4] + 1]
          b == written.edges[x[5] + 1]
      IN  /\ a[1] = x[1] /\ a[2] = b[1] /\ b[2] = x[2]
          /\ x[3] = UintAdd(a[3], b[3])
          /\ \A n \in {x[1], x[2]} : written.nodes[a[2] + 1][1] < written.nodes[n + 1][1]

-----------------------------------------------------------------------------
(* The comment in exportData(): the ids are adapted to the sorted vector.  *)
ExportedIdsArePositions ==
  stage = "exported" => \A i \in DOMAIN out_edges : out_edges[i].id = i - 1
=============================================================================
