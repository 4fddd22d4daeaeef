---------------------------- MODULE GraphReader ----------------------------
(***************************************************************************)
(* Reading a graph (SimpleReader::readGraph() in file_formats_helper.h,    *)
(* with readHeader(), text_readNode() and text_readEdge() of each format   *)
(* in file_formats.cpp) from a stream, line by line.                       *)
(*                                                                         *)
(* The header announces the numbers of nodes and of edges.  Loops and edges*)
(* with a negative length are dropped, and the loop then neither counts the*)
(* line nor gives its id away.  The edges are sorted, and of those with    *)
(* equal endpoints the shortest stays.                                     *)
(***************************************************************************)
EXTENDS ShortestPaths, Sorting, FileFormats, InputStream

VARIABLES
  file,          \* history: what the text was written from
  text,          \* the text
  informat,      \* the format it is read in
  is,            \* the stream
  line,          \* readHeader(): the last line of the metadata
  stage,         \* how far the program is
  i,             \* the i of both loops; the id of the next edge
  nr_of_nodes,   \* where the loop over the nodes ends
  nr_of_edges,   \* where the loop over the edges ends
  edges          \* result.edges

count_vars == <<i, nr_of_nodes, nr_of_edges>>
reader_vars == <<file, text, informat, is, line, stage, count_vars, edges>>

-----------------------------------------------------------------------------
(* The signed type of the width of a uint.                                 *)
SignedInt == (-(MaxUint \div 2) - 1)..(MaxUint \div 2)

(* A file holds a graph, written in file.layout: the edges join its nodes, *)
(* and what else their lines hold fits the types it is read into.  Its     *)
(* nodes are numbered from file.first_id on, the edges announced may be    *)
(* more or less than there are.                                            *)
IsFile(f) ==
  /\ f.layout \in DOMAIN ReaderTypes
  /\ f.nr_of_nodes \in 0..NrOfNodes /\ f.first_id \in Uint
  /\ f.announced \in Uint /\ Len(f.edges) < NO_EID
  /\ f.edges \in Seq([src : 0..(f.nr_of_nodes - 1), tgt : 0..(f.nr_of_nodes - 1),
                      dist : SignedInt, type : Uint, speed : SignedInt])
  /\ f.ends_with_newline \in BOOLEAN

(* The text of a file.                                                     *)
Row(numbers) == numbers \o <<NewLine>>

NodeRow(f, n) ==
  Row(IF NodeFields(f.layout) = 5 THEN <<f.first_id + n - 1, 7, 7, 7, 7>> ELSE <<7, 7, 7>>)

EdgeRow(f, e) == Row(SubSeq(<<e.src, e.tgt, e.dist, e.type, e.speed>>, 1, EdgeFields(f.layout)))

Rows(f) ==
  (IF HasMetadata(f.layout) THEN <<Row(<<Word>>), Row(<<>>)>> ELSE <<>>)
    \o <<Row(<<f.nr_of_nodes>>), Row(<<f.announced>>)>>
    \o [n \in 1..f.nr_of_nodes |-> NodeRow(f, n)]
    \o [k \in DOMAIN f.edges |-> EdgeRow(f, f.edges[k])]

Text(f) ==
  LET symbols == FlattenSeq(Rows(f))
  IN  IF f.ends_with_newline THEN symbols ELSE Front(symbols)

-----------------------------------------------------------------------------
(* readHeader().  The formats with metadata skip lines up to an empty one. *)
OpenStream ==
  /\ is' = OpenedStream /\ line' = ""
  /\ stage' = IF HasMetadata(informat) THEN "metadata" ELSE "counts"

EmptyLineFound(next) == Good(next.is) /\ next.line = ""   \* mutant

MetadataEnds(next) == next.line = ""

ReadMetadata ==
  /\ stage = "metadata"
  /\ LET next == GetLine(text, is, line)
     IN  /\ is' = next.is /\ line' = next.line
         /\ stage' = IF MetadataEnds(next) THEN "counts" ELSE stage
  /\ UNCHANGED <<file, text, informat, count_vars, edges>>

(* Nothing checks that there were two numbers to read.  The memory that is *)
(* reserved for as many nodes and edges is taken to be there.              *)
ReadCounts ==
  /\ stage = "counts"
  /\ \E read \in ExtractNumbers(text, is, 2) :
       is' = read.is /\ nr_of_nodes' = read.numbers[1] /\ nr_of_edges' = read.numbers[2]
  /\ i' = 0
  /\ stage' = "nodes"
  /\ UNCHANGED <<file, text, informat, line, edges>>

(* readLine(): a record and then the end of the line, or the program       *)
(* aborts.  Again a set with one element.                                  *)
RecordOnly(count) ==   \* mutant
  {[is |-> read.is, numbers |-> read.numbers, aborts |-> is.eof \/ read.is.fail]
     : read \in ExtractNumbers(text, is, count)}

ReadLine(count) ==
  {LET peeked == Peek(text, read.is)
   IN  [is |-> peeked, numbers |-> read.numbers,
        aborts |-> is.eof \/ peeked.fail \/ ~AtLineEnd(text, peeked)]
     : read \in ExtractNumbers(text, is, count)}

(* text_readNode(): the id of an OSMNode must be its index.                *)
ReadNode ==
  /\ stage = "nodes" /\ i < nr_of_nodes
  /\ \E record \in ReadLine(NodeFields(informat)) :
       LET wrong_id == NodeFields(informat) = 5 /\ record.numbers[1] # i
       IN  /\ is' = record.is
           /\ IF record.aborts \/ wrong_id THEN stage' = "aborted" /\ UNCHANGED i
              ELSE i' = i + 1 /\ UNCHANGED stage
  /\ UNCHANGED <<file, text, informat, line, nr_of_nodes, nr_of_edges, edges>>

NodesRead ==
  /\ stage = "nodes" /\ i >= nr_of_nodes
  /\ stage' = "edges" /\ i' = 0
  /\ UNCHANGED <<file, text, informat, is, line, nr_of_nodes, nr_of_edges, edges>>

(* text_readEdge(): a negative length marks the edge as invalid.           *)
LengthsOf(row) ==
  IF HasTimeMetric(informat) THEN TimeMetrics(row.dist, row.type, row.speed) ELSE {row.dist}

EdgesOf(row, edge_id) ==
  IF row.dist < 0 THEN {InputEdge(NO_EID, row.src, row.tgt, 0)}
  ELSE {InputEdge(edge_id, row.src, row.tgt, d) : d \in LengthsOf(row)}

RowOf(numbers) ==
  [src |-> numbers[1], tgt |-> numbers[2], dist |-> numbers[3],
   type |-> IF Len(numbers) = 5 THEN numbers[4] ELSE 0,
   speed |-> IF Len(numbers) = 5 THEN numbers[5] ELSE 0]

Dropped(edge) == edge.src = edge.tgt \/ edge.id = NO_EID

(* --i; --nr_of_edges; and the loop's ++i.                                 *)
SkipLineCountsIt == UNCHANGED <<i, nr_of_edges>>   \* mutant

SkipLine == UNCHANGED i /\ nr_of_edges' = nr_of_edges - 1

ReadEdge ==
  /\ stage = "edges" /\ i < nr_of_edges
  /\ \E record \in ReadLine(EdgeFields(informat)) :
       /\ is' = record.is
       /\ IF record.aborts
          THEN stage' = "aborted" /\ UNCHANGED <<i, nr_of_edges, edges>>
          ELSE /\ UNCHANGED stage
               /\ \E edge \in EdgesOf(RowOf(record.numbers), i) :
                    IF Dropped(edge) THEN SkipLine /\ UNCHANGED edges
                    ELSE /\ edges' = Append(edges, edge)
                         /\ i' = i + 1 /\ UNCHANGED nr_of_edges
  /\ UNCHANGED <<file, text, informat, line, nr_of_nodes>>

(* EdgeSortSrcTgtDist                                                      *)
SrcTgtDistLess(e1, e2) ==
  \/ SrcTgtLess(e1, e2)
  \/ EqualEndpoints(e1, e2) /\ e1.dist < e2.dist

SortEdgesByEnds ==   \* mutant
  edges' \in Sortings(Range(edges), {p \in Range(edges) \X Range(edges) : SrcTgtLess(p[1], p[2])})

SortEdges ==
  edges' \in Sortings(Range(edges), {p \in Range(edges) \X Range(edges) : SrcTgtDistLess(p[1], p[2])})

EdgesRead ==
  /\ stage = "edges" /\ i >= nr_of_edges
  /\ SortEdges
  /\ stage' = "sorted"
  /\ UNCHANGED <<file, text, informat, is, line, count_vars>>

(* std::unique() with equalEndpoints(): an edge is dropped if it has the   *)
(* ends of the last one that has stayed.                                   *)
KeepFirst(kept, e) ==
  IF kept # <<>> /\ EqualEndpoints(Last(kept), e) THEN kept ELSE Append(kept, e)

Unique(v) == FoldLeft(KeepFirst, <<>>, v)

(* The ids are reset only if edges were removed.                           *)
RemoveDuplicatesKeepsIds == edges' = Unique(edges)   \* mutant

RemoveDuplicates ==
  LET unique == Unique(edges)
  IN  edges' = IF Len(unique) = Len(edges) THEN unique
               ELSE [k \in DOMAIN unique |-> [unique[k] EXCEPT !.id = k - 1]]

Deliver ==
  /\ stage = "sorted"
  /\ RemoveDuplicates
  /\ stage' = "delivered"
  /\ UNCHANGED <<file, text, informat, is, line, count_vars>>

ReadGraph ==
  ReadMetadata \/ ReadCounts \/ ReadNode \/ NodesRead \/ ReadEdge \/ EdgesRead \/ Deliver

ReaderInit ==
  /\ is = OpenedStream /\ line = ""
  /\ i = 0 /\ nr_of_nodes = 0 /\ nr_of_edges = 0
  /\ edges = <<>>
=============================================================================
