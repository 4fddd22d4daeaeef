---------------------------- MODULE FileFormats ----------------------------
(***************************************************************************)
(* The file formats (file_formats.h/.cpp): which of them can be read and   *)
(* written, with which types of nodes and edges, and what a line of a file *)
(* holds.  The code has a reader and a writer class for each format, and   *)
(* the compiler finds out which conversions exist; here they are tables.   *)
(***************************************************************************)
EXTENDS NodesAndEdges

FileFormat == {"STD", "SIMPLE", "FMI", "FMI_DIST", "FMI_EUCL", "FMI_CH", "FMI_EUCL_CH", "STEFAN_CH"}

(* A name that is not known stands for FMI.                                *)
ToFileFormat(name) == IF name \in FileFormat THEN name ELSE "FMI"

Types(node, edge) == [node |-> node, edge |-> edge]

(* node_type and edge_type of the readers, and those of the writers without*)
(* CHNode<> and CHEdge<>.                                                  *)
ReaderTypes ==
  [STD      |-> Types("OSMNode", "OSMEdge"),     SIMPLE   |-> Types("GeoNode", "Edge"),
   FMI      |-> Types("OSMNode", "OSMEdge"),     FMI_DIST |-> Types("OSMNode", "OSMDistEdge"),
   FMI_EUCL |-> Types("OSMNode", "EuclOSMEdge")]

WriterTypes ==
  [STD         |-> Types("OSMNode", "OSMEdge"),     SIMPLE    |-> Types("GeoNode", "Edge"),
   FMI_CH      |-> Types("OSMNode", "OSMEdge"),     STEFAN_CH |-> Types("StefanNode", "StefanEdge"),
   FMI_EUCL_CH |-> Types("OSMNode", "EuclOSMEdge")]

(* The types a node or an edge can be converted to.                        *)
NodeCasts ==
  [GeoNode    |-> {"GeoNode"},
   StefanNode |-> {"StefanNode", "GeoNode"},
   OSMNode    |-> {"OSMNode", "StefanNode", "GeoNode"}]

EdgeCasts ==
  [Edge        |-> {"Edge"},
   StefanEdge  |-> {"StefanEdge", "Edge"},
   OSMEdge     |-> {"OSMEdge", "StefanEdge", "Edge"},
   OSMDistEdge |-> {"OSMDistEdge", "OSMEdge", "StefanEdge", "Edge"},
   EuclOSMEdge |-> {"EuclOSMEdge", "OSMEdge", "StefanEdge", "Edge"}]

Castable(from, to) == to.node \in NodeCasts[from.node] /\ to.edge \in EdgeCasts[from.edge]

CanRead(format, types) == Castable(ReaderTypes[format], types)

CanWrite(format, types) == Castable(types, WriterTypes[format])

-----------------------------------------------------------------------------
(* What a line of the input holds: the number of fields of each type, and  *)
(* whether metadata and an empty line come first.                          *)
HasMetadata(format) == format \in {"FMI", "FMI_DIST", "FMI_EUCL"}

NodeFields(format) == IF ReaderTypes[format].node = "OSMNode" THEN 5 ELSE 3

EdgeFields(format) == IF ReaderTypes[format].edge = "Edge" THEN 3 ELSE 5

(* calcTimeMetric(): the time for a length is a multiple of it that depends*)
(* on the speed or, if there is none, on the type of the road; a fraction  *)
(* <<130, 70>> stands for 1.3 / 0.7.  The code computes it with doubles    *)
(* and cuts the decimals off: where the exact result is a whole number,    *)
(* rounding may leave it a little below.  What does not fit wraps around,  *)
(* as the conversion does on x86-64.                                       *)
HasTimeMetric(format) == ReaderTypes[format].edge \in {"OSMEdge", "EuclOSMEdge"}

RoadFactors ==
  << <<130, 130>>, <<130, 100>>, <<130, 70>>, <<130, 70>>, <<130, 65>>, <<130, 65>>,
     <<130, 60>>, <<130, 60>>, <<130, 80>>, <<130, 80>>, <<130, 25>>, <<130, 45>>,
     <<130, 30>>, <<130, 25>>, <<130, 30>>, <<130, 30>> >>

SpeedFactorUncapped(speed) == <<130, speed>>   \* mutant

SpeedFactor(speed) == <<130, IF speed > 130 THEN 130 ELSE speed>>

TimeFactor(type, speed) ==
  IF speed > 0 THEN SpeedFactor(speed)
  ELSE IF type \in DOMAIN RoadFactors THEN RoadFactors[type] ELSE <<130, 50>>

TimeMetrics(dist, type, speed) ==
  LET f == TimeFactor(type, speed)
      whole == (dist * f[1]) \div f[2]
      exact == (dist * f[1]) % f[2] = 0
  IN  {t % (MaxUint + 1) : t \in IF exact /\ dist > 0 THEN {whole - 1, whole} ELSE {whole}}

(* The lines of the output.  Only the formats of hierarchies hold levels   *)
(* and child edges; -1 is written where there is no child.                 *)
CHFormats == {"FMI_CH", "FMI_EUCL_CH", "STEFAN_CH"}

ChildField(id) == IF id = NO_EID THEN -1 ELSE id

WrittenNode(format, lvl) == IF format \in CHFormats THEN <<lvl>> ELSE <<>>

WrittenEdge(format, e) ==
  <<e.src, e.tgt, e.dist>> \o
    (IF format \in CHFormats THEN <<ChildField(e.child_edge1), ChildField(e.child_edge2)>> ELSE <<>>)

WriteCHGraph(format, node_levels, edges) ==
  [format |-> format,
   nodes  |-> [i \in 1..NrOfNodes |-> WrittenNode(format, node_levels[i - 1])],
   edges  |-> [i \in DOMAIN edges |-> WrittenEdge(format, edges[i])]]
=============================================================================
