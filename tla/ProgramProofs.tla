---------------------------- MODULE ProgramProofs ----------------------------
(***************************************************************************)
(* Proofs about the program, for every file, every command line and every  *)
(* set of files that can be opened: what the reader delivers, and in which *)
(* order main() does things.                                               *)
(***************************************************************************)
EXTENDS Program, RecursionProofs

(***************************************************************************)
(* The order in which main() does things.                                  *)
(***************************************************************************)

(* Where the program can be once the types of the graph are chosen.        *)
AfterTypes ==
  {"metadata", "counts", "nodes", "edges", "sorted", "delivered", "built", "opened"}

(* The output is not touched before it is opened, and then it stays as it  *)
(* was or the program succeeds.  A format of hierarchies was chosen before *)
(* the input was opened.                                                   *)
OutputInv ==
  /\ stage \notin {"opened", "exit_0"} => output = "as it was"
  /\ stage \in AfterTypes => options.outformat \in DOMAIN WriterTypes

(* The types of the graph are those the writer of the output needs, so the *)
(* writer turns none away.                                                 *)
LEMMA TypesCanBeWritten ==
  ASSUME NEW inf, NEW outf \in DOMAIN WriterTypes
  PROVE  CanWrite(outf, GraphTypes(inf, outf))
<1>1. outf \in {"STD", "SIMPLE", "FMI_CH", "STEFAN_CH", "FMI_EUCL_CH"}
  BY DEF WriterTypes
<1>2. /\ WriterTypes[outf].node \in {"GeoNode", "OSMNode", "StefanNode"}
      /\ WriterTypes[outf].edge \in {"Edge", "OSMEdge", "StefanEdge", "EuclOSMEdge"}
  BY <1>1 DEF WriterTypes, Types
<1>3. WriterTypes[outf].node \in NodeCasts[WriterTypes[outf].node]
  BY <1>2 DEF NodeCasts
<1>4. WriterTypes[outf].edge \in EdgeCasts[WriterTypes[outf].edge]
  BY <1>2 DEF EdgeCasts
<1> QED
  BY <1>3, <1>4 DEF CanWrite, Castable, GraphTypes

(* Before the options are read nothing is chosen and nothing is opened.    *)
LEMMA InitOutputInv == ProgramInit => OutputInv
BY DEF ProgramInit, OutputInv, AfterTypes

(* An option may end the program; no option opens a file.                  *)
LEMMA ParseOptionsKeeps ==
  ASSUME OutputInv, ParseOptions
  PROVE  OutputInv'
<1> USE DEF OutputInv, AfterTypes, NextOption
<1>1. CASE Help
  BY <1>1 DEF Help
<1>2. CASE SetOption
  <2>1. stage = "options" /\ stage' = stage /\ output' = output
    BY <1>2 DEF SetOption
  <2> QED
    BY <2>1
<1>3. CASE SetInformat
  BY <1>3 DEF SetInformat
<1>4. CASE SetThreads
  <2>1. stage = "options" /\ output' = output
    BY <1>4 DEF SetThreads
  <2> QED
    BY <1>4, <2>1 DEF SetThreads
<1>5. CASE UnknownOption
  BY <1>5 DEF UnknownOption
<1> QED
  BY <1>1, <1>2, <1>3, <1>4, <1>5 DEF ParseOptions

(* The input is opened only if a format of the output is known.            *)
LEMMA ChooseTypesKeeps ==
  ASSUME OutputInv, ChooseTypes
  PROVE  OutputInv'
<1> USE DEF OutputInv, AfterTypes, Stop, HasInfile, OptionsParsed, FormatsKnown
<1>1. CASE NoInfile
  BY <1>1 DEF NoInfile
<1>2. CASE UnknownOutputFormat
  BY <1>2 DEF UnknownOutputFormat
<1>3. CASE UnknownInputFormat
  BY <1>3 DEF UnknownInputFormat
<1>4. CASE CannotOpenInput
  BY <1>4 DEF CannotOpenInput
<1>5. CASE CannotReadTypes
  BY <1>5 DEF CannotReadTypes
<1>6. CASE OpenInput
  BY <1>6 DEF OpenInput, OpenStream
<1> QED
  BY <1>1, <1>2, <1>3, <1>4, <1>5, <1>6 DEF ChooseTypes

(* A reader may end the program; it does not know of the output.           *)
LEMMA ReadInputKeeps ==
  ASSUME OutputInv, ReadInput
  PROVE  OutputInv'
<1>1. stage \in AfterTypes \ {"opened"} /\ options' = options /\ output' = output
  BY DEF ReadInput, ReadGraph, ReadMetadata, ReadCounts, ReadNode, NodesRead, ReadEdge,
         EdgesRead, Deliver, AfterTypes
<1>2. stage' \in (AfterTypes \ {"opened"}) \cup {"aborted"}
  <2>1. CASE ReadMetadata
    BY <2>1 DEF ReadMetadata, AfterTypes
  <2>2. CASE ReadNode
    BY <2>2 DEF ReadNode, AfterTypes
  <2>3. CASE ReadEdge
    BY <2>3 DEF ReadEdge, AfterTypes
  <2>4. CASE ReadCounts \/ NodesRead \/ EdgesRead \/ Deliver
    BY <2>4 DEF ReadCounts, NodesRead, EdgesRead, Deliver, AfterTypes
  <2> QED
    BY <2>1, <2>2, <2>3, <2>4 DEF ReadInput, ReadGraph
<1> QED
  BY <1>1, <1>2 DEF OutputInv, AfterTypes

(* Only the opened file is written to, and writing to it does not fail.    *)
LEMMA BuildAndStoreKeeps ==
  ASSUME OutputInv, BuildAndStore
  PROVE  OutputInv'
<1> USE DEF OutputInv, AfterTypes, Stop
<1>1. CASE BuildHierarchy
  BY <1>1 DEF BuildHierarchy
<1>2. CASE CannotOpenOutput
  BY <1>2 DEF CannotOpenOutput
<1>3. CASE OpenOutput
  BY <1>3 DEF OpenOutput
<1>4. CASE WriteHierarchy
  <2>1. CanWrite(options.outformat, GraphTypes(informat, options.outformat))
    BY <1>4, TypesCanBeWritten DEF WriteHierarchy
  <2> QED
    BY <1>4, <2>1 DEF WriteHierarchy
<1> QED
  BY <1>1, <1>2, <1>3, <1>4 DEF BuildAndStore

(* A step of the program keeps the invariant.                              *)
LEMMA ProgramNextKeeps == OutputInv /\ [ProgramNext]_program_vars => OutputInv'
<1> SUFFICES ASSUME OutputInv, [ProgramNext]_program_vars PROVE OutputInv'
  OBVIOUS
<1>1. CASE UNCHANGED program_vars
  BY <1>1 DEF program_vars, reader_vars, OutputInv
<1>2. CASE Ended
  BY <1>2 DEF Ended, program_vars, reader_vars, OutputInv
<1> QED
  BY <1>1, <1>2, ParseOptionsKeeps, ChooseTypesKeeps, ReadInputKeeps, BuildAndStoreKeeps
     DEF ProgramNext

(* A run that fails has not touched the output file, although the writer   *)
(* checks the types of the graph only after it has opened that file, and   *)
(* whatever the input is.                                                  *)
THEOREM FailuresComeFirst == ProgramSpec => []FailureLeavesOutput
<1>1. OutputInv => FailureLeavesOutput
  BY DEF OutputInv, FailureLeavesOutput, Failed
<1> QED
  BY <1>1, InitOutputInv, ProgramNextKeeps, PTL DEF ProgramSpec

-----------------------------------------------------------------------------
(***************************************************************************)
(* Texts.                                                                  *)
(***************************************************************************)
Symbols == Int \cup {NewLine, Word}

(* Where the rows end that make up a sequence of symbols.                  *)
AreEnds(ends, rows, symbols) ==
  /\ ends \in [0..Len(rows) -> Nat] /\ ends[0] = 0 /\ ends[Len(rows)] = Len(symbols)
  /\ \A r \in 1..Len(rows) :
       /\ ends[r] = ends[r - 1] + Len(rows[r])
       /\ \A k \in 1..Len(rows[r]) : symbols[ends[r - 1] + k] = rows[r][k]

(* Two vectors one after the other.                                        *)
LEMMA JoinedVectors ==
  ASSUME NEW S, NEW v \in Seq(S), NEW w \in Seq(S)
  PROVE  /\ v \o w \in Seq(S) /\ Len(v \o w) = Len(v) + Len(w)
         /\ \A k \in 1..Len(v) : (v \o w)[k] = v[k]
         /\ \A k \in 1..Len(w) : (v \o w)[Len(v) + k] = w[k]
<1>1. Len(v) \in Nat /\ Len(w) \in Nat
  BY LenProperties
<1>2. v \o w \in Seq(S) /\ Len(v \o w) = Len(v) + Len(w)
  BY ConcatProperties
<1>3. \A k \in 1..Len(v) + Len(w) : (v \o w)[k] = IF k <= Len(v) THEN v[k] ELSE w[k - Len(v)]
  BY ConcatProperties
<1>4. ASSUME NEW k \in 1..Len(v) PROVE (v \o w)[k] = v[k]
  BY <1>1, <1>3
<1>5. ASSUME NEW k \in 1..Len(w) PROVE (v \o w)[Len(v) + k] = w[k]
  <2>1. PICK j : j = Len(v) + k
    OBVIOUS
  <2>2. j \in 1..(Len(v) + Len(w)) /\ ~(j <= Len(v)) /\ j - Len(v) = k
    BY <1>1, <2>1
  <2> QED
    BY <1>3, <2>1, <2>2
<1> QED
  BY <1>2, <1>4, <1>5

(* FlattenSeq() joins rows one by one.                                     *)
LEMMA FlattenOneByOne ==
  ASSUME NEW S, NEW rows \in Seq(Seq(S)), Len(rows) > 0
  PROVE  \E joined : /\ joined[0] = <<>> /\ FlattenSeq(rows) = joined[Len(rows)]
                     /\ \A r \in 1..Len(rows) : joined[r] = joined[r - 1] \o rows[r]
<1> DEFINE n == Len(rows)
           X == Seq(S)
           s == [p \in (1..n) \X X |-> p[2] \o rows[p[1]]]
           Body(h) == [k \in 1..n |-> IF k = 1 THEN rows[k] ELSE h[k - 1] \o rows[k]]
           flatten == CHOOSE h : h = Body(h)
<1>1. n \in Nat /\ n > 0 /\ \A r \in 1..n : rows[r] \in X
  BY LenProperties, ElementOfSeq
<1>2. s \in [(1..n) \X X -> X]
  <2>1. \A v, w \in X : v \o w \in X
    BY ConcatProperties
  <2> HIDE DEF n, X
  <2> QED
    BY <1>1, <2>1
<1>3. <<>> \in X
  BY EmptySeq
<1>4. PICK g \in [0..n -> X] : Follows(g, n, <<>>, s)
  <2> HIDE DEF s, n, X
  <2> QED
    BY <1>1, <1>2, <1>3, IntervalRecursion
<1>5. ASSUME NEW k \in 1..n PROVE g[k] = g[k - 1] \o rows[k]
  <2>1. k - 1 \in 0..n
    BY <1>1
  <2>2. g[k - 1] \in X /\ g[k] = s[<<k, g[k - 1]>>]
    BY <1>4, <2>1 DEF Follows
  <2> HIDE DEF n, X
  <2> QED
    BY <2>2
<1>6. \A w \in X : <<>> \o w = w
  BY ConcatEmptySeq
<1>7. g[0] = <<>>
  BY <1>4 DEF Follows
<1> HIDE DEF s
<1>8. PICK h : h = [k \in 1..n |-> g[k]]
  OBVIOUS
<1>8a. h = Body(h)
  <2>1. ASSUME NEW k \in 1..n PROVE g[k] = IF k = 1 THEN rows[k] ELSE h[k - 1] \o rows[k]
    <3>1. CASE k = 1
      <4>1. k - 1 = 0
        BY <3>1
      <4> HIDE DEF n, X
      <4> QED
        BY <1>1, <1>5, <1>6, <1>7, <3>1, <4>1
    <3>2. CASE k # 1
      <4>1. k - 1 \in 1..n
        BY <1>1, <3>2
      <4> HIDE DEF n, X
      <4> QED
        BY <1>5, <1>8, <3>2, <4>1
    <3> QED
      BY <3>1, <3>2
  <2> HIDE DEF n
  <2> QED
    BY <1>8, <2>1
<1>9. flatten = Body(flatten)
  <2> HIDE DEF Body
  <2> QED
    BY <1>8a
<1>10. FlattenSeq(rows) = flatten[n]
  BY <1>1 DEF FlattenSeq
<1> HIDE DEF flatten
<1>11. \A k \in 1..n : flatten[k] = IF k = 1 THEN rows[k] ELSE flatten[k - 1] \o rows[k]
  <2> HIDE DEF n
  <2> QED
    BY <1>9
<1> DEFINE joined == [k \in 0..n |-> IF k = 0 THEN <<>> ELSE flatten[k]]
<1>12. joined[0] = <<>> /\ FlattenSeq(rows) = joined[n]
  <2>1. 0 \in 0..n /\ n \in 0..n /\ n # 0
    BY <1>1
  <2> HIDE DEF n
  <2> QED
    BY <1>10, <2>1
<1>13. ASSUME NEW r \in 1..n PROVE joined[r] = joined[r - 1] \o rows[r]
  <2>1. r \in 0..n /\ r - 1 \in 0..n /\ r # 0 /\ (r - 1 = 0 <=> r = 1)
    BY <1>1
  <2>2. rows[r] \in X
    BY <1>1
  <2> HIDE DEF n, X
  <2> QED
    BY <1>6, <1>11, <2>1, <2>2
<1> HIDE DEF joined
<1> QED
  BY <1>12, <1>13

(* The first m rows are joined.                                            *)
RowsJoined(joined, rows, S, m) ==
  /\ joined[m] \in Seq(S) /\ Len(joined[m]) \in Nat
  /\ m > 0 => Len(joined[m]) = Len(joined[m - 1]) + Len(rows[m])
  /\ \A r \in 1..m : \A k \in 1..Len(rows[r]) :
       /\ Len(joined[r - 1]) + k \in 1..Len(joined[m])
       /\ joined[m][Len(joined[r - 1]) + k] = rows[r][k]

(* So they follow each other in its result.                                *)
LEMMA FlattenedRows ==
  ASSUME NEW S, NEW rows \in Seq(Seq(S)), Len(rows) > 0
  PROVE  FlattenSeq(rows) \in Seq(S) /\ \E ends : AreEnds(ends, rows, FlattenSeq(rows))
<1>1. PICK joined : /\ joined[0] = <<>> /\ FlattenSeq(rows) = joined[Len(rows)]
                    /\ \A r \in 1..Len(rows) : joined[r] = joined[r - 1] \o rows[r]
  BY FlattenOneByOne
<1>2. Len(rows) \in Nat /\ \A r \in 1..Len(rows) : rows[r] \in Seq(S)
  BY LenProperties, ElementOfSeq
<1> DEFINE n == Len(rows)
           Fits(m) == RowsJoined(joined, rows, S, m)
           P == {m \in Nat : m <= n => Fits(m)}
<1>3. 0 \in P
  <2>1. <<>> \in Seq(S) /\ Len(<<>>) = 0
    BY EmptySeq
  <2>2. \A r \in 1..0 : FALSE
    OBVIOUS
  <2>3. Fits(0)
    BY <1>1, <2>1, <2>2 DEF RowsJoined
  <2> QED
    BY <2>3
<1>4. ASSUME NEW m \in Nat, m \in P PROVE m + 1 \in P
  <2> SUFFICES ASSUME m + 1 <= n PROVE Fits(m + 1)
    BY <1>4
  <2>1. RowsJoined(joined, rows, S, m) /\ m + 1 \in 1..n /\ (m + 1) - 1 = m
    BY <1>2, <1>4
  <2>1a. joined[m + 1] = joined[m] \o rows[m + 1] /\ rows[m + 1] \in Seq(S)
    <3> HIDE DEF n
    <3>1. \A r \in 1..n : joined[r] = joined[r - 1] \o rows[r] /\ rows[r] \in Seq(S)
      BY <1>1, <1>2 DEF n
    <3> QED
      BY <2>1, <3>1
  <2>2. PICK v, w : v = joined[m] /\ w = rows[m + 1]
    OBVIOUS
  <2>3. v \in Seq(S) /\ w \in Seq(S) /\ Len(v) \in Nat /\ Len(w) \in Nat /\ joined[m + 1] = v \o w
    BY <2>1, <2>1a, <2>2, LenProperties DEF RowsJoined
  <2>4. /\ v \o w \in Seq(S) /\ Len(v \o w) = Len(v) + Len(w)
        /\ \A k \in 1..Len(v) : (v \o w)[k] = v[k]
        /\ \A k \in 1..Len(w) : (v \o w)[Len(v) + k] = w[k]
    BY <2>3, JoinedVectors, SMTT(30)
  <2>5. ASSUME NEW r \in 1..(m + 1), NEW k \in 1..Len(rows[r])
        PROVE  /\ Len(joined[r - 1]) + k \in 1..Len(joined[m + 1])
               /\ joined[m + 1][Len(joined[r - 1]) + k] = rows[r][k]
    <3>1. CASE r = m + 1
      <4>1. joined[r - 1] = v /\ rows[r] = w
        BY <2>1, <2>2, <3>1
      <4>2. k \in 1..Len(w) /\ Len(v) + k \in 1..(Len(v) + Len(w))
        BY <2>3, <4>1
      <4> QED
        BY <2>3, <2>4, <4>1, <4>2
    <3>2. CASE r # m + 1
      <4>1. r \in 1..m
        BY <3>2
      <4>2. PICK p : p = Len(joined[r - 1]) + k
        OBVIOUS
      <4>3. p \in 1..Len(v) /\ v[p] = rows[r][k]
        BY <2>1, <2>2, <4>1, <4>2 DEF RowsJoined
      <4>4. p \in 1..(Len(v) + Len(w))
        BY <2>3, <4>3
      <4> QED
        BY <2>3, <2>4, <4>2, <4>3, <4>4
    <3> QED
      BY <3>1, <3>2
  <2>6. Len(joined[m + 1]) \in Nat /\ Len(joined[m + 1]) = Len(joined[m]) + Len(rows[m + 1])
    <3>1. PICK x : x = v \o w
      OBVIOUS
    <3>2. Len(x) = Len(v) + Len(w)
      BY <2>4, <3>1
    <3>3. Len(x) \in Nat
      BY <2>3, <3>2
    <3> QED
      BY <2>2, <2>3, <3>1, <3>2, <3>3
  <2> HIDE DEF n
  <2> QED
    BY <2>1, <2>3, <2>4, <2>5, <2>6 DEF RowsJoined
<1> HIDE DEF P
<1>5. Nat \subseteq P
  BY <1>3, <1>4, NatSetInduction
<1>6. \A m \in 0..n : Fits(m)
  <2> HIDE DEF Fits
  <2> QED
    BY <1>2, <1>5 DEF P
<1> DEFINE ends == [r \in 0..n |-> Len(joined[r])]
<1>7. FlattenSeq(rows) \in Seq(S)
  <2>1. n \in 0..n
    BY <1>2
  <2>2. Fits(n)
    BY <1>6, <2>1
  <2> QED
    BY <1>1, <2>2 DEF RowsJoined
<1>8. ends \in [0..n -> Nat]
  BY <1>6 DEF RowsJoined
<1>9. ends[0] = 0 /\ ends[n] = Len(FlattenSeq(rows))
  <2>1. Len(<<>>) = 0
    BY EmptySeq
  <2> QED
    BY <1>1, <1>2, <2>1
<1>10. ASSUME NEW r \in 1..n
       PROVE  /\ ends[r] = ends[r - 1] + Len(rows[r])
              /\ \A k \in 1..Len(rows[r]) : FlattenSeq(rows)[ends[r - 1] + k] = rows[r][k]
  <2>1. r \in 0..n /\ r - 1 \in 0..n /\ n \in 0..n /\ r > 0
    BY <1>2
  <2>2. ends[r] = Len(joined[r]) /\ ends[r - 1] = Len(joined[r - 1])
    BY <2>1
  <2>3. Fits(r) /\ Fits(n)
    BY <1>6, <2>1
  <2> QED
    BY <1>1, <2>1, <2>2, <2>3 DEF RowsJoined
<1>11. AreEnds(ends, rows, FlattenSeq(rows))
  <2> HIDE DEF ends
  <2> QED
    BY <1>8, <1>9, <1>10 DEF AreEnds
<1> QED
  BY <1>7, <1>11

(* A row ends with the end of a line.                                      *)
LEMMA RowElements ==
  ASSUME NEW v \in Seq(Symbols)
  PROVE  /\ Row(v) \in Seq(Symbols) /\ Len(Row(v)) = Len(v) + 1 /\ Len(v) \in Nat
         /\ \A k \in 1..Len(v) : Row(v)[k] = v[k]
         /\ Row(v)[Len(v) + 1] = NewLine
<1>1. <<NewLine>> \in Seq(Symbols) /\ Len(<<NewLine>>) = 1 /\ <<NewLine>>[1] = NewLine
  BY DEF Symbols
<1>2. 1 \in 1..1 /\ Len(v) \in Nat
  BY LenProperties
<1> QED
  BY <1>1, <1>2, JoinedVectors DEF Row

(* There are two kinds of lines of nodes and of edges, and only the formats*)
(* with the longer ones have metadata or times.                            *)
LEMMA FieldsOfFormats ==
  ASSUME NEW format \in DOMAIN ReaderTypes
  PROVE  \/ NodeFields(format) = 5 /\ EdgeFields(format) = 5
         \/ /\ NodeFields(format) = 3 /\ EdgeFields(format) = 3
            /\ ~HasMetadata(format) /\ ~HasTimeMetric(format)
<1>1. format \in {"STD", "SIMPLE", "FMI", "FMI_DIST", "FMI_EUCL"}
  BY DEF ReaderTypes
<1>2. CASE format = "SIMPLE"
  BY <1>2 DEF ReaderTypes, Types, NodeFields, EdgeFields, HasMetadata, HasTimeMetric
<1>3. CASE format # "SIMPLE"
  BY <1>1, <1>3 DEF ReaderTypes, Types, NodeFields, EdgeFields
<1> QED
  BY <1>2, <1>3

(* The numbers in the line of a node and in that of an edge.               *)
NodeNumbers(f, n) ==
  IF NodeFields(f.layout) = 5 THEN <<f.first_id + n - 1, 7, 7, 7, 7>> ELSE <<7, 7, 7>>

EdgeNumbers(f, e) ==
  IF EdgeFields(f.layout) = 5 THEN <<e.src, e.tgt, e.dist, e.type, e.speed>>
  ELSE <<e.src, e.tgt, e.dist>>

LEMMA NodeRowNumbers ==
  ASSUME NEW f, IsFile(f), NEW n \in 1..f.nr_of_nodes
  PROVE  /\ NodeRow(f, n) = Row(NodeNumbers(f, n)) /\ NodeNumbers(f, n) \in Seq(Int)
         /\ Len(NodeNumbers(f, n)) = NodeFields(f.layout)
         /\ NodeNumbers(f, n)[1] = IF NodeFields(f.layout) = 5 THEN f.first_id + n - 1 ELSE 7
<1>1. f.first_id + n - 1 \in Int
  BY SizeAssumption DEF IsFile, Uint
<1>2. NodeFields(f.layout) \in {3, 5}
  BY FieldsOfFormats DEF IsFile
<1>3. NodeRow(f, n) = Row(NodeNumbers(f, n))
  BY DEF NodeRow, NodeNumbers
<1>4. NodeNumbers(f, n) \in Seq(Int)
  BY <1>1 DEF NodeNumbers
<1> QED
  BY <1>2, <1>3, <1>4 DEF NodeNumbers

(* A signed number that is not negative is at most half the largest uint.  *)
LEMMA SignedNumbers ==
  /\ SignedInt \subseteq Int /\ Uint \subseteq Int
  /\ \A x \in SignedInt : x >= 0 => x \in 0..(MaxUint \div 2)
<1>1. PICK M : M = MaxUint \div 2
  OBVIOUS
<1>2. M \in Int
  BY <1>1, SizeAssumption
<1>3. SignedInt = (-M - 1)..M
  BY <1>1 DEF SignedInt
<1>4. (-M - 1)..M \subseteq Int /\ \A x \in (-M - 1)..M : x >= 0 => x \in 0..M
  BY <1>2
<1>5. Uint \subseteq Int
  BY SizeAssumption DEF Uint
<1> QED
  BY <1>1, <1>3, <1>4, <1>5

LEMMA EdgeRowNumbers ==
  ASSUME NEW f, IsFile(f), NEW k \in 1..Len(f.edges)
  PROVE  /\ EdgeRow(f, f.edges[k]) = Row(EdgeNumbers(f, f.edges[k]))
         /\ EdgeNumbers(f, f.edges[k]) \in Seq(Int)
         /\ Len(EdgeNumbers(f, f.edges[k])) = EdgeFields(f.layout)
         /\ f.edges[k] \in [src : Nodes, tgt : Nodes, dist : SignedInt,
                            type : Uint, speed : SignedInt]
<1> DEFINE e == f.edges[k]
<1>1. e \in [src : 0..(f.nr_of_nodes - 1), tgt : 0..(f.nr_of_nodes - 1),
             dist : SignedInt, type : Uint, speed : SignedInt]
  BY ElementOfSeq DEF IsFile
<1>2. 0..(f.nr_of_nodes - 1) \subseteq Nodes
  <2>1. f.nr_of_nodes \in 0..NrOfNodes
    BY DEF IsFile
  <2> QED
    BY <2>1, SizeAssumption DEF Nodes
<1>3. e \in [src : Nodes, tgt : Nodes, dist : SignedInt, type : Uint, speed : SignedInt]
  BY <1>1, <1>2
<1>4. e.src \in Int /\ e.tgt \in Int /\ e.dist \in Int /\ e.type \in Int /\ e.speed \in Int
  <2>1. Nodes \subseteq Int /\ Uint \subseteq Int
    BY SizeAssumption DEF Nodes, Uint
  <2> QED
    BY <1>3, <2>1, SignedNumbers
<1>5. EdgeFields(f.layout) \in {3, 5}
  BY FieldsOfFormats DEF IsFile
<1> HIDE DEF e
<1>6. EdgeNumbers(f, e) \in Seq(Int) /\ Len(EdgeNumbers(f, e)) = EdgeFields(f.layout)
  BY <1>4, <1>5 DEF EdgeNumbers
<1>7. SubSeq(<<e.src, e.tgt, e.dist, e.type, e.speed>>, 1, EdgeFields(f.layout)) = EdgeNumbers(f, e)
  <2> DEFINE v == <<e.src, e.tgt, e.dist, e.type, e.speed>>
  <2>1. v \in Seq(Int) /\ Len(v) = 5
    BY <1>4
  <2>2. CASE EdgeFields(f.layout) = 5
    <3>1. SubSeq(v, 1, Len(v)) = v
      <4>1. v = [j \in 1..5 |-> v[j]]
        OBVIOUS
      <4> HIDE DEF v
      <4>2. SubSeq(v, 1, 5) = [j \in 1..5 |-> v[j]]
        BY <2>1
      <4> QED
        BY <2>1, <4>1, <4>2
    <3> QED
      BY <2>1, <2>2, <3>1 DEF EdgeNumbers
  <2>3. CASE EdgeFields(f.layout) = 3
    <3>1. SubSeq(v, 1, 3) = [j \in 1..3 |-> v[j]]
      BY <2>1
    <3>2. [j \in 1..3 |-> v[j]] = <<e.src, e.tgt, e.dist>>
      OBVIOUS
    <3>3. EdgeNumbers(f, e) = <<e.src, e.tgt, e.dist>>
      BY <2>3 DEF EdgeNumbers
    <3> HIDE DEF v
    <3>4. SubSeq(v, 1, EdgeFields(f.layout)) = EdgeNumbers(f, e)
      BY <2>3, <3>1, <3>2, <3>3
    <3> QED
      BY <3>4 DEF v
  <2> QED
    BY <1>5, <2>2, <2>3
<1> QED
  BY <1>3, <1>6, <1>7 DEF EdgeRow, e

(* The rows before those of the nodes.                                     *)
HeaderRows(f) == IF HasMetadata(f.layout) THEN 4 ELSE 2

(* The rows of a file: metadata, the two numbers, nodes and edges.         *)
LEMMA RowsOfFile ==
  ASSUME NEW f, IsFile(f)
  PROVE  /\ Rows(f) \in Seq(Seq(Symbols))
         /\ Len(Rows(f)) = HeaderRows(f) + f.nr_of_nodes + Len(f.edges)
         /\ f.nr_of_nodes \in Nat /\ f.announced \in Nat /\ Len(f.edges) \in Nat
         /\ HasMetadata(f.layout) => Rows(f)[1] = Row(<<Word>>) /\ Rows(f)[2] = Row(<<>>)
         /\ Rows(f)[HeaderRows(f) - 1] = Row(<<f.nr_of_nodes>>)
         /\ Rows(f)[HeaderRows(f)] = Row(<<f.announced>>)
         /\ \A n \in 1..f.nr_of_nodes : Rows(f)[HeaderRows(f) + n] = Row(NodeNumbers(f, n))
         /\ \A k \in 1..Len(f.edges) :
              Rows(f)[HeaderRows(f) + f.nr_of_nodes + k] = Row(EdgeNumbers(f, f.edges[k]))
<1> DEFINE S == Seq(Symbols)
           A == IF HasMetadata(f.layout) THEN <<Row(<<Word>>), Row(<<>>)>> ELSE <<>>
           B == <<Row(<<f.nr_of_nodes>>), Row(<<f.announced>>)>>
           C == [n \in 1..f.nr_of_nodes |-> NodeRow(f, n)]
           D == [k \in DOMAIN f.edges |-> EdgeRow(f, f.edges[k])]
           h == HeaderRows(f)
           N == f.nr_of_nodes
           M == Len(f.edges)
<1>1. N \in Nat /\ f.announced \in Nat /\ M \in Nat /\ DOMAIN f.edges = 1..M
  BY SizeAssumption, LenProperties DEF IsFile, Uint
<1>2. Int \subseteq Symbols /\ Seq(Int) \subseteq S
  BY DEF Symbols
<1>3. /\ Row(<<Word>>) \in S /\ Row(<<>>) \in S /\ Row(<<f.nr_of_nodes>>) \in S
      /\ Row(<<f.announced>>) \in S
  <2>1. <<Word>> \in S /\ <<>> \in S /\ <<f.nr_of_nodes>> \in S /\ <<f.announced>> \in S
    BY <1>1 DEF Symbols
  <2> QED
    BY <2>1, RowElements
<1>4. \A n \in 1..N : NodeRow(f, n) = Row(NodeNumbers(f, n)) /\ NodeRow(f, n) \in S
  BY <1>2, NodeRowNumbers, RowElements
<1>5. \A k \in 1..M : /\ EdgeRow(f, f.edges[k]) = Row(EdgeNumbers(f, f.edges[k]))
                      /\ EdgeRow(f, f.edges[k]) \in S
  BY <1>2, EdgeRowNumbers, RowElements
<1> HIDE DEF S
<1>6. A \in Seq(S) /\ Len(A) = h - 2 /\ B \in Seq(S) /\ Len(B) = 2 /\ h \in {2, 4}
  BY <1>3 DEF HeaderRows
<1>7. C \in Seq(S) /\ Len(C) = N
  BY <1>1, <1>4
<1>8. D \in Seq(S) /\ Len(D) = M
  BY <1>1, <1>5
<1>9. B[1] = Row(<<N>>) /\ B[2] = Row(<<f.announced>>)
  OBVIOUS
<1>10. HasMetadata(f.layout) => A[1] = Row(<<Word>>) /\ A[2] = Row(<<>>) /\ h = 4
  BY DEF HeaderRows
<1>11. /\ \A n \in 1..N : C[n] = Row(NodeNumbers(f, n))
       /\ \A k \in 1..M : D[k] = Row(EdgeNumbers(f, f.edges[k]))
  BY <1>1, <1>4, <1>5
<1>12. Rows(f) = ((A \o B) \o C) \o D
  BY DEF Rows
<1> HIDE DEF A, B, C, D
<1>13. PICK AB : AB = A \o B
  OBVIOUS
<1>14. /\ AB \in Seq(S) /\ Len(AB) = h /\ AB[h - 1] = Row(<<N>>) /\ AB[h] = Row(<<f.announced>>)
       /\ HasMetadata(f.layout) => AB[1] = Row(<<Word>>) /\ AB[2] = Row(<<>>)
  <2>1. /\ AB \in Seq(S) /\ Len(AB) = Len(A) + Len(B)
        /\ \A k \in 1..Len(A) : AB[k] = A[k]
        /\ \A k \in 1..Len(B) : AB[Len(A) + k] = B[k]
    <3> HIDE DEF h
    <3> QED
      BY <1>6, <1>13, JoinedVectors
  <2>2. AB[Len(A) + 1] = B[1] /\ AB[Len(A) + 2] = B[2] /\ Len(A) + 1 = h - 1 /\ Len(A) + 2 = h
    BY <1>6, <2>1
  <2>3. HasMetadata(f.layout) => AB[1] = A[1] /\ AB[2] = A[2]
    BY <1>6, <1>10, <2>1
  <2> QED
    BY <1>6, <1>9, <1>10, <2>1, <2>2, <2>3
<1>15. PICK ABC : ABC = AB \o C
  OBVIOUS
<1>16. /\ ABC \in Seq(S) /\ Len(ABC) = h + N
       /\ \A k \in 1..h : ABC[k] = AB[k]
       /\ \A n \in 1..N : ABC[h + n] = C[n]
  <2>1. /\ ABC \in Seq(S) /\ Len(ABC) = Len(AB) + Len(C)
        /\ \A k \in 1..Len(AB) : ABC[k] = AB[k]
        /\ \A k \in 1..Len(C) : ABC[Len(AB) + k] = C[k]
    <3> HIDE DEF h, N, M
    <3>1. AB \in Seq(S) /\ C \in Seq(S)
      BY <1>7, <1>14
    <3> QED
      BY <1>15, <3>1, JoinedVectors
  <2> QED
    BY <1>7, <1>14, <2>1
<1>17. PICK R : R = ABC \o D
  OBVIOUS
<1>18. /\ R \in Seq(S) /\ Len(R) = (h + N) + M
       /\ \A k \in 1..(h + N) : R[k] = ABC[k]
       /\ \A k \in 1..M : R[(h + N) + k] = D[k]
  <2>1. /\ R \in Seq(S) /\ Len(R) = Len(ABC) + Len(D)
        /\ \A k \in 1..Len(ABC) : R[k] = ABC[k]
        /\ \A k \in 1..Len(D) : R[Len(ABC) + k] = D[k]
    <3> HIDE DEF h, N, M
    <3>1. ABC \in Seq(S) /\ D \in Seq(S)
      BY <1>8, <1>16
    <3> QED
      BY <1>17, <3>1, JoinedVectors
  <2> QED
    BY <1>8, <1>16, <2>1
<1>19. R = Rows(f)
  BY <1>12, <1>13, <1>15, <1>17
<1>20. /\ 1 \in 1..h /\ 2 \in 1..h /\ h - 1 \in 1..h /\ h \in 1..h /\ \A k \in 1..h : k \in 1..(h + N)
       /\ \A n \in 1..N : h + n \in 1..(h + N)
  BY <1>1, <1>6
<1>21. \A k \in 1..h : R[k] = AB[k]
  BY <1>16, <1>18, <1>20
<1>22. R[h - 1] = Row(<<N>>) /\ R[h] = Row(<<f.announced>>)
  BY <1>14, <1>20, <1>21
<1>23. HasMetadata(f.layout) => R[1] = Row(<<Word>>) /\ R[2] = Row(<<>>)
  BY <1>14, <1>20, <1>21
<1>24. \A n \in 1..N : R[h + n] = Row(NodeNumbers(f, n))
  BY <1>11, <1>16, <1>18, <1>20
<1>25. \A k \in 1..M : R[(h + N) + k] = Row(EdgeNumbers(f, f.edges[k]))
  BY <1>11, <1>18
<1> HIDE DEF h, N, M
<1>26. /\ R \in Seq(Seq(Symbols)) /\ Len(R) = (h + N) + M /\ N \in Nat /\ f.announced \in Nat /\ M \in Nat
       /\ HasMetadata(f.layout) => R[1] = Row(<<Word>>) /\ R[2] = Row(<<>>)
       /\ R[h - 1] = Row(<<N>>) /\ R[h] = Row(<<f.announced>>)
       /\ \A n \in 1..N : R[h + n] = Row(NodeNumbers(f, n))
       /\ \A k \in 1..M : R[(h + N) + k] = Row(EdgeNumbers(f, f.edges[k]))
  BY <1>1, <1>18, <1>22, <1>23, <1>24, <1>25 DEF S
<1> QED
  BY <1>19, <1>26 DEF h, N, M

NrOfRows(f) == Len(Rows(f))

(* Their number.                                                           *)
LEMMA NumberOfRows ==
  ASSUME NEW f, IsFile(f)
  PROVE  /\ Rows(f) \in Seq(Seq(Symbols))
         /\ NrOfRows(f) = HeaderRows(f) + f.nr_of_nodes + Len(f.edges)
         /\ f.nr_of_nodes \in Nat /\ f.announced \in Nat /\ Len(f.edges) \in Nat
         /\ HeaderRows(f) \in {2, 4} /\ (HeaderRows(f) = 4 <=> HasMetadata(f.layout))
         /\ NrOfRows(f) \in Nat
<1>1. /\ Rows(f) \in Seq(Seq(Symbols))
      /\ NrOfRows(f) = HeaderRows(f) + f.nr_of_nodes + Len(f.edges)
      /\ f.nr_of_nodes \in Nat /\ f.announced \in Nat /\ Len(f.edges) \in Nat
  BY RowsOfFile DEF NrOfRows
<1>2. HeaderRows(f) \in {2, 4} /\ (HeaderRows(f) = 4 <=> HasMetadata(f.layout))
  BY DEF HeaderRows
<1> QED
  BY <1>1, <1>2

(* Where the rows of a file end.                                           *)
RowEnds(f) == CHOOSE ends : AreEnds(ends, Rows(f), FlattenSeq(Rows(f)))

LEMMA RowEndsOfFile ==
  ASSUME NEW f, IsFile(f)
  PROVE  AreEnds(RowEnds(f), Rows(f), FlattenSeq(Rows(f))) /\ FlattenSeq(Rows(f)) \in Seq(Symbols)
<1>1. Rows(f) \in Seq(Seq(Symbols)) /\ Len(Rows(f)) > 0
  BY NumberOfRows DEF NrOfRows
<1>2. /\ FlattenSeq(Rows(f)) \in Seq(Symbols)
      /\ \E ends : AreEnds(ends, Rows(f), FlattenSeq(Rows(f)))
  BY <1>1, FlattenedRows
<1> QED
  BY <1>2 DEF RowEnds

(* The rows follow each other in the text, and the end of the last line may*)
(* be missing.                                                             *)
LEMMA TextOfFile ==
  ASSUME NEW f, IsFile(f)
  PROVE  /\ Text(f) \in Seq(Symbols) /\ Len(Text(f)) \in Nat
         /\ RowEnds(f) \in [0..NrOfRows(f) -> Nat] /\ RowEnds(f)[0] = 0 /\ NrOfRows(f) \in Nat
         /\ Len(Text(f)) = IF f.ends_with_newline THEN RowEnds(f)[NrOfRows(f)]
                           ELSE RowEnds(f)[NrOfRows(f)] - 1
         /\ \A r \in 1..NrOfRows(f) :
              /\ RowEnds(f)[r] = RowEnds(f)[r - 1] + Len(Rows(f)[r])
              /\ \A k \in 1..Len(Rows(f)[r]) :
                   RowEnds(f)[r - 1] + k <= Len(Text(f))
                     => Text(f)[RowEnds(f)[r - 1] + k] = Rows(f)[r][k]
<1> DEFINE R == Rows(f)
           n == Len(R)
           s == FlattenSeq(R)
           t == Text(f)
           E == RowEnds(f)
<1>1. AreEnds(E, R, s) /\ s \in Seq(Symbols)
  BY RowEndsOfFile
<1>2. /\ n \in Nat /\ n >= 2 /\ R[HeaderRows(f)] = Row(<<f.announced>>) /\ HeaderRows(f) \in 1..n
      /\ f.announced \in Int
  <2>1. n \in Nat /\ n >= 2 /\ HeaderRows(f) \in 1..n /\ f.announced \in Int
    BY NumberOfRows, SMTT(30) DEF NrOfRows
  <2> QED
    BY <2>1, RowsOfFile
<1> HIDE DEF R, s, E
<1>3. /\ E \in [0..n -> Nat] /\ E[0] = 0 /\ E[n] = Len(s)
      /\ \A r \in 1..n : E[r] = E[r - 1] + Len(R[r])
      /\ \A r \in 1..n : \A k \in 1..Len(R[r]) : s[E[r - 1] + k] = R[r][k]
  BY <1>1 DEF AreEnds
<1>4. E[n] \in Nat /\ E[n] >= 1
  <2>0. /\ n \in 1..n /\ n - 1 \in 0..n /\ n \in 0..n /\ R \in Seq(Seq(Symbols))
    BY <1>2, NumberOfRows DEF R
  <2>1. E[n] = E[n - 1] + Len(R[n]) /\ E[n - 1] \in Nat /\ E[n] \in Nat
    BY <1>3, <2>0
  <2>2. R[n] \in Seq(Symbols)
    BY <2>0, ElementOfSeq
  <2>3. \E v \in Seq(Symbols) : R[n] = Row(v)
    <3>1. PICK h, N, M : h = HeaderRows(f) /\ N = f.nr_of_nodes /\ M = Len(f.edges)
      OBVIOUS
    <3>2. h \in {2, 4} /\ N \in Nat /\ M \in Nat /\ n = h + N + M
      BY <3>1, NumberOfRows DEF NrOfRows, R
    <3>3. CASE M > 0
      <4>1. M \in 1..Len(f.edges) /\ n = HeaderRows(f) + f.nr_of_nodes + M
        BY <3>1, <3>2, <3>3
      <4>2. R[n] = Row(EdgeNumbers(f, f.edges[M]))
        BY <4>1, RowsOfFile DEF R
      <4>3. EdgeNumbers(f, f.edges[M]) \in Seq(Symbols)
        BY <4>1, EdgeRowNumbers DEF Symbols
      <4> QED
        BY <4>2, <4>3
    <3>4. CASE M = 0 /\ N > 0
      <4>1. N \in 1..f.nr_of_nodes /\ n = HeaderRows(f) + N
        BY <3>1, <3>2, <3>4
      <4>2. R[n] = Row(NodeNumbers(f, N))
        BY <4>1, RowsOfFile DEF R
      <4>3. NodeNumbers(f, N) \in Seq(Symbols)
        BY <4>1, NodeRowNumbers DEF Symbols
      <4> QED
        BY <4>2, <4>3
    <3>5. CASE M = 0 /\ N = 0
      <4>1. n = HeaderRows(f)
        BY <3>1, <3>2, <3>5
      <4>2. <<f.announced>> \in Seq(Symbols)
        BY <1>2 DEF Symbols
      <4> QED
        BY <1>2, <4>1, <4>2
    <3> QED
      BY <3>2, <3>3, <3>4, <3>5
  <2>4. Len(R[n]) >= 1
    BY <2>3, RowElements
  <2>5. Len(R[n]) \in Nat
    BY <2>2, LenProperties
  <2> QED
    BY <2>1, <2>4, <2>5
<1>5. t = IF f.ends_with_newline THEN s ELSE SubSeq(s, 1, Len(s) - 1)
  BY DEF Text, Front, R, s
<1>6. /\ t \in Seq(Symbols) /\ Len(t) = IF f.ends_with_newline THEN E[n] ELSE E[n] - 1
      /\ \A k \in 1..Len(t) : t[k] = s[k]
  <2>1. Len(s) = E[n] /\ Len(s) \in Nat /\ Len(s) >= 1
    BY <1>3, <1>4
  <2>2. CASE f.ends_with_newline
    BY <1>1, <1>5, <2>1, <2>2
  <2>3. CASE ~f.ends_with_newline
    <3>1. t = SubSeq(s, 1, Len(s) - 1)
      BY <1>5, <2>3
    <3>2. SubSeq(s, 1, Len(s) - 1) \in Seq(Symbols) /\ Len(SubSeq(s, 1, Len(s) - 1)) = Len(s) - 1
      BY <1>1, <2>1
    <3>3. \A k \in 1..(Len(s) - 1) : SubSeq(s, 1, Len(s) - 1)[k] = s[k]
      BY <1>1, <2>1
    <3> QED
      BY <2>1, <2>3, <3>1, <3>2, <3>3
  <2> QED
    BY <2>2, <2>3
<1>7. Len(t) \in Nat
  BY <1>6, LenProperties
<1> HIDE DEF t
<1>8. ASSUME NEW r \in 1..n, NEW k \in 1..Len(R[r]), E[r - 1] + k <= Len(t)
      PROVE  t[E[r - 1] + k] = R[r][k]
  <2>1. r - 1 \in 0..n
    BY <1>2
  <2>2. E[r - 1] \in Nat
    BY <1>3, <2>1
  <2>3. PICK p : p = E[r - 1] + k
    OBVIOUS
  <2>4. p \in 1..Len(t)
    BY <1>7, <1>8, <2>2, <2>3
  <2> QED
    BY <1>3, <1>6, <2>3, <2>4
<1>9. NrOfRows(f) = n
  BY DEF NrOfRows, R
<1>10. \A r \in 1..n : E[r] = E[r - 1] + Len(R[r])
  BY <1>3
<1>11. E \in [0..n -> Nat] /\ E[0] = 0
  BY <1>3
<1> HIDE DEF n
<1>12. /\ t \in Seq(Symbols) /\ Len(t) \in Nat /\ E \in [0..n -> Nat] /\ E[0] = 0 /\ n \in Nat
       /\ Len(t) = IF f.ends_with_newline THEN E[n] ELSE E[n] - 1
       /\ \A r \in 1..n :
              /\ E[r] = E[r - 1] + Len(R[r])
              /\ \A k \in 1..Len(R[r]) : E[r - 1] + k <= Len(t) => t[E[r - 1] + k] = R[r][k]
  BY <1>2, <1>6, <1>7, <1>8, <1>10, <1>11
<1> QED
  BY <1>9, <1>12 DEF t, E, R

(* A row ends where the next one begins, and all but the last are in the   *)
(* text with the ends of their lines.                                      *)
LEMMA RowsInText ==
  ASSUME NEW f, IsFile(f), NEW r \in 1..NrOfRows(f), NEW v \in Seq(Symbols), Rows(f)[r] = Row(v)
  PROVE  /\ RowEnds(f)[r - 1] \in Nat /\ RowEnds(f)[r] = RowEnds(f)[r - 1] + Len(v) + 1
         /\ RowEnds(f)[r] - 1 <= Len(Text(f))
         /\ \A k \in 1..Len(v) : Text(f)[RowEnds(f)[r - 1] + k] = v[k]
         /\ RowEnds(f)[r] <= Len(Text(f)) => Text(f)[RowEnds(f)[r]] = NewLine
         /\ RowEnds(f)[r] <= Len(Text(f)) <=> r < NrOfRows(f) \/ f.ends_with_newline
<1> DEFINE E == RowEnds(f)
           t == Text(f)
           n == NrOfRows(f)
<1>1. /\ Len(t) \in Nat /\ E \in [0..n -> Nat] /\ E[0] = 0 /\ n \in Nat
      /\ Len(t) = IF f.ends_with_newline THEN E[n] ELSE E[n] - 1
      /\ \A s \in 1..n : E[s] = E[s - 1] + Len(Rows(f)[s])
      /\ \A s \in 1..n : \A k \in 1..Len(Rows(f)[s]) :
           E[s - 1] + k <= Len(t) => t[E[s - 1] + k] = Rows(f)[s][k]
  <2>1. Len(t) \in Nat /\ E \in [0..n -> Nat] /\ E[0] = 0 /\ n \in Nat
    BY TextOfFile
  <2>2. Len(t) = IF f.ends_with_newline THEN E[n] ELSE E[n] - 1
    BY TextOfFile
  <2>3. \A s \in 1..n :
          /\ E[s] = E[s - 1] + Len(Rows(f)[s])
          /\ \A k \in 1..Len(Rows(f)[s]) :
               E[s - 1] + k <= Len(t) => t[E[s - 1] + k] = Rows(f)[s][k]
    BY TextOfFile
  <2> HIDE DEF E, t, n
  <2> QED
    BY <2>1, <2>2, <2>3
<1>2. f.ends_with_newline \in BOOLEAN
  BY DEF IsFile
<1>3. /\ Len(Row(v)) = Len(v) + 1 /\ Len(v) \in Nat /\ \A k \in 1..Len(v) : Row(v)[k] = v[k]
      /\ Row(v)[Len(v) + 1] = NewLine
  BY RowElements
<1>4. \A s \in 0..n : E[s] \in Nat
  BY <1>1
<1> HIDE DEF E, t, n
<1>5. \A s \in 1..n : Len(Rows(f)[s]) \in Nat /\ Len(Rows(f)[s]) >= 1
  <2> SUFFICES ASSUME NEW s \in 1..n PROVE \E w \in Seq(Symbols) : Rows(f)[s] = Row(w)
    <3>1. \A w \in Seq(Symbols) : Len(Row(w)) \in Nat /\ Len(Row(w)) >= 1
      BY RowElements
    <3> QED
      BY <3>1
  <2> DEFINE h == HeaderRows(f)
             N == f.nr_of_nodes
             M == Len(f.edges)
  <2>1. h \in {2, 4} /\ (h = 4 <=> HasMetadata(f.layout)) /\ N \in Nat /\ M \in Nat /\ n = h + N + M
    BY NumberOfRows DEF n
  <2>2. CASE s < h - 1
    <3>1. HasMetadata(f.layout) /\ s \in {1, 2}
      BY <2>1, <2>2
    <3>2. <<Word>> \in Seq(Symbols) /\ <<>> \in Seq(Symbols)
      BY DEF Symbols
    <3> QED
      BY <3>1, <3>2, RowsOfFile
  <2>3. CASE s = h - 1 \/ s = h
    <3>1. <<N>> \in Seq(Symbols) /\ <<f.announced>> \in Seq(Symbols)
      <4>1. N \in Symbols /\ f.announced \in Symbols
        BY NumberOfRows DEF Symbols
      <4> QED
        BY <4>1
    <3> QED
      BY <2>3, <3>1, RowsOfFile
  <2>4. CASE s > h /\ s <= h + N
    <3>1. PICK m : m = s - h
      OBVIOUS
    <3>2. m \in 1..N /\ s = h + m
      BY <2>1, <2>4, <3>1
    <3>3. NodeNumbers(f, m) \in Seq(Symbols)
      BY <3>2, NodeRowNumbers DEF Symbols
    <3> QED
      BY <3>2, <3>3, RowsOfFile
  <2>5. CASE s > h + N
    <3>1. PICK m : m = s - (h + N)
      OBVIOUS
    <3>2. m \in 1..M /\ s = h + N + m
      <4>1. s <= h + N + M /\ s \in Nat
        BY <2>1
      <4> HIDE DEF h, N, M
      <4> QED
        BY <2>1, <2>5, <3>1, <4>1
    <3>3. EdgeNumbers(f, f.edges[m]) \in Seq(Symbols)
      BY <3>2, EdgeRowNumbers DEF Symbols
    <3> QED
      BY <3>2, <3>3, RowsOfFile
  <2> QED
    BY <2>1, <2>2, <2>3, <2>4, <2>5
<1>6. E[n] >= E[r] /\ (r < n => E[n] > E[r])
  <2> DEFINE P == {s \in Nat : s >= r /\ s <= n => E[s] >= E[r] /\ (r < s => E[s] > E[r])}
  <2>0. r \in 1..n
    BY DEF n
  <2>1. 0 \in P
    BY <2>0
  <2>2. ASSUME NEW s \in Nat, s \in P PROVE s + 1 \in P
    <3> SUFFICES ASSUME s + 1 >= r, s + 1 <= n
                 PROVE  E[s + 1] >= E[r] /\ (r < s + 1 => E[s + 1] > E[r])
      OBVIOUS
    <3>1. CASE s + 1 = r
      <4>1. E[r] \in Nat
        BY <1>1, <1>4, <2>0
      <4> QED
        BY <2>0, <3>1, <4>1
    <3>2. CASE s >= r
      <4>1. s + 1 \in 1..n /\ s \in 0..n /\ (s + 1) - 1 = s /\ s + 1 \in 0..n /\ r \in 0..n
        BY <1>1, <2>0, <3>2
      <4>2. E[s + 1] = E[s] + Len(Rows(f)[s + 1])
        BY <1>1, <4>1
      <4>3. Len(Rows(f)[s + 1]) \in Nat /\ Len(Rows(f)[s + 1]) >= 1
        BY <1>5, <4>1
      <4>4. E[s] \in Nat /\ E[r] \in Nat /\ E[s] >= E[r]
        BY <1>1, <1>4, <2>0, <2>2, <3>2, <4>1
      <4> QED
        BY <4>2, <4>3, <4>4
    <3> QED
      BY <2>0, <3>1, <3>2
  <2> HIDE DEF P
  <2>3. Nat \subseteq P
    BY <2>1, <2>2, NatSetInduction
  <2>4. n \in P
    BY <1>1, <2>3
  <2> QED
    BY <1>1, <2>0, <2>4 DEF P
<1>6a. \A s \in 1..n : s - 1 \in 0..n
  BY <1>1
<1>7. r \in 1..n /\ r - 1 \in 0..n /\ r \in 0..n /\ n \in 0..n
  BY <1>1 DEF n
<1>8. E[r - 1] \in Nat /\ E[r] \in Nat /\ E[n] \in Nat /\ E[r] = E[r - 1] + Len(v) + 1
  <2>1. E[r] = E[r - 1] + Len(Rows(f)[r]) /\ E[r - 1] \in Nat /\ E[r] \in Nat /\ E[n] \in Nat
    BY <1>1, <1>4, <1>7
  <2>2. PICK a, b, l, m : a = E[r - 1] /\ b = E[r] /\ l = Len(v) /\ m = Len(Rows(f)[r])
    OBVIOUS
  <2>3. m = l + 1 /\ l \in Nat
    BY <1>3, <2>2
  <2>4. b = a + m /\ a \in Nat
    BY <2>1, <2>2
  <2>5. b = a + l + 1
    BY <2>3, <2>4
  <2> QED
    BY <2>1, <2>2, <2>5
<1>9. E[r] - 1 <= Len(t)
  BY <1>1, <1>2, <1>6, <1>8
<1>10. E[r] <= Len(t) <=> r < n \/ f.ends_with_newline
  <2>1. CASE r < n
    BY <1>1, <1>2, <1>6, <1>8, <2>1
  <2>2. CASE r = n
    BY <1>1, <1>2, <1>6, <1>8, <2>2
  <2> QED
    BY <1>1, <1>7, <2>1, <2>2
<1>11. \A k \in 1..(Len(v) + 1) : E[r - 1] + k <= Len(t) => t[E[r - 1] + k] = Row(v)[k]
  BY <1>1, <1>3, <1>7
<1>12. ASSUME NEW k \in 1..Len(v) PROVE t[E[r - 1] + k] = v[k]
  <2>1. k \in 1..(Len(v) + 1) /\ E[r - 1] + k <= Len(t)
    BY <1>1, <1>3, <1>8, <1>9, SMTT(30)
  <2> QED
    BY <1>3, <1>11, <2>1
<1>13. E[r] <= Len(t) => t[E[r]] = NewLine
  <2>1. PICK k : k = Len(v) + 1
    OBVIOUS
  <2>2. k \in 1..(Len(v) + 1) /\ E[r] = E[r - 1] + k
    <3>1. PICK a, l : a = E[r - 1] /\ l = Len(v)
      OBVIOUS
    <3>2. E[r] = a + l + 1 /\ l \in Nat /\ a \in Nat /\ k = l + 1
      BY <1>3, <1>8, <2>1, <3>1
    <3>3. E[r] = a + k /\ k \in 1..(l + 1)
      BY <3>2
    <3> QED
      BY <3>1, <3>3
  <2> QED
    BY <1>3, <1>11, <2>1, <2>2
<1> QED
  BY <1>8, <1>9, <1>10, <1>12, <1>13 DEF E, t, n

-----------------------------------------------------------------------------
(***************************************************************************)
(* Reading numbers.                                                        *)
(***************************************************************************)
Streams(t) == [pos : 0..Len(t), eof : BOOLEAN, fail : BOOLEAN]

Reads(t) == [is : Streams(t), numbers : Seq(Int)]

NothingRead(s) == [is |-> s, numbers |-> <<>>]

(* The first of several positions.                                         *)
LEMMA FirstPosition ==
  ASSUME NEW S \in SUBSET Nat, S # {}
  PROVE  Min(S) \in S /\ \A y \in S : Min(S) <= y
<1>1. \E x \in S : \A y \in S : x <= y
  BY LeastNumber
<1> QED
  BY <1>1 DEF Min

(* The stream that has read the symbol at p last has met the end of the    *)
(* text if there is no other one.                                          *)
StreamAt(t, p) == [pos |-> p, eof |-> p = Len(t), fail |-> FALSE]

LEMMA StreamAtPosition ==
  ASSUME NEW t, NEW p
  PROVE  /\ StreamAt(t, p).pos = p /\ ~StreamAt(t, p).fail
         /\ StreamAt(t, p).eof \in BOOLEAN /\ (StreamAt(t, p).eof <=> p = Len(t))
         /\ p \in 0..Len(t) => StreamAt(t, p) \in Streams(t)
<1>1. PICK b : b = (p = Len(t))
  OBVIOUS
<1>2. b \in BOOLEAN /\ (b <=> p = Len(t)) /\ StreamAt(t, p) = [pos |-> p, eof |-> b, fail |-> FALSE]
  BY <1>1 DEF StreamAt
<1> QED
  BY <1>2 DEF Streams

(* A number is appended to those that are read already.                    *)
LEMMA NumberAppended ==
  ASSUME NEW v \in Seq(Int), NEW n \in Int
  PROVE  /\ Append(v, n) \in Seq(Int) /\ Len(Append(v, n)) = Len(v) + 1 /\ Len(v) \in Nat
         /\ \A k \in 1..Len(v) : Append(v, n)[k] = v[k]
         /\ Append(v, n)[Len(v) + 1] = n
<1>1. Len(v) \in Nat
  BY LenProperties
<1> QED
  BY <1>1, AppendProperties

(* The next symbol after ends of lines is a number.                        *)
LEMMA NumberFollows ==
  ASSUME NEW t \in Seq(Symbols), NEW x \in Reads(t), Good(x.is),
         NEW p \in (x.is.pos + 1)..Len(t), t[p] \in Int,
         \A q \in (x.is.pos + 1)..(p - 1) : t[q] = NewLine
  PROVE  Extract(t, x) = [is |-> StreamAt(t, p), numbers |-> Append(x.numbers, t[p])]
<1> DEFINE S == {q \in (x.is.pos + 1)..Len(t) : t[q] # NewLine}
<1>1. x.is.pos \in Nat /\ Len(t) \in Nat
  BY LenProperties DEF Reads, Streams
<1>2. p \in S /\ S \in SUBSET Nat
  BY <1>1, SymbolsAssumption
<1>3. Min(S) \in S /\ Min(S) <= p
  BY <1>2, FirstPosition
<1>4. Min(S) = p
  <2>1. Min(S) \in (x.is.pos + 1)..Len(t) /\ t[Min(S)] # NewLine
    BY <1>3
  <2>2. ~(Min(S) < p)
    BY <1>1, <2>1
  <2> QED
    BY <1>1, <1>3, <2>1, <2>2
<1>5. S # {} /\ t[p] # Word
  BY <1>2, SymbolsAssumption
<1> HIDE DEF S
<1> QED
  BY <1>4, <1>5 DEF Extract, S, StreamAt

(* There is none: the number is 0 and the stream fails.                    *)
NoNumber(t, s) ==
  \/ ~Good(s)
  \/ \A p \in (s.pos + 1)..Len(t) : t[p] = NewLine
  \/ /\ s.pos < Len(t) /\ t[s.pos + 1] = Word

LEMMA NumberMissing ==
  ASSUME NEW t \in Seq(Symbols), NEW x \in Reads(t), NoNumber(t, x.is)
  PROVE  /\ Extract(t, x) \in Reads(t) /\ Extract(t, x).is.fail = TRUE
         /\ Extract(t, x).numbers = Append(x.numbers, 0)
<1> DEFINE S == {q \in (x.is.pos + 1)..Len(t) : t[q] # NewLine}
<1>1. /\ x.is.pos \in 0..Len(t) /\ Len(t) \in Nat /\ x.is.eof \in BOOLEAN /\ x.numbers \in Seq(Int)
  BY LenProperties DEF Reads, Streams
<1>2. Append(x.numbers, 0) \in Seq(Int)
  BY <1>1, NumberAppended
<1>3. CASE ~Good(x.is)
  <2>1. Extract(t, x) = [is |-> [pos |-> x.is.pos, eof |-> x.is.eof, fail |-> TRUE],
                         numbers |-> Append(x.numbers, 0)]
    BY <1>3 DEF Extract
  <2> QED
    BY <1>1, <1>2, <2>1 DEF Reads, Streams
<1>4. CASE Good(x.is) /\ \A p \in (x.is.pos + 1)..Len(t) : t[p] = NewLine
  <2>1. S = {}
    BY <1>4
  <2>2. Extract(t, x) = [is |-> [pos |-> Len(t), eof |-> TRUE, fail |-> TRUE],
                         numbers |-> Append(x.numbers, 0)]
    BY <1>4, <2>1 DEF Extract
  <2> QED
    BY <1>1, <1>2, <2>2 DEF Reads, Streams
<1>5. CASE Good(x.is) /\ x.is.pos < Len(t) /\ t[x.is.pos + 1] = Word
  <2>1. x.is.pos + 1 \in S /\ S \in SUBSET Nat
    BY <1>1, <1>5, SymbolsAssumption
  <2>2. Min(S) \in S /\ Min(S) <= x.is.pos + 1
    BY <2>1, FirstPosition
  <2>3. Min(S) = x.is.pos + 1
    BY <1>1, <2>2
  <2>4. S # {}
    BY <2>1
  <2> HIDE DEF S
  <2>5. Extract(t, x) = [is |-> [pos |-> (x.is.pos + 1) - 1, eof |-> FALSE, fail |-> TRUE],
                         numbers |-> Append(x.numbers, 0)]
    BY <1>5, <2>3, <2>4 DEF Extract, S
  <2>6. (x.is.pos + 1) - 1 = x.is.pos
    BY <1>1
  <2> QED
    BY <1>1, <1>2, <2>5, <2>6 DEF Reads, Streams
<1> QED
  BY <1>3, <1>4, <1>5 DEF NoNumber

(* One number is appended in every case.                                   *)
LEMMA ExtractAppends ==
  ASSUME NEW t \in Seq(Symbols), NEW x \in Reads(t)
  PROVE  Extract(t, x) \in Reads(t) /\ \E n \in Int : Extract(t, x).numbers = Append(x.numbers, n)
<1> DEFINE S == {q \in (x.is.pos + 1)..Len(t) : t[q] # NewLine}
<1>1. /\ x.is.pos \in 0..Len(t) /\ Len(t) \in Nat /\ x.is.eof \in BOOLEAN /\ x.numbers \in Seq(Int)
  BY LenProperties DEF Reads, Streams
<1>2. CASE NoNumber(t, x.is)
  <2>1. Extract(t, x) \in Reads(t) /\ Extract(t, x).numbers = Append(x.numbers, 0)
    BY <1>2, NumberMissing
  <2> QED
    BY <2>1
<1>3. CASE ~NoNumber(t, x.is) /\ t[Min(S)] # Word
  <2>1. S # {} /\ S \in SUBSET Nat /\ Good(x.is)
    BY <1>1, <1>3 DEF NoNumber
  <2>2. Min(S) \in S /\ \A y \in S : Min(S) <= y
    BY <2>1, FirstPosition
  <2>3. PICK p : p = Min(S)
    OBVIOUS
  <2>4. p \in (x.is.pos + 1)..Len(t) /\ t[p] # NewLine /\ t[p] # Word
    BY <1>3, <2>2, <2>3
  <2>5. p \in 1..Len(t)
    BY <1>1, <2>4
  <2>6. t[p] \in Int
    BY <2>4, <2>5, ElementOfSeq DEF Symbols
  <2>7. ASSUME NEW q \in (x.is.pos + 1)..(p - 1) PROVE t[q] = NewLine
    <3>1. q \in (x.is.pos + 1)..Len(t) /\ ~(p <= q)
      BY <1>1, <2>4
    <3> QED
      BY <2>2, <2>3, <3>1
  <2>8. Extract(t, x) = [is |-> StreamAt(t, p), numbers |-> Append(x.numbers, t[p])]
    BY <2>1, <2>4, <2>6, <2>7, NumberFollows
  <2>9. Append(x.numbers, t[p]) \in Seq(Int)
    BY <1>1, <2>6, NumberAppended
  <2>10. StreamAt(t, p) \in Streams(t)
    BY <2>5, StreamAtPosition
  <2> QED
    BY <2>6, <2>8, <2>9, <2>10 DEF Reads
<1>4. CASE ~NoNumber(t, x.is) /\ t[Min(S)] = Word
  <2>1. S # {} /\ S \in SUBSET Nat /\ Good(x.is)
    BY <1>1, <1>4 DEF NoNumber
  <2>2. Min(S) \in S
    BY <2>1, FirstPosition
  <2>3. Min(S) - 1 \in 0..Len(t)
    BY <1>1, <2>2
  <2> HIDE DEF S
  <2>4. Extract(t, x) = [is |-> [pos |-> Min(S) - 1, eof |-> FALSE, fail |-> TRUE],
                         numbers |-> Append(x.numbers, 0)]
    BY <1>4, <2>1 DEF Extract, S
  <2>5. Append(x.numbers, 0) \in Seq(Int)
    BY <1>1, NumberAppended
  <2> QED
    BY <2>3, <2>4, <2>5 DEF Reads, Streams
<1> QED
  BY <1>2, <1>3, <1>4

(* The numbers of a record are extracted one by one.                       *)
AreReads(reads, t, s, count) ==
  /\ reads \in [0..count -> Reads(t)] /\ reads[0] = NothingRead(s)
  /\ \A k \in 1..count : reads[k] = Extract(t, reads[k - 1])

LEMMA OneByOne ==
  ASSUME NEW t \in Seq(Symbols), NEW s \in Streams(t), NEW count \in Nat
  PROVE  \E reads : AreReads(reads, t, s, count) /\ ExtractNumbers(t, s, count) = {reads[count]}
<1> DEFINE X == Reads(t)
           next == [p \in (1..count) \X X |-> Extract(t, p[2])]
           Body(h) == [k \in 0..count |-> IF k = 0 THEN {[is |-> s, numbers |-> <<>>]}
                                          ELSE {Extract(t, fewer) : fewer \in h[k - 1]}]
           read == CHOOSE h : h = Body(h)
<1>1. NothingRead(s) \in X
  BY DEF Reads, NothingRead
<1>2. next \in [(1..count) \X X -> X]
  <2>1. \A x \in X : Extract(t, x) \in X
    BY ExtractAppends
  <2> HIDE DEF X
  <2> QED
    BY <2>1
<1>3. PICK g \in [0..count -> X] : Follows(g, count, NothingRead(s), next)
  <2> HIDE DEF X, next
  <2> QED
    BY <1>1, <1>2, IntervalRecursion
<1>4. ASSUME NEW k \in 1..count PROVE g[k] = Extract(t, g[k - 1])
  <2>1. k - 1 \in 0..count
    OBVIOUS
  <2>2. g[k - 1] \in X /\ g[k] = next[<<k, g[k - 1]>>]
    BY <1>3, <2>1 DEF Follows
  <2> HIDE DEF X
  <2> QED
    BY <2>2
<1>5. g[0] = NothingRead(s)
  BY <1>3 DEF Follows
<1> HIDE DEF X, next
<1>6. PICK h : h = [k \in 0..count |-> {g[k]}]
  OBVIOUS
<1>7. h = Body(h)
  <2>1. ASSUME NEW k \in 0..count
        PROVE  {g[k]} = IF k = 0 THEN {[is |-> s, numbers |-> <<>>]}
                        ELSE {Extract(t, fewer) : fewer \in h[k - 1]}
    <3>1. CASE k = 0
      BY <1>5, <3>1 DEF NothingRead
    <3>2. CASE k # 0
      <4>1. k \in 1..count /\ k - 1 \in 0..count
        BY <3>2
      <4>2. h[k - 1] = {g[k - 1]} /\ g[k] = Extract(t, g[k - 1])
        BY <1>4, <1>6, <4>1
      <4> QED
        BY <3>2, <4>2
    <3> QED
      BY <3>1, <3>2
  <2> QED
    BY <1>6, <2>1
<1>8. read = Body(read)
  <2> HIDE DEF Body
  <2> QED
    BY <1>7
<1>9. ExtractNumbers(t, s, count) = read[count]
  BY DEF ExtractNumbers
<1> HIDE DEF read
<1>10. \A k \in 0..count : read[k] = IF k = 0 THEN {[is |-> s, numbers |-> <<>>]}
                                     ELSE {Extract(t, fewer) : fewer \in read[k - 1]}
  BY <1>8
<1> DEFINE P == {k \in Nat : k <= count => read[k] = {g[k]}}
<1>11. 0 \in P
  <2>1. read[0] = {[is |-> s, numbers |-> <<>>]}
    BY <1>10
  <2> QED
    BY <1>5, <2>1 DEF NothingRead
<1>12. ASSUME NEW k \in Nat, k \in P PROVE k + 1 \in P
  <2> SUFFICES ASSUME k + 1 <= count PROVE read[k + 1] = {g[k + 1]}
    OBVIOUS
  <2>1. k + 1 \in 0..count /\ k + 1 # 0 /\ (k + 1) - 1 = k /\ k + 1 \in 1..count
    OBVIOUS
  <2>2. read[k] = {g[k]}
    BY <1>12, <2>1
  <2>3. read[k + 1] = {Extract(t, fewer) : fewer \in read[k]}
    BY <1>10, <2>1
  <2>4. g[k + 1] = Extract(t, g[k])
    BY <1>4, <2>1
  <2> QED
    BY <2>2, <2>3, <2>4
<1> HIDE DEF P
<1>13. Nat \subseteq P
  BY <1>11, <1>12, NatSetInduction
<1>14. read[count] = {g[count]}
  BY <1>13 DEF P
<1>15. AreReads(g, t, s, count)
  BY <1>3, <1>4, <1>5 DEF AreReads, X
<1> QED
  BY <1>9, <1>14, <1>15

(* A number that is read stays.                                            *)
LEMMA NumbersStay ==
  ASSUME NEW t \in Seq(Symbols), NEW s \in Streams(t), NEW count \in Nat, NEW reads,
         AreReads(reads, t, s, count)
  PROVE  \A k \in 0..count : /\ Len(reads[k].numbers) = k
                             /\ \A j \in 1..k : reads[k].numbers[j] = reads[j].numbers[j]
<1> DEFINE Stays(k) == /\ Len(reads[k].numbers) = k
                       /\ \A j \in 1..k : reads[k].numbers[j] = reads[j].numbers[j]
           P == {k \in Nat : k <= count => Stays(k)}
<1>1. 0 \in P
  BY DEF AreReads, NothingRead
<1>2. ASSUME NEW k \in Nat, k \in P PROVE k + 1 \in P
  <2> SUFFICES ASSUME k + 1 <= count PROVE Stays(k + 1)
    OBVIOUS
  <2>1. k + 1 \in 1..count /\ k \in 0..count /\ (k + 1) - 1 = k /\ Stays(k)
    BY <1>2
  <2>2. reads[k] \in Reads(t) /\ reads[k + 1] = Extract(t, reads[k])
    BY <2>1 DEF AreReads
  <2>3. PICK n \in Int : reads[k + 1].numbers = Append(reads[k].numbers, n)
    BY <2>2, ExtractAppends
  <2>4. PICK v, w : v = reads[k].numbers /\ w = reads[k + 1].numbers
    OBVIOUS
  <2>5. v \in Seq(Int) /\ Len(v) = k /\ w = Append(v, n)
    BY <2>1, <2>2, <2>3, <2>4 DEF Reads
  <2>6. Len(w) = k + 1 /\ \A j \in 1..k : w[j] = v[j]
    BY <2>5, NumberAppended
  <2>7. ASSUME NEW j \in 1..(k + 1) PROVE reads[k + 1].numbers[j] = reads[j].numbers[j]
    <3>1. CASE j = k + 1
      BY <3>1
    <3>2. CASE j # k + 1
      <4>1. j \in 1..k
        BY <3>2
      <4> QED
        BY <2>1, <2>4, <2>6, <4>1
    <3> QED
      BY <3>1, <3>2
  <2> QED
    BY <2>4, <2>6, <2>7
<1> HIDE DEF P
<1>3. Nat \subseteq P
  BY <1>1, <1>2, NatSetInduction
<1> QED
  BY <1>3 DEF P

(* Where the numbers of v are, with nothing but ends of lines between them.*)
ArePositions(ps, v, t, s, count) ==
  /\ ps \in [0..count -> 0..Len(t)] /\ ps[0] = s.pos
  /\ \A k \in 1..count :
       /\ ps[k - 1] < ps[k] /\ t[ps[k]] = v[k] /\ v[k] \in Int
       /\ \A q \in (ps[k - 1] + 1)..(ps[k] - 1) : t[q] = NewLine

(* They are read where they are.                                           *)
LEMMA NumbersRead ==
  ASSUME NEW t \in Seq(Symbols), NEW s \in Streams(t), Good(s), NEW count \in Nat \ {0}, NEW v,
         NEW ps, ArePositions(ps, v, t, s, count)
  PROVE  \E x \in Reads(t) :
           /\ ExtractNumbers(t, s, count) = {x}
           /\ x.is = StreamAt(t, ps[count])
           /\ Len(x.numbers) = count /\ \A k \in 1..count : x.numbers[k] = v[k]
<1>1. PICK reads : AreReads(reads, t, s, count) /\ ExtractNumbers(t, s, count) = {reads[count]}
  BY OneByOne
<1>2. \A k \in 0..count : /\ Len(reads[k].numbers) = k
                          /\ \A j \in 1..k : reads[k].numbers[j] = reads[j].numbers[j]
  BY <1>1, NumbersStay
<1> DEFINE Read(k) == /\ reads[k].is = StreamAt(t, ps[k])
                      /\ reads[k].numbers[k] = v[k]
           P == {k \in Nat : k + 1 <= count => Read(k + 1)}
<1>3. ASSUME NEW k \in 1..count, Good(reads[k - 1].is), reads[k - 1].is.pos = ps[k - 1]
      PROVE  Read(k)
  <2>1. k \in 0..count /\ k - 1 \in 0..count
    OBVIOUS
  <2>2. reads[k - 1] \in Reads(t) /\ reads[k] = Extract(t, reads[k - 1])
    BY <1>1, <2>1 DEF AreReads
  <2>3. PICK x, p : x = reads[k - 1] /\ p = ps[k]
    OBVIOUS
  <2>4. /\ p \in 0..Len(t) /\ ps[k - 1] \in 0..Len(t) /\ ps[k - 1] < p /\ t[p] = v[k] /\ v[k] \in Int
        /\ \A q \in (ps[k - 1] + 1)..(p - 1) : t[q] = NewLine
    BY <2>1, <2>3 DEF ArePositions
  <2>5. p \in (x.is.pos + 1)..Len(t) /\ \A q \in (x.is.pos + 1)..(p - 1) : t[q] = NewLine
    <3>1. x.is.pos = ps[k - 1] /\ Len(t) \in Nat
      BY <1>3, <2>3, LenProperties
    <3> QED
      BY <2>4, <3>1
  <2>6. reads[k] = [is |-> StreamAt(t, p), numbers |-> Append(x.numbers, t[p])]
    BY <1>3, <2>2, <2>3, <2>4, <2>5, NumberFollows
  <2>7. x.numbers \in Seq(Int) /\ Len(x.numbers) = k - 1
    BY <1>2, <2>1, <2>2, <2>3 DEF Reads
  <2>8. Append(x.numbers, t[p])[k] = t[p]
    <3>1. Append(x.numbers, t[p])[Len(x.numbers) + 1] = t[p] /\ Len(x.numbers) + 1 = k
      BY <2>4, <2>7, NumberAppended
    <3> QED
      BY <3>1
  <2>9. PICK y, w, q : y = reads[k] /\ w = Append(x.numbers, t[p]) /\ q = StreamAt(t, p)
    OBVIOUS
  <2>10. y = [is |-> q, numbers |-> w]
    BY <2>6, <2>9
  <2>11. y.is = q /\ y.numbers = w
    BY <2>10
  <2>12. y.numbers[k] = t[p]
    BY <2>8, <2>9, <2>11
  <2> QED
    BY <2>3, <2>4, <2>9, <2>11, <2>12
<1>4. 0 \in P
  <2>1. 1 \in 1..count /\ 1 - 1 = 0
    OBVIOUS
  <2>2. reads[0].is = s /\ s.pos = ps[0]
    BY <1>1 DEF AreReads, NothingRead, ArePositions
  <2>3. Read(1)
    <3>1. \A k \in 1..count : Good(reads[k - 1].is) /\ reads[k - 1].is.pos = ps[k - 1] => Read(k)
      BY <1>3
    <3> HIDE DEF Read
    <3> QED
      BY <2>1, <2>2, <3>1
  <2> QED
    BY <2>3
<1>5. ASSUME NEW k \in Nat, k \in P PROVE k + 1 \in P
  <2> SUFFICES ASSUME (k + 1) + 1 <= count PROVE Read((k + 1) + 1)
    OBVIOUS
  <2>1. PICK j : j = (k + 1) + 1
    OBVIOUS
  <2>2. j \in 1..count /\ j - 1 = k + 1 /\ k + 1 \in 1..count
    BY <2>1
  <2>3. Read(k + 1)
    BY <1>5, <2>2
  <2>4. ps[k + 1] < ps[j] /\ ps[j] \in 0..Len(t) /\ ps[k + 1] \in 0..Len(t)
    BY <2>2 DEF ArePositions
  <2>5. Good(reads[k + 1].is) /\ reads[k + 1].is.pos = ps[k + 1]
    <3>1. ps[k + 1] # Len(t)
      <4>1. Len(t) \in Nat
        BY LenProperties
      <4> QED
        BY <2>4, <4>1
    <3>2. reads[k + 1].is = StreamAt(t, ps[k + 1])
      BY <2>3
    <3> QED
      BY <3>1, <3>2, StreamAtPosition DEF Good
  <2>6. Read(j)
    <3> HIDE DEF Read
    <3> QED
      BY <1>3, <2>2, <2>5
  <2> HIDE DEF Read
  <2> QED
    BY <2>1, <2>6
<1> HIDE DEF P, Read
<1>6. Nat \subseteq P
  BY <1>4, <1>5, NatSetInduction
<1>7. ASSUME NEW k \in 1..count PROVE Read(k)
  <2>1. k - 1 \in Nat /\ (k - 1) + 1 = k
    OBVIOUS
  <2>2. k - 1 \in P
    BY <1>6, <2>1
  <2>3. (k - 1) + 1 <= count => Read((k - 1) + 1)
    BY <2>2 DEF P
  <2> QED
    BY <2>1, <2>3
<1>8. count \in 1..count /\ count \in 0..count
  OBVIOUS
<1>9. reads[count].is = StreamAt(t, ps[count])
  BY <1>7, <1>8 DEF Read
<1>10. Len(reads[count].numbers) = count /\ \A k \in 1..count : reads[count].numbers[k] = v[k]
  <2>1. \A k \in 1..count : reads[k].numbers[k] = v[k]
    BY <1>7 DEF Read
  <2> QED
    BY <1>2, <1>8, <2>1
<1>11. reads[count] \in Reads(t)
  BY <1>1, <1>8 DEF AreReads
<1> QED
  BY <1>1, <1>9, <1>10, <1>11

(* Once there is no number, the stream fails and stays so.                 *)
LEMMA NumbersMissing ==
  ASSUME NEW t \in Seq(Symbols), NEW s \in Streams(t), NEW count \in Nat \ {0}, NoNumber(t, s)
  PROVE  \E x \in Reads(t) :
           /\ ExtractNumbers(t, s, count) = {x} /\ x.is.fail = TRUE
           /\ \A k \in 1..count : x.numbers[k] = 0
<1>1. PICK reads : AreReads(reads, t, s, count) /\ ExtractNumbers(t, s, count) = {reads[count]}
  BY OneByOne
<1>2. \A k \in 0..count : /\ Len(reads[k].numbers) = k
                          /\ \A j \in 1..k : reads[k].numbers[j] = reads[j].numbers[j]
  BY <1>1, NumbersStay
<1> DEFINE Misses(k) == reads[k].is.fail = TRUE /\ reads[k].numbers[k] = 0
           P == {k \in Nat : k + 1 <= count => Misses(k + 1)}
<1>3. ASSUME NEW k \in 1..count, NoNumber(t, reads[k - 1].is) PROVE Misses(k)
  <2>1. k \in 0..count /\ k - 1 \in 0..count
    OBVIOUS
  <2>2. reads[k - 1] \in Reads(t) /\ reads[k] = Extract(t, reads[k - 1])
    BY <1>1, <2>1 DEF AreReads
  <2>3. PICK x : x = reads[k - 1]
    OBVIOUS
  <2>4. reads[k].is.fail = TRUE /\ reads[k].numbers = Append(x.numbers, 0)
    <3>1. x \in Reads(t) /\ NoNumber(t, x.is)
      BY <1>3, <2>2, <2>3
    <3>2. Extract(t, x).is.fail = TRUE /\ Extract(t, x).numbers = Append(x.numbers, 0)
      BY <3>1, NumberMissing
    <3> QED
      BY <2>2, <2>3, <3>2
  <2>5. x.numbers \in Seq(Int) /\ Len(x.numbers) = k - 1
    BY <1>2, <2>1, <2>2, <2>3 DEF Reads
  <2>6. Append(x.numbers, 0)[k] = 0
    <3>1. Append(x.numbers, 0)[Len(x.numbers) + 1] = 0 /\ Len(x.numbers) + 1 = k
      BY <2>5, NumberAppended
    <3> QED
      BY <3>1
  <2> QED
    BY <2>4, <2>6
<1>4. 0 \in P
  <2>1. 1 \in 1..count /\ 1 - 1 = 0
    OBVIOUS
  <2>2. reads[0].is = s
    BY <1>1 DEF AreReads, NothingRead
  <2> HIDE DEF Misses
  <2>3. \A k \in 1..count : NoNumber(t, reads[k - 1].is) => Misses(k)
    BY <1>3
  <2>4. Misses(1)
    BY <2>1, <2>2, <2>3
  <2> QED
    BY <2>4
<1>5. ASSUME NEW k \in Nat, k \in P PROVE k + 1 \in P
  <2>0. k + 1 <= count => Misses(k + 1)
    BY <1>5
  <2> HIDE DEF Misses
  <2> SUFFICES ASSUME (k + 1) + 1 <= count PROVE Misses((k + 1) + 1)
    OBVIOUS
  <2>1. PICK j : j = (k + 1) + 1
    OBVIOUS
  <2>2. j \in 1..count /\ j - 1 = k + 1 /\ k + 1 <= count
    BY <2>1
  <2>3. Misses(k + 1)
    BY <2>0, <2>2
  <2>4. NoNumber(t, reads[k + 1].is)
    BY <2>3 DEF NoNumber, Good, Misses
  <2> QED
    BY <1>3, <2>1, <2>2, <2>4
<1> HIDE DEF P
<1>6. Nat \subseteq P
  BY <1>4, <1>5, NatSetInduction
<1>7. ASSUME NEW k \in 1..count PROVE Misses(k)
  <2>1. k - 1 \in Nat /\ (k - 1) + 1 = k
    OBVIOUS
  <2>2. k - 1 \in P
    BY <1>6, <2>1
  <2> HIDE DEF Misses
  <2>3. (k - 1) + 1 <= count => Misses((k - 1) + 1)
    BY <2>2 DEF P
  <2> QED
    BY <2>1, <2>3
<1>8. count \in 1..count /\ count \in 0..count
  OBVIOUS
<1>9. reads[count].is.fail = TRUE
  BY <1>7, <1>8
<1>10. \A k \in 1..count : reads[count].numbers[k] = 0
  <2>1. \A k \in 1..count : reads[k].numbers[k] = 0
    BY <1>7
  <2> QED
    BY <1>2, <1>8, <2>1
<1>11. reads[count] \in Reads(t)
  BY <1>1, <1>8 DEF AreReads
<1> QED
  BY <1>1, <1>9, <1>10, <1>11

(* The first number does not depend on how many follow.                    *)
LEMMA FirstNumberStays ==
  ASSUME NEW t \in Seq(Symbols), NEW s \in Streams(t), NEW count \in Nat \ {0}
  PROVE  \E x \in Reads(t) : /\ ExtractNumbers(t, s, count) = {x}
                             /\ x.numbers[1] = Extract(t, NothingRead(s)).numbers[1]
<1>1. PICK reads : AreReads(reads, t, s, count) /\ ExtractNumbers(t, s, count) = {reads[count]}
  BY OneByOne
<1>2. 1 \in 1..count /\ 1 - 1 = 0 /\ count \in 0..count /\ 1 \in 0..count /\ 0 \in 0..count
  OBVIOUS
<1>3. \A k \in 0..count : /\ Len(reads[k].numbers) = k
                          /\ \A j \in 1..k : reads[k].numbers[j] = reads[j].numbers[j]
  BY <1>1, NumbersStay
<1>4. reads[count].numbers[1] = reads[1].numbers[1] /\ reads[count] \in Reads(t)
  BY <1>1, <1>2, <1>3 DEF AreReads
<1>5. reads[1] = Extract(t, NothingRead(s))
  BY <1>1, <1>2 DEF AreReads
<1> QED
  BY <1>1, <1>4, <1>5

(* It is the next one in the text.                                         *)
LEMMA FirstNumberRead ==
  ASSUME NEW t \in Seq(Symbols), NEW s \in Streams(t), Good(s), NEW count \in Nat \ {0},
         NEW p \in (s.pos + 1)..Len(t), t[p] \in Int, \A q \in (s.pos + 1)..(p - 1) : t[q] = NewLine
  PROVE  \E x \in Reads(t) : ExtractNumbers(t, s, count) = {x} /\ x.numbers[1] = t[p]
<1>1. NothingRead(s) \in Reads(t) /\ NothingRead(s).is = s /\ NothingRead(s).numbers = <<>>
  BY DEF NothingRead, Reads
<1>2. PICK y : y = NothingRead(s)
  OBVIOUS
<1>3. Extract(t, y).numbers = Append(<<>>, t[p])
  <2>1. y \in Reads(t) /\ y.is = s /\ y.numbers = <<>>
    BY <1>1, <1>2
  <2>2. Extract(t, y) = [is |-> StreamAt(t, p), numbers |-> Append(y.numbers, t[p])]
    BY <2>1, NumberFollows
  <2> QED
    BY <2>1, <2>2
<1>4. Append(<<>>, t[p])[1] = t[p]
  OBVIOUS
<1> QED
  BY <1>2, <1>3, <1>4, FirstNumberStays

-----------------------------------------------------------------------------
(***************************************************************************)
(* Reading rows.                                                           *)
(***************************************************************************)

(* The stream after the record of a row: it has not seen the end of the    *)
(* line, and the end of the text only if there is none.                    *)
AfterRow(f, r) == StreamAt(Text(f), RowEnds(f)[r] - 1)

(* The stream where a row begins.                                          *)
BeforeRow(f, r) == [pos |-> RowEnds(f)[r - 1], eof |-> FALSE, fail |-> FALSE]

(* Every row ends with the end of a line.                                  *)
LEMMA RowsAreRows ==
  ASSUME NEW f, IsFile(f), NEW r \in 1..NrOfRows(f)
  PROVE  \E w \in Seq(Symbols) : Rows(f)[r] = Row(w)
<1> DEFINE h == HeaderRows(f)
           N == f.nr_of_nodes
           M == Len(f.edges)
<1>1. /\ h \in {2, 4} /\ (h = 4 <=> HasMetadata(f.layout)) /\ N \in Nat /\ M \in Nat
      /\ NrOfRows(f) = h + N + M
  BY NumberOfRows
<1>2. CASE r < h - 1
  <2>1. HasMetadata(f.layout) /\ r \in {1, 2}
    BY <1>1, <1>2
  <2>2. <<Word>> \in Seq(Symbols) /\ <<>> \in Seq(Symbols)
    BY DEF Symbols
  <2> QED
    BY <2>1, <2>2, RowsOfFile
<1>3. CASE r = h - 1 \/ r = h
  <2>1. <<N>> \in Seq(Symbols) /\ <<f.announced>> \in Seq(Symbols)
    <3>1. N \in Symbols /\ f.announced \in Symbols
      BY NumberOfRows DEF Symbols
    <3> QED
      BY <3>1
  <2> QED
    BY <1>3, <2>1, RowsOfFile
<1>4. CASE r > h /\ r <= h + N
  <2>1. PICK m : m = r - h
    OBVIOUS
  <2>2. m \in 1..N /\ r = h + m
    BY <1>1, <1>4, <2>1
  <2>3. NodeNumbers(f, m) \in Seq(Symbols)
    BY <2>2, NodeRowNumbers DEF Symbols
  <2> QED
    BY <2>2, <2>3, RowsOfFile
<1>5. CASE r > h + N
  <2>1. PICK m : m = r - (h + N)
    OBVIOUS
  <2>2. m \in 1..M /\ r = h + N + m
    <3>1. r <= h + N + M /\ r \in Nat
      BY <1>1
    <3> HIDE DEF h, N, M
    <3> QED
      BY <1>1, <1>5, <2>1, <3>1
  <2>3. EdgeNumbers(f, f.edges[m]) \in Seq(Symbols)
    BY <2>2, EdgeRowNumbers DEF Symbols
  <2> QED
    BY <2>2, <2>3, RowsOfFile
<1> QED
  BY <1>1, <1>2, <1>3, <1>4, <1>5

(* Where a stream is after a row.                                          *)
LEMMA AfterRowInText ==
  ASSUME NEW f, IsFile(f), NEW r \in 1..NrOfRows(f)
  PROVE  /\ AfterRow(f, r) \in Streams(Text(f)) /\ Text(f) \in Seq(Symbols)
         /\ AfterRow(f, r).pos = RowEnds(f)[r] - 1 /\ ~AfterRow(f, r).fail
         /\ AfterRow(f, r).eof <=> AfterRow(f, r).pos = Len(Text(f))
         /\ AfterRow(f, r).eof <=> r = NrOfRows(f) /\ ~f.ends_with_newline
         /\ ~AfterRow(f, r).eof => /\ RowEnds(f)[r] <= Len(Text(f))
                                   /\ Text(f)[AfterRow(f, r).pos + 1] = NewLine
         /\ RowEnds(f)[r] \in Nat /\ RowEnds(f)[r] >= 1 /\ Len(Text(f)) \in Nat
         /\ NrOfRows(f) \in Nat
<1>1. PICK w \in Seq(Symbols) : Rows(f)[r] = Row(w)
  BY RowsAreRows
<1> DEFINE e == RowEnds(f)[r]
           t == Text(f)
           n == NrOfRows(f)
           l == Len(w)
           b == RowEnds(f)[r - 1]
<1>2. /\ b \in Nat /\ e = b + l + 1 /\ e - 1 <= Len(t) /\ (e <= Len(t) => t[e] = NewLine)
      /\ (e <= Len(t) <=> r < n \/ f.ends_with_newline)
  BY <1>1, RowsInText
<1>3. l \in Nat
  BY LenProperties
<1>4. t \in Seq(Symbols) /\ Len(t) \in Nat /\ n \in Nat
  BY TextOfFile
<1>5. r \in 1..n
  OBVIOUS
<1> HIDE DEF e, t, n, l, b
<1>6. e \in Nat /\ e >= 1 /\ e - 1 \in 0..Len(t) /\ (e - 1) + 1 = e
  BY <1>2, <1>3, <1>4
<1>7. PICK s : s = AfterRow(f, r)
  OBVIOUS
<1>8. s = StreamAt(t, e - 1)
  BY <1>7 DEF AfterRow, e, t
<1>9. s.pos = e - 1 /\ (s.eof <=> e - 1 = Len(t)) /\ ~s.fail /\ s \in Streams(t)
  BY <1>6, <1>8, StreamAtPosition
<1>10. s.eof <=> r = n /\ ~f.ends_with_newline
  BY <1>2, <1>4, <1>5, <1>6, <1>9
<1>11. ~s.eof => e <= Len(t) /\ t[s.pos + 1] = NewLine
  BY <1>2, <1>4, <1>6, <1>9
<1> QED
  BY <1>4, <1>6, <1>7, <1>9, <1>10, <1>11 DEF e, t, n

(* A record, or the first numbers of one, is read from the row that comes  *)
(* next.                                                                   *)
LEMMA RecordRead ==
  ASSUME NEW f, IsFile(f), NEW r \in 2..NrOfRows(f), NEW v \in Seq(Int), Rows(f)[r] = Row(v),
         NEW count \in 1..Len(v)
  PROVE  \E x \in Reads(Text(f)) :
           /\ ExtractNumbers(Text(f), AfterRow(f, r - 1), count) = {x}
           /\ x.is = StreamAt(Text(f), RowEnds(f)[r - 1] + count)
           /\ Len(x.numbers) = count /\ \A k \in 1..count : x.numbers[k] = v[k]
<1> DEFINE s == AfterRow(f, r - 1)
           t == Text(f)
           b == RowEnds(f)[r - 1]
           ps == [k \in 0..count |-> IF k = 0 THEN b - 1 ELSE b + k]
<1>1. r - 1 \in 1..NrOfRows(f) /\ r \in 1..NrOfRows(f) /\ r - 1 # NrOfRows(f) /\ NrOfRows(f) \in Nat
  BY NumberOfRows
<1>2. /\ s \in Streams(t) /\ t \in Seq(Symbols) /\ s.pos = b - 1 /\ ~s.fail /\ ~s.eof
      /\ b \in Nat /\ b >= 1 /\ Len(t) \in Nat /\ t[s.pos + 1] = NewLine
  BY <1>1, AfterRowInText
<1>3. v \in Seq(Symbols) /\ Len(v) \in Nat /\ \A k \in 1..Len(v) : v[k] \in Int
  BY LenProperties, ElementOfSeq DEF Symbols
<1>4. /\ RowEnds(f)[r] = b + Len(v) + 1 /\ RowEnds(f)[r] - 1 <= Len(t)
      /\ \A k \in 1..Len(v) : t[b + k] = v[k]
  BY <1>1, <1>3, RowsInText
<1>5. b + Len(v) <= Len(t) /\ count \in 1..Len(v) /\ count \in Nat \ {0}
  BY <1>2, <1>3, <1>4
<1> HIDE DEF s, t, b
<1>6. ps \in [0..count -> 0..Len(t)] /\ ps[0] = s.pos
  BY <1>2, <1>3, <1>5
<1>7. ASSUME NEW k \in 1..count
      PROVE  /\ ps[k - 1] < ps[k] /\ t[ps[k]] = v[k] /\ v[k] \in Int
             /\ \A q \in (ps[k - 1] + 1)..(ps[k] - 1) : t[q] = NewLine
  <2>1. k \in 0..count /\ k - 1 \in 0..count /\ k # 0 /\ k \in 1..Len(v)
    BY <1>3, <1>5
  <2>2. ps[k] = b + k /\ ps[k - 1] = IF k - 1 = 0 THEN b - 1 ELSE b + (k - 1)
    BY <2>1
  <2>3. t[ps[k]] = v[k] /\ v[k] \in Int
    BY <1>3, <1>4, <2>1, <2>2
  <2>4. ps[k - 1] < ps[k]
    BY <1>2, <2>2
  <2>5. ASSUME NEW q \in (ps[k - 1] + 1)..(ps[k] - 1) PROVE t[q] = NewLine
    <3> HIDE DEF ps
    <3>1. CASE k = 1
      <4>1. q = s.pos + 1
        BY <1>2, <2>2, <2>5, <3>1
      <4> QED
        BY <1>2, <4>1
    <3>2. CASE k # 1
      BY <1>2, <2>2, <2>5, <3>2
    <3> QED
      BY <3>1, <3>2
  <2> QED
    BY <2>3, <2>4, <2>5
<1>8. ArePositions(ps, v, t, s, count)
  <2> HIDE DEF ps
  <2> QED
    BY <1>6, <1>7 DEF ArePositions
<1>9. Good(s)
  BY <1>2 DEF Good
<1>10. ps[count] = b + count
  BY <1>5
<1> HIDE DEF ps
<1>11. PICK x \in Reads(t) :
         /\ ExtractNumbers(t, s, count) = {x}
         /\ x.is = StreamAt(t, ps[count])
         /\ Len(x.numbers) = count /\ \A k \in 1..count : x.numbers[k] = v[k]
  BY <1>2, <1>5, <1>8, <1>9, NumbersRead
<1> QED
  BY <1>10, <1>11 DEF s, t, b

(* The two numbers of the header are read where it begins.                 *)
LEMMA HeaderRead ==
  ASSUME NEW f, IsFile(f)
  PROVE  \E x \in Reads(Text(f)) :
           /\ ExtractNumbers(Text(f), BeforeRow(f, HeaderRows(f) - 1), 2) = {x}
           /\ x.is = AfterRow(f, HeaderRows(f))
           /\ x.numbers[1] = f.nr_of_nodes /\ x.numbers[2] = f.announced
<1> DEFINE h == HeaderRows(f)
           s == BeforeRow(f, h - 1)
           t == Text(f)
           b == RowEnds(f)[(h - 1) - 1]
           v == <<f.nr_of_nodes, f.announced>>
           ps == [k \in 0..2 |-> IF k = 0 THEN b ELSE IF k = 1 THEN b + 1 ELSE b + 3]
<1>1. /\ h \in {2, 4} /\ NrOfRows(f) \in Nat /\ h <= NrOfRows(f)
      /\ f.nr_of_nodes \in Nat /\ f.announced \in Nat
  BY NumberOfRows
<1>2. h - 1 \in 1..NrOfRows(f) /\ h \in 1..NrOfRows(f) /\ h - 1 < NrOfRows(f) /\ (h - 1) - 1 \in Nat
  BY <1>1
<1>3. Rows(f)[h - 1] = Row(<<f.nr_of_nodes>>) /\ Rows(f)[h] = Row(<<f.announced>>)
  BY RowsOfFile
<1>4. /\ <<f.nr_of_nodes>> \in Seq(Symbols) /\ <<f.announced>> \in Seq(Symbols)
      /\ Len(<<f.nr_of_nodes>>) = 1 /\ Len(<<f.announced>>) = 1
  <2>1. f.nr_of_nodes \in Symbols /\ f.announced \in Symbols
    BY <1>1 DEF Symbols
  <2> QED
    BY <2>1
<1>5. t \in Seq(Symbols) /\ Len(t) \in Nat
  BY TextOfFile
<1>6. /\ b \in Nat /\ RowEnds(f)[h - 1] = b + 1 + 1 /\ t[b + 1] = f.nr_of_nodes
      /\ RowEnds(f)[h - 1] <= Len(t) /\ t[RowEnds(f)[h - 1]] = NewLine
  <2>1. PICK w : w = <<f.nr_of_nodes>>
    OBVIOUS
  <2>2. w \in Seq(Symbols) /\ Len(w) = 1 /\ Rows(f)[h - 1] = Row(w) /\ w[1] = f.nr_of_nodes
    BY <1>3, <1>4, <2>1
  <2> HIDE DEF h
  <2>2a. PICK r : r = h - 1
    OBVIOUS
  <2>2b. r \in 1..NrOfRows(f) /\ Rows(f)[r] = Row(w)
    BY <1>2, <2>2, <2>2a
  <2>3. /\ b \in Nat /\ RowEnds(f)[h - 1] = b + Len(w) + 1
        /\ \A k \in 1..Len(w) : t[b + k] = w[k]
        /\ (RowEnds(f)[h - 1] <= Len(t) => t[RowEnds(f)[h - 1]] = NewLine)
        /\ (RowEnds(f)[h - 1] <= Len(t) <=> h - 1 < NrOfRows(f) \/ f.ends_with_newline)
    <3>1. /\ RowEnds(f)[r - 1] \in Nat /\ RowEnds(f)[r] = RowEnds(f)[r - 1] + Len(w) + 1
          /\ RowEnds(f)[r] - 1 <= Len(Text(f))
          /\ \A k \in 1..Len(w) : Text(f)[RowEnds(f)[r - 1] + k] = w[k]
          /\ RowEnds(f)[r] <= Len(Text(f)) => Text(f)[RowEnds(f)[r]] = NewLine
          /\ RowEnds(f)[r] <= Len(Text(f)) <=> r < NrOfRows(f) \/ f.ends_with_newline
      BY <2>2, <2>2b, RowsInText, Zenon
    <3> QED
      BY <2>2a, <3>1
  <2> QED
    BY <1>2, <2>2, <2>3
<1>7. /\ RowEnds(f)[h] = b + 4 /\ RowEnds(f)[h] - 1 <= Len(t) /\ t[b + 3] = f.announced
  <2>1. PICK w, c : w = <<f.announced>> /\ c = RowEnds(f)[h - 1]
    OBVIOUS
  <2>2. w \in Seq(Symbols) /\ Len(w) = 1 /\ Rows(f)[h] = Row(w) /\ w[1] = f.announced
    BY <1>3, <1>4, <2>1
  <2> HIDE DEF h
  <2>3. /\ c \in Nat /\ RowEnds(f)[h] = c + Len(w) + 1 /\ RowEnds(f)[h] - 1 <= Len(t)
        /\ \A k \in 1..Len(w) : t[c + k] = w[k]
    <3>1. /\ RowEnds(f)[h - 1] \in Nat /\ RowEnds(f)[h] = RowEnds(f)[h - 1] + Len(w) + 1
          /\ RowEnds(f)[h] - 1 <= Len(Text(f))
          /\ \A k \in 1..Len(w) : Text(f)[RowEnds(f)[h - 1] + k] = w[k]
          /\ RowEnds(f)[h] <= Len(Text(f)) => Text(f)[RowEnds(f)[h]] = NewLine
          /\ RowEnds(f)[h] <= Len(Text(f)) <=> h < NrOfRows(f) \/ f.ends_with_newline
      BY <1>2, <2>2, RowsInText, Zenon
    <3> QED
      BY <2>1, <3>1
  <2>4. c = b + 2
    BY <1>6, <2>1
  <2>5. t[c + 1] = f.announced /\ RowEnds(f)[h] = c + 2 /\ c + 1 = b + 3 /\ c + 2 = b + 4
    <3> HIDE DEF b
    <3> QED
      BY <1>6, <2>2, <2>3, <2>4
  <2> QED
    BY <2>3, <2>5
<1> HIDE DEF h, b, t
<1>8. s = [pos |-> b, eof |-> FALSE, fail |-> FALSE]
  BY DEF BeforeRow, b
<1> HIDE DEF s
<1>9. s.pos = b /\ Good(s) /\ s \in Streams(t) /\ b + 3 <= Len(t)
  <2>1. b + 3 <= Len(t) /\ b \in 0..Len(t)
    BY <1>5, <1>6, <1>7
  <2> QED
    BY <1>8, <2>1 DEF Good, Streams
<1>10. /\ ps \in [0..2 -> 0..Len(t)] /\ ps[0] = s.pos /\ ps[0] = b /\ ps[1] = b + 1 /\ ps[2] = b + 3
  BY <1>5, <1>6, <1>9
<1> HIDE DEF ps
<1>11. ASSUME NEW k \in 1..2
       PROVE  /\ ps[k - 1] < ps[k] /\ t[ps[k]] = v[k] /\ v[k] \in Int
              /\ \A q \in (ps[k - 1] + 1)..(ps[k] - 1) : t[q] = NewLine
  <2>1. v[1] = f.nr_of_nodes /\ v[2] = f.announced /\ v[1] \in Int /\ v[2] \in Int
    BY <1>1
  <2>2. t[b + 2] = NewLine
    <3>1. RowEnds(f)[h - 1] = b + 2
      BY <1>6
    <3> QED
      BY <1>6, <3>1
  <2> HIDE DEF v
  <2>3. CASE k = 1
    <3>1. k - 1 = 0
      BY <2>3
    <3>2. \A q \in (b + 1)..((b + 1) - 1) : FALSE
      BY <1>6
    <3> QED
      BY <1>6, <1>10, <2>1, <2>3, <3>1, <3>2
  <2>4. CASE k = 2
    <3>1. k - 1 = 1
      BY <2>4
    <3>2. \A q \in ((b + 1) + 1)..((b + 3) - 1) : q = b + 2
      BY <1>6
    <3>3. b + 1 < b + 3
      BY <1>6
    <3> QED
      BY <1>7, <1>10, <2>1, <2>2, <2>4, <3>1, <3>2, <3>3
  <2> QED
    BY <2>3, <2>4
<1>12. ArePositions(ps, v, t, s, 2)
  <2> HIDE DEF v
  <2> QED
    BY <1>10, <1>11 DEF ArePositions
<1>13. v[1] = f.nr_of_nodes /\ v[2] = f.announced
  OBVIOUS
<1> HIDE DEF v
<1>14. PICK x \in Reads(t) :
         /\ ExtractNumbers(t, s, 2) = {x}
         /\ x.is = StreamAt(t, ps[2])
         /\ Len(x.numbers) = 2 /\ \A k \in 1..2 : x.numbers[k] = v[k]
  <2>1. PICK two : two = 2 /\ two \in Nat \ {0}
    OBVIOUS
  <2>2. \E x \in Reads(t) :
          /\ ExtractNumbers(t, s, two) = {x}
          /\ x.is = StreamAt(t, ps[two])
          /\ Len(x.numbers) = two /\ \A k \in 1..two : x.numbers[k] = v[k]
    <3>1. ArePositions(ps, v, t, s, two)
      BY <1>12, <2>1
    <3>2. t \in Seq(Symbols) /\ s \in Streams(t) /\ Good(s) /\ two \in Nat \ {0}
      BY <1>5, <1>9, <2>1
    <3> QED
      BY <3>1, <3>2, NumbersRead
  <2> QED
    BY <2>1, <2>2
<1>15. ps[2] = RowEnds(f)[h] - 1
  BY <1>6, <1>7, <1>10
<1>16. x.is = AfterRow(f, h)
  BY <1>14, <1>15 DEF AfterRow, t
<1> QED
  BY <1>13, <1>14, <1>16 DEF s, t, h

(* There is no number behind the last row.                                 *)
LEMMA NothingBehind ==
  ASSUME NEW f, IsFile(f)
  PROVE  NoNumber(Text(f), AfterRow(f, NrOfRows(f)))
<1> DEFINE n == NrOfRows(f)
           s == AfterRow(f, n)
           t == Text(f)
<1>1. n \in 1..n
  BY NumberOfRows
<1>2. /\ s.pos = RowEnds(f)[n] - 1 /\ (s.eof <=> n = n /\ ~f.ends_with_newline) /\ Len(t) \in Nat
      /\ RowEnds(f)[n] \in Nat
      /\ ~s.eof => RowEnds(f)[n] <= Len(t) /\ t[s.pos + 1] = NewLine
  BY <1>1, AfterRowInText
<1>3. CASE s.eof
  BY <1>3 DEF NoNumber, Good
<1>4. CASE ~s.eof
  <2>1. Len(t) = RowEnds(f)[n]
    BY <1>2, <1>4, TextOfFile
  <2>2. ASSUME NEW p \in (s.pos + 1)..Len(t) PROVE t[p] = NewLine
    <3>1. p = s.pos + 1
      BY <1>2, <2>1
    <3> QED
      BY <1>2, <1>4, <3>1
  <2> QED
    BY <2>2 DEF NoNumber
<1> QED
  BY <1>3, <1>4

(* readLine() looks at the stream behind the record.                       *)
LEMMA LineOfRecord ==
  ASSUME NEW count, NEW x, ExtractNumbers(text, is, count) = {x}
  PROVE  \E y : /\ ReadLine(count) = {y} /\ y.is = Peek(text, x.is) /\ y.numbers = x.numbers
                /\ y.aborts <=> \/ is.eof \/ Peek(text, x.is).fail
                                \/ ~AtLineEnd(text, Peek(text, x.is))
<1> DEFINE p == Peek(text, x.is)
<1>1. PICK b : b = (is.eof \/ p.fail \/ ~AtLineEnd(text, p))
  OBVIOUS
<1>2. PICK y : y = [is |-> p, numbers |-> x.numbers, aborts |-> b]
  OBVIOUS
<1>3. ReadLine(count) = {y}
  BY <1>1, <1>2 DEF ReadLine
<1> HIDE DEF p
<1>4. y.is = p /\ y.numbers = x.numbers /\ y.aborts = b
  BY <1>2
<1> QED
  BY <1>1, <1>3, <1>4 DEF p

(* A stream that has not met the end of the text stays as it is when its   *)
(* next symbol is looked at; one that has met it fails.                    *)
LEMMA Peeked ==
  ASSUME NEW t, Len(t) \in Nat, NEW p \in 0..Len(t)
  PROVE  /\ p < Len(t) => Peek(t, StreamAt(t, p)) = StreamAt(t, p)
         /\ p = Len(t) => Peek(t, StreamAt(t, p)).fail = TRUE
<1>1. PICK s : s = StreamAt(t, p)
  OBVIOUS
<1>2. s.pos = p /\ ~s.fail /\ (s.eof <=> p = Len(t)) /\ s \in Streams(t)
  BY <1>1, StreamAtPosition
<1>3. CASE p < Len(t)
  <2>1. Good(s) /\ s.pos # Len(t)
    BY <1>2, <1>3 DEF Good
  <2>2. Peek(t, s) = s
    BY <2>1 DEF Peek
  <2> QED
    BY <1>1, <1>3, <2>2
<1>4. CASE p = Len(t)
  <2>1. ~Good(s)
    BY <1>2, <1>4 DEF Good
  <2>2. Peek(t, s) = [s EXCEPT !.fail = TRUE]
    BY <2>1 DEF Peek
  <2>3. Peek(t, s).fail = TRUE
    BY <1>2, <2>2 DEF Streams
  <2> QED
    BY <1>1, <1>4, <2>3
<1> QED
  BY <1>3, <1>4

(* The next row is read if its record has as many numbers as the format    *)
(* says, and the end of its line is there.                                 *)
LEMMA LineRead ==
  ASSUME IsFile(file), text = Text(file), NEW r \in 2..NrOfRows(file), is = AfterRow(file, r - 1),
         NEW v \in Seq(Int), Rows(file)[r] = Row(v), Len(v) >= 1
  PROVE  \E y : /\ ReadLine(Len(v)) = {y}
                /\ Len(y.numbers) = Len(v) /\ \A k \in 1..Len(v) : y.numbers[k] = v[k]
                /\ y.aborts <=> r = NrOfRows(file) /\ ~file.ends_with_newline
                /\ ~y.aborts => y.is = AfterRow(file, r)
<1>1. Len(v) \in 1..Len(v) /\ v \in Seq(Symbols) /\ Len(v) \in Nat
  BY LenProperties DEF Symbols
<1>2. PICK x \in Reads(Text(file)) :
        /\ ExtractNumbers(Text(file), AfterRow(file, r - 1), Len(v)) = {x}
        /\ x.is = StreamAt(Text(file), RowEnds(file)[r - 1] + Len(v))
        /\ Len(x.numbers) = Len(v) /\ \A k \in 1..Len(v) : x.numbers[k] = v[k]
  BY <1>1, RecordRead
<1>3. PICK y : /\ ReadLine(Len(v)) = {y} /\ y.is = Peek(text, x.is) /\ y.numbers = x.numbers
               /\ y.aborts <=> \/ is.eof \/ Peek(text, x.is).fail
                               \/ ~AtLineEnd(text, Peek(text, x.is))
  <2>1. ExtractNumbers(text, is, Len(v)) = {x}
    BY <1>2
  <2> QED
    BY <2>1, LineOfRecord
<1>4. /\ r - 1 \in 1..NrOfRows(file) /\ r \in 1..NrOfRows(file) /\ r - 1 # NrOfRows(file)
  BY NumberOfRows
<1>5. ~is.eof
  BY <1>4, AfterRowInText
<1> DEFINE e == RowEnds(file)[r] - 1
<1>6. RowEnds(file)[r - 1] + Len(v) = e
  <2>1. PICK a, b, l : a = RowEnds(file)[r - 1] /\ b = RowEnds(file)[r] /\ l = Len(v)
    OBVIOUS
  <2>2. a \in Nat /\ b = a + l + 1 /\ l \in Nat
    <3>1. /\ RowEnds(file)[r - 1] \in Nat /\ RowEnds(file)[r] = RowEnds(file)[r - 1] + Len(v) + 1
      BY <1>1, <1>4, RowsInText
    <3> QED
      BY <1>1, <2>1, <3>1
  <2>3. a + l = b - 1
    BY <2>2
  <2> QED
    BY <2>1, <2>3
<1>7. /\ e \in 0..Len(text) /\ Len(text) \in Nat
      /\ (e = Len(text) <=> r = NrOfRows(file) /\ ~file.ends_with_newline)
      /\ (e < Len(text) => text[e + 1] = NewLine)
  <2>1. PICK s : s = AfterRow(file, r)
    OBVIOUS
  <2>2. /\ s \in Streams(text) /\ s.pos = e /\ (s.eof <=> s.pos = Len(text))
        /\ (s.eof <=> r = NrOfRows(file) /\ ~file.ends_with_newline)
        /\ (~s.eof => text[s.pos + 1] = NewLine) /\ Len(text) \in Nat
    BY <1>4, <2>1, AfterRowInText
  <2> HIDE DEF e
  <2>3. e \in 0..Len(text)
    BY <2>2 DEF Streams
  <2> QED
    BY <2>2, <2>3
<1>8. x.is = StreamAt(text, e) /\ AfterRow(file, r) = StreamAt(text, e)
  BY <1>2, <1>6 DEF AfterRow
<1> HIDE DEF e
<1>9. CASE e = Len(text)
  <2>1. Peek(text, x.is).fail = TRUE
    BY <1>7, <1>8, <1>9, Peeked
  <2>2. y.aborts
    BY <1>3, <2>1
  <2> QED
    BY <1>2, <1>3, <1>7, <1>9, <2>2
<1>10. CASE e < Len(text)
  <2>1. Peek(text, x.is) = x.is
    BY <1>7, <1>8, <1>10, Peeked
  <2>2. x.is.pos = e /\ ~x.is.fail
    BY <1>8, StreamAtPosition
  <2>3. AtLineEnd(text, x.is)
    BY <1>7, <1>10, <2>2 DEF AtLineEnd
  <2>4. ~y.aborts /\ y.is = AfterRow(file, r)
    BY <1>3, <1>5, <1>8, <2>1, <2>2, <2>3
  <2>5. e # Len(text)
    BY <1>7, <1>10
  <2> QED
    BY <1>2, <1>3, <1>7, <2>4, <2>5
<1> QED
  BY <1>7, <1>9, <1>10, SMTT(30)

(* It is not read if its record has more numbers.                          *)
LEMMA LongLineNotRead ==
  ASSUME IsFile(file), text = Text(file), NEW r \in 2..NrOfRows(file), is = AfterRow(file, r - 1),
         NEW v \in Seq(Int), Rows(file)[r] = Row(v), NEW count \in 1..(Len(v) - 1)
  PROVE  \A y \in ReadLine(count) : y.aborts
<1>1. count \in 1..Len(v) /\ v \in Seq(Symbols) /\ Len(v) \in Nat /\ count + 1 \in 1..Len(v)
  BY LenProperties DEF Symbols
<1>2. PICK x \in Reads(Text(file)) :
        /\ ExtractNumbers(Text(file), AfterRow(file, r - 1), count) = {x}
        /\ x.is = StreamAt(Text(file), RowEnds(file)[r - 1] + count)
        /\ Len(x.numbers) = count /\ \A k \in 1..count : x.numbers[k] = v[k]
  BY <1>1, RecordRead, SMTT(30)
<1>3. PICK y : /\ ReadLine(count) = {y} /\ y.is = Peek(text, x.is) /\ y.numbers = x.numbers
               /\ y.aborts <=> \/ is.eof \/ Peek(text, x.is).fail
                               \/ ~AtLineEnd(text, Peek(text, x.is))
  <2>1. ExtractNumbers(text, is, count) = {x}
    BY <1>2
  <2> QED
    BY <2>1, LineOfRecord
<1>4. r \in 1..NrOfRows(file)
  BY NumberOfRows
<1>5. /\ RowEnds(file)[r - 1] \in Nat /\ RowEnds(file)[r] = RowEnds(file)[r - 1] + Len(v) + 1
      /\ RowEnds(file)[r] - 1 <= Len(text)
      /\ \A k \in 1..Len(v) : text[RowEnds(file)[r - 1] + k] = v[k]
  <2>1. /\ RowEnds(file)[r - 1] \in Nat /\ RowEnds(file)[r] = RowEnds(file)[r - 1] + Len(v) + 1
        /\ RowEnds(file)[r] - 1 <= Len(Text(file))
        /\ \A k \in 1..Len(v) : Text(file)[RowEnds(file)[r - 1] + k] = v[k]
        /\ RowEnds(file)[r] <= Len(Text(file)) => Text(file)[RowEnds(file)[r]] = NewLine
        /\ RowEnds(file)[r] <= Len(Text(file)) <=> r < NrOfRows(file) \/ file.ends_with_newline
    <3>1. v \in Seq(Symbols) /\ r \in 1..NrOfRows(file)
      BY <1>1, <1>4
    <3> QED
      BY <3>1, RowsInText
  <2> QED
    BY <2>1
<1>6. PICK p : p = RowEnds(file)[r - 1] + count
  OBVIOUS
<1>7. p \in 0..Len(text) /\ p < Len(text) /\ Len(text) \in Nat
  <2>1. Len(text) \in Nat
    BY TextOfFile
  <2> QED
    BY <1>1, <1>5, <1>6, <2>1, SMTT(30)
<1>8. text[p + 1] = v[count + 1] /\ v[count + 1] \in Int
  <2>1. p + 1 = RowEnds(file)[r - 1] + (count + 1)
    <3>1. PICK b : b = RowEnds(file)[r - 1]
      OBVIOUS
    <3>2. b \in Nat /\ p = b + count /\ count \in Nat
      BY <1>1, <1>5, <1>6, <3>1
    <3>3. p + 1 = b + (count + 1)
      BY <3>2
    <3> QED
      BY <3>1, <3>3
  <2>2. v[count + 1] \in Int
    BY <1>1, ElementOfSeq
  <2> QED
    BY <1>1, <1>5, <2>1, <2>2
<1>9. x.is = StreamAt(text, p)
  BY <1>2, <1>6
<1>10. Peek(text, x.is) = x.is
  BY <1>7, <1>9, Peeked
<1>11. ~AtLineEnd(text, x.is)
  <2>1. x.is.pos = p
    BY <1>9, StreamAtPosition
  <2> QED
    BY <1>7, <1>8, <2>1, SymbolsAssumption DEF AtLineEnd
<1> QED
  BY <1>3, <1>10, <1>11

(* Nothing is read behind the last row.                                    *)
LEMMA NoLineRead ==
  ASSUME IsFile(file), text = Text(file), is = AfterRow(file, NrOfRows(file)),
         NEW count \in Nat \ {0}
  PROVE  \A y \in ReadLine(count) : y.aborts
<1>1. text \in Seq(Symbols) /\ is \in Streams(text) /\ NoNumber(text, is)
  <2>1. NrOfRows(file) \in 1..NrOfRows(file)
    BY NumberOfRows, SMTT(30)
  <2> QED
    BY <2>1, AfterRowInText, NothingBehind
<1>2. PICK x \in Reads(text) : /\ ExtractNumbers(text, is, count) = {x} /\ x.is.fail = TRUE
                              /\ \A k \in 1..count : x.numbers[k] = 0
  BY <1>1, NumbersMissing
<1>3. PICK y : /\ ReadLine(count) = {y} /\ y.is = Peek(text, x.is) /\ y.numbers = x.numbers
               /\ y.aborts <=> \/ is.eof \/ Peek(text, x.is).fail
                               \/ ~AtLineEnd(text, Peek(text, x.is))
  BY <1>2, LineOfRecord
<1>4. Peek(text, x.is).fail = TRUE
  <2>1. ~Good(x.is)
    BY <1>2 DEF Good
  <2>2. Peek(text, x.is) = [x.is EXCEPT !.fail = TRUE]
    BY <2>1 DEF Peek
  <2> QED
    BY <2>2 DEF Reads, Streams
<1> QED
  BY <1>3, <1>4

(* The first number of the next row is read whatever the format is.        *)
LEMMA FirstOfLineRead ==
  ASSUME IsFile(file), text = Text(file), NEW r \in 2..NrOfRows(file), is = AfterRow(file, r - 1),
         NEW v \in Seq(Int), Rows(file)[r] = Row(v), Len(v) >= 1, NEW count \in Nat \ {0}
  PROVE  \A y \in ReadLine(count) : y.numbers[1] = v[1]
<1>1. r - 1 \in 1..NrOfRows(file) /\ r - 1 # NrOfRows(file) /\ r \in 1..NrOfRows(file)
  BY NumberOfRows
<1> DEFINE b == RowEnds(file)[r - 1]
<1>2. /\ is \in Streams(text) /\ text \in Seq(Symbols) /\ is.pos = b - 1 /\ ~is.fail /\ ~is.eof
      /\ text[is.pos + 1] = NewLine /\ b \in Nat /\ b >= 1 /\ Len(text) \in Nat
  BY <1>1, AfterRowInText
<1>3. v \in Seq(Symbols) /\ Len(v) \in Nat /\ 1 \in 1..Len(v)
  BY LenProperties DEF Symbols
<1>4. /\ RowEnds(file)[r] = b + Len(v) + 1 /\ RowEnds(file)[r] - 1 <= Len(text)
      /\ \A k \in 1..Len(v) : text[b + k] = v[k]
  BY <1>1, <1>3, RowsInText
<1>5. v[1] \in Int
  BY <1>3, ElementOfSeq
<1> HIDE DEF b
<1>6. PICK p : p = b + 1
  OBVIOUS
<1>7. p \in (is.pos + 1)..Len(text) /\ text[p] = v[1] /\ text[p] \in Int
  BY <1>2, <1>3, <1>4, <1>5, <1>6
<1>8. ASSUME NEW q \in (is.pos + 1)..(p - 1) PROVE text[q] = NewLine
  <2>1. q = is.pos + 1
    BY <1>2, <1>6
  <2> QED
    BY <1>2, <2>1
<1>9. PICK x \in Reads(text) : ExtractNumbers(text, is, count) = {x} /\ x.numbers[1] = text[p]
  <2>1. is \in Streams(text) /\ text \in Seq(Symbols) /\ Good(is)
    BY <1>2 DEF Good
  <2> QED
    BY <1>7, <1>8, <2>1, FirstNumberRead
<1>10. PICK y : ReadLine(count) = {y} /\ y.numbers = x.numbers
  BY <1>9, LineOfRecord
<1> QED
  BY <1>7, <1>9, <1>10

-----------------------------------------------------------------------------
(***************************************************************************)
(* Reading metadata.                                                       *)
(***************************************************************************)

(* Every symbol is in a row.                                               *)
LEMMA InSomeRow ==
  ASSUME NEW f, IsFile(f), NEW p \in 1..Len(Text(f))
  PROVE  \E r \in 1..NrOfRows(f) : RowEnds(f)[r - 1] < p /\ p <= RowEnds(f)[r]
<1> DEFINE E == RowEnds(f)
           n == NrOfRows(f)
           S == {r \in 0..n : p <= E[r]}
<1>1. E \in [0..n -> Nat] /\ E[0] = 0 /\ n \in Nat /\ p \in Nat /\ p >= 1
  BY TextOfFile
<1>2. p <= E[n]
  <2>1. Len(Text(f)) = IF f.ends_with_newline THEN E[n] ELSE E[n] - 1
    BY TextOfFile
  <2>2. E[n] \in Nat
    BY <1>1
  <2> HIDE DEF E, n
  <2> QED
    BY <2>1, <2>2
<1>3. n \in S /\ S \in SUBSET Nat
  BY <1>1, <1>2
<1>4. PICK r \in S : \A y \in S : r <= y
  BY <1>3, LeastNumber
<1>5. r # 0
  BY <1>1, <1>4
<1>6. r \in 1..n /\ r - 1 \in 0..n
  BY <1>1, <1>4, <1>5
<1>7. r - 1 \notin S
  BY <1>4, <1>6
<1>8. ~(p <= E[r - 1]) /\ E[r - 1] \in Nat
  BY <1>1, <1>6, <1>7
<1> QED
  BY <1>1, <1>4, <1>6, <1>8

(* Only metadata ends with an empty line.                                  *)
LEMMA NoEmptyLine ==
  ASSUME NEW f, IsFile(f), ~HasMetadata(f.layout), NEW p \in 1..Len(Text(f)),
         Text(f)[p] = NewLine
  PROVE  p > 1 /\ Text(f)[p - 1] # NewLine
<1> DEFINE h == HeaderRows(f)
           N == f.nr_of_nodes
           M == Len(f.edges)
           t == Text(f)
<1>1. PICK r \in 1..NrOfRows(f) : RowEnds(f)[r - 1] < p /\ p <= RowEnds(f)[r]
  BY InSomeRow
<1>2. /\ h = 2 /\ N \in Nat /\ M \in Nat /\ f.announced \in Nat /\ NrOfRows(f) = h + N + M
  BY NumberOfRows
<1>3. \E v \in Seq(Int) : Rows(f)[r] = Row(v) /\ Len(v) >= 1
  <2>1. CASE r = h - 1 \/ r = h
    <3>1. Rows(f)[h - 1] = Row(<<N>>) /\ Rows(f)[h] = Row(<<f.announced>>)
      BY RowsOfFile
    <3>2. <<N>> \in Seq(Int) /\ <<f.announced>> \in Seq(Int) /\ Len(<<N>>) >= 1 /\ Len(<<f.announced>>) >= 1
      BY <1>2
    <3> QED
      BY <2>1, <3>1, <3>2
  <2>2. CASE r > h /\ r <= h + N
    <3>1. PICK m : m = r - h
      OBVIOUS
    <3>2. m \in 1..N /\ r = h + m
      BY <1>2, <2>2, <3>1
    <3>3. NodeNumbers(f, m) \in Seq(Int) /\ Len(NodeNumbers(f, m)) = NodeFields(f.layout)
      BY <3>2, NodeRowNumbers
    <3>4. NodeFields(f.layout) >= 1
      <4>1. NodeFields(f.layout) \in {3, 5}
        BY FieldsOfFormats DEF IsFile
      <4> QED
        BY <4>1
    <3> QED
      BY <3>2, <3>3, <3>4, RowsOfFile
  <2>3. CASE r > h + N
    <3>1. PICK m : m = r - (h + N)
      OBVIOUS
    <3>2. m \in 1..M /\ r = h + N + m
      <4>1. r <= h + N + M /\ r \in Nat
        BY <1>2
      <4> HIDE DEF h, N, M
      <4> QED
        BY <1>2, <2>3, <3>1, <4>1
    <3>3. EdgeNumbers(f, f.edges[m]) \in Seq(Int) /\ Len(EdgeNumbers(f, f.edges[m])) = EdgeFields(f.layout)
      BY <3>2, EdgeRowNumbers
    <3>4. EdgeFields(f.layout) >= 1
      <4>1. EdgeFields(f.layout) \in {3, 5}
        BY FieldsOfFormats DEF IsFile
      <4> QED
        BY <4>1
    <3> QED
      BY <3>2, <3>3, <3>4, RowsOfFile
  <2> QED
    BY <1>2, <2>1, <2>2, <2>3
<1>4. PICK v \in Seq(Int) : Rows(f)[r] = Row(v) /\ Len(v) >= 1
  BY <1>3
<1>5. PICK b, l : b = RowEnds(f)[r - 1] /\ l = Len(v)
  OBVIOUS
<1>6. v \in Seq(Symbols) /\ l \in Nat /\ \A k \in 1..l : v[k] \in Int
  BY <1>5, LenProperties, ElementOfSeq DEF Symbols
<1>7. /\ b \in Nat /\ RowEnds(f)[r] = b + l + 1 /\ \A k \in 1..l : t[b + k] = v[k]
  <2>1. /\ RowEnds(f)[r - 1] \in Nat /\ RowEnds(f)[r] = RowEnds(f)[r - 1] + Len(v) + 1
        /\ \A k \in 1..Len(v) : Text(f)[RowEnds(f)[r - 1] + k] = v[k]
    BY <1>4, <1>6, RowsInText
  <2> QED
    BY <1>5, <2>1
<1>8. p \in Nat
  OBVIOUS
<1>9. p = b + l + 1
  <2> SUFFICES ASSUME p # b + l + 1 PROVE FALSE
    OBVIOUS
  <2>1. PICK k : k = p - b
    OBVIOUS
  <2>2. k \in 1..l /\ p = b + k
    <3>1. b \in Nat /\ l \in Nat /\ b < p /\ p <= b + l + 1
      <4>1. RowEnds(f)[r] = b + l + 1 /\ b \in Nat /\ l \in Nat
        BY <1>6, <1>7
      <4> QED
        BY <1>1, <1>5, <4>1
    <3> HIDE DEF t
    <3> QED
      BY <1>8, <2>1, <3>1
  <2>3. t[p] \in Int
    BY <1>6, <1>7, <2>2
  <2> QED
    BY <2>3, SymbolsAssumption
<1>10. p > 1 /\ p - 1 = b + l /\ l \in 1..l
  <2>1. b \in Nat /\ l \in Nat /\ l >= 1
    BY <1>4, <1>5, <1>6, <1>7
  <2> QED
    BY <1>9, <2>1
<1>11. t[p - 1] \in Int
  BY <1>6, <1>7, <1>10
<1> QED
  BY <1>10, <1>11, SymbolsAssumption

(* A stream reads a line of metadata from where a line begins or from the  *)
(* end of the text.                                                        *)
AtLineBegin(t, s) ==
  s \in Streams(t) /\ (s.pos = 0 \/ s.pos = Len(t) \/ t[s.pos] = NewLine)

(* Without an empty line it gets on until it fails.                        *)
LEMMA LineSkipped ==
  ASSUME NEW f, IsFile(f), ~HasMetadata(f.layout), NEW s, AtLineBegin(Text(f), s), NEW l
  PROVE  /\ AtLineBegin(Text(f), GetLine(Text(f), s, l).is)
         /\ GetLine(Text(f), s, l).line = "" => GetLine(Text(f), s, l).is.fail = TRUE
<1> DEFINE t == Text(f)
           ends == {p \in (s.pos + 1)..Len(t) : t[p] = NewLine}
           next == GetLine(t, s, l)
<1>1. t \in Seq(Symbols) /\ Len(t) \in Nat
  BY TextOfFile
<1>2. s \in Streams(t) /\ (s.pos = 0 \/ s.pos = Len(t) \/ t[s.pos] = NewLine)
  BY DEF AtLineBegin
<1>3. s.pos \in 0..Len(t) /\ s.eof \in BOOLEAN /\ s.fail \in BOOLEAN
  BY <1>2 DEF Streams
<1>4. \A p \in 1..Len(t) : t[p] = NewLine => p > 1 /\ t[p - 1] # NewLine
  BY NoEmptyLine
<1> HIDE DEF t
<1>5. CASE ~Good(s)
  <2>1. next = [is |-> [s EXCEPT !.fail = TRUE], line |-> l]
    BY <1>5 DEF GetLine
  <2>2. next.is = [s EXCEPT !.fail = TRUE]
    BY <2>1
  <2>3. next.is.fail = TRUE /\ next.is.pos = s.pos /\ next.is \in Streams(t)
    BY <1>2, <2>2 DEF Streams
  <2> HIDE DEF next
  <2> QED
    BY <1>2, <2>3 DEF AtLineBegin, t, next
<1>6. CASE Good(s) /\ s.pos = Len(t)
  <2>1. PICK q : q = [s EXCEPT !.eof = TRUE, !.fail = TRUE]
    OBVIOUS
  <2>2. next.is = q
    BY <1>6, <2>1 DEF GetLine
  <2>3. q = [[s EXCEPT !.eof = TRUE] EXCEPT !.fail = TRUE]
    BY <2>1, Zenon
  <2>4. q.fail = TRUE /\ q.pos = s.pos /\ q \in Streams(t)
    BY <1>2, <2>3 DEF Streams
  <2> HIDE DEF next
  <2> QED
    BY <1>2, <2>2, <2>4 DEF AtLineBegin, t, next
<1>7. CASE Good(s) /\ s.pos < Len(t) /\ ends = {}
  <2>0. s.pos # Len(t)
    BY <1>1, <1>3, <1>7
  <2>1. PICK q : q = [s EXCEPT !.pos = Len(t), !.eof = TRUE]
    OBVIOUS
  <2>2. next = [is |-> q, line |-> "text"]
    BY <1>7, <2>0, <2>1 DEF GetLine
  <2>3. q = [[s EXCEPT !.pos = Len(t)] EXCEPT !.eof = TRUE]
    BY <2>1, Zenon
  <2>4. Len(t) \in 0..Len(t)
    BY <1>1
  <2>5. q.pos = Len(t) /\ q \in Streams(t)
    BY <1>2, <2>3, <2>4 DEF Streams
  <2> HIDE DEF next
  <2>6. next.is = q /\ next.line = "text"
    BY <2>2
  <2> QED
    BY <2>5, <2>6 DEF AtLineBegin, t, next
<1>8. CASE Good(s) /\ s.pos < Len(t) /\ ends # {}
  <2>1. ends \in SUBSET Nat
    BY <1>3
  <2>2. Min(ends) \in ends
    BY <1>8, <2>1, FirstPosition
  <2>3. PICK p : p = Min(ends)
    OBVIOUS
  <2>4. p \in (s.pos + 1)..Len(t) /\ t[p] = NewLine
    BY <2>2, <2>3
  <2>5. p \in 1..Len(t) /\ p # s.pos + 1
    <3>1. p \in 1..Len(t)
      BY <1>1, <1>3, <2>4
    <3>2. ASSUME p = s.pos + 1 PROVE FALSE
      <4>1. p > 1 /\ t[p - 1] # NewLine /\ p - 1 = s.pos
        BY <1>3, <1>4, <2>4, <3>1, <3>2
      <4>2. s.pos # 0 /\ s.pos # Len(t)
        <5>1. s.pos \in Nat /\ s.pos < Len(t) /\ p = s.pos + 1 /\ p > 1
          BY <1>3, <1>8, <3>2, <4>1
        <5> QED
          BY <1>1, <5>1
      <4> QED
        BY <1>2, <4>1, <4>2
    <3> QED
      BY <3>1, <3>2
  <2>6. s.pos # Len(t)
    BY <1>1, <1>3, <1>8
  <2> HIDE DEF ends
  <2>7. next = [is |-> [s EXCEPT !.pos = p], line |-> "text"]
    BY <1>8, <2>3, <2>5, <2>6 DEF GetLine, ends
  <2>8. next.is = [s EXCEPT !.pos = p] /\ next.line # ""
    BY <2>7
  <2>9. next.is.pos = p /\ next.is \in Streams(t)
    <3>1. p \in 0..Len(t)
      BY <2>5
    <3> HIDE DEF next
    <3> QED
      BY <1>2, <2>8, <3>1 DEF Streams
  <2> HIDE DEF next
  <2> QED
    BY <2>4, <2>8, <2>9 DEF AtLineBegin, t, next
<1>9. s.pos = Len(t) \/ s.pos < Len(t)
  BY <1>1, <1>3
<1> QED
  BY <1>5, <1>6, <1>7, <1>8, <1>9

(* Metadata: a line with a word and an empty one.                          *)
LEMMA MetadataRows ==
  ASSUME NEW f, IsFile(f), HasMetadata(f.layout)
  PROVE  /\ Text(f) \in Seq(Symbols) /\ Len(Text(f)) \in Nat /\ Len(Text(f)) >= 4
         /\ RowEnds(f)[0] = 0 /\ RowEnds(f)[1] = 2 /\ RowEnds(f)[2] = 3
         /\ Text(f)[1] = Word /\ Text(f)[2] = NewLine /\ Text(f)[3] = NewLine
         /\ HeaderRows(f) = 4
<1> DEFINE E == RowEnds(f)
           n == NrOfRows(f)
           t == Text(f)
<1>1. n \in Nat /\ n >= 4 /\ HeaderRows(f) = 4 /\ f.nr_of_nodes \in Nat
  BY NumberOfRows
<1>2. t \in Seq(Symbols) /\ Len(t) \in Nat /\ E[0] = 0
  BY TextOfFile
<1>3. 1 \in 1..n /\ 2 \in 1..n /\ 3 \in 1..n /\ 1 < n /\ 2 < n /\ 1 - 1 = 0 /\ 2 - 1 = 1 /\ 3 - 1 = 2
  BY <1>1
<1>4. /\ <<Word>> \in Seq(Symbols) /\ <<>> \in Seq(Symbols) /\ <<f.nr_of_nodes>> \in Seq(Symbols)
      /\ Len(<<Word>>) = 1 /\ Len(<<>>) = 0 /\ Len(<<f.nr_of_nodes>>) = 1 /\ <<Word>>[1] = Word
  BY <1>1 DEF Symbols
<1>5. /\ Rows(f)[1] = Row(<<Word>>) /\ Rows(f)[2] = Row(<<>>) /\ Rows(f)[3] = Row(<<f.nr_of_nodes>>)
  <2>1. 4 - 1 = 3
    OBVIOUS
  <2> QED
    BY <1>1, <2>1, RowsOfFile
<1> HIDE DEF E, n, t
<1>6. E[1] = 2 /\ t[1] = Word /\ t[2] = NewLine
  <2>1. PICK w : w = <<Word>>
    OBVIOUS
  <2>2. w \in Seq(Symbols) /\ Len(w) = 1 /\ w[1] = Word /\ Rows(f)[1] = Row(w) /\ 1 \in 1..NrOfRows(f)
    BY <1>3, <1>4, <1>5, <2>1 DEF n
  <2>3. /\ RowEnds(f)[1] = RowEnds(f)[1 - 1] + Len(w) + 1
        /\ \A k \in 1..Len(w) : Text(f)[RowEnds(f)[1 - 1] + k] = w[k]
        /\ RowEnds(f)[1] <= Len(Text(f)) => Text(f)[RowEnds(f)[1]] = NewLine
        /\ RowEnds(f)[1] <= Len(Text(f)) <=> 1 < NrOfRows(f) \/ f.ends_with_newline
    BY <2>2, RowsInText
  <2>4. RowEnds(f)[1] = 2 /\ Text(f)[0 + 1] = Word /\ Text(f)[2] = NewLine
    BY <1>2, <1>3, <2>2, <2>3 DEF E, n
  <2> QED
    BY <2>4 DEF E, t
<1>7. E[2] = 3 /\ t[3] = NewLine
  <2>1. PICK w : w = <<>>
    OBVIOUS
  <2>2. PICK r : r = 2
    OBVIOUS
  <2>2a. w \in Seq(Symbols) /\ Len(w) = 0 /\ Rows(f)[r] = Row(w) /\ r \in 1..NrOfRows(f) /\ r - 1 = 1
    BY <1>3, <1>4, <1>5, <2>1, <2>2 DEF n
  <2>3. /\ RowEnds(f)[r - 1] \in Nat /\ RowEnds(f)[r] = RowEnds(f)[r - 1] + Len(w) + 1
        /\ RowEnds(f)[r] - 1 <= Len(Text(f))
        /\ \A k \in 1..Len(w) : Text(f)[RowEnds(f)[r - 1] + k] = w[k]
        /\ RowEnds(f)[r] <= Len(Text(f)) => Text(f)[RowEnds(f)[r]] = NewLine
        /\ RowEnds(f)[r] <= Len(Text(f)) <=> r < NrOfRows(f) \/ f.ends_with_newline
    BY <2>2a, RowsInText, Zenon
  <2>4. RowEnds(f)[2] = 3
    BY <1>3, <1>6, <2>2, <2>2a, <2>3 DEF E
  <2> QED
    BY <1>3, <2>2, <2>3, <2>4 DEF E, t, n
<1>8. Len(t) >= 4
  <2>1. PICK w : w = <<f.nr_of_nodes>>
    OBVIOUS
  <2>2. PICK r : r = 3
    OBVIOUS
  <2>2a. w \in Seq(Symbols) /\ Len(w) = 1 /\ Rows(f)[r] = Row(w) /\ r \in 1..NrOfRows(f) /\ r - 1 = 2
    BY <1>3, <1>4, <1>5, <2>1, <2>2 DEF n
  <2>3. /\ RowEnds(f)[r - 1] \in Nat /\ RowEnds(f)[r] = RowEnds(f)[r - 1] + Len(w) + 1
        /\ RowEnds(f)[r] - 1 <= Len(Text(f))
        /\ \A k \in 1..Len(w) : Text(f)[RowEnds(f)[r - 1] + k] = w[k]
        /\ RowEnds(f)[r] <= Len(Text(f)) => Text(f)[RowEnds(f)[r]] = NewLine
        /\ RowEnds(f)[r] <= Len(Text(f)) <=> r < NrOfRows(f) \/ f.ends_with_newline
    BY <2>2a, RowsInText, Zenon
  <2>4. RowEnds(f)[3] = 5
    BY <1>3, <1>7, <2>2, <2>2a, <2>3 DEF E
  <2> QED
    BY <1>2, <2>2, <2>3, <2>4 DEF t
<1> QED
  BY <1>1, <1>2, <1>6, <1>7, <1>8 DEF E, t

(* The first line of the metadata is skipped, the second one is empty.     *)
LEMMA MetadataRead ==
  ASSUME NEW f, IsFile(f), HasMetadata(f.layout), NEW l
  PROVE  /\ GetLine(Text(f), BeforeRow(f, 1), l).is = BeforeRow(f, 2)
         /\ GetLine(Text(f), BeforeRow(f, 1), l).line # ""
         /\ GetLine(Text(f), BeforeRow(f, 2), l).is = BeforeRow(f, 3)
         /\ GetLine(Text(f), BeforeRow(f, 2), l).line = ""
<1> DEFINE t == Text(f)
           At(p) == [pos |-> p, eof |-> FALSE, fail |-> FALSE]
<1>1. /\ Len(t) \in Nat /\ Len(t) >= 4 /\ t[1] = Word /\ t[2] = NewLine /\ t[3] = NewLine
      /\ BeforeRow(f, 1) = At(0) /\ BeforeRow(f, 2) = At(2) /\ BeforeRow(f, 3) = At(3)
  <2>1. 1 - 1 = 0 /\ 2 - 1 = 1 /\ 3 - 1 = 2
    OBVIOUS
  <2> QED
    BY <2>1, MetadataRows DEF BeforeRow
<1> HIDE DEF t
<1>2. ASSUME NEW p \in {0, 2}, NEW q \in {2, 3}, p < q, t[q] = NewLine,
             \A k \in (p + 1)..(q - 1) : t[k] # NewLine
      PROVE  /\ GetLine(t, At(p), l).is = At(q)
             /\ q = p + 1 => GetLine(t, At(p), l).line = ""
             /\ q # p + 1 => GetLine(t, At(p), l).line # ""
  <2> DEFINE ends == {k \in (p + 1)..Len(t) : t[k] = NewLine}
  <2>1. q \in ends /\ ends \in SUBSET Nat
    BY <1>1, <1>2
  <2>2. Min(ends) \in ends /\ Min(ends) <= q
    BY <2>1, FirstPosition
  <2>3. Min(ends) = q
    <3>1. PICK m : m = Min(ends)
      OBVIOUS
    <3>2. m \in (p + 1)..Len(t) /\ t[m] = NewLine /\ m <= q
      BY <2>2, <3>1
    <3>3. ~(m \in (p + 1)..(q - 1))
      BY <1>2, <3>2
    <3>4. m = q
      BY <1>1, <3>2, <3>3
    <3> QED
      BY <3>1, <3>4
  <2>4. PICK s : s = At(p)
    OBVIOUS
  <2>5. s.pos = p /\ Good(s) /\ p < Len(t) /\ p # Len(t)
    BY <1>1, <2>4 DEF Good
  <2>6. [s EXCEPT !.pos = q] = At(q)
    <3>1. PICK e : e = FALSE
      OBVIOUS
    <3>2. s = [pos |-> p, eof |-> e, fail |-> e] /\ At(q) = [pos |-> q, eof |-> e, fail |-> e]
      BY <2>4, <3>1
    <3> HIDE DEF At
    <3>3. [s EXCEPT !.pos = q] = [pos |-> q, eof |-> e, fail |-> e]
      BY <3>2
    <3> QED
      BY <3>2, <3>3
  <2>7. ends # {} /\ ends = {k \in (s.pos + 1)..Len(t) : t[k] = NewLine}
    BY <2>1, <2>5
  <2> HIDE DEF ends, At
  <2>8. GetLine(t, s, l).is = [s EXCEPT !.pos = Min(ends)]
    BY <2>5, <2>7 DEF GetLine
  <2>9. GetLine(t, s, l).line = IF Min(ends) = s.pos + 1 THEN "" ELSE "text"
    BY <2>5, <2>7 DEF GetLine
  <2> QED
    BY <2>3, <2>4, <2>5, <2>6, <2>8, <2>9
<1> HIDE DEF At
<1>3. GetLine(t, At(0), l).is = At(2) /\ GetLine(t, At(0), l).line # ""
  <2>1. \A k \in (0 + 1)..(2 - 1) : t[k] # NewLine
    BY <1>1, SymbolsAssumption
  <2>2. PICK p, q : p = 0 /\ q = 2
    OBVIOUS
  <2>3. p \in {0, 2} /\ q \in {2, 3} /\ p < q /\ t[q] = NewLine /\ q # p + 1
        /\ \A k \in (p + 1)..(q - 1) : t[k] # NewLine
    BY <1>1, <2>1, <2>2
  <2>4. GetLine(t, At(p), l).is = At(q) /\ GetLine(t, At(p), l).line # ""
    BY <1>2, <2>3
  <2> QED
    BY <2>2, <2>4
<1>4. GetLine(t, At(2), l).is = At(3) /\ GetLine(t, At(2), l).line = ""
  <2>1. \A k \in (2 + 1)..(3 - 1) : t[k] # NewLine
    OBVIOUS
  <2>2. PICK p, q : p = 2 /\ q = 3
    OBVIOUS
  <2>3. p \in {0, 2} /\ q \in {2, 3} /\ p < q /\ t[q] = NewLine /\ q = p + 1
        /\ \A k \in (p + 1)..(q - 1) : t[k] # NewLine
    BY <1>1, <2>1, <2>2
  <2>4. GetLine(t, At(p), l).is = At(q) /\ GetLine(t, At(p), l).line = ""
    BY <1>2, <2>3
  <2> QED
    BY <2>2, <2>4
<1> QED
  BY <1>1, <1>3, <1>4 DEF t

-----------------------------------------------------------------------------
(***************************************************************************)
(* Edges.                                                                  *)
(***************************************************************************)

(* Nobody drives faster than 130 km/h.                                     *)
LEMMA FactorAtLeastOne ==
  ASSUME NEW type \in Int, NEW speed \in Int
  PROVE  \E s \in 1..130 : TimeFactor(type, speed) = <<130, s>>
<1>1. CASE speed > 0
  BY <1>1 DEF TimeFactor, SpeedFactor
<1>2. CASE speed <= 0 /\ type \in DOMAIN RoadFactors
  <2>1. type \in 1..16
    BY <1>2 DEF RoadFactors
  <2>2. TimeFactor(type, speed) = RoadFactors[type]
    BY <1>2 DEF TimeFactor
  <2>3. type \in {1, 2, 3, 4, 5, 6, 7, 8} \/ type \in {9, 10, 11, 12, 13, 14, 15, 16}
    BY <2>1
  <2>4. \E s \in 1..130 : RoadFactors[type] = <<130, s>>
    BY <2>3 DEF RoadFactors
  <2> QED
    BY <2>2, <2>4
<1>3. CASE speed <= 0 /\ type \notin DOMAIN RoadFactors
  BY <1>3 DEF TimeFactor
<1> QED
  BY <1>1, <1>2, <1>3

(* So a time is no less than the length.                                   *)
LEMMA TimeAtLeastLength ==
  ASSUME NEW d \in Nat, NEW s \in 1..130
  PROVE  (d * 130) \div s \in Nat /\ (d * 130) \div s >= d
<1> DEFINE a == d * 130
<1>1. a \in Nat
  OBVIOUS
<1> HIDE DEF a
<1>2. PICK q : q = a \div s
  OBVIOUS
<1>3. q \in Nat /\ a < (q + 1) * s
  BY <1>1, <1>2
<1>4. ASSUME q + 1 <= d PROVE FALSE
  <2>1. PICK e \in Nat : d = (q + 1) + e
    BY <1>3, <1>4
  <2>2. (q + 1) * s <= (q + 1) * 130
    BY <1>3
  <2>3. (q + 1) * 130 <= a
    BY <1>3, <2>1 DEF a
  <2>4. (q + 1) * s \in Int /\ (q + 1) * 130 \in Int
    BY <1>3
  <2> QED
    BY <1>1, <1>3, <2>2, <2>3, <2>4
<1>5. q >= d
  BY <1>3, <1>4
<1> QED
  BY <1>2, <1>3, <1>5 DEF a

(* There is a length for each line that is not negative.                   *)
LEMMA LengthsOfRow ==
  ASSUME NEW r, r.dist \in 0..(MaxUint \div 2), r.type \in Int, r.speed \in Int
  PROVE  LengthsOf(r) \in SUBSET Uint /\ LengthsOf(r) # {}
<1>1. CASE HasTimeMetric(informat)
  <2>1. PICK s \in 1..130 : TimeFactor(r.type, r.speed) = <<130, s>>
    BY FactorAtLeastOne
  <2>2. PICK whole : whole = (r.dist * 130) \div s
    OBVIOUS
  <2>3. r.dist \in Nat /\ MaxUint \in Nat
    BY SizeAssumption
  <2>4. whole \in Nat
    BY <2>2, <2>3, TimeAtLeastLength
  <2>5. PICK T : T = IF (r.dist * 130) % s = 0 /\ r.dist > 0 THEN {whole - 1, whole} ELSE {whole}
    OBVIOUS
  <2>6. T \in SUBSET Int /\ T # {}
    BY <2>4, <2>5
  <2>7. LengthsOf(r) = {t % (MaxUint + 1) : t \in T}
    BY <1>1, <2>1, <2>2, <2>5 DEF LengthsOf, TimeMetrics
  <2>8. \A t \in Int : t % (MaxUint + 1) \in 0..MaxUint
    BY <2>3
  <2> QED
    BY <2>6, <2>7, <2>8 DEF Uint
<1>2. CASE ~HasTimeMetric(informat)
  <2>1. r.dist \in Uint
    BY SizeAssumption DEF Uint
  <2> QED
    BY <1>2, <2>1 DEF LengthsOf
<1> QED
  BY <1>1, <1>2

(* But for rounding it covers the line, if no time is too large.           *)
LEMMA LengthsCover ==
  ASSUME NEW r, r.dist \in 0..(MaxUint \div 2), r.type \in Int, r.speed \in Int,
         LET f == TimeFactor(r.type, r.speed) IN (r.dist * f[1]) \div f[2] <= MaxUint,
         NEW d \in LengthsOf(r)
  PROVE  r.dist <= d + 1
<1>0. r.dist \in Nat /\ MaxUint \in Nat
  BY SizeAssumption
<1>1. CASE HasTimeMetric(informat)
  <2>1. PICK s \in 1..130 : TimeFactor(r.type, r.speed) = <<130, s>>
    BY FactorAtLeastOne
  <2>2. PICK whole : whole = (r.dist * 130) \div s
    OBVIOUS
  <2>3. whole \in Nat /\ whole >= r.dist /\ whole <= MaxUint
    <3>1. (r.dist * 130) \div s <= MaxUint
      BY <2>1
    <3>2. (r.dist * 130) \div s \in Nat /\ (r.dist * 130) \div s >= r.dist
      BY <1>0, TimeAtLeastLength
    <3> QED
      BY <2>2, <3>1, <3>2
  <2>4. PICK T : T = IF (r.dist * 130) % s = 0 /\ r.dist > 0 THEN {whole - 1, whole} ELSE {whole}
    OBVIOUS
  <2>5. LengthsOf(r) = {t % (MaxUint + 1) : t \in T}
    BY <1>1, <2>1, <2>2, <2>4 DEF LengthsOf, TimeMetrics
  <2>6. PICK t \in T : d = t % (MaxUint + 1)
    BY <2>5
  <2>7. t \in 0..MaxUint /\ r.dist <= t + 1
    BY <1>0, <2>3, <2>4
  <2>8. d = t
    BY <1>0, <2>6, <2>7
  <2> QED
    BY <2>7, <2>8
<1>2. CASE ~HasTimeMetric(informat)
  BY <1>0, <1>2 DEF LengthsOf
<1> QED
  BY <1>1, <1>2

(* Among lengths are a shortest and a longest.                             *)
LEMMA ShortestAndLongest ==
  ASSUME NEW S \in SUBSET Uint, S # {}
  PROVE  /\ Min(S) \in S /\ \A y \in S : Min(S) <= y
         /\ Max(S) \in S /\ \A y \in S : y <= Max(S)
<1>1. MaxUint \in Nat /\ S \in SUBSET Nat /\ \A y \in S : y \in Nat /\ y <= MaxUint
  BY SizeAssumption DEF Uint
<1>2. Min(S) \in S /\ \A y \in S : Min(S) <= y
  BY <1>1, FirstPosition
<1> DEFINE T == {MaxUint - y : y \in S}
<1>3. T \in SUBSET Nat /\ T # {}
  BY <1>1
<1>4. PICK x \in T : \A y \in T : x <= y
  BY <1>3, LeastNumber
<1>5. PICK m \in S : x = MaxUint - m
  OBVIOUS
<1>6. \A y \in S : m >= y
  <2> TAKE y \in S
  <2>1. MaxUint - y \in T
    OBVIOUS
  <2>2. MaxUint - m <= MaxUint - y
    BY <1>4, <1>5, <2>1
  <2> QED
    BY <1>1, <2>2
<1> HIDE DEF T
<1>7. Max(S) \in S /\ \A y \in S : Max(S) >= y
  BY <1>6 DEF Max
<1>8. Max(S) \in Nat
  BY <1>1, <1>7
<1> QED
  BY <1>1, <1>2, <1>7, <1>8

(* The numbers of a line stand for the same edges as the row of the file.  *)
LEMMA EdgesOfLine ==
  ASSUME IsFile(file), informat \in DOMAIN ReaderTypes,
         EdgeFields(informat) = EdgeFields(file.layout),
         NEW k \in 1..Len(file.edges), NEW v,
         Len(v) = Len(EdgeNumbers(file, file.edges[k])),
         \A j \in 1..Len(v) : v[j] = EdgeNumbers(file, file.edges[k])[j],
         NEW edge_id
  PROVE  EdgesOf(RowOf(v), edge_id) = EdgesOf(file.edges[k], edge_id)
<1> DEFINE r == file.edges[k]
<1> HIDE DEF r
<1>1. EdgeFields(informat) = 5 \/ (EdgeFields(informat) = 3 /\ ~HasTimeMetric(informat))
  BY FieldsOfFormats
<1>2. CASE EdgeFields(informat) = 5
  <2>1. EdgeNumbers(file, r) = <<r.src, r.tgt, r.dist, r.type, r.speed>>
    BY <1>2 DEF EdgeNumbers
  <2>2. /\ Len(v) = 5 /\ v[1] = r.src /\ v[2] = r.tgt /\ v[3] = r.dist
        /\ v[4] = r.type /\ v[5] = r.speed
    BY <2>1 DEF r
  <2>3. RowOf(v) = [src |-> r.src, tgt |-> r.tgt, dist |-> r.dist, type |-> r.type, speed |-> r.speed]
    BY <2>2 DEF RowOf
  <2>4. LengthsOf(RowOf(v)) = LengthsOf(r)
    BY <2>3 DEF LengthsOf
  <2>5. PICK row : row = RowOf(v)
    OBVIOUS
  <2>6. row.src = r.src /\ row.tgt = r.tgt /\ row.dist = r.dist /\ LengthsOf(row) = LengthsOf(r)
    BY <2>3, <2>4, <2>5
  <2>7. EdgesOf(row, edge_id) = EdgesOf(r, edge_id)
    BY <2>6 DEF EdgesOf
  <2> QED
    BY <2>5, <2>7 DEF r
<1>3. CASE EdgeFields(informat) = 3 /\ ~HasTimeMetric(informat)
  <2>1. EdgeNumbers(file, r) = <<r.src, r.tgt, r.dist>>
    BY <1>3 DEF EdgeNumbers
  <2>2. Len(v) = 3 /\ v[1] = r.src /\ v[2] = r.tgt /\ v[3] = r.dist
    BY <2>1 DEF r
  <2>3. RowOf(v) = [src |-> r.src, tgt |-> r.tgt, dist |-> r.dist, type |-> 0, speed |-> 0]
    BY <2>2 DEF RowOf
  <2>4. LengthsOf(RowOf(v)) = LengthsOf(r)
    BY <1>3, <2>3 DEF LengthsOf
  <2>5. PICK row : row = RowOf(v)
    OBVIOUS
  <2>6. row.src = r.src /\ row.tgt = r.tgt /\ row.dist = r.dist /\ LengthsOf(row) = LengthsOf(r)
    BY <2>3, <2>4, <2>5
  <2>7. EdgesOf(row, edge_id) = EdgesOf(r, edge_id)
    BY <2>6 DEF EdgesOf
  <2> QED
    BY <2>5, <2>7 DEF r
<1> QED
  BY <1>1, <1>2, <1>3

-----------------------------------------------------------------------------
(***************************************************************************)
(* Removing duplicates.                                                    *)
(***************************************************************************)

(* The edges of a vector are looked at one after the other.                *)
LEMMA UniqueOneByOne ==
  ASSUME NEW S, NEW v \in Seq(S)
  PROVE  \E kept : /\ kept[0] = <<>> /\ kept[Len(v)] = Unique(v)
                   /\ \A k \in 1..Len(v) : kept[k] = KeepFirst(kept[k - 1], v[k])
<1> DEFINE n == Len(v)
           X == Seq(S)
<1>0. n \in Nat /\ DOMAIN v = 1..n /\ \A k \in 1..n : v[k] \in S
  OBVIOUS
<1> HIDE DEF n
<1> DEFINE s == [p \in (1..n) \X X |-> KeepFirst(p[2], v[p[1]])]
<1>1. s \in [(1..n) \X X -> X]
  <2>1. ASSUME NEW p \in (1..n) \X X
        PROVE  KeepFirst(p[2], v[p[1]]) \in X
    <3>1. p[2] \in Seq(S) /\ v[p[1]] \in S
      BY <1>0
    <3>2. Append(p[2], v[p[1]]) \in Seq(S)
      BY <3>1
    <3> QED
      BY <3>1, <3>2 DEF KeepFirst
  <2> QED
    BY <2>1
<1>2. \A k \in 1..n, x \in X : s[<<k, x>>] = KeepFirst(x, v[k])
  OBVIOUS
<1>b. <<>> \in X
  OBVIOUS
<1> HIDE DEF s, X
<1>3. PICK g \in [SUBSET (1..n) -> X] : SetFollows(g, 1..n, <<>>, LastOf(n), s)
  BY <1>0, <1>1, <1>b, FoldExists
<1> DEFINE Body(h) == [T \in SUBSET DOMAIN v |->
                         IF T = {} THEN <<>>
                         ELSE LET x == Max(T) IN KeepFirst(h[T \ {x}], v[x])]
           f == CHOOSE h : h = Body(h)
<1>4. g = Body(g)
  <2>1. ASSUME NEW T \in SUBSET (1..n), T # {}
        PROVE  g[T] = KeepFirst(g[T \ {Max(T)}], v[Max(T)])
    <3> DEFINE m == Max(T)
    <3>1. m \in T
      BY <1>0, <2>1, MaxOfPositions
    <3>2. LastOf(n)[T] = m
      BY DEF LastOf
    <3> HIDE DEF m
    <3>3. m \in 1..n /\ g[T \ {m}] \in X
      BY <1>3, <3>1
    <3>4. g[T] = s[<<m, g[T \ {m}]>>]
      BY <1>3, <2>1, <3>2 DEF SetFollows
    <3>5. g[T] = KeepFirst(g[T \ {m}], v[m])
      BY <1>2, <3>3, <3>4
    <3> QED
      BY <3>5 DEF m
  <2>2. g[{}] = <<>>
    BY <1>3 DEF SetFollows
  <2>3. \A T \in SUBSET (1..n) :
          g[T] = IF T = {} THEN <<>> ELSE LET x == Max(T) IN KeepFirst(g[T \ {x}], v[x])
    BY <2>1, <2>2
  <2> QED
    BY <1>0, <1>3, <2>3
<1>5. f = Body(f)
  <2> HIDE DEF Body
  <2> QED
    BY <1>4
<1>6. Unique(v) = f[1..n]
  <2>1. Unique(v) = f[DOMAIN v]
    BY DEF Unique, FoldLeft, MapThenFoldSet
  <2> QED
    BY <1>0, <2>1
<1> HIDE DEF f
<1> DEFINE kept == [k \in 0..n |-> f[1..k]]
<1>7. kept[0] = <<>>
  <2>1. 1..0 = {} /\ 0 \in 0..n
    BY <1>0
  <2>2. f[{}] = <<>>
    BY <1>5
  <2> QED
    BY <2>1, <2>2
<1>8. kept[n] = Unique(v)
  BY <1>0, <1>6
<1>9. ASSUME NEW k \in 1..n PROVE kept[k] = KeepFirst(kept[k - 1], v[k])
  <2>1. k \in Nat /\ k > 0
    BY <1>0
  <2>2. Max(1..k) = k /\ (1..k) \ {k} = 1..(k - 1) /\ 1..k # {}
    BY <2>1, LastPosition
  <2>3. 1..k \in SUBSET DOMAIN v
    BY <1>0
  <2>4. f[1..k] = KeepFirst(f[(1..k) \ {Max(1..k)}], v[Max(1..k)])
    BY <1>5, <2>2, <2>3
  <2>5. k \in 0..n /\ k - 1 \in 0..n
    BY <1>0
  <2> QED
    BY <2>2, <2>4, <2>5
<1> HIDE DEF kept
<1> QED
  BY <1>7, <1>8, <1>9 DEF n

(* The order edges are sorted in.                                          *)
LEMMA OrderOfEdges ==
  ASSUME NEW e1 \in CHEdge, NEW e2 \in CHEdge
  PROVE  /\ ~SrcTgtDistLess(e2, e1)
              => SrcTgtLess(e1, e2) \/ (EqualEndpoints(e1, e2) /\ e1.dist <= e2.dist)
         /\ \A e3 \in CHEdge : SrcTgtLess(e1, e2) /\ SrcTgtLess(e2, e3) => SrcTgtLess(e1, e3)
         /\ ~SrcTgtLess(e1, e1)
         /\ e1.src \in Int /\ e1.tgt \in Int /\ e1.dist \in Int
<1>1. \A e \in CHEdge : e.src \in Int /\ e.tgt \in Int /\ e.dist \in Int
  BY SizeAssumption DEF CHEdge, Nodes, Uint
<1> QED
  BY <1>1 DEF SrcTgtDistLess, SrcTgtLess, EqualEndpoints

(* A vector sorted by ends and length.                                     *)
SortedEdges(v) ==
  v \in Seq(CHEdge) /\ \A j, k \in 1..Len(v) : j < k => ~SrcTgtDistLess(v[k], v[j])

(* The edges that stay of the first k: for each of them one with its ends  *)
(* that is no longer, and no two with the same ends.                       *)
Stayed(u, v, k) ==
  /\ u \in Seq(CHEdge) /\ Len(u) <= k
  /\ \A a \in 1..Len(u) : \E m \in 1..k : u[a] = v[m]
  /\ \A a, b \in 1..Len(u) : a < b => SrcTgtLess(u[a], u[b])
  /\ \A m \in 1..k : \E a \in 1..Len(u) : EqualEndpoints(u[a], v[m]) /\ u[a].dist <= v[m].dist
  /\ Len(u) = k => \A a \in 1..k : u[a] = v[a]

(* The next edge stays if its ends are not those of the last one.          *)
LEMMA KeepFirstKeeps ==
  ASSUME NEW v, SortedEdges(v), NEW k \in 1..Len(v), NEW u, Stayed(u, v, k - 1)
  PROVE  Stayed(KeepFirst(u, v[k]), v, k)
<1>1. /\ v \in Seq(CHEdge) /\ Len(v) \in Nat /\ v[k] \in CHEdge /\ k \in Nat
      /\ u \in Seq(CHEdge) /\ Len(u) \in Nat /\ Len(u) <= k - 1
      /\ \A a \in 1..Len(u) : u[a] \in CHEdge
      /\ \A m \in 1..Len(v) : v[m] \in CHEdge
  BY DEF SortedEdges, Stayed
<1>2. /\ \A a \in 1..Len(u) : \E m \in 1..(k - 1) : u[a] = v[m]
      /\ \A a, b \in 1..Len(u) : a < b => SrcTgtLess(u[a], u[b])
      /\ \A m \in 1..(k - 1) : \E a \in 1..Len(u) :
           EqualEndpoints(u[a], v[m]) /\ u[a].dist <= v[m].dist
      /\ Len(u) = k - 1 => \A a \in 1..(k - 1) : u[a] = v[a]
  BY DEF Stayed
<1>3. /\ u # <<>> <=> Len(u) > 0
      /\ Last(u) = u[Len(u)]
  BY <1>1 DEF Last
<1>a. \A m \in 1..(k - 1) : m \in 1..k
  BY <1>1
<1>b. /\ \A a \in 1..Len(u) : \E m \in 1..k : u[a] = v[m]
      /\ \A m \in 1..k : m = k \/ m \in 1..(k - 1)
  <2>1. \A m \in 1..k : m = k \/ m \in 1..(k - 1)
    BY <1>1
  <2> QED
    BY <1>2, <1>a, <2>1
<1>4. CASE u # <<>> /\ EqualEndpoints(Last(u), v[k])
  <2>1. KeepFirst(u, v[k]) = u
    BY <1>4 DEF KeepFirst
  <2>2. PICK n \in 1..Len(u) : u[n] = Last(u)
    BY <1>1, <1>3, <1>4
  <2>3. PICK m \in 1..(k - 1) : u[n] = v[m]
    BY <1>2
  <2>4. ~SrcTgtDistLess(v[k], u[n])
    BY <1>1, <2>3 DEF SortedEdges
  <2>5. EqualEndpoints(u[n], v[k]) /\ u[n].dist <= v[k].dist
    <3>1. u[n] \in CHEdge
      BY <1>1
    <3>2. /\ SrcTgtLess(u[n], v[k]) \/ (EqualEndpoints(u[n], v[k]) /\ u[n].dist <= v[k].dist)
          /\ u[n].src \in Int /\ u[n].tgt \in Int
      BY <1>1, <2>4, <3>1, OrderOfEdges
    <3>3. EqualEndpoints(u[n], v[k])
      BY <1>4, <2>2
    <3> QED
      BY <3>2, <3>3 DEF SrcTgtLess, EqualEndpoints
  <2>7. \A q \in 1..k : \E a \in 1..Len(u) : EqualEndpoints(u[a], v[q]) /\ u[a].dist <= v[q].dist
    <3> TAKE q \in 1..k
    <3>1. q = k \/ q \in 1..(k - 1)
      BY <1>b
    <3> QED
      BY <1>2, <2>5, <3>1
  <2>8. Len(u) <= k /\ Len(u) # k
    BY <1>1
  <2>9. Stayed(u, v, k)
    <3>1. u \in Seq(CHEdge)
      BY <1>1
    <3> QED
      BY <3>1, <1>2, <1>b, <2>7, <2>8 DEF Stayed
  <2> QED
    BY <2>1, <2>9
<1>5. CASE ~(u # <<>> /\ EqualEndpoints(Last(u), v[k]))
  <2>1. PICK w : w = Append(u, v[k])
    OBVIOUS
  <2>2. KeepFirst(u, v[k]) = w
    BY <1>5, <2>1 DEF KeepFirst
  <2>3. /\ w \in Seq(CHEdge) /\ Len(w) = Len(u) + 1 /\ w[Len(u) + 1] = v[k]
        /\ \A a \in 1..Len(u) : w[a] = u[a]
    BY <1>1, <2>1
  <2>4. ASSUME NEW a \in 1..Len(u) PROVE SrcTgtLess(u[a], v[k])
    <3>1. PICK n \in 1..Len(u) : n = Len(u) /\ u[n] = Last(u)
      BY <1>1, <1>3
    <3>2. PICK m \in 1..(k - 1) : u[n] = v[m]
      BY <1>2
    <3>3. ~SrcTgtDistLess(v[k], u[n])
      <4>1. m \in 1..Len(v) /\ k \in 1..Len(v) /\ m < k
        BY <1>1
      <4>2. ~SrcTgtDistLess(v[k], v[m])
        BY <4>1 DEF SortedEdges
      <4> QED
        BY <3>2, <4>2
    <3>4. ~EqualEndpoints(u[n], v[k])
      BY <1>1, <1>3, <1>5, <3>1
    <3>5. u[n] \in CHEdge /\ u[a] \in CHEdge
      BY <1>1
    <3>6. SrcTgtLess(u[n], v[k])
      BY <1>1, <3>3, <3>4, <3>5, OrderOfEdges
    <3>7. a = n \/ a < n
      BY <1>1, <3>1
    <3>8. a = n \/ SrcTgtLess(u[a], u[n])
      BY <1>2, <3>7
    <3> QED
      BY <1>1, <3>5, <3>6, <3>8, OrderOfEdges
  <2>5. \A a \in 1..Len(w) : \E m \in 1..k : w[a] = v[m]
    <3> TAKE a \in 1..Len(w)
    <3>1. a = Len(u) + 1 \/ a \in 1..Len(u)
      <4>1. PICK n \in Nat : n = Len(u) /\ Len(w) = n + 1
        BY <1>1, <2>3
      <4>2. a \in 1..(n + 1)
        BY <4>1
      <4> QED
        BY <4>1, <4>2
    <3>2. k \in 1..k
      BY <1>1
    <3>3. CASE a = Len(u) + 1
      BY <2>3, <3>2, <3>3
    <3>4. CASE a \in 1..Len(u)
      <4>1. w[a] = u[a]
        BY <2>3, <3>4
      <4> QED
        BY <1>b, <3>4, <4>1
    <3> QED
      BY <3>1, <3>3, <3>4
  <2>6. \A a, b \in 1..Len(w) : a < b => SrcTgtLess(w[a], w[b])
    <3> TAKE a, b \in 1..Len(w)
    <3> HAVE a < b
    <3>1. a \in 1..Len(u) /\ (b = Len(u) + 1 \/ b \in 1..Len(u))
      <4>1. PICK n \in Nat : n = Len(u) /\ Len(w) = n + 1
        BY <1>1, <2>3
      <4>2. a \in 1..(n + 1) /\ b \in 1..(n + 1)
        BY <4>1
      <4>3. a \in 1..n /\ (b = n + 1 \/ b \in 1..n)
        BY <4>2
      <4> QED
        BY <4>1, <4>3
    <3> QED
      BY <1>2, <2>3, <2>4, <3>1
  <2>7. \A m \in 1..k : \E a \in 1..Len(w) : EqualEndpoints(w[a], v[m]) /\ w[a].dist <= v[m].dist
    <3> TAKE m \in 1..k
    <3>1. CASE m = k
      <4>1. Len(u) + 1 \in 1..Len(w)
        BY <1>1, <2>3
      <4>2. v[k].dist \in Int
        BY <1>1, OrderOfEdges
      <4> QED
        BY <2>3, <3>1, <4>1, <4>2 DEF EqualEndpoints
    <3>2. CASE m # k
      <4>1. m \in 1..(k - 1)
        BY <1>1, <3>2
      <4>2. PICK a \in 1..Len(u) : EqualEndpoints(u[a], v[m]) /\ u[a].dist <= v[m].dist
        BY <1>2, <4>1
      <4>3. a \in 1..Len(w) /\ w[a] = u[a]
        BY <1>1, <2>3
      <4> QED
        BY <4>2, <4>3
    <3> QED
      BY <3>1, <3>2
  <2>8. Len(w) = k => \A a \in 1..k : w[a] = v[a]
    <3> HAVE Len(w) = k
    <3> TAKE a \in 1..k
    <3>1. Len(u) = k - 1 /\ Len(u) + 1 = k /\ (a = k \/ a \in 1..(k - 1))
      BY <1>1, <1>b, <2>3
    <3> QED
      BY <1>2, <2>3, <3>1
  <2>9. Len(w) <= k
    BY <1>1, <2>3
  <2> QED
    BY <2>2, <2>3, <2>5, <2>6, <2>7, <2>8, <2>9 DEF Stayed
<1> QED
  BY <1>4, <1>5

(* So that is what Unique() leaves of a sorted vector.                     *)
LEMMA UniqueStayed ==
  ASSUME NEW v, SortedEdges(v)
  PROVE  Stayed(Unique(v), v, Len(v))
<1>1. v \in Seq(CHEdge) /\ Len(v) \in Nat
  BY DEF SortedEdges
<1>2. PICK kept : /\ kept[0] = <<>> /\ kept[Len(v)] = Unique(v)
                  /\ \A k \in 1..Len(v) : kept[k] = KeepFirst(kept[k - 1], v[k])
  BY <1>1, UniqueOneByOne
<1> DEFINE P == {k \in Nat : k <= Len(v) => Stayed(kept[k], v, k)}
<1>3. 0 \in P
  <2>1. Stayed(<<>>, v, 0)
    BY DEF Stayed
  <2> QED
    BY <1>2, <2>1
<1>4. \A k \in Nat : k \in P => k + 1 \in P
  <2> TAKE k \in Nat
  <2> HAVE k \in P
  <2> SUFFICES ASSUME k + 1 <= Len(v) PROVE Stayed(kept[k + 1], v, k + 1)
    OBVIOUS
  <2>1. k + 1 \in 1..Len(v) /\ (k + 1) - 1 = k /\ Stayed(kept[k], v, k)
    BY <1>1
  <2>2. PICK n \in 1..Len(v) : n = k + 1 /\ n - 1 = k
    BY <2>1
  <2>3. Stayed(KeepFirst(kept[k], v[n]), v, n)
    BY <2>1, <2>2, KeepFirstKeeps
  <2>4. kept[n] = KeepFirst(kept[k], v[n])
    BY <1>2, <2>2
  <2> QED
    BY <2>2, <2>3, <2>4
<1> HIDE DEF P
<1>5. Nat \subseteq P
  BY <1>3, <1>4, NatSetInduction
<1>6. Len(v) \in P
  BY <1>1, <1>5
<1> QED
  BY <1>1, <1>2, <1>6 DEF P

(* An edge of a line.                                                      *)
LEMMA InputEdgeFields ==
  ASSUME NEW n \in Uint, NEW src \in Nodes, NEW tgt \in Nodes, NEW d \in Uint,
         NEW e, e = InputEdge(n, src, tgt, d)
  PROVE  /\ e \in CHEdge /\ e.id = n /\ e.src = src /\ e.tgt = tgt /\ e.dist = d
         /\ e = InputEdge(e.id, e.src, e.tgt, e.dist)
<1>1. MaxUint \in Uint
  BY SizeAssumption DEF Uint
<1> QED
  BY <1>1 DEF InputEdge, CHEdge, NO_EID, NO_NID

(* It may get another id.                                                  *)
LEMMA NumberedEdge ==
  ASSUME NEW e \in CHEdge, e = InputEdge(e.id, e.src, e.tgt, e.dist), NEW n \in Uint,
         NEW x, x = [e EXCEPT !.id = n]
  PROVE  /\ x \in CHEdge /\ x = InputEdge(x.id, x.src, x.tgt, x.dist)
         /\ x.id = n /\ x.src = e.src /\ x.tgt = e.tgt /\ x.dist = e.dist
<1>1. PICK src \in Nodes, tgt \in Nodes, d \in Uint : src = e.src /\ tgt = e.tgt /\ d = e.dist
  BY DEF CHEdge
<1>2. x = InputEdge(n, src, tgt, d)
  BY <1>1 DEF CHEdge, InputEdge
<1>3. x \in CHEdge /\ x.id = n /\ x.src = src /\ x.tgt = tgt /\ x.dist = d
  BY <1>1 DEF CHEdge
<1>4. x = InputEdge(x.id, x.src, x.tgt, x.dist)
  BY <1>2, <1>3
<1> QED
  BY <1>1, <1>3, <1>4

(* The edges read so far: no loops, and with ids of their own.             *)
AreInputEdges(v) ==
  /\ v \in Seq(CHEdge) /\ Len(v) < NO_EID
  /\ \A k \in 1..Len(v) : /\ v[k] = InputEdge(v[k].id, v[k].src, v[k].tgt, v[k].dist)
                          /\ v[k].id < Len(v) /\ v[k].src # v[k].tgt
  /\ \A j, k \in 1..Len(v) : j < k => v[j].id # v[k].id

(* What the reader delivers of them has for each a no longer edge with the *)
(* same ends, and no others.                                               *)
LEMMA DuplicatesRemoved ==
  ASSUME AreInputEdges(edges), SortedEdges(edges), RemoveDuplicates
  PROVE  /\ IsInputGraph(edges')
         /\ \A m \in 1..Len(edges') : \E k \in 1..Len(edges) :
              EqualEndpoints(edges'[m], edges[k]) /\ edges'[m].dist = edges[k].dist
         /\ \A k \in 1..Len(edges) : \E m \in 1..Len(edges') :
              EqualEndpoints(edges'[m], edges[k]) /\ edges'[m].dist <= edges[k].dist
<1> DEFINE u == Unique(edges)
<1>0. edges \in Seq(CHEdge) /\ Len(edges) \in Nat /\ Len(edges) < NO_EID
  BY DEF AreInputEdges
<1>1. Stayed(u, edges, Len(edges))
  BY UniqueStayed
<1>2. edges' = IF Len(u) = Len(edges) THEN u ELSE [k \in DOMAIN u |-> [u[k] EXCEPT !.id = k - 1]]
  BY DEF RemoveDuplicates
<1> HIDE DEF u
<1>3. /\ u \in Seq(CHEdge) /\ Len(u) \in Nat /\ Len(u) <= Len(edges)
      /\ \A a \in 1..Len(u) : u[a] \in CHEdge
  BY <1>1 DEF Stayed
<1>4. /\ \A a \in 1..Len(u) : \E m \in 1..Len(edges) : u[a] = edges[m]
      /\ \A a, b \in 1..Len(u) : a < b => SrcTgtLess(u[a], u[b])
      /\ \A m \in 1..Len(edges) : \E a \in 1..Len(u) :
           EqualEndpoints(u[a], edges[m]) /\ u[a].dist <= edges[m].dist
      /\ Len(u) = Len(edges) => \A a \in 1..Len(edges) : u[a] = edges[a]
  BY <1>1 DEF Stayed
<1>5. \A a \in 1..Len(u) : u[a] = InputEdge(u[a].id, u[a].src, u[a].tgt, u[a].dist) /\ u[a].src # u[a].tgt
  <2> TAKE a \in 1..Len(u)
  <2>1. PICK m \in 1..Len(edges) : u[a] = edges[m]
    BY <1>4
  <2>2. /\ edges[m] = InputEdge(edges[m].id, edges[m].src, edges[m].tgt, edges[m].dist)
        /\ edges[m].src # edges[m].tgt
    BY DEF AreInputEdges
  <2> QED
    BY <2>1, <2>2
<1>6. CASE Len(u) = Len(edges)
  <2>1. edges' = u
    BY <1>2, <1>6
  <2>2. /\ \A a \in 1..Len(edges) : edges[a].id < Len(edges)
        /\ \A a, b \in 1..Len(edges) : a < b => edges[a].id # edges[b].id
    BY DEF AreInputEdges
  <2>3. /\ \A a \in 1..Len(u) : u[a].id < Len(u)
        /\ \A a, b \in 1..Len(u) : a < b => u[a].id # u[b].id
    BY <1>4, <1>6, <2>2
  <2>4. IsInputGraph(u)
    BY <1>0, <1>3, <1>4, <1>5, <1>6, <2>3 DEF IsInputGraph
  <2> QED
    BY <1>4, <2>1, <2>4 DEF EqualEndpoints
<1>7. CASE Len(u) # Len(edges)
  <2>0. DOMAIN u = 1..Len(u)
    BY <1>3
  <2>1. PICK w : w = [k \in 1..Len(u) |-> [u[k] EXCEPT !.id = k - 1]]
    OBVIOUS
  <2>2. edges' = w
    BY <1>2, <1>7, <2>0, <2>1
  <2>3. ASSUME NEW k \in 1..Len(u)
        PROVE  /\ w[k] \in CHEdge /\ w[k] = InputEdge(w[k].id, w[k].src, w[k].tgt, w[k].dist)
               /\ w[k].id = k - 1 /\ w[k].src = u[k].src /\ w[k].tgt = u[k].tgt
               /\ w[k].dist = u[k].dist
    <3>1. PICK n : n = k - 1
      OBVIOUS
    <3>2. n \in Uint
      BY <1>0, <1>3, <3>1, SizeAssumption DEF Uint, NO_EID
    <3>3. PICK x : x = w[k]
      OBVIOUS
    <3>4. x = [u[k] EXCEPT !.id = n]
      BY <2>1, <3>1, <3>3
    <3>5. u[k] \in CHEdge /\ u[k] = InputEdge(u[k].id, u[k].src, u[k].tgt, u[k].dist)
      BY <1>3, <1>5
    <3>6. /\ x \in CHEdge /\ x = InputEdge(x.id, x.src, x.tgt, x.dist)
          /\ x.id = n /\ x.src = u[k].src /\ x.tgt = u[k].tgt /\ x.dist = u[k].dist
      BY <3>2, <3>4, <3>5, NumberedEdge
    <3> QED
      BY <3>1, <3>3, <3>6
  <2>4. w \in Seq(CHEdge) /\ Len(w) = Len(u)
    <3>1. w = [k \in 1..Len(u) |-> w[k]]
      BY <2>1
    <3>2. w \in [1..Len(u) -> CHEdge]
      BY <2>3, <3>1
    <3> QED
      BY <1>3, <3>2
  <2>5. IsInputGraph(w)
    <3>1. Len(w) < NO_EID
      BY <1>0, <1>3, <2>4, SizeAssumption DEF NO_EID
    <3>2. \A k \in 1..Len(w) : /\ w[k] = InputEdge(w[k].id, w[k].src, w[k].tgt, w[k].dist)
                               /\ w[k].id < Len(w) /\ w[k].src # w[k].tgt
      <4> TAKE k \in 1..Len(w)
      <4>1. k \in 1..Len(u)
        BY <2>4
      <4>2. w[k].id = k - 1 /\ w[k] = InputEdge(w[k].id, w[k].src, w[k].tgt, w[k].dist)
        BY <2>3, <4>1
      <4>3. w[k].src # w[k].tgt
        BY <1>5, <2>3, <4>1
      <4> QED
        BY <1>3, <2>4, <4>2, <4>3
    <3>3. \A j, k \in 1..Len(w) : j < k => SrcTgtLess(w[j], w[k]) /\ w[j].id # w[k].id
      <4> TAKE j, k \in 1..Len(w)
      <4> HAVE j < k
      <4>1. j \in 1..Len(u) /\ k \in 1..Len(u)
        BY <2>4
      <4>2. SrcTgtLess(w[j], w[k])
        <5>1. SrcTgtLess(u[j], u[k])
          BY <1>4, <4>1
        <5>2. w[j].src = u[j].src /\ w[j].tgt = u[j].tgt /\ w[k].src = u[k].src /\ w[k].tgt = u[k].tgt
          BY <2>3, <4>1
        <5> QED
          BY <5>1, <5>2 DEF SrcTgtLess
      <4>3. w[j].id = j - 1 /\ w[k].id = k - 1
        BY <2>3, <4>1
      <4> QED
        BY <4>2, <4>3
    <3> QED
      BY <2>4, <3>1, <3>2, <3>3 DEF IsInputGraph
  <2>6. \A m \in 1..Len(w) : \E k \in 1..Len(edges) :
          EqualEndpoints(w[m], edges[k]) /\ w[m].dist = edges[k].dist
    <3> TAKE m \in 1..Len(w)
    <3>1. m \in 1..Len(u)
      BY <2>4
    <3>2. PICK k \in 1..Len(edges) : u[m] = edges[k]
      BY <1>4, <3>1
    <3>3. w[m].src = u[m].src /\ w[m].tgt = u[m].tgt /\ w[m].dist = u[m].dist
      BY <2>3, <3>1
    <3>4. EqualEndpoints(w[m], edges[k]) /\ w[m].dist = edges[k].dist
      BY <3>2, <3>3 DEF EqualEndpoints
    <3> QED
      BY <3>4
  <2>7. \A k \in 1..Len(edges) : \E m \in 1..Len(w) :
          EqualEndpoints(w[m], edges[k]) /\ w[m].dist <= edges[k].dist
    <3> TAKE k \in 1..Len(edges)
    <3>1. PICK a \in 1..Len(u) : EqualEndpoints(u[a], edges[k]) /\ u[a].dist <= edges[k].dist
      BY <1>4
    <3>2. a \in 1..Len(w) /\ w[a].src = u[a].src /\ w[a].tgt = u[a].tgt /\ w[a].dist = u[a].dist
      BY <2>3, <2>4
    <3>3. EqualEndpoints(w[a], edges[k]) /\ w[a].dist <= edges[k].dist
      BY <3>1, <3>2 DEF EqualEndpoints
    <3> QED
      BY <3>2, <3>3
  <2> QED
    BY <2>2, <2>5, <2>6, <2>7
<1> QED
  BY <1>6, <1>7

(* Edges with ids of their own are as many as their set has elements.      *)
LEMMA NumberOfEdges ==
  ASSUME NEW v \in Seq(CHEdge), \A j, k \in 1..Len(v) : j < k => v[j].id # v[k].id
  PROVE  /\ Range(v) = {v[k] : k \in 1..Len(v)}
         /\ IsFiniteSet(Range(v)) /\ Cardinality(Range(v)) = Len(v)
<1>1. Len(v) \in Nat /\ DOMAIN v = 1..Len(v)
  OBVIOUS
<1>2. Range(v) = {v[k] : k \in 1..Len(v)}
  BY <1>1 DEF Range
<1>3. v \in [1..Len(v) -> Range(v)]
  <2>1. v = [k \in 1..Len(v) |-> v[k]]
    OBVIOUS
  <2> QED
    BY <1>2, <2>1
<1>4. \A j, k \in 1..Len(v) : v[j] = v[k] => j = k
  BY <1>1
<1>5. v \in Bijection(1..Len(v), Range(v))
  BY <1>2, <1>3, <1>4 DEF Bijection, Injection, Surjection, IsInjective
<1>6. IsFiniteSet(1..Len(v)) /\ Cardinality(1..Len(v)) = Len(v)
  BY <1>1, FS_Interval
<1> QED
  BY <1>2, <1>5, <1>6, FS_Bijection DEF ExistsBijection

(* Sorting them changes their order only.                                  *)
LEMMA EdgesAreSorted ==
  ASSUME AreInputEdges(edges), SortEdges
  PROVE  /\ AreInputEdges(edges') /\ SortedEdges(edges') /\ Len(edges') = Len(edges)
         /\ \A m \in 1..Len(edges') : \E k \in 1..Len(edges) : edges'[m] = edges[k]
         /\ \A k \in 1..Len(edges) : \E m \in 1..Len(edges') : edges'[m] = edges[k]
<1> DEFINE S == Range(edges)
           order == {p \in S \X S : SrcTgtDistLess(p[1], p[2])}
<1>1. edges \in Seq(CHEdge) /\ Len(edges) \in Nat /\ Len(edges) < NO_EID
  BY DEF AreInputEdges
<1>2. S = {edges[k] : k \in 1..Len(edges)} /\ IsFiniteSet(S) /\ Cardinality(S) = Len(edges)
  BY <1>1, NumberOfEdges DEF AreInputEdges
<1>3. PICK w : w = edges'
  OBVIOUS
<1>4. w \in Sortings(S, order)
  BY <1>3 DEF SortEdges
<1> HIDE DEF S
<1>5. IsSorting(w, S, order)
  <2> HIDE DEF order
  <2> QED
    BY <1>2, <1>4, SortingsAreSortings
<1>6. /\ w \in Seq(S) /\ Len(w) = Len(edges)
      /\ \A x \in S : \E k \in 1..Len(w) : w[k] = x
      /\ \A j, k \in 1..Len(w) : j < k => w[j] # w[k] /\ <<w[k], w[j]>> \notin order
  BY <1>2, <1>5 DEF IsSorting
<1>7. \A m \in 1..Len(w) : w[m] \in S
  BY <1>6
<1>8. \A m \in 1..Len(w) : \E k \in 1..Len(edges) : w[m] = edges[k]
  BY <1>2, <1>7
<1>9. \A k \in 1..Len(edges) : \E m \in 1..Len(w) : w[m] = edges[k]
  BY <1>2, <1>6
<1>10. w \in Seq(CHEdge)
  <2>1. \A k \in 1..Len(edges) : edges[k] \in CHEdge
    BY <1>1
  <2>2. \A m \in 1..Len(w) : w[m] \in CHEdge
    BY <1>8, <2>1
  <2>3. w = [m \in 1..Len(w) |-> w[m]] /\ Len(w) \in Nat
    BY <1>6
  <2> QED
    BY <2>2, <2>3
<1>11. SortedEdges(w)
  <2>1. \A j, k \in 1..Len(w) : j < k => ~SrcTgtDistLess(w[k], w[j])
    BY <1>6, <1>7
  <2> QED
    BY <1>10, <2>1 DEF SortedEdges
<1>12. AreInputEdges(w)
  <2>1. \A m \in 1..Len(w) : /\ w[m] = InputEdge(w[m].id, w[m].src, w[m].tgt, w[m].dist)
                             /\ w[m].id < Len(w) /\ w[m].src # w[m].tgt
    <3> TAKE m \in 1..Len(w)
    <3>1. PICK k \in 1..Len(edges) : w[m] = edges[k]
      BY <1>8
    <3>2. /\ edges[k] = InputEdge(edges[k].id, edges[k].src, edges[k].tgt, edges[k].dist)
          /\ edges[k].id < Len(edges) /\ edges[k].src # edges[k].tgt
      BY DEF AreInputEdges
    <3> QED
      BY <1>6, <3>1, <3>2
  <2>2. \A j, k \in 1..Len(w) : j < k => w[j].id # w[k].id
    <3> SUFFICES ASSUME NEW j \in 1..Len(w), NEW k \in 1..Len(w), j < k, w[j].id = w[k].id
                 PROVE  FALSE
      OBVIOUS
    <3>1. PICK a \in 1..Len(edges) : w[j] = edges[a]
      BY <1>8
    <3>2. PICK b \in 1..Len(edges) : w[k] = edges[b]
      BY <1>8
    <3>3. ~(a < b) /\ ~(b < a)
      BY <3>1, <3>2 DEF AreInputEdges
    <3>4. a = b
      BY <1>1, <3>3
    <3> QED
      BY <1>6, <3>1, <3>2, <3>4
  <2> QED
    BY <1>1, <1>6, <1>10, <2>1, <2>2 DEF AreInputEdges
<1> QED
  BY <1>3, <1>6, <1>8, <1>9, <1>11, <1>12

-----------------------------------------------------------------------------
(***************************************************************************)
(* Where the reader is in its file.                                        *)
(***************************************************************************)

(* The file was written from what the program was started with.            *)
FileInv ==
  /\ \E start \in Starts : file = start.file
  /\ IsFile(file) /\ text = Text(file)

(* A line is kept if its length is not negative and it is no loop.  The    *)
(* edge made of it has one of its lengths; a shorter one may take its place*)
KeptRow(r) == r.dist >= 0 /\ r.src # r.tgt

IsEdgeOf(e, r) == KeptRow(r) /\ e.src = r.src /\ e.tgt = r.tgt /\ e.dist \in LengthsOf(r)

NoLonger(e, r) == e.src = r.src /\ e.tgt = r.tgt /\ \E d \in LengthsOf(r) : e.dist <= d

(* The edges of v are made of the first k lines of edges, and each of those*)
(* that are kept has one.                                                  *)
FromRows(v, k) ==
  /\ \A m \in 1..Len(v) : \E j \in 1..k : IsEdgeOf(v[m], file.edges[j])
  /\ \A j \in 1..k : KeptRow(file.edges[j]) => \E m \in 1..Len(v) : NoLonger(v[m], file.edges[j])

(* Edges with the ids 0, 1, .. in this order.                              *)
NumberedEdges(v) ==
  /\ v \in Seq(CHEdge)
  /\ \A m \in 1..Len(v) : /\ v[m] = InputEdge(m - 1, v[m].src, v[m].tgt, v[m].dist)
                          /\ v[m].src # v[m].tgt

(* The row with the number k of those of nodes and of those of edges.      *)
AfterNode(k) == AfterRow(file, HeaderRows(file) + k)

AfterEdge(k) == AfterRow(file, HeaderRows(file) + file.nr_of_nodes + k)

(* The loop has read k lines of edges: it has given away i ids, and as many*)
(* lines as it dropped are missing from nr_of_edges.                       *)
EdgesReadTo(k) ==
  /\ k <= file.announced /\ i \in 0..k /\ nr_of_edges = file.announced - k + i
  /\ is = AfterEdge(k)
  /\ Len(edges) = i /\ NumberedEdges(edges) /\ FromRows(edges, k)

(* All lines announced are read.                                           *)
AllRead == file.announced <= Len(file.edges) /\ FromRows(edges, file.announced)

(* Read in its own format, the file is read row by row.                    *)
InOrder ==
  /\ stage = "metadata" =>
       HasMetadata(informat) /\ (is = BeforeRow(file, 1) \/ is = BeforeRow(file, 2))
  /\ stage = "counts" => is = BeforeRow(file, HeaderRows(file) - 1)
  /\ stage = "nodes" => /\ nr_of_nodes = file.nr_of_nodes /\ nr_of_edges = file.announced
                        /\ i \in 0..nr_of_nodes /\ is = AfterNode(i)
  /\ stage = "edges" => \E k \in 0..Len(file.edges) : EdgesReadTo(k)
  /\ stage = "sorted" => AreInputEdges(edges) /\ SortedEdges(edges) /\ AllRead
  /\ Delivered => IsInputGraph(edges) /\ AllRead

(* In a format with other fields, but without metadata, too, the numbers of*)
(* the header are read, and then nothing else.                             *)
OtherFields ==
  /\ ~HasMetadata(file.layout) /\ ~HasMetadata(informat)
  /\ NodeFields(file.layout) # NodeFields(informat)

(* In a format with other metadata there is no number to be read at all.   *)
Misread ==
  /\ stage = "metadata" => ~HasMetadata(file.layout) /\ AtLineBegin(text, is)
  /\ stage = "counts" => /\ is \in Streams(text)
                         /\ NoNumber(text, is) \/ (OtherFields /\ is = BeforeRow(file, 1))
  /\ stage = "nodes" => /\ i = 0
                        /\ \/ nr_of_nodes = 0 /\ nr_of_edges = 0
                           \/ /\ nr_of_nodes = file.nr_of_nodes /\ nr_of_edges = file.announced
                              /\ OtherFields /\ is = AfterRow(file, 2)
  /\ stage = "edges" => /\ i = 0 /\ nr_of_nodes = 0
                        /\ nr_of_edges = 0 \/ is = AfterRow(file, NrOfRows(file))
  /\ stage \in {"edges", "sorted"} \/ Delivered => nr_of_nodes = 0 /\ edges = <<>>

(* The formats are known before the input is opened, and there are no edges*)
(* before the nodes are read.  Nothing stops the program if all is in order*)
ReaderInv ==
  /\ FileInv
  /\ stage \in AfterTypes => /\ informat \in DOMAIN ReaderTypes
                             /\ IF RightLayout THEN InOrder ELSE Misread
  /\ stage \in {"options", "metadata", "counts", "nodes"} => edges = <<>>
  /\ CompleteFilesAreRead

(* It is there before the options are read.                                *)
LEMMA InitReaderInv == ProgramInit => ReaderInv
<1> SUFFICES ASSUME ProgramInit PROVE ReaderInv
  OBVIOUS
<1>1. stage = "options" /\ edges = <<>> /\ "options" \notin AfterTypes
  BY DEF ProgramInit, ReaderInit, AfterTypes
<1>2. PICK start \in Starts : file = start.file /\ text = Text(start.file)
  BY DEF ProgramInit
<1>3. FileInv
  BY <1>2, StartsAssumption DEF FileInv
<1> QED
  BY <1>1, <1>3 DEF ReaderInv, CompleteFilesAreRead

(* The file stays what it was.                                             *)
LEMMA FileStays ==
  ASSUME FileInv, file' = file, text' = text
  PROVE  FileInv'
BY DEF FileInv

(* Whoever is neither in the reader nor behind it keeps the invariant.     *)
LEMMA OutsideReader ==
  ASSUME ReaderInv, file' = file, text' = text, stage' \notin AfterTypes, stage' # "aborted",
         stage' = "options" => edges' = <<>>
  PROVE  ReaderInv'
<1>1. FileInv'
  BY FileStays DEF ReaderInv
<1> QED
  BY <1>1 DEF ReaderInv, CompleteFilesAreRead, AfterTypes

(* So do the options.                                                      *)
LEMMA ParseOptionsKeepsReader ==
  ASSUME ReaderInv, ParseOptions
  PROVE  ReaderInv'
<1>1. stage = "options" /\ file' = file /\ text' = text /\ edges' = edges
  BY DEF ParseOptions, Help, SetOption, SetInformat, SetThreads, UnknownOption, NextOption,
         stream_vars
<1>2. stage' \in {"options", "exit_0", "exit_1", "terminated"}
  BY <1>1 DEF ParseOptions, Help, SetOption, SetInformat, SetThreads, UnknownOption, NextOption,
              stream_vars
<1>3. edges' = <<>>
  BY <1>1 DEF ReaderInv
<1> QED
  BY <1>1, <1>2, <1>3, OutsideReader DEF AfterTypes

(* The program stops in the reader or before it.                           *)
LEMMA AbortsForCause ==
  ASSUME ReaderInv, stage' = "aborted", file' = file, text' = text, informat' = informat,
         options' = options,
         ~(RecordsInOrder /\ file.ends_with_newline /\ OptionsInOrder)
  PROVE  ReaderInv'
<1>1. FileInv'
  BY FileStays DEF ReaderInv
<1>2. ~(RecordsInOrder /\ file.ends_with_newline /\ OptionsInOrder)'
  BY DEF RecordsInOrder, OptionsInOrder, RightLayout
<1> QED
  BY <1>1, <1>2 DEF ReaderInv, CompleteFilesAreRead, AfterTypes

(* The stream is opened where the first row begins.                        *)
LEMMA OpenedBeforeRow ==
  ASSUME NEW f, IsFile(f)
  PROVE  /\ OpenedStream = BeforeRow(f, 1) /\ OpenedStream \in Streams(Text(f))
         /\ ~HasMetadata(f.layout) => HeaderRows(f) - 1 = 1
         /\ HasMetadata(f.layout) => NoNumber(Text(f), OpenedStream)
<1>1. RowEnds(f)[0] = 0 /\ Len(Text(f)) \in Nat
  BY TextOfFile
<1>2. OpenedStream \in Streams(Text(f))
  BY <1>1 DEF OpenedStream, Streams
<1>3. OpenedStream = BeforeRow(f, 1)
  <2>1. 1 - 1 = 0
    OBVIOUS
  <2> QED
    BY <1>1, <2>1 DEF OpenedStream, BeforeRow
<1>4. ASSUME HasMetadata(f.layout) PROVE NoNumber(Text(f), OpenedStream)
  <2>1. Len(Text(f)) >= 4 /\ Text(f)[1] = Word
    BY <1>4, MetadataRows
  <2>2. OpenedStream.pos = 0 /\ 0 + 1 = 1
    BY DEF OpenedStream
  <2> QED
    BY <1>1, <2>1, <2>2 DEF NoNumber
<1>5. ~HasMetadata(f.layout) => HeaderRows(f) - 1 = 1
  BY DEF HeaderRows
<1> QED
  BY <1>2, <1>3, <1>4, <1>5

(* The input is opened if its format is known and the types can be read.   *)
LEMMA OpenInputKeepsReader ==
  ASSUME ReaderInv, OpenInput
  PROVE  ReaderInv'
<1>1. /\ stage = "options" /\ informat \in DOMAIN ReaderTypes
      /\ file' = file /\ text' = text /\ informat' = informat /\ edges' = edges
      /\ is' = OpenedStream
      /\ stage' = IF HasMetadata(informat) THEN "metadata" ELSE "counts"
  BY DEF OpenInput, OpenStream, FormatsKnown, HasInfile, OptionsParsed
<1>2. edges' = <<>> /\ FileInv /\ IsFile(file) /\ text = Text(file)
  BY <1>1 DEF ReaderInv, FileInv
<1>3. FileInv'
  BY <1>1, <1>2, FileStays
<1>4. /\ OpenedStream = BeforeRow(file, 1) /\ OpenedStream \in Streams(text)
      /\ ~HasMetadata(file.layout) => HeaderRows(file) - 1 = 1
      /\ HasMetadata(file.layout) => NoNumber(text, OpenedStream)
  BY <1>2, OpenedBeforeRow
<1>5. RightLayout' <=> RightLayout
  BY <1>1 DEF RightLayout
<1>6. stage' \in {"metadata", "counts"} /\ stage' # "aborted"
  BY <1>1
<1>7. ASSUME RightLayout PROVE InOrder'
  <2>1. HasMetadata(file.layout) = HasMetadata(informat)
    BY <1>7 DEF RightLayout
  <2>2. CASE HasMetadata(informat)
    BY <1>1, <1>4, <2>2 DEF InOrder, Delivered
  <2>3. CASE ~HasMetadata(informat)
    <3>1. stage' = "counts" /\ is' = BeforeRow(file', HeaderRows(file') - 1)
      BY <1>1, <1>4, <2>1, <2>3
    <3> QED
      BY <3>1 DEF InOrder, Delivered
  <2> QED
    BY <2>2, <2>3
<1>8. ASSUME ~RightLayout PROVE Misread'
  <2>1. file.layout \in DOMAIN ReaderTypes
    BY <1>2 DEF IsFile
  <2>2. /\ HasMetadata(informat) => NodeFields(informat) = 5 /\ EdgeFields(informat) = 5
        /\ HasMetadata(file.layout) => NodeFields(file.layout) = 5 /\ EdgeFields(file.layout) = 5
        /\ NodeFields(informat) = NodeFields(file.layout)
             => EdgeFields(informat) = EdgeFields(file.layout)
    BY <1>1, <2>1, FieldsOfFormats
  <2>3. CASE HasMetadata(informat)
    <3>1. ~HasMetadata(file.layout)
      BY <1>8, <2>2, <2>3 DEF RightLayout, HasMetadata
    <3>2. AtLineBegin(text', is')
      <4>1. OpenedStream.pos = 0
        BY DEF OpenedStream
      <4> QED
        BY <1>1, <1>4, <4>1 DEF AtLineBegin
    <3>3. stage' = "metadata"
      BY <1>1, <2>3
    <3> QED
      BY <1>1, <3>1, <3>2, <3>3 DEF Misread, Delivered
  <2>4. CASE ~HasMetadata(informat)
    <3>1. stage' = "counts"
      BY <1>1, <2>4
    <3>2. NoNumber(text', is') \/ OtherFields'
      <4>1. CASE HasMetadata(file.layout)
        BY <1>1, <1>4, <4>1
      <4>2. CASE ~HasMetadata(file.layout)
        <5>1. NodeFields(file.layout) # NodeFields(informat)
          BY <1>8, <2>2, <2>4, <4>2 DEF RightLayout, HasMetadata
        <5> QED
          BY <1>1, <2>4, <4>2, <5>1 DEF OtherFields
      <4> QED
        BY <4>1, <4>2
    <3>3. is' \in Streams(text') /\ is' = BeforeRow(file', 1)
      BY <1>1, <1>4
    <3> QED
      BY <3>1, <3>2, <3>3 DEF Misread, Delivered
  <2> QED
    BY <2>3, <2>4
<1> QED
  BY <1>1, <1>2, <1>3, <1>5, <1>6, <1>7, <1>8 DEF ReaderInv, CompleteFilesAreRead

(* Otherwise the program stops.                                            *)
LEMMA ChooseTypesKeepsReader ==
  ASSUME ReaderInv, ChooseTypes
  PROVE  ReaderInv'
<1> USE DEF HasInfile, OptionsParsed, FormatsKnown
<1>1. CASE NoInfile \/ UnknownOutputFormat \/ UnknownInputFormat
  <2>1. stage' = "exit_1" /\ file' = file /\ text' = text
    BY <1>1 DEF NoInfile, UnknownOutputFormat, UnknownInputFormat, Stop
  <2> QED
    BY <2>1, OutsideReader DEF AfterTypes
<1>2. CASE CannotOpenInput \/ CannotReadTypes
  <2>1. /\ stage' = "aborted" /\ file' = file /\ text' = text /\ informat' = informat
        /\ options' = options
    BY <1>2 DEF CannotOpenInput, CannotReadTypes, Stop
  <2>2. ~OptionsInOrder
    BY <1>2 DEF CannotOpenInput, CannotReadTypes, OptionsInOrder, GraphTypes
  <2> QED
    BY <2>1, <2>2, AbortsForCause
<1>3. CASE OpenInput
  BY <1>3, OpenInputKeepsReader
<1> QED
  BY <1>1, <1>2, <1>3 DEF ChooseTypes

(* What lines are kept does not change.                                    *)
LEMMA RowsStay ==
  ASSUME file' = file, informat' = informat
  PROVE  /\ \A e, r : (IsEdgeOf(e, r)' <=> IsEdgeOf(e, r)) /\ (NoLonger(e, r)' <=> NoLonger(e, r))
         /\ \A v, k : FromRows(v, k)' <=> FromRows(v, k)
<1>1. \A r : LengthsOf(r)' = LengthsOf(r)
  BY DEF LengthsOf
<1>2. \A e, r : (IsEdgeOf(e, r)' <=> IsEdgeOf(e, r)) /\ (NoLonger(e, r)' <=> NoLonger(e, r))
  BY <1>1 DEF IsEdgeOf, NoLonger, KeptRow
<1>3. \A v, k : FromRows(v, k)' <=> FromRows(v, k)
  BY <1>2 DEF FromRows
<1> QED
  BY <1>2, <1>3

(* Behind the reader nothing changes but the stage.                        *)
LEMMA BuildAndStoreKeepsReader ==
  ASSUME ReaderInv, OutputInv, BuildAndStore
  PROVE  ReaderInv'
<1>1. /\ Delivered /\ file' = file /\ text' = text /\ informat' = informat /\ options' = options
      /\ is' = is /\ nr_of_nodes' = nr_of_nodes /\ nr_of_edges' = nr_of_edges /\ i' = i
      /\ edges' = edges
  BY DEF BuildAndStore, BuildHierarchy, CannotOpenOutput, OpenOutput, WriteHierarchy, Stop,
         stream_vars, count_vars, Delivered
<1>2. stage' \in {"built", "opened", "terminated", "exit_0", "aborted"}
  BY DEF BuildAndStore, BuildHierarchy, CannotOpenOutput, OpenOutput, WriteHierarchy, Stop
<1>3. CASE stage' \in {"terminated", "exit_0"}
  BY <1>1, <1>3, OutsideReader DEF AfterTypes
<1>4. CASE stage' = "aborted"
  <2>1. ~OptionsInOrder
    <3>1. stage = "opened" => CanWrite(options.outformat, GraphTypes(informat, options.outformat))
      BY TypesCanBeWritten DEF OutputInv, AfterTypes
    <3>2. CannotOpenOutput
      BY <1>4, <3>1 DEF BuildAndStore, BuildHierarchy, OpenOutput, WriteHierarchy, Stop
    <3> QED
      BY <3>2 DEF CannotOpenOutput, OptionsInOrder
  <2> QED
    BY <1>1, <1>4, <2>1, AbortsForCause
<1>5. CASE stage' \in {"built", "opened"}
  <2>1. FileInv'
    BY <1>1, FileStays DEF ReaderInv
  <2>2. informat \in DOMAIN ReaderTypes /\ IF RightLayout THEN InOrder ELSE Misread
    BY <1>1 DEF ReaderInv, Delivered, AfterTypes
  <2>3. RightLayout' <=> RightLayout
    BY <1>1 DEF RightLayout
  <2>4. ASSUME RightLayout PROVE InOrder'
    <3>1. IsInputGraph(edges) /\ file.announced <= Len(file.edges) /\ FromRows(edges, file.announced)
      BY <1>1, <2>2, <2>4 DEF InOrder, AllRead
    <3>2. PICK v, k : v = edges /\ k = file.announced /\ FromRows(v, k)
      BY <3>1
    <3>3. FromRows(v, k)' /\ edges' = v /\ file'.announced = k
      BY <1>1, <3>2, RowsStay
    <3>4. FromRows(edges, file.announced)'
      BY <3>3 DEF FromRows
    <3>5. IsInputGraph(edges')
      BY <1>1, <3>1
    <3> QED
      BY <1>1, <1>5, <3>1, <3>4, <3>5 DEF InOrder, AllRead
  <2>5. ASSUME ~RightLayout PROVE Misread'
    <3>1. nr_of_nodes = 0 /\ edges = <<>>
      BY <1>1, <2>2, <2>5 DEF Misread
    <3> QED
      BY <1>1, <1>5, <3>1 DEF Misread
  <2> QED
    BY <1>1, <1>5, <2>1, <2>2, <2>3, <2>4, <2>5 DEF ReaderInv, CompleteFilesAreRead
<1> QED
  BY <1>2, <1>3, <1>4, <1>5

-----------------------------------------------------------------------------
(* A step of the reader keeps the invariant if it keeps what holds where it*)
(* is.                                                                     *)
LEMMA ReaderGoesOn ==
  ASSUME ReaderInv, stage \in AfterTypes, file' = file, text' = text, informat' = informat,
         stage' \in AfterTypes, stage' \in {"metadata", "counts", "nodes"} => edges' = <<>>,
         RightLayout => InOrder', ~RightLayout => Misread'
  PROVE  ReaderInv'
<1>1. FileInv' /\ informat' \in DOMAIN ReaderTypes
  BY FileStays DEF ReaderInv
<1>2. RightLayout' <=> RightLayout
  BY DEF RightLayout
<1> QED
  BY <1>1, <1>2 DEF ReaderInv, CompleteFilesAreRead, AfterTypes

(* What is known of the file in the reader.                                *)
LEMMA InReader ==
  ASSUME ReaderInv, stage \in AfterTypes
  PROVE  /\ IsFile(file) /\ text = Text(file)
         /\ informat \in DOMAIN ReaderTypes /\ file.layout \in DOMAIN ReaderTypes
         /\ RightLayout => InOrder
         /\ ~RightLayout => Misread
BY DEF ReaderInv, FileInv, IsFile

(* Metadata is skipped up to the empty line.                               *)
LEMMA ReadMetadataKeepsReader ==
  ASSUME ReaderInv, ReadMetadata
  PROVE  ReaderInv'
<1>1. /\ stage = "metadata" /\ file' = file /\ text' = text /\ informat' = informat
      /\ edges' = edges
      /\ is' = GetLine(text, is, line).is
      /\ stage' = IF GetLine(text, is, line).line = "" THEN "counts" ELSE stage
  BY DEF ReadMetadata, MetadataEnds
<1>2. stage \in AfterTypes /\ stage' \in {"metadata", "counts"} /\ stage' \in AfterTypes /\ edges' = <<>>
  BY <1>1 DEF AfterTypes, ReaderInv
<1>3. /\ IsFile(file) /\ text = Text(file)
      /\ RightLayout => InOrder
      /\ ~RightLayout => Misread
  BY <1>2, InReader
<1>4. ASSUME RightLayout PROVE InOrder'
  <2>1. HasMetadata(file.layout) /\ HasMetadata(informat)
    BY <1>1, <1>3, <1>4 DEF InOrder, RightLayout
  <2>2. /\ GetLine(Text(file), BeforeRow(file, 1), line).is = BeforeRow(file, 2)
        /\ GetLine(Text(file), BeforeRow(file, 1), line).line # ""
        /\ GetLine(Text(file), BeforeRow(file, 2), line).is = BeforeRow(file, 3)
        /\ GetLine(Text(file), BeforeRow(file, 2), line).line = ""
    BY <1>3, <2>1, MetadataRead
  <2>3. CASE is = BeforeRow(file, 1)
    <3>1. is' = BeforeRow(file', 2) /\ stage' = "metadata"
      BY <1>1, <1>3, <2>2, <2>3
    <3> QED
      BY <1>1, <2>1, <3>1 DEF InOrder, Delivered
  <2>4. CASE is = BeforeRow(file, 2)
    <3>1. is' = BeforeRow(file', 3) /\ stage' = "counts"
      BY <1>1, <1>3, <2>2, <2>4
    <3>2. HeaderRows(file') - 1 = 3
      <4>1. HeaderRows(file) = 4
        BY <1>3, <2>1, MetadataRows
      <4>2. HeaderRows(file') = 4
        BY <1>1, <4>1
      <4> QED
        BY <4>2
    <3> QED
      BY <3>1, <3>2 DEF InOrder, Delivered
  <2> QED
    BY <1>1, <1>3, <1>4, <2>3, <2>4 DEF InOrder
<1>5. ASSUME ~RightLayout PROVE Misread'
  <2>1. ~HasMetadata(file.layout) /\ AtLineBegin(Text(file), is)
    BY <1>1, <1>3, <1>5 DEF Misread
  <2>2. /\ AtLineBegin(Text(file), is')
        /\ stage' = "counts" => is'.fail = TRUE
    BY <1>1, <1>3, <2>1, LineSkipped
  <2>3. AtLineBegin(text', is') /\ is' \in Streams(text')
    BY <1>1, <1>3, <2>2 DEF AtLineBegin
  <2>4. stage' = "counts" => NoNumber(text', is')
    BY <2>2 DEF NoNumber, Good
  <2> QED
    BY <1>1, <1>2, <2>1, <2>3, <2>4 DEF Misread, Delivered
<1> QED
  BY <1>1, <1>2, <1>4, <1>5, ReaderGoesOn

(* The numbers of the header are read, or zeros.                           *)
LEMMA ReadCountsKeepsReader ==
  ASSUME ReaderInv, ReadCounts
  PROVE  ReaderInv'
<1>1. /\ stage = "counts" /\ file' = file /\ text' = text /\ informat' = informat
      /\ edges' = edges /\ i' = 0 /\ stage' = "nodes"
      /\ \E read \in ExtractNumbers(text, is, 2) :
           is' = read.is /\ nr_of_nodes' = read.numbers[1] /\ nr_of_edges' = read.numbers[2]
  BY DEF ReadCounts
<1>2. stage \in AfterTypes /\ stage' \in AfterTypes /\ edges' = <<>>
  BY <1>1 DEF AfterTypes, ReaderInv
<1>3. /\ IsFile(file) /\ text = Text(file)
      /\ RightLayout => InOrder
      /\ ~RightLayout => Misread
  BY <1>2, InReader
<1>4. /\ Text(file) \in Seq(Symbols) /\ HeaderRows(file) \in {2, 4}
      /\ (HeaderRows(file) = 4 <=> HasMetadata(file.layout))
      /\ file.nr_of_nodes \in Nat /\ file.announced \in Nat /\ Len(file.edges) \in Nat
  BY <1>3, TextOfFile, NumberOfRows
<1>5. ASSUME is = BeforeRow(file, HeaderRows(file) - 1)
      PROVE  /\ is' = AfterRow(file, HeaderRows(file))
             /\ nr_of_nodes' = file.nr_of_nodes /\ nr_of_edges' = file.announced
  <2>1. PICK x : /\ ExtractNumbers(text, is, 2) = {x}
                 /\ x.is = AfterRow(file, HeaderRows(file))
                 /\ x.numbers[1] = file.nr_of_nodes /\ x.numbers[2] = file.announced
    BY <1>3, <1>5, HeaderRead
  <2> QED
    BY <1>1, <2>1
<1>6. ASSUME RightLayout PROVE InOrder'
  <2>1. is = BeforeRow(file, HeaderRows(file) - 1)
    BY <1>1, <1>3, <1>6 DEF InOrder
  <2>2. /\ is' = AfterRow(file, HeaderRows(file))
        /\ nr_of_nodes' = file.nr_of_nodes /\ nr_of_edges' = file.announced
    BY <1>5, <2>1
  <2>3. is' = AfterRow(file', HeaderRows(file') + i')
    <3>1. HeaderRows(file) + 0 = HeaderRows(file)
      BY <1>4
    <3> QED
      BY <1>1, <2>2, <3>1
  <2>4. i' \in 0..nr_of_nodes'
    BY <1>1, <1>4, <2>2
  <2> QED
    BY <1>1, <2>2, <2>3, <2>4 DEF InOrder, AfterNode, Delivered
<1>7. ASSUME ~RightLayout PROVE Misread'
  <2>1. is \in Streams(text) /\ (NoNumber(text, is) \/ (OtherFields /\ is = BeforeRow(file, 1)))
    BY <1>1, <1>3, <1>7 DEF Misread
  <2>2. CASE NoNumber(text, is)
    <3>1. PICK x : /\ ExtractNumbers(text, is, 2) = {x}
                   /\ \A k \in 1..2 : x.numbers[k] = 0
      <4>1. text \in Seq(Symbols) /\ is \in Streams(text) /\ NoNumber(text, is)
        BY <1>3, <1>4, <2>1, <2>2
      <4>2. PICK count \in Nat \ {0} : count = 2
        OBVIOUS
      <4>3. PICK x \in Reads(text) : /\ ExtractNumbers(text, is, count) = {x} /\ x.is.fail = TRUE
                                     /\ \A k \in 1..count : x.numbers[k] = 0
        BY <4>1, NumbersMissing
      <4> QED
        BY <4>2, <4>3
    <3>2. nr_of_nodes' = 0 /\ nr_of_edges' = 0
      BY <1>1, <3>1
    <3> QED
      BY <1>1, <3>2 DEF Misread, Delivered
  <2>3. CASE OtherFields /\ is = BeforeRow(file, 1)
    <3>1. HeaderRows(file) = 2 /\ HeaderRows(file) - 1 = 1
      BY <1>4, <2>3 DEF OtherFields
    <3>2. /\ is' = AfterRow(file', 2)
          /\ nr_of_nodes' = file'.nr_of_nodes /\ nr_of_edges' = file'.announced
      BY <1>1, <1>5, <2>3, <3>1
    <3>3. OtherFields'
      BY <1>1, <2>3 DEF OtherFields
    <3> QED
      BY <1>1, <3>2, <3>3 DEF Misread, Delivered
  <2> QED
    BY <2>1, <2>2, <2>3
<1> QED
  BY <1>1, <1>2, <1>6, <1>7, ReaderGoesOn

(* The row of a node.                                                      *)
LEMMA RowOfNode ==
  ASSUME NEW f, IsFile(f), NEW n \in 1..f.nr_of_nodes
  PROVE  \E r \in 2..NrOfRows(f), v \in Seq(Int) :
           /\ r = HeaderRows(f) + n /\ r - 1 = HeaderRows(f) + (n - 1)
           /\ Rows(f)[r] = Row(v) /\ Len(v) = NodeFields(f.layout) /\ Len(v) \in {3, 5}
           /\ v[1] = IF NodeFields(f.layout) = 5 THEN f.first_id + n - 1 ELSE 7
<1>1. /\ HeaderRows(f) \in {2, 4} /\ NrOfRows(f) = HeaderRows(f) + f.nr_of_nodes + Len(f.edges)
      /\ f.nr_of_nodes \in Nat /\ Len(f.edges) \in Nat
  BY NumberOfRows
<1>2. PICK r \in 2..NrOfRows(f) : r = HeaderRows(f) + n /\ r - 1 = HeaderRows(f) + (n - 1)
  <2>1. PICK h, N, M : h = HeaderRows(f) /\ N = f.nr_of_nodes /\ M = Len(f.edges)
    OBVIOUS
  <2>2. h \in {2, 4} /\ N \in Nat /\ M \in Nat /\ n \in 1..N /\ NrOfRows(f) = h + N + M
    BY <1>1, <2>1
  <2>3. PICK r : r = h + n
    OBVIOUS
  <2>4. r \in 2..NrOfRows(f) /\ r - 1 = h + (n - 1)
    BY <2>2, <2>3
  <2>5. r = HeaderRows(f) + n /\ r - 1 = HeaderRows(f) + (n - 1)
    BY <2>1, <2>3, <2>4
  <2> QED
    BY <2>4, <2>5
<1>3. Rows(f)[r] = Row(NodeNumbers(f, n))
  BY <1>2, RowsOfFile
<1>4. PICK v : v = NodeNumbers(f, n)
  OBVIOUS
<1>5. /\ v \in Seq(Int) /\ Len(v) = NodeFields(f.layout)
      /\ v[1] = IF NodeFields(f.layout) = 5 THEN f.first_id + n - 1 ELSE 7
  BY <1>4, NodeRowNumbers
<1>6. NodeFields(f.layout) \in {3, 5}
  BY DEF NodeFields
<1> QED
  BY <1>2, <1>3, <1>4, <1>5, <1>6

(* Nodes are read one after the other.  If the records have another number *)
(* of fields, the first one is refused: for its first number, which is no  *)
(* id, or for those behind the last one read.                              *)
LEMMA ReadNodeKeepsReader ==
  ASSUME ReaderInv, ReadNode, options' = options
  PROVE  ReaderInv'
<1>1. /\ stage = "nodes" /\ i < nr_of_nodes
      /\ file' = file /\ text' = text /\ informat' = informat
      /\ nr_of_nodes' = nr_of_nodes /\ nr_of_edges' = nr_of_edges /\ edges' = edges
  BY DEF ReadNode
<1>2. PICK record \in ReadLine(NodeFields(informat)) :
        /\ is' = record.is
        /\ IF record.aborts \/ (NodeFields(informat) = 5 /\ record.numbers[1] # i)
           THEN stage' = "aborted" /\ i' = i
           ELSE i' = i + 1 /\ stage' = stage
  BY DEF ReadNode
<1>3. stage \in AfterTypes /\ edges' = <<>>
  BY <1>1 DEF AfterTypes, ReaderInv
<1>4. /\ IsFile(file) /\ text = Text(file)
      /\ RightLayout => InOrder
      /\ ~RightLayout => Misread
      /\ informat \in DOMAIN ReaderTypes /\ file.layout \in DOMAIN ReaderTypes
  BY <1>3, InReader
<1>5. /\ file.nr_of_nodes \in Nat /\ HeaderRows(file) \in {2, 4}
      /\ (HeaderRows(file) = 4 <=> HasMetadata(file.layout))
  BY <1>4, NumberOfRows
<1>6. file.first_id \in Nat
  BY <1>4, SizeAssumption DEF IsFile, Uint
<1>7. CASE RightLayout
  <2>1. /\ nr_of_nodes = file.nr_of_nodes /\ nr_of_edges = file.announced
        /\ i \in 0..nr_of_nodes /\ is = AfterRow(file, HeaderRows(file) + i)
    BY <1>1, <1>4, <1>7 DEF InOrder, AfterNode
  <2>2. PICK n \in 1..file.nr_of_nodes : n = i + 1 /\ n - 1 = i
    BY <1>1, <1>5, <2>1
  <2>3. PICK r \in 2..NrOfRows(file), v \in Seq(Int) :
           /\ r = HeaderRows(file) + n /\ r - 1 = HeaderRows(file) + (n - 1)
           /\ Rows(file)[r] = Row(v) /\ Len(v) = NodeFields(file.layout) /\ Len(v) \in {3, 5}
           /\ v[1] = IF NodeFields(file.layout) = 5 THEN file.first_id + n - 1 ELSE 7
    BY <1>4, RowOfNode
  <2>4. Len(v) >= 1 /\ is = AfterRow(file, r - 1) /\ Len(v) = NodeFields(informat)
    BY <1>7, <2>1, <2>2, <2>3 DEF RightLayout
  <2>5. PICK y : /\ ReadLine(Len(v)) = {y}
                 /\ Len(y.numbers) = Len(v) /\ \A k \in 1..Len(v) : y.numbers[k] = v[k]
                 /\ (y.aborts <=> r = NrOfRows(file) /\ ~file.ends_with_newline)
                 /\ (~y.aborts => y.is = AfterRow(file, r))
    <3>1. /\ IsFile(file) /\ text = Text(file) /\ is = AfterRow(file, r - 1)
          /\ Rows(file)[r] = Row(v) /\ Len(v) >= 1
      BY <1>4, <2>3, <2>4
    <3> QED
      BY <3>1, LineRead
  <2>6. record = y
    BY <1>2, <2>4, <2>5
  <2>7. record.numbers[1] = v[1]
    BY <2>4, <2>5, <2>6
  <2>8. CASE record.aborts \/ (NodeFields(informat) = 5 /\ record.numbers[1] # i)
    <3>1. stage' = "aborted"
      BY <1>2, <2>8
    <3>2. CASE record.aborts
      <4>1. ~file.ends_with_newline
        BY <2>5, <2>6, <3>2
      <4> QED
        BY <1>1, <3>1, <4>1, AbortsForCause
    <3>3. CASE NodeFields(informat) = 5 /\ record.numbers[1] # i
      <4>1. file.first_id + n - 1 # i
        BY <2>3, <2>4, <2>7, <3>3
      <4>2. file.first_id # 0
        BY <1>6, <2>2, <4>1
      <4>3. ~RecordsInOrder
        BY <3>3, <4>2 DEF RecordsInOrder
      <4> QED
        BY <1>1, <3>1, <4>3, AbortsForCause
    <3> QED
      BY <2>8, <3>2, <3>3
  <2>9. CASE ~(record.aborts \/ (NodeFields(informat) = 5 /\ record.numbers[1] # i))
    <3>1. i' = n /\ stage' = "nodes" /\ is' = AfterRow(file, HeaderRows(file) + n)
      BY <1>1, <1>2, <2>2, <2>3, <2>5, <2>6, <2>9
    <3>2. i' \in 0..nr_of_nodes' /\ is' = AfterRow(file', HeaderRows(file') + i')
      BY <1>1, <1>5, <2>1, <3>1
    <3>3. InOrder'
      BY <1>1, <2>1, <3>1, <3>2 DEF InOrder, AfterNode, Delivered
    <3> QED
      BY <1>1, <1>3, <1>7, <3>1, <3>3, ReaderGoesOn DEF AfterTypes
  <2> QED
    BY <2>8, <2>9
<1>8. CASE ~RightLayout
  <2>1. /\ i = 0
        /\ \/ nr_of_nodes = 0 /\ nr_of_edges = 0
           \/ /\ nr_of_nodes = file.nr_of_nodes /\ nr_of_edges = file.announced
              /\ OtherFields /\ is = AfterRow(file, 2)
    BY <1>1, <1>4, <1>8 DEF Misread
  <2>2. i = 0 /\ nr_of_nodes = file.nr_of_nodes /\ OtherFields /\ is = AfterRow(file, 2)
    BY <1>1, <2>1
  <2>3. PICK n \in 1..file.nr_of_nodes : n = 1 /\ n - 1 = 0
    BY <1>1, <1>5, <2>2
  <2>4. PICK r \in 2..NrOfRows(file), v \in Seq(Int) :
           /\ r = HeaderRows(file) + n /\ r - 1 = HeaderRows(file) + (n - 1)
           /\ Rows(file)[r] = Row(v) /\ Len(v) = NodeFields(file.layout) /\ Len(v) \in {3, 5}
           /\ v[1] = IF NodeFields(file.layout) = 5 THEN file.first_id + n - 1 ELSE 7
    BY <1>4, RowOfNode
  <2>5. HeaderRows(file) = 2
    BY <1>5, <2>2 DEF OtherFields
  <2>6. r - 1 = 2
    BY <2>3, <2>4, <2>5
  <2>7. is = AfterRow(file, r - 1)
    BY <2>2, <2>6
  <2>8. NodeFields(informat) \in {3, 5} /\ NodeFields(informat) # Len(v)
    BY <2>2, <2>4 DEF OtherFields, NodeFields
  <2>9. record.aborts \/ (NodeFields(informat) = 5 /\ record.numbers[1] # i)
    <3>1. CASE Len(v) = 5
      <4>1. PICK count \in 1..(Len(v) - 1) : count = 3
        BY <3>1
      <4>2. NodeFields(informat) = count
        BY <2>8, <3>1, <4>1
      <4>3. \A y \in ReadLine(count) : y.aborts
        BY <1>4, <2>4, <2>7, LongLineNotRead
      <4> QED
        BY <1>2, <4>2, <4>3
    <3>2. CASE Len(v) = 3
      <4>1. NodeFields(informat) = 5 /\ v[1] = 7 /\ Len(v) >= 1
        BY <2>4, <2>8, <3>2
      <4>2. PICK count \in Nat \ {0} : count = 5
        OBVIOUS
      <4>3. \A y \in ReadLine(count) : y.numbers[1] = v[1]
        BY <1>4, <2>4, <2>7, <4>1, FirstOfLineRead
      <4>4. record.numbers[1] = 7
        BY <1>2, <4>1, <4>2, <4>3
      <4> QED
        BY <2>2, <4>1, <4>4
    <3> QED
      BY <2>4, <3>1, <3>2
  <2>10. stage' = "aborted"
    BY <1>2, <2>9
  <2>11. ~RecordsInOrder
    BY <1>8 DEF RecordsInOrder
  <2> QED
    BY <1>1, <2>10, <2>11, AbortsForCause
<1> QED
  BY <1>7, <1>8

(* Where the loop over the nodes ends, that over the edges begins.         *)
LEMMA NodesReadKeepsReader ==
  ASSUME ReaderInv, NodesRead
  PROVE  ReaderInv'
<1>1. /\ stage = "nodes" /\ i >= nr_of_nodes
      /\ file' = file /\ text' = text /\ informat' = informat /\ is' = is
      /\ nr_of_nodes' = nr_of_nodes /\ nr_of_edges' = nr_of_edges /\ edges' = edges
      /\ stage' = "edges" /\ i' = 0
  BY DEF NodesRead
<1>3. stage \in AfterTypes /\ stage' \in AfterTypes /\ edges = <<>> /\ edges' = <<>>
  BY <1>1 DEF AfterTypes, ReaderInv
<1>4. /\ IsFile(file) /\ text = Text(file)
      /\ RightLayout => InOrder
      /\ ~RightLayout => Misread
  BY <1>3, InReader
<1>5. /\ file.nr_of_nodes \in Nat /\ HeaderRows(file) \in {2, 4}
      /\ (HeaderRows(file) = 4 <=> HasMetadata(file.layout))
      /\ file.announced \in Nat /\ Len(file.edges) \in Nat
      /\ NrOfRows(file) = HeaderRows(file) + file.nr_of_nodes + Len(file.edges)
  BY <1>4, NumberOfRows
<1>6. ASSUME RightLayout PROVE InOrder'
  <2>1. /\ nr_of_nodes = file.nr_of_nodes /\ nr_of_edges = file.announced
        /\ i \in 0..nr_of_nodes /\ is = AfterRow(file, HeaderRows(file) + i)
    BY <1>1, <1>4, <1>6 DEF InOrder, AfterNode
  <2>2. i = file.nr_of_nodes
    BY <1>1, <1>5, <2>1
  <2>3. HeaderRows(file) + file.nr_of_nodes + 0 = HeaderRows(file) + i
    BY <1>5, <2>2
  <2>4. is' = AfterRow(file', HeaderRows(file') + file'.nr_of_nodes + 0)
    BY <1>1, <2>1, <2>3
  <2>5. nr_of_edges' = file'.announced - 0 + i' /\ i' \in 0..0 /\ 0 <= file'.announced
    BY <1>1, <1>5, <2>1
  <2>6. NumberedEdges(edges') /\ FromRows(edges, 0)' /\ Len(edges') = i'
    <3>1. Len(edges') = 0 /\ 1..0 = {}
      BY <1>3
    <3>2. NumberedEdges(edges')
      BY <1>3, <3>1 DEF NumberedEdges
    <3>3. FromRows(edges, 0)'
      BY <3>1 DEF FromRows
    <3> QED
      BY <1>1, <3>1, <3>2, <3>3
  <2>7. EdgesReadTo(0)'
    BY <2>4, <2>5, <2>6 DEF EdgesReadTo, AfterEdge
  <2>8. 0 \in 0..Len(file'.edges)
    BY <1>1, <1>5
  <2> QED
    BY <1>1, <2>7, <2>8 DEF InOrder, Delivered
<1>7. ASSUME ~RightLayout PROVE Misread'
  <2>1. /\ i = 0
        /\ \/ nr_of_nodes = 0 /\ nr_of_edges = 0
           \/ /\ nr_of_nodes = file.nr_of_nodes /\ nr_of_edges = file.announced
              /\ OtherFields /\ is = AfterRow(file, 2)
    BY <1>1, <1>4, <1>7 DEF Misread
  <2>2. nr_of_nodes = 0
    BY <1>1, <1>5, <2>1
  <2>3. nr_of_edges = 0 \/ is = AfterRow(file, NrOfRows(file))
    <3>1. CASE nr_of_edges = 0
      BY <3>1
    <3>2. CASE nr_of_edges # 0
      <4>1. nr_of_nodes = file.nr_of_nodes /\ OtherFields /\ is = AfterRow(file, 2)
        BY <2>1, <3>2
      <4>2. HeaderRows(file) = 2 /\ file.nr_of_nodes = 0
        BY <1>5, <2>2, <4>1 DEF OtherFields
      <4>3. Len(file.edges) = 0
        <5>1. SUFFICES ASSUME Len(file.edges) # 0 PROVE FALSE
          OBVIOUS
        <5>2. 1 \in 1..Len(file.edges)
          BY <1>5, <5>1
        <5>3. PICK n, v : n = file.nr_of_nodes /\ v = file.edges
          OBVIOUS
        <5>4. v \in Seq([src : 0..(n - 1), tgt : 0..(n - 1),
                         dist : SignedInt, type : Uint, speed : SignedInt])
          BY <1>4, <5>3 DEF IsFile
        <5>5. v[1] \in [src : 0..(n - 1), tgt : 0..(n - 1),
                        dist : SignedInt, type : Uint, speed : SignedInt]
          <6>1. PICK S : S = [src : 0..(n - 1), tgt : 0..(n - 1),
                              dist : SignedInt, type : Uint, speed : SignedInt]
            OBVIOUS
          <6>2. v \in Seq(S) /\ 1 \in 1..Len(v)
            BY <5>2, <5>3, <5>4, <6>1
          <6>3. v[1] \in S
            BY <6>2
          <6> QED
            BY <6>1, <6>3
        <5>6. n = 0 /\ v[1].src \in 0..(n - 1)
          BY <4>2, <5>3, <5>5
        <5> QED
          BY <5>6
      <4>4. NrOfRows(file) = 2
        BY <1>5, <4>2, <4>3
      <4> QED
        BY <4>1, <4>4
    <3> QED
      BY <3>1, <3>2
  <2> QED
    BY <1>1, <1>3, <2>2, <2>3 DEF Misread, Delivered
<1> QED
  BY <1>1, <1>3, <1>6, <1>7, ReaderGoesOn

-----------------------------------------------------------------------------
(* The row of an edge.                                                     *)
LEMMA RowOfEdge ==
  ASSUME NEW f, IsFile(f), NEW k \in 1..Len(f.edges)
  PROVE  \E r \in 2..NrOfRows(f), v \in Seq(Int) :
           /\ r = HeaderRows(f) + f.nr_of_nodes + k /\ r - 1 = HeaderRows(f) + f.nr_of_nodes + (k - 1)
           /\ Rows(f)[r] = Row(v) /\ v = EdgeNumbers(f, f.edges[k])
           /\ Len(v) = EdgeFields(f.layout) /\ Len(v) \in {3, 5}
<1>1. /\ HeaderRows(f) \in {2, 4} /\ NrOfRows(f) = HeaderRows(f) + f.nr_of_nodes + Len(f.edges)
      /\ f.nr_of_nodes \in Nat /\ Len(f.edges) \in Nat
  BY NumberOfRows
<1>2. PICK r \in 2..NrOfRows(f) :
        r = HeaderRows(f) + f.nr_of_nodes + k /\ r - 1 = HeaderRows(f) + f.nr_of_nodes + (k - 1)
  <2>1. PICK h, n, m : h = HeaderRows(f) /\ n = f.nr_of_nodes /\ m = Len(f.edges)
    OBVIOUS
  <2>2. h \in Nat /\ h >= 2 /\ n \in Nat /\ m \in Nat /\ k \in 1..m /\ NrOfRows(f) = h + n + m
    BY <1>1, <2>1
  <2>3. h + n + k \in 2..(h + n + m) /\ (h + n + k) - 1 = h + n + (k - 1)
    BY <2>2
  <2> QED
    BY <2>1, <2>2, <2>3
<1>3. Rows(f)[r] = Row(EdgeNumbers(f, f.edges[k]))
  BY <1>2, RowsOfFile
<1>4. PICK v : v = EdgeNumbers(f, f.edges[k])
  OBVIOUS
<1>5. v \in Seq(Int) /\ Len(v) = EdgeFields(f.layout)
  BY <1>4, EdgeRowNumbers
<1>6. EdgeFields(f.layout) \in {3, 5}
  BY DEF EdgeFields
<1> QED
  BY <1>2, <1>3, <1>4, <1>5, <1>6

(* A line that is dropped leaves no edge.                                  *)
LEMMA RowDropped ==
  ASSUME NEW v, NEW k \in Nat, FromRows(v, k), ~KeptRow(file.edges[k + 1])
  PROVE  FromRows(v, k + 1)
<1>1. \A j \in 1..k : j \in 1..(k + 1)
  OBVIOUS
<1>2. \A j \in 1..(k + 1) : j = k + 1 \/ j \in 1..k
  OBVIOUS
<1> QED
  BY <1>1, <1>2 DEF FromRows

(* One that is kept leaves its edge.                                       *)
LEMMA RowKept ==
  ASSUME NEW v \in Seq(CHEdge), NEW k \in Nat, FromRows(v, k), NEW e \in CHEdge,
         IsEdgeOf(e, file.edges[k + 1])
  PROVE  FromRows(Append(v, e), k + 1)
<1>1. \A j \in 1..k : j \in 1..(k + 1)
  OBVIOUS
<1>2. \A j \in 1..(k + 1) : j = k + 1 \/ j \in 1..k
  OBVIOUS
<1>3. k + 1 \in 1..(k + 1)
  OBVIOUS
<1>4. PICK w : w = Append(v, e)
  OBVIOUS
<1>5. /\ Len(v) \in Nat /\ Len(w) = Len(v) + 1 /\ w[Len(v) + 1] = e
      /\ \A m \in 1..Len(v) : w[m] = v[m]
  BY <1>4
<1>6. /\ \A m \in 1..Len(w) : m = Len(v) + 1 \/ m \in 1..Len(v)
      /\ \A m \in 1..Len(v) : m \in 1..Len(w)
      /\ Len(v) + 1 \in 1..Len(w)
  BY <1>5
<1>7. NoLonger(e, file.edges[k + 1])
  <2>1. e.dist \in LengthsOf(file.edges[k + 1]) /\ e.dist <= e.dist
    BY SizeAssumption DEF IsEdgeOf, CHEdge, Uint
  <2> QED
    BY <2>1 DEF NoLonger, IsEdgeOf
<1>8. \A m \in 1..Len(w) : \E j \in 1..(k + 1) : IsEdgeOf(w[m], file.edges[j])
  BY <1>1, <1>3, <1>5, <1>6 DEF FromRows
<1>9. \A j \in 1..(k + 1) : KeptRow(file.edges[j]) =>
        \E m \in 1..Len(w) : NoLonger(w[m], file.edges[j])
  <2> TAKE j \in 1..(k + 1)
  <2> HAVE KeptRow(file.edges[j])
  <2>1. CASE j = k + 1
    BY <1>5, <1>6, <1>7, <2>1
  <2>2. CASE j \in 1..k
    <3>1. PICK m \in 1..Len(v) : NoLonger(v[m], file.edges[j])
      BY <2>2 DEF FromRows
    <3> QED
      BY <1>5, <1>6, <3>1
  <2> QED
    BY <1>2, <2>1, <2>2
<1> QED
  BY <1>4, <1>8, <1>9 DEF FromRows

(* The same edges in another order, or the shortest of them, are from the  *)
(* same lines.                                                             *)
LEMMA RowsRemain ==
  ASSUME IsFile(file), NEW k \in 0..Len(file.edges), NEW v \in Seq(CHEdge), FromRows(v, k),
         NEW w \in Seq(CHEdge),
         \A m \in 1..Len(w) : \E j \in 1..Len(v) : EqualEndpoints(w[m], v[j]) /\ w[m].dist = v[j].dist,
         \A j \in 1..Len(v) : \E m \in 1..Len(w) : EqualEndpoints(w[m], v[j]) /\ w[m].dist <= v[j].dist
  PROVE  FromRows(w, k)
<1>1. \A m \in 1..Len(w) : \E j \in 1..k : IsEdgeOf(w[m], file.edges[j])
  <2> TAKE m \in 1..Len(w)
  <2>1. PICK j \in 1..Len(v) : EqualEndpoints(w[m], v[j]) /\ w[m].dist = v[j].dist
    OBVIOUS
  <2>2. PICK q \in 1..k : IsEdgeOf(v[j], file.edges[q])
    BY DEF FromRows
  <2>3. IsEdgeOf(w[m], file.edges[q])
    BY <2>1, <2>2 DEF IsEdgeOf, EqualEndpoints
  <2> QED
    BY <2>3
<1>2. \A q \in 1..k : KeptRow(file.edges[q]) => \E m \in 1..Len(w) : NoLonger(w[m], file.edges[q])
  <2> TAKE q \in 1..k
  <2> HAVE KeptRow(file.edges[q])
  <2>1. PICK j \in 1..Len(v) : NoLonger(v[j], file.edges[q])
    BY DEF FromRows
  <2>2. PICK m \in 1..Len(w) : EqualEndpoints(w[m], v[j]) /\ w[m].dist <= v[j].dist
    OBVIOUS
  <2>3. PICK d \in LengthsOf(file.edges[q]) : v[j].dist <= d
    BY <2>1 DEF NoLonger
  <2>4. d \in Int /\ v[j].dist \in Int /\ w[m].dist \in Int
    <3>1. PICK L \in Nat : L = Len(file.edges)
      BY NumberOfRows
    <3>2. q \in 1..L
      <4>1. k \in 0..L
        BY <3>1
      <4> QED
        BY <4>1
    <3>3. file.edges[q] \in [src : Nodes, tgt : Nodes, dist : SignedInt,
                             type : Uint, speed : SignedInt]
      BY <3>1, <3>2, EdgeRowNumbers
    <3>4. PICK r : r = file.edges[q]
      OBVIOUS
    <3>5. r.dist \in 0..(MaxUint \div 2) /\ r.type \in Int /\ r.speed \in Int
      <4>1. r.dist \in SignedInt /\ r.type \in Uint /\ r.speed \in SignedInt
        BY <3>3, <3>4
      <4>2. r.dist >= 0
        BY <3>4 DEF KeptRow
      <4> QED
        BY <4>1, <4>2, SignedNumbers
    <3>6. LengthsOf(r) \in SUBSET Uint
      BY <3>5, LengthsOfRow
    <3>7. d \in Uint
      BY <3>4, <3>6
    <3>8. v[j] \in CHEdge
      OBVIOUS
    <3>9. w[m] \in CHEdge
      OBVIOUS
    <3>10. d \in Int
      BY <3>7, SizeAssumption DEF Uint
    <3>11. \A e \in CHEdge : e.dist \in Int
      BY SizeAssumption DEF CHEdge, Uint
    <3> QED
      BY <3>8, <3>9, <3>10, <3>11
  <2>5. w[m].dist <= d
    <3>1. PICK a, b : a = w[m].dist /\ b = v[j].dist
      OBVIOUS
    <3>2. a <= b /\ b <= d /\ a \in Int /\ b \in Int /\ d \in Int
      BY <2>2, <2>3, <2>4, <3>1
    <3>3. a <= d
      BY <3>2
    <3> QED
      BY <3>1, <3>3
  <2>6. NoLonger(w[m], file.edges[q])
    BY <2>1, <2>2, <2>5 DEF NoLonger, EqualEndpoints
  <2> QED
    BY <2>6
<1> QED
  BY <1>1, <1>2 DEF FromRows

(* The next edge.                                                          *)
LEMMA NextEdge ==
  ASSUME NEW v, NumberedEdges(v), NEW e, e.src \in Nodes, e.tgt \in Nodes, e.dist \in Uint,
         e.src # e.tgt, e = InputEdge(Len(v), e.src, e.tgt, e.dist), Len(v) < NO_EID
  PROVE  e \in CHEdge /\ NumberedEdges(Append(v, e)) /\ Len(Append(v, e)) = Len(v) + 1
<1>1. v \in Seq(CHEdge) /\ Len(v) \in Nat
  BY DEF NumberedEdges
<1>2. Len(v) \in Uint
  BY <1>1, SizeAssumption DEF Uint, NO_EID
<1>3. e \in CHEdge
  BY <1>2, InputEdgeFields
<1>4. PICK w : w = Append(v, e)
  OBVIOUS
<1>5. /\ w \in Seq(CHEdge) /\ Len(w) = Len(v) + 1 /\ w[Len(v) + 1] = e
      /\ \A m \in 1..Len(v) : w[m] = v[m]
  BY <1>1, <1>3, <1>4
<1>6. \A m \in 1..Len(w) : /\ w[m] = InputEdge(m - 1, w[m].src, w[m].tgt, w[m].dist)
                           /\ w[m].src # w[m].tgt
  <2> TAKE m \in 1..Len(w)
  <2>1. CASE m = Len(v) + 1
    <3>1. m - 1 = Len(v) /\ w[m] = e
      BY <1>1, <1>5, <2>1
    <3> QED
      BY <3>1
  <2>2. CASE m # Len(v) + 1
    <3>1. m \in 1..Len(v)
      BY <1>1, <1>5, <2>2
    <3>2. v[m] = InputEdge(m - 1, v[m].src, v[m].tgt, v[m].dist) /\ v[m].src # v[m].tgt
      BY <3>1 DEF NumberedEdges
    <3> QED
      BY <1>5, <3>1, <3>2
  <2> QED
    BY <2>1, <2>2
<1> QED
  BY <1>3, <1>4, <1>5, <1>6 DEF NumberedEdges

(* What the loop does with the record of a line.                           *)
LEMMA EdgeOfLineRead ==
  ASSUME IsFile(file), NEW k \in Nat, k < Len(file.edges), k < file.announced, EdgesReadTo(k),
         NEW edge,
         LET r == file.edges[k + 1]
         IN  edge \in IF r.dist < 0 THEN {InputEdge(NO_EID, r.src, r.tgt, 0)}
                      ELSE {InputEdge(i, r.src, r.tgt, d) : d \in LengthsOf(r)},
         file' = file, informat' = informat, is' = AfterEdge(k + 1),
         IF Dropped(edge) THEN SkipLine /\ UNCHANGED edges
         ELSE /\ edges' = Append(edges, edge)
              /\ i' = i + 1 /\ UNCHANGED nr_of_edges
  PROVE  EdgesReadTo(k + 1)'
<1>0. Len(file.edges) \in Nat /\ file.announced \in Nat
  BY NumberOfRows
<1>1. /\ i \in 0..k /\ nr_of_edges = file.announced - k + i
      /\ Len(edges) = i /\ NumberedEdges(edges) /\ FromRows(edges, k)
  BY DEF EdgesReadTo
<1>2. PICK r : r = file.edges[k + 1]
  OBVIOUS
<1>3. r \in [src : Nodes, tgt : Nodes, dist : SignedInt, type : Uint, speed : SignedInt]
  <2>1. k + 1 \in 1..Len(file.edges)
    BY <1>0
  <2> QED
    BY <1>2, <2>1, EdgeRowNumbers
<1>4. MaxUint \in Nat
  BY SizeAssumption
<1>5. /\ r.src \in Nodes /\ r.tgt \in Nodes /\ r.dist \in SignedInt
      /\ r.type \in Uint /\ r.speed \in SignedInt
  BY <1>3
<1>6. r.type \in Int /\ r.speed \in Int
  BY <1>5, SignedNumbers
<1>7. r.dist \in Int
  BY <1>5, SignedNumbers
<1>8. edge \in IF r.dist < 0 THEN {InputEdge(NO_EID, r.src, r.tgt, 0)}
               ELSE {InputEdge(i, r.src, r.tgt, d) : d \in LengthsOf(r)}
  BY <1>2
<1>9. i < NO_EID
  <2>1. Len(file.edges) < NO_EID
    BY DEF IsFile
  <2> QED
    BY <1>0, <1>1, <1>4, <2>1 DEF NO_EID
<1>10. is' = AfterEdge(k + 1)'
  BY DEF AfterEdge, AfterRow
<1>11. k + 1 <= file'.announced
  BY <1>0
<1>12. CASE ~KeptRow(r)
  <2>1. Dropped(edge)
    <3>1. CASE r.dist < 0
      BY <1>8, <3>1 DEF Dropped, InputEdge
    <3>2. CASE ~(r.dist < 0)
      <4>1. PICK d : edge = InputEdge(i, r.src, r.tgt, d)
        BY <1>8, <3>2
      <4>2. r.src = r.tgt
        BY <1>7, <1>12, <3>2 DEF KeptRow
      <4> QED
        BY <4>1, <4>2 DEF Dropped, InputEdge
    <3> QED
      BY <3>1, <3>2
  <2>2. i' = i /\ nr_of_edges' = nr_of_edges - 1 /\ edges' = edges
    BY <2>1 DEF SkipLine
  <2>3. i' \in 0..(k + 1) /\ nr_of_edges' = file'.announced - (k + 1) + i'
    <3>1. PICK a : a = file.announced
      OBVIOUS
    <3>2. a \in Nat /\ k \in Nat /\ i \in 0..k /\ nr_of_edges = a - k + i
      BY <1>0, <1>1, <3>1
    <3>3. i \in 0..(k + 1) /\ nr_of_edges - 1 = a - (k + 1) + i
      BY <3>2
    <3> QED
      BY <2>2, <3>1, <3>3
  <2>4. FromRows(edges, k + 1)
    BY <1>1, <1>2, <1>12, RowDropped
  <2>5. FromRows(edges, k + 1)'
    <3>1. PICK v : v = edges /\ FromRows(v, k + 1)
      BY <2>4
    <3>2. FromRows(v, k + 1)' /\ edges' = v
      BY <2>2, <3>1, RowsStay
    <3> QED
      BY <3>2 DEF FromRows
  <2> QED
    BY <1>1, <1>10, <1>11, <2>2, <2>3, <2>5 DEF EdgesReadTo
<1>13. CASE KeptRow(r)
  <2>1. r.dist >= 0 /\ r.src # r.tgt
    BY <1>13 DEF KeptRow
  <2>2. LengthsOf(r) \in SUBSET Uint
    <3>1. r.dist \in 0..(MaxUint \div 2)
      BY <1>5, <2>1, SignedNumbers
    <3> QED
      BY <1>6, <3>1, LengthsOfRow
  <2>3. PICK d \in LengthsOf(r) : edge = InputEdge(i, r.src, r.tgt, d)
    BY <1>7, <1>8, <2>1
  <2>4. d \in Uint
    BY <2>2
  <2>5. i \in Uint
    BY <1>1, <1>4, <1>9 DEF Uint, NO_EID
  <2>6. /\ edge \in CHEdge /\ edge.id = i /\ edge.src = r.src /\ edge.tgt = r.tgt /\ edge.dist = d
        /\ edge = InputEdge(i, edge.src, edge.tgt, edge.dist)
    BY <1>5, <2>3, <2>4, <2>5, InputEdgeFields
  <2>7. ~Dropped(edge)
    BY <1>1, <1>6, <1>9, <2>1, <2>6 DEF Dropped, NO_EID
  <2>8. edges' = Append(edges, edge) /\ i' = i + 1 /\ nr_of_edges' = nr_of_edges
    BY <2>7
  <2>9. i' \in 0..(k + 1) /\ nr_of_edges' = file'.announced - (k + 1) + i'
    <3>1. PICK a, b : a = file.announced /\ b = i
      OBVIOUS
    <3>2. a \in Nat /\ b \in 0..k /\ nr_of_edges' = a - k + b /\ i' = b + 1
      BY <1>0, <1>1, <2>8, <3>1
    <3>3. b + 1 \in 0..(k + 1) /\ a - k + b = a - (k + 1) + (b + 1)
      BY <3>2
    <3> QED
      BY <3>1, <3>2, <3>3
  <2>10. PICK v : v = edges
    OBVIOUS
  <2>11. NumberedEdges(v) /\ Len(v) = i /\ v \in Seq(CHEdge) /\ FromRows(v, k)
    BY <1>1, <2>10 DEF NumberedEdges
  <2>12. NumberedEdges(Append(v, edge)) /\ Len(Append(v, edge)) = i + 1
    <3>1. /\ NumberedEdges(v) /\ edge.src \in Nodes /\ edge.tgt \in Nodes /\ edge.dist \in Uint
          /\ edge.src # edge.tgt /\ edge = InputEdge(Len(v), edge.src, edge.tgt, edge.dist)
          /\ Len(v) < NO_EID
      BY <1>5, <1>9, <2>1, <2>4, <2>6, <2>11
    <3> QED
      BY <2>11, <3>1, NextEdge
  <2>13. IsEdgeOf(edge, file.edges[k + 1])
    BY <1>2, <1>13, <2>6 DEF IsEdgeOf
  <2>14. FromRows(Append(v, edge), k + 1)
    BY <2>6, <2>11, <2>13, RowKept
  <2>15. FromRows(edges, k + 1)'
    <3>1. PICK w : w = Append(v, edge)
      OBVIOUS
    <3>2. FromRows(w, k + 1)' /\ edges' = w
      BY <2>8, <2>10, <2>14, <3>1, RowsStay
    <3> QED
      BY <3>2 DEF FromRows
  <2>16. NumberedEdges(edges') /\ Len(edges') = i'
    BY <2>8, <2>10, <2>12
  <2> QED
    BY <1>10, <1>11, <2>9, <2>15, <2>16 DEF EdgesReadTo
<1> QED
  BY <1>12, <1>13

(* Edges are read one after the other, too; behind the last row there is no*)
(* further one, whatever was announced.                                    *)
LEMMA ReadEdgeKeepsReader ==
  ASSUME ReaderInv, ReadEdge, options' = options
  PROVE  ReaderInv'
<1>1. /\ stage = "edges" /\ i < nr_of_edges
      /\ file' = file /\ text' = text /\ informat' = informat /\ nr_of_nodes' = nr_of_nodes
  BY DEF ReadEdge
<1>2. PICK record \in ReadLine(EdgeFields(informat)) :
        /\ is' = record.is
        /\ IF record.aborts
           THEN stage' = "aborted" /\ UNCHANGED <<i, nr_of_edges, edges>>
           ELSE /\ UNCHANGED stage
                /\ \E edge \in EdgesOf(RowOf(record.numbers), i) :
                     IF Dropped(edge) THEN SkipLine /\ UNCHANGED edges
                     ELSE /\ edges' = Append(edges, edge)
                          /\ i' = i + 1 /\ UNCHANGED nr_of_edges
  BY DEF ReadEdge
<1>3. stage \in AfterTypes
  BY <1>1 DEF AfterTypes
<1>4. /\ IsFile(file) /\ text = Text(file)
      /\ RightLayout => InOrder
      /\ ~RightLayout => Misread
      /\ informat \in DOMAIN ReaderTypes
  BY <1>3, InReader
<1>5. /\ file.nr_of_nodes \in Nat /\ HeaderRows(file) \in {2, 4}
      /\ file.announced \in Nat /\ Len(file.edges) \in Nat
      /\ NrOfRows(file) = HeaderRows(file) + file.nr_of_nodes + Len(file.edges)
  BY <1>4, NumberOfRows
<1>6. EdgeFields(informat) \in Nat \ {0}
  BY DEF EdgeFields
<1>7. ASSUME is = AfterRow(file, NrOfRows(file)) PROVE stage' = "aborted"
  <2>1. \A y \in ReadLine(EdgeFields(informat)) : y.aborts
    BY <1>4, <1>6, <1>7, NoLineRead
  <2> QED
    BY <1>2, <2>1
<1>8. CASE RightLayout
  <2>1. PICK k \in 0..Len(file.edges) : EdgesReadTo(k)
    BY <1>1, <1>4, <1>8 DEF InOrder
  <2>2. /\ i \in 0..k /\ nr_of_edges = file.announced - k + i /\ is = AfterEdge(k)
    BY <2>1 DEF EdgesReadTo
  <2>3. k < file.announced /\ k \in Nat
    BY <1>1, <1>5, <2>2
  <2>4. CASE k = Len(file.edges)
    <3>1. stage' = "aborted"
      BY <1>5, <1>7, <2>2, <2>4 DEF AfterEdge
    <3>2. ~RecordsInOrder
      BY <1>5, <2>3, <2>4 DEF RecordsInOrder
    <3> QED
      BY <1>1, <3>1, <3>2, AbortsForCause
  <2>5. CASE k # Len(file.edges)
    <3>1. PICK n \in 1..Len(file.edges) : n = k + 1 /\ n - 1 = k
      BY <1>5, <2>3, <2>5
    <3>2. PICK r \in 2..NrOfRows(file), v \in Seq(Int) :
            /\ r = HeaderRows(file) + file.nr_of_nodes + n
            /\ r - 1 = HeaderRows(file) + file.nr_of_nodes + (n - 1)
            /\ Rows(file)[r] = Row(v) /\ v = EdgeNumbers(file, file.edges[n])
            /\ Len(v) = EdgeFields(file.layout) /\ Len(v) \in {3, 5}
      BY <1>4, RowOfEdge, ZenonT(30)
    <3>3. is = AfterRow(file, r - 1) /\ Len(v) = EdgeFields(informat)
      BY <1>8, <2>2, <3>1, <3>2 DEF AfterEdge, RightLayout
    <3>4. PICK y : /\ ReadLine(Len(v)) = {y}
                   /\ Len(y.numbers) = Len(v) /\ \A j \in 1..Len(v) : y.numbers[j] = v[j]
                   /\ (y.aborts <=> r = NrOfRows(file) /\ ~file.ends_with_newline)
                   /\ (~y.aborts => y.is = AfterRow(file, r))
      <4>1. /\ IsFile(file) /\ text = Text(file) /\ is = AfterRow(file, r - 1)
            /\ Rows(file)[r] = Row(v) /\ Len(v) >= 1
        BY <1>4, <3>2, <3>3
      <4> QED
        BY <4>1, LineRead
    <3>5. record = y
      BY <1>2, <3>3, <3>4
    <3>6. CASE record.aborts
      <4>1. stage' = "aborted" /\ ~file.ends_with_newline
        BY <1>2, <3>4, <3>5, <3>6
      <4> QED
        BY <1>1, <4>1, AbortsForCause
    <3>7. CASE ~record.aborts
      <4>1. PICK edge \in EdgesOf(RowOf(record.numbers), i) :
              IF Dropped(edge) THEN SkipLine /\ UNCHANGED edges
              ELSE /\ edges' = Append(edges, edge)
                   /\ i' = i + 1 /\ UNCHANGED nr_of_edges
        BY <1>2, <3>7
      <4>2. EdgesOf(RowOf(record.numbers), i) = EdgesOf(file.edges[n], i)
        <5>1. PICK w : w = record.numbers
          OBVIOUS
        <5>2. Len(w) = Len(v) /\ \A j \in 1..Len(w) : w[j] = v[j]
          BY <3>4, <3>5, <5>1
        <5>3. /\ IsFile(file) /\ informat \in DOMAIN ReaderTypes
              /\ EdgeFields(informat) = EdgeFields(file.layout)
              /\ n \in 1..Len(file.edges)
              /\ Len(w) = Len(EdgeNumbers(file, file.edges[n]))
              /\ \A j \in 1..Len(w) : w[j] = EdgeNumbers(file, file.edges[n])[j]
          BY <1>4, <3>2, <3>3, <5>2
        <5>4. EdgesOf(RowOf(w), i) = EdgesOf(file.edges[n], i)
          BY <5>3, EdgesOfLine
        <5> QED
          BY <5>1, <5>4
      <4>3. is' = AfterEdge(n) /\ stage' = "edges"
        BY <1>1, <1>2, <3>2, <3>4, <3>5, <3>7 DEF AfterEdge
      <4>4. k < Len(file.edges) /\ n = k + 1
        BY <1>5, <2>5, <3>1
      <4>5. edge \in LET q == file.edges[k + 1]
                     IN  IF q.dist < 0 THEN {InputEdge(NO_EID, q.src, q.tgt, 0)}
                         ELSE {InputEdge(i, q.src, q.tgt, d) : d \in LengthsOf(q)}
        BY <4>1, <4>2, <4>4 DEF EdgesOf
      <4>6. EdgesReadTo(k + 1)'
        <5>1. is' = AfterEdge(k + 1)
          BY <4>3, <4>4
        <5> QED
          BY <1>1, <1>4, <2>1, <2>3, <4>1, <4>4, <4>5, <5>1, EdgeOfLineRead
      <4>7. k + 1 \in 0..Len(file'.edges)
        BY <1>1, <3>1
      <4>8. InOrder'
        BY <4>3, <4>6, <4>7 DEF InOrder, Delivered
      <4> QED
        BY <1>1, <1>3, <1>8, <4>3, <4>8, ReaderGoesOn DEF AfterTypes
    <3> QED
      BY <3>6, <3>7
  <2> QED
    BY <2>4, <2>5
<1>9. CASE ~RightLayout
  <2>1. i = 0 /\ (nr_of_edges = 0 \/ is = AfterRow(file, NrOfRows(file)))
    BY <1>1, <1>4, <1>9 DEF Misread
  <2>2. stage' = "aborted"
    BY <1>1, <1>7, <2>1
  <2>3. ~RecordsInOrder
    BY <1>9 DEF RecordsInOrder
  <2> QED
    BY <1>1, <2>2, <2>3, AbortsForCause
<1> QED
  BY <1>8, <1>9

(* Sorting needs all edges.                                                *)
LEMMA EdgesReadKeepsReader ==
  ASSUME ReaderInv, EdgesRead
  PROVE  ReaderInv'
<1>1. /\ stage = "edges" /\ i >= nr_of_edges /\ SortEdges /\ stage' = "sorted"
      /\ file' = file /\ text' = text /\ informat' = informat /\ nr_of_nodes' = nr_of_nodes
  BY DEF EdgesRead, count_vars
<1>2. stage \in AfterTypes /\ stage' \in AfterTypes /\ stage' \notin {"metadata", "counts", "nodes"}
  BY <1>1 DEF AfterTypes
<1>3. /\ IsFile(file)
      /\ RightLayout => InOrder
      /\ ~RightLayout => Misread
  BY <1>2, InReader
<1>4. file.announced \in Nat /\ Len(file.edges) \in Nat /\ Len(file.edges) < NO_EID /\ NO_EID \in Nat
  BY <1>3, NumberOfRows, SizeAssumption DEF IsFile, NO_EID
<1>5. ASSUME RightLayout PROVE InOrder'
  <2>1. PICK k \in 0..Len(file.edges) : EdgesReadTo(k)
    BY <1>1, <1>3, <1>5 DEF InOrder
  <2>2. /\ k <= file.announced /\ i \in 0..k /\ nr_of_edges = file.announced - k + i
        /\ Len(edges) = i /\ NumberedEdges(edges) /\ FromRows(edges, k)
    BY <2>1 DEF EdgesReadTo
  <2>3. k = file.announced /\ k <= Len(file.edges)
    BY <1>1, <1>4, <2>2
  <2>4. AreInputEdges(edges)
    <3>1. edges \in Seq(CHEdge) /\ Len(edges) \in Nat /\ Len(edges) < NO_EID
      BY <1>4, <2>2 DEF NumberedEdges
    <3>2. ASSUME NEW m \in 1..Len(edges)
          PROVE  /\ edges[m] = InputEdge(edges[m].id, edges[m].src, edges[m].tgt, edges[m].dist)
                 /\ edges[m].id = m - 1 /\ edges[m].src # edges[m].tgt
      <4>1. edges[m] = InputEdge(m - 1, edges[m].src, edges[m].tgt, edges[m].dist) /\ edges[m].src # edges[m].tgt
        BY <2>2 DEF NumberedEdges
      <4>2. edges[m].id = m - 1
        BY <4>1 DEF InputEdge
      <4> QED
        BY <4>1, <4>2
    <3>3. \A m \in 1..Len(edges) : edges[m].id < Len(edges)
      BY <3>1, <3>2
    <3>4. \A j, m \in 1..Len(edges) : j < m => edges[j].id # edges[m].id
      BY <3>1, <3>2
    <3> QED
      BY <3>1, <3>2, <3>3, <3>4 DEF AreInputEdges
  <2>5. /\ AreInputEdges(edges') /\ SortedEdges(edges') /\ Len(edges') = Len(edges)
        /\ \A m \in 1..Len(edges') : \E j \in 1..Len(edges) : edges'[m] = edges[j]
        /\ \A j \in 1..Len(edges) : \E m \in 1..Len(edges') : edges'[m] = edges[j]
    BY <1>1, <2>4, EdgesAreSorted
  <2>6. PICK v, w : v = edges /\ w = edges'
    OBVIOUS
  <2>7. v \in Seq(CHEdge) /\ w \in Seq(CHEdge) /\ FromRows(v, k)
    BY <2>2, <2>4, <2>5, <2>6 DEF AreInputEdges
  <2>8. \A m \in 1..Len(w) : \E j \in 1..Len(v) : EqualEndpoints(w[m], v[j]) /\ w[m].dist = v[j].dist
    BY <2>5, <2>6 DEF EqualEndpoints
  <2>9. \A j \in 1..Len(v) : \E m \in 1..Len(w) : EqualEndpoints(w[m], v[j]) /\ w[m].dist <= v[j].dist
    <3> TAKE j \in 1..Len(v)
    <3>1. PICK m \in 1..Len(w) : w[m] = v[j]
      BY <2>5, <2>6
    <3>2. v[j] \in CHEdge
      BY <2>7
    <3>3. v[j].dist \in Int
      BY <3>2, OrderOfEdges
    <3>4. EqualEndpoints(w[m], v[j]) /\ w[m].dist <= v[j].dist
      BY <3>1, <3>3 DEF EqualEndpoints
    <3> QED
      BY <3>4
  <2>10. FromRows(w, k)
    BY <1>3, <2>7, <2>8, <2>9, RowsRemain
  <2>11. AllRead'
    <3>1. FromRows(w, k)' /\ edges' = w /\ file'.announced = k
      BY <1>1, <2>3, <2>6, <2>10, RowsStay
    <3>2. FromRows(edges, file.announced)'
      BY <3>1 DEF FromRows
    <3>3. file'.announced <= Len(file'.edges)
      BY <1>1, <2>3
    <3> QED
      BY <3>2, <3>3 DEF AllRead
  <2> QED
    BY <1>1, <2>5, <2>11 DEF InOrder, Delivered
<1>6. ASSUME ~RightLayout PROVE Misread'
  <2>1. nr_of_nodes = 0 /\ edges = <<>>
    BY <1>1, <1>3, <1>6 DEF Misread
  <2>2. AreInputEdges(edges)
    BY <1>4, <2>1 DEF AreInputEdges
  <2>3. AreInputEdges(edges') /\ Len(edges') = Len(edges)
    BY <1>1, <2>2, EdgesAreSorted
  <2>4. edges' = <<>>
    BY <2>1, <2>3 DEF AreInputEdges
  <2> QED
    BY <1>1, <2>1, <2>4 DEF Misread, Delivered
<1> QED
  BY <1>1, <1>2, <1>5, <1>6, ReaderGoesOn

(* Duplicates are removed from sorted edges.                               *)
LEMMA DeliverKeepsReader ==
  ASSUME ReaderInv, Deliver
  PROVE  ReaderInv'
<1>1. /\ stage = "sorted" /\ RemoveDuplicates /\ stage' = "delivered"
      /\ file' = file /\ text' = text /\ informat' = informat /\ nr_of_nodes' = nr_of_nodes
  BY DEF Deliver, count_vars
<1>2. stage \in AfterTypes /\ stage' \in AfterTypes /\ stage' \notin {"metadata", "counts", "nodes"}
  BY <1>1 DEF AfterTypes
<1>3. /\ IsFile(file)
      /\ RightLayout => InOrder
      /\ ~RightLayout => Misread
  BY <1>2, InReader
<1>4. file.announced \in Nat /\ Len(file.edges) \in Nat /\ Len(file.edges) < NO_EID /\ NO_EID \in Nat
  BY <1>3, NumberOfRows, SizeAssumption DEF IsFile, NO_EID
<1>5. ASSUME AreInputEdges(edges), SortedEdges(edges)
      PROVE  /\ IsInputGraph(edges')
             /\ \A m \in 1..Len(edges') : \E k \in 1..Len(edges) :
                  EqualEndpoints(edges'[m], edges[k]) /\ edges'[m].dist = edges[k].dist
             /\ \A k \in 1..Len(edges) : \E m \in 1..Len(edges') :
                  EqualEndpoints(edges'[m], edges[k]) /\ edges'[m].dist <= edges[k].dist
  BY <1>1, <1>5, DuplicatesRemoved
<1>6. ASSUME RightLayout PROVE InOrder'
  <2>1. /\ AreInputEdges(edges) /\ SortedEdges(edges)
        /\ file.announced <= Len(file.edges) /\ FromRows(edges, file.announced)
    BY <1>1, <1>3, <1>6 DEF InOrder, AllRead
  <2>2. PICK v, w, k : v = edges /\ w = edges' /\ k = file.announced
    OBVIOUS
  <2>3. /\ v \in Seq(CHEdge) /\ w \in Seq(CHEdge) /\ FromRows(v, k) /\ k \in 0..Len(file.edges)
        /\ IsInputGraph(w)
    BY <1>4, <1>5, <2>1, <2>2 DEF AreInputEdges, IsInputGraph
  <2>4. /\ \A m \in 1..Len(w) : \E j \in 1..Len(v) :
             EqualEndpoints(w[m], v[j]) /\ w[m].dist = v[j].dist
        /\ \A j \in 1..Len(v) : \E m \in 1..Len(w) :
             EqualEndpoints(w[m], v[j]) /\ w[m].dist <= v[j].dist
    BY <1>5, <2>1, <2>2
  <2>5. FromRows(w, k)
    BY <1>3, <2>3, <2>4, RowsRemain
  <2>6. AllRead'
    <3>1. FromRows(w, k)' /\ edges' = w /\ file'.announced = k
      BY <1>1, <2>2, <2>5, RowsStay
    <3>2. FromRows(edges, file.announced)'
      BY <3>1 DEF FromRows
    <3>3. file'.announced <= Len(file'.edges)
      BY <1>1, <2>1
    <3> QED
      BY <3>2, <3>3 DEF AllRead
  <2> QED
    BY <1>1, <2>2, <2>3, <2>6 DEF InOrder
<1>7. ASSUME ~RightLayout PROVE Misread'
  <2>1. nr_of_nodes = 0 /\ edges = <<>>
    BY <1>1, <1>3, <1>7 DEF Misread
  <2>2. AreInputEdges(edges) /\ SortedEdges(edges)
    BY <1>4, <2>1 DEF AreInputEdges, SortedEdges
  <2>3. edges' = <<>>
    <3>1. edges' \in Seq(CHEdge) /\ \A m \in 1..Len(edges') : \E k \in 1..Len(edges) : TRUE
      BY <1>5, <2>2 DEF IsInputGraph
    <3>2. Len(edges') \in Nat /\ 1..Len(edges) = {}
      BY <2>1, <3>1
    <3>3. Len(edges') = 0
      <4>1. ~(1 \in 1..Len(edges'))
        BY <3>1, <3>2
      <4> QED
        BY <3>2, <4>1
    <3> QED
      BY <3>1, <3>3
  <2> QED
    BY <1>1, <2>1, <2>3 DEF Misread
<1> QED
  BY <1>1, <1>2, <1>6, <1>7, ReaderGoesOn

(* Reading keeps the invariant.                                            *)
LEMMA ReadInputKeepsReader ==
  ASSUME ReaderInv, ReadInput
  PROVE  ReaderInv'
BY ReadMetadataKeepsReader, ReadCountsKeepsReader, ReadNodeKeepsReader, NodesReadKeepsReader,
   ReadEdgeKeepsReader, EdgesReadKeepsReader, DeliverKeepsReader DEF ReadInput, ReadGraph

(* A stuttering step does.                                                 *)
LEMMA StutterKeepsReader ==
  ASSUME ReaderInv, UNCHANGED program_vars
  PROVE  ReaderInv'
<1>1. /\ file' = file /\ text' = text /\ informat' = informat /\ is' = is /\ stage' = stage
      /\ i' = i /\ nr_of_nodes' = nr_of_nodes /\ nr_of_edges' = nr_of_edges /\ edges' = edges
      /\ options' = options
  BY DEF program_vars, reader_vars, count_vars
<1>2. FileInv' /\ (RightLayout' <=> RightLayout) /\ (Delivered' <=> Delivered)
  BY <1>1, FileStays DEF ReaderInv, RightLayout, Delivered
<1>3. CompleteFilesAreRead'
  BY <1>1, <1>2 DEF ReaderInv, CompleteFilesAreRead, RecordsInOrder, OptionsInOrder
<1>4. \A k : FromRows(edges, k)' <=> FromRows(edges, k)
  <2>1. PICK v : v = edges
    OBVIOUS
  <2>2. \A k : FromRows(v, k)' <=> FromRows(v, k)
    BY <1>1, RowsStay
  <2>3. edges' = v
    BY <1>1, <2>1
  <2> QED
    BY <2>1, <2>2, <2>3 DEF FromRows
<1>5. ASSUME InOrder PROVE InOrder'
  <2>1. AllRead => AllRead'
    <3>1. PICK k : k = file.announced
      OBVIOUS
    <3>2. FromRows(edges, k) => FromRows(edges, k)'
      BY <1>4
    <3>3. FromRows(edges, k)' => FromRows(edges, file.announced)'
      BY <1>1, <3>1 DEF FromRows
    <3> QED
      BY <1>1, <3>1, <3>2, <3>3 DEF AllRead
  <2>2. \A k : EdgesReadTo(k) => EdgesReadTo(k)'
    BY <1>1, <1>4 DEF EdgesReadTo, AfterEdge, AfterRow
  <2> QED
    BY <1>1, <1>2, <1>5, <2>1, <2>2 DEF InOrder, AfterNode
<1>6. ASSUME Misread PROVE Misread'
  BY <1>1, <1>2, <1>6 DEF Misread, OtherFields
<1> QED
  BY <1>1, <1>2, <1>3, <1>5, <1>6 DEF ReaderInv

(* Every step of the program does.                                         *)
LEMMA NextKeepsReader ==
  OutputInv /\ ReaderInv /\ [ProgramNext]_program_vars => OutputInv' /\ ReaderInv'
<1> SUFFICES ASSUME OutputInv, ReaderInv, [ProgramNext]_program_vars
             PROVE  OutputInv' /\ ReaderInv'
  OBVIOUS
<1>1. OutputInv'
  BY ProgramNextKeeps
<1>2. ReaderInv'
  BY ParseOptionsKeepsReader, ChooseTypesKeepsReader, ReadInputKeepsReader,
     BuildAndStoreKeepsReader, StutterKeepsReader DEF ProgramNext, Ended
<1> QED
  BY <1>1, <1>2

(* It holds in every state.                                                *)
LEMMA ReaderInvHolds == ProgramSpec => [](OutputInv /\ ReaderInv)
BY InitOutputInv, InitReaderInv, NextKeepsReader, PTL DEF ProgramSpec

-----------------------------------------------------------------------------
(***************************************************************************)
(* What is delivered.                                                      *)
(***************************************************************************)

(* A graph and all lines, or nothing.                                      *)
LEMMA WhatIsDelivered ==
  ASSUME ReaderInv, Delivered
  PROVE  IF RightLayout THEN IsInputGraph(edges) /\ AllRead ELSE nr_of_nodes = 0 /\ edges = <<>>
<1>1. stage \in AfterTypes
  BY DEF Delivered, AfterTypes
<1>2. IF RightLayout THEN InOrder ELSE Misread
  BY <1>1 DEF ReaderInv
<1> QED
  BY <1>2 DEF InOrder, Misread

(* The lines announced, their ends and lengths.                            *)
LEMMA FieldsOfAnnounced ==
  ASSUME FileInv, NEW r \in AnnouncedRows
  PROVE  /\ r.src \in Nodes /\ r.tgt \in Nodes
         /\ LengthsOf(r) \in SUBSET Uint /\ LengthsOf(r) # {}
         /\ \E k \in 1..Len(file.edges) : k <= file.announced /\ r = file.edges[k] /\ r.dist >= 0
         /\ r.dist \in 0..(MaxUint \div 2) /\ r.type \in Int /\ r.speed \in Int
<1>1. IsFile(file) /\ Len(file.edges) \in Nat /\ DOMAIN file.edges = 1..Len(file.edges)
  BY DEF FileInv, IsFile
<1>2. PICK k \in 1..Len(file.edges) : k <= file.announced /\ r = file.edges[k] /\ r.dist >= 0
  BY <1>1 DEF AnnouncedRows
<1>3. r \in [src : Nodes, tgt : Nodes, dist : SignedInt, type : Uint, speed : SignedInt]
  BY <1>1, <1>2, EdgeRowNumbers
<1>4. r.src \in Nodes /\ r.tgt \in Nodes /\ r.type \in Int /\ r.speed \in Int
  <2>1. r.type \in Uint /\ r.speed \in SignedInt
    BY <1>3
  <2> QED
    BY <1>3, <2>1, SignedNumbers
<1>5. r.dist \in 0..(MaxUint \div 2)
  <2>1. r.dist \in SignedInt
    BY <1>3
  <2> QED
    BY <1>2, <2>1, SignedNumbers
<1>6. LengthsOf(r) \in SUBSET Uint /\ LengthsOf(r) # {}
  BY <1>4, <1>5, LengthsOfRow
<1> QED
  BY <1>2, <1>4, <1>5, <1>6

(* Each edge has one of the lengths of a line with the same ends.          *)
LEMMA EdgeHasRow ==
  ASSUME ReaderInv, Delivered, RightLayout, NEW e \in Range(edges)
  PROVE  \E r \in AnnouncedRows : e.src = r.src /\ e.tgt = r.tgt /\ e.dist \in LengthsOf(r)
<1>1. IsInputGraph(edges) /\ AllRead /\ IsFile(file)
  BY WhatIsDelivered DEF ReaderInv, FileInv
<1>2. PICK m \in 1..Len(edges) : e = edges[m]
  BY <1>1 DEF Range, IsInputGraph
<1>3. PICK j \in 1..file.announced : IsEdgeOf(e, file.edges[j])
  BY <1>1, <1>2 DEF AllRead, FromRows
<1>4. file.announced \in Nat /\ Len(file.edges) \in Nat /\ file.announced <= Len(file.edges)
  BY <1>1, SizeAssumption DEF IsFile, AllRead, Uint
<1>5. j \in DOMAIN file.edges /\ j <= file.announced
  BY <1>1, <1>4 DEF IsFile
<1>6. file.edges[j] \in AnnouncedRows
  BY <1>3, <1>5 DEF AnnouncedRows, IsEdgeOf, KeptRow
<1> QED
  BY <1>3, <1>6 DEF IsEdgeOf

(* Each line that is no loop has an edge that is not longer than one of its*)
(* lengths.                                                                *)
LEMMA RowHasEdge ==
  ASSUME ReaderInv, Delivered, RightLayout, NEW r \in AnnouncedRows, r.src # r.tgt
  PROVE  \E e \in Range(edges) : NoLonger(e, r)
<1>1. IsInputGraph(edges) /\ AllRead /\ FileInv
  BY WhatIsDelivered DEF ReaderInv
<1>2. PICK k \in 1..Len(file.edges) : k <= file.announced /\ r = file.edges[k] /\ r.dist >= 0
  BY <1>1, FieldsOfAnnounced
<1>3. file.announced \in Nat
  BY <1>1, SizeAssumption, SMTT(30) DEF FileInv, IsFile, Uint
<1>4. k \in 1..file.announced /\ KeptRow(file.edges[k])
  BY <1>2, <1>3 DEF KeptRow
<1>5. PICK m \in 1..Len(edges) : NoLonger(edges[m], r)
  BY <1>1, <1>2, <1>4 DEF AllRead, FromRows
<1>6. edges[m] \in Range(edges)
  BY <1>1 DEF Range, IsInputGraph
<1> QED
  BY <1>5, <1>6

(* The edges are edges of the graph.                                       *)
LEMMA EdgesAreEdges ==
  ASSUME IsInputGraph(edges)
  PROVE  EdgeSet(Range(edges))
<1>1. \A m \in 1..Len(edges) : edges[m] \in CHEdge
  BY DEF IsInputGraph
<1>2. \A e \in Range(edges) : e \in CHEdge
  BY <1>1 DEF Range, IsInputGraph
<1> QED
  BY <1>2, SizeAssumption DEF EdgeSet, CHEdge, Uint

(* So are the lines with their shortest and their longest lengths.         *)
LEMMA ArcsAreEdges ==
  ASSUME FileInv
  PROVE  EdgeSet(ShortArcs) /\ EdgeSet(LongArcs)
<1>1. ASSUME NEW r \in AnnouncedRows
      PROVE  r.src \in Nodes /\ r.tgt \in Nodes /\ Min(LengthsOf(r)) \in Nat /\ Max(LengthsOf(r)) \in Nat
  <2>1. r.src \in Nodes /\ r.tgt \in Nodes /\ LengthsOf(r) \in SUBSET Uint /\ LengthsOf(r) # {}
    BY FieldsOfAnnounced
  <2>2. Min(LengthsOf(r)) \in Uint /\ Max(LengthsOf(r)) \in Uint
    BY <2>1, ShortestAndLongest
  <2> QED
    BY <2>1, <2>2, SizeAssumption DEF Uint
<1>2. \A r : \A d : Arc(r, d).src = r.src /\ Arc(r, d).tgt = r.tgt /\ Arc(r, d).dist = d
  BY DEF Arc
<1>3. \A e \in ShortArcs : \E r \in AnnouncedRows : e = Arc(r, Min(LengthsOf(r)))
  BY DEF ShortArcs
<1>4. \A e \in LongArcs : \E r \in AnnouncedRows : e = Arc(r, Max(LengthsOf(r)))
  BY DEF LongArcs
<1> QED
  BY <1>1, <1>2, <1>3, <1>4 DEF EdgeSet

(* One can get wherever one gets along the edges of E along those of F, if *)
(* that is so for the ends of each edge.                                   *)
LEMMA SameNodesReached ==
  ASSUME NEW E, EdgeSet(E), NEW F, EdgeSet(F),
         \A e \in E : \E d \in Nat : AtMost(Distances(F), e.src, e.tgt, d),
         NEW u \in Nodes, NEW v \in Nodes, NEW d \in Nat, <<u, v, d>> \in Distances(E)
  PROVE  \E c \in Nat : <<u, v, c>> \in Distances(F)
<1> DEFINE D == Distances(F)
           R == {w \in Nodes : \E c \in Nat : <<u, w, c>> \in D}
           p == [w \in Nodes |-> IF w \in R THEN 0 ELSE d + 1]
<1>1. Triangular(D)
  BY DistancesTriangular
<1>2. \A e \in E : \E c \in Nat : AtMost(D, e.src, e.tgt, c)
  OBVIOUS
<1> HIDE DEF D
<1>3. u \in R
  BY <1>1 DEF Triangular
<1>4. ASSUME NEW e \in E, e.src \in R PROVE e.tgt \in R
  <2>1. e.src \in Nodes /\ e.tgt \in Nodes
    BY DEF EdgeSet
  <2>2. PICK a \in Nat : <<u, e.src, a>> \in D
    BY <1>4
  <2>3. PICK b \in Nat : AtMost(D, e.src, e.tgt, b)
    BY <1>2
  <2>4. AtMost(D, u, e.src, a)
    BY <2>2 DEF AtMost
  <2>5. AtMost(D, u, e.tgt, a + b)
    BY <1>1, <2>1, <2>3, <2>4 DEF Triangular
  <2> QED
    BY <2>1, <2>5 DEF AtMost
<1> HIDE DEF R
<1>5. p \in [Nodes -> Int] /\ \A w \in Nodes : p[w] = IF w \in R THEN 0 ELSE d + 1
  OBVIOUS
<1> HIDE DEF p
<1>6. Potential(p, E)
  <2> SUFFICES ASSUME NEW e \in E PROVE p[e.tgt] <= p[e.src] + e.dist
    BY <1>5 DEF Potential
  <2>1. e.src \in Nodes /\ e.tgt \in Nodes /\ e.dist \in Nat
    BY DEF EdgeSet
  <2> QED
    BY <1>4, <1>5, <2>1
<1>7. p[v] <= p[u] + d
  BY <1>6, DistancesTriangular DEF Bounds
<1>8. v \in R
  BY <1>3, <1>5, <1>7
<1> QED
  BY <1>8 DEF R, D

(* What is delivered is an input graph; there is one without edges, too.   *)
LEMMA InputGraphDelivered ==
  ASSUME ReaderInv
  PROVE  DeliversInputGraph
<1> SUFFICES ASSUME Delivered PROVE IsInputGraph(edges)
  BY DEF DeliversInputGraph
<1>1. CASE RightLayout
  BY <1>1, WhatIsDelivered
<1>2. CASE ~RightLayout
  <2>1. PICK v : v = edges
    OBVIOUS
  <2>2. v = <<>>
    BY <1>2, <2>1, WhatIsDelivered
  <2>3. 0 < NO_EID
    <3>1. Len(file.edges) < NO_EID /\ Len(file.edges) \in Nat
      BY DEF ReaderInv, FileInv, IsFile
    <3> QED
      BY <3>1, SizeAssumption DEF NO_EID
  <2>4. v \in Seq(CHEdge) /\ Len(v) = 0
    BY <2>2
  <2>5. IsInputGraph(v)
    BY <2>3, <2>4 DEF IsInputGraph
  <2> QED
    BY <2>1, <2>5
<1> QED
  BY <1>1, <1>2

(* A file in another layout gives nothing.                                 *)
LEMMA NothingIsMisread ==
  ASSUME ReaderInv
  PROVE  MisreadFilesGiveNothing
BY WhatIsDelivered DEF MisreadFilesGiveNothing

(* The edge of a line was given one of its times.                          *)
LEMMA TimesAreCovered ==
  ASSUME TimesFit, ReaderInv
  PROVE  TimesCoverLengths
<1> SUFFICES ASSUME Delivered, RightLayout, NEW e \in Range(edges)
             PROVE  \E r \in AnnouncedRows : r.src = e.src /\ r.tgt = e.tgt /\ r.dist <= e.dist + 1
  BY DEF TimesCoverLengths
<1>1. PICK r \in AnnouncedRows : e.src = r.src /\ e.tgt = r.tgt /\ e.dist \in LengthsOf(r)
  BY EdgeHasRow
<1>2. FileInv
  BY DEF ReaderInv
<1>3. /\ r.dist \in 0..(MaxUint \div 2) /\ r.type \in Int /\ r.speed \in Int
      /\ \E k \in 1..Len(file.edges) : r = file.edges[k]
  BY <1>2, FieldsOfAnnounced
<1>4. LET f == TimeFactor(r.type, r.speed) IN (r.dist * f[1]) \div f[2] <= MaxUint
  <2>1. PICK start \in Starts : file = start.file
    BY <1>2 DEF FileInv
  <2>2. PICK k \in DOMAIN start.file.edges : r = start.file.edges[k]
    BY <1>2, <1>3, <2>1 DEF FileInv, IsFile
  <2> QED
    BY <2>2 DEF TimesFit
<1>5. r.dist <= e.dist + 1
  BY <1>1, <1>3, <1>4, LengthsCover
<1> QED
  BY <1>1, <1>5

(* An edge is no shorter than the shortest lengths of the lines say.       *)
LEMMA FoundNoShorter ==
  ASSUME ReaderInv, Delivered, RightLayout, NEW e \in Range(edges)
  PROVE  AtMost(Distances(ShortArcs), e.src, e.tgt, e.dist)
<1>1. PICK r \in AnnouncedRows : e.src = r.src /\ e.tgt = r.tgt /\ e.dist \in LengthsOf(r)
  BY EdgeHasRow
<1>2. FileInv
  BY DEF ReaderInv
<1>3. LengthsOf(r) \in SUBSET Uint /\ LengthsOf(r) # {} /\ r.src \in Nodes /\ r.tgt \in Nodes
  BY <1>2, FieldsOfAnnounced
<1>4. PICK s : s = Min(LengthsOf(r))
  OBVIOUS
<1>5. s \in Uint /\ e.dist \in Uint /\ s <= e.dist
  BY <1>1, <1>3, <1>4, ShortestAndLongest
<1>6. s \in Nat /\ e.dist \in Nat
  BY <1>5, SizeAssumption DEF Uint
<1>7. PICK a : a = Arc(r, s)
  OBVIOUS
<1>8. a \in ShortArcs /\ a.src = e.src /\ a.tgt = e.tgt /\ a.dist = s
  BY <1>1, <1>4, <1>7 DEF ShortArcs, Arc
<1>9. EdgeSet(ShortArcs)
  BY <1>2, ArcsAreEdges
<1>10. AtMost(Distances(ShortArcs), e.src, e.tgt, s)
  BY <1>8, <1>9, DistancesTriangular
<1> QED
  BY <1>5, <1>6, <1>10, AtMostWeakens

(* There is a way where there is a line, and it is not longer than the     *)
(* longest of its lengths.                                                 *)
LEMMA LinesAreFound ==
  ASSUME ReaderInv, Delivered, RightLayout, NEW r \in AnnouncedRows
  PROVE  /\ Max(LengthsOf(r)) \in Nat
         /\ AtMost(Distances(Range(edges)), r.src, r.tgt, Max(LengthsOf(r)))
<1>1. FileInv /\ IsInputGraph(edges)
  BY WhatIsDelivered DEF ReaderInv
<1>2. LengthsOf(r) \in SUBSET Uint /\ LengthsOf(r) # {} /\ r.src \in Nodes /\ r.tgt \in Nodes
  BY <1>1, FieldsOfAnnounced
<1>3. PICK l : l = Max(LengthsOf(r))
  OBVIOUS
<1>4. l \in Uint /\ \A y \in LengthsOf(r) : y <= l
  BY <1>2, <1>3, ShortestAndLongest
<1>5. \A y \in LengthsOf(r) : y \in Nat
  BY <1>2, SizeAssumption DEF Uint
<1>6. l \in Nat
  BY <1>4, SizeAssumption DEF Uint
<1>7. PICK E : E = Range(edges)
  OBVIOUS
<1>8. EdgeSet(E)
  BY <1>1, <1>7, EdgesAreEdges
<1>9. AtMost(Distances(E), r.src, r.tgt, l)
  <2>1. CASE r.src = r.tgt
    <3>1. <<r.src, r.src, 0>> \in Distances(E)
      BY <1>2, <1>8, DistancesTriangular DEF Triangular
    <3> QED
      BY <1>6, <2>1, <3>1 DEF AtMost
  <2>2. CASE r.src # r.tgt
    <3>1. PICK e \in E : NoLonger(e, r)
      BY <1>7, <2>2, RowHasEdge
    <3>2. PICK y \in LengthsOf(r) : e.src = r.src /\ e.tgt = r.tgt /\ e.dist <= y
      BY <3>1 DEF NoLonger
    <3>3. e.dist \in Nat /\ y \in Nat /\ y <= l
      BY <1>4, <1>5, <1>8, <3>2 DEF EdgeSet
    <3>4. e.dist <= l
      BY <1>6, <3>2, <3>3
    <3>5. AtMost(Distances(E), r.src, r.tgt, e.dist)
      BY <1>8, <3>2, DistancesTriangular
    <3> QED
      BY <1>6, <3>3, <3>4, <3>5, AtMostWeakens
  <2> QED
    BY <2>1, <2>2
<1> QED
  BY <1>3, <1>6, <1>7, <1>9

(* Where the edges lead, and how far, is what the lines say.               *)
LEMMA DistancesAreKept ==
  ASSUME ReaderInv
  PROVE  KeepsDistances
<1> SUFFICES ASSUME Delivered, RightLayout PROVE KeepsDistances
  BY DEF KeepsDistances
<1> DEFINE E == Range(edges)
           found == Distances(E)
           shorter == Distances(ShortArcs)
           longer == Distances(LongArcs)
           Between(t) == /\ \E l \in shorter : l[1] = t[1] /\ l[2] = t[2] /\ l[3] <= t[3]
                         /\ \E l \in longer : l[1] = t[1] /\ l[2] = t[2] /\ l[3] >= t[3]
           Ends(D) == {<<t[1], t[2]>> : t \in D}
<1>1. FileInv /\ IsInputGraph(edges)
  BY WhatIsDelivered DEF ReaderInv
<1>2. EdgeSet(E) /\ EdgeSet(ShortArcs) /\ EdgeSet(LongArcs)
  BY <1>1, EdgesAreEdges, ArcsAreEdges
<1>3. \A e \in E : AtMost(shorter, e.src, e.tgt, e.dist)
  BY FoundNoShorter
<1>4. \A a \in LongArcs : AtMost(found, a.src, a.tgt, a.dist)
  <2> TAKE a \in LongArcs
  <2>1. PICK r \in AnnouncedRows : a = Arc(r, Max(LengthsOf(r)))
    BY DEF LongArcs
  <2>2. a.src = r.src /\ a.tgt = r.tgt /\ a.dist = Max(LengthsOf(r))
    BY <2>1 DEF Arc
  <2> QED
    BY <2>2, LinesAreFound
<1>5. \A a \in ShortArcs : \E d \in Nat : AtMost(found, a.src, a.tgt, d)
  <2> TAKE a \in ShortArcs
  <2>1. PICK r \in AnnouncedRows : a = Arc(r, Min(LengthsOf(r)))
    BY DEF ShortArcs
  <2>2. a.src = r.src /\ a.tgt = r.tgt
    BY <2>1 DEF Arc
  <2> QED
    BY <2>2, LinesAreFound
<1>6. \A e \in E : \E d \in Nat : AtMost(longer, e.src, e.tgt, d)
  <2> TAKE e \in E
  <2>1. PICK r \in AnnouncedRows : e.src = r.src /\ e.tgt = r.tgt
    BY EdgeHasRow
  <2>2. PICK a : a = Arc(r, Max(LengthsOf(r)))
    OBVIOUS
  <2>3. a \in LongArcs /\ a.src = e.src /\ a.tgt = e.tgt
    BY <2>1, <2>2 DEF LongArcs, Arc
  <2>4. a.dist \in Nat /\ AtMost(longer, e.src, e.tgt, a.dist)
    BY <1>2, <2>3, DistancesTriangular DEF EdgeSet
  <2> QED
    BY <2>4
<1>7. \A e \in E : e.dist \in Nat
  BY <1>2 DEF EdgeSet
<1>8. NoShorter(E, ShortArcs) /\ NoShorter(LongArcs, E)
  BY <1>2, <1>3, <1>4, EdgesNoShorter
<1>9. Triangular(found) /\ Triangular(shorter) /\ Triangular(longer)
  BY <1>2, DistancesTriangular
<1>10. \A u, v \in Nodes, d \in Nat : <<u, v, d>> \in found => AtMost(shorter, u, v, d)
  BY <1>8 DEF NoShorter
<1>11. \A u, v \in Nodes, d \in Nat : <<u, v, d>> \in longer => AtMost(found, u, v, d)
  BY <1>8 DEF NoShorter
<1>12. ASSUME NEW u \in Nodes, NEW v \in Nodes, NEW d \in Nat, <<u, v, d>> \in shorter
       PROVE  \E c \in Nat : <<u, v, c>> \in found
  BY <1>2, <1>5, <1>12, SameNodesReached
<1>13. ASSUME NEW u \in Nodes, NEW v \in Nodes, NEW d \in Nat, <<u, v, d>> \in found
       PROVE  \E c \in Nat : <<u, v, c>> \in longer
  BY <1>2, <1>6, <1>13, SameNodesReached
<1> HIDE DEF E, found, shorter, longer
<1>14. /\ \A t \in found : t[1] \in Nodes /\ t[2] \in Nodes /\ t[3] \in Nat /\ t = <<t[1], t[2], t[3]>>
       /\ \A t \in shorter : t[1] \in Nodes /\ t[2] \in Nodes /\ t[3] \in Nat /\ t = <<t[1], t[2], t[3]>>
  BY <1>9 DEF Triangular, Triples
<1>15. Ends(found) = Ends(shorter)
  <2>1. ASSUME NEW t \in found PROVE <<t[1], t[2]>> \in Ends(shorter)
    <3>1. AtMost(shorter, t[1], t[2], t[3])
      BY <1>10, <1>14
    <3>2. PICK c \in Nat : <<t[1], t[2], c>> \in shorter
      BY <3>1 DEF AtMost
    <3>3. PICK s : s = <<t[1], t[2], c>>
      OBVIOUS
    <3>4. s \in shorter /\ s[1] = t[1] /\ s[2] = t[2]
      BY <3>2, <3>3
    <3> QED
      BY <3>4
  <2>2. ASSUME NEW t \in shorter PROVE <<t[1], t[2]>> \in Ends(found)
    <3>0. PICK u \in Nodes, v \in Nodes, d \in Nat : u = t[1] /\ v = t[2] /\ <<u, v, d>> \in shorter
      BY <1>14
    <3>1. PICK c \in Nat : <<t[1], t[2], c>> \in found
      BY <1>12, <3>0
    <3>2. PICK s : s = <<t[1], t[2], c>>
      OBVIOUS
    <3>3. s \in found /\ s[1] = t[1] /\ s[2] = t[2]
      BY <3>1, <3>2
    <3> QED
      BY <3>3
  <2> QED
    BY <2>1, <2>2
<1>16. ASSUME NEW t \in found PROVE Between(t)
  <2>1. PICK u \in Nodes, v \in Nodes, d \in Nat : t = <<u, v, d>>
    BY <1>14
  <2>2. t[1] = u /\ t[2] = v /\ t[3] = d
    BY <2>1
  <2>3. PICK a \in Nat : <<u, v, a>> \in shorter /\ a <= d
    BY <1>10, <2>1 DEF AtMost
  <2>4. PICK c \in Nat : <<u, v, c>> \in longer
    BY <1>13, <2>1
  <2>5. PICK b \in Nat : <<u, v, b>> \in found /\ b <= c
    BY <1>11, <2>4 DEF AtMost
  <2>6. b = d
    BY <1>9, <2>1, <2>5 DEF Triangular, OneDistance
  <2>7. PICK x, y : x = <<u, v, a>> /\ y = <<u, v, c>>
    OBVIOUS
  <2>8. x \in shorter /\ x[1] = t[1] /\ x[2] = t[2] /\ x[3] <= t[3]
    BY <2>2, <2>3, <2>7
  <2>9. y \in longer /\ y[1] = t[1] /\ y[2] = t[2] /\ y[3] >= t[3]
    BY <2>2, <2>4, <2>5, <2>6, <2>7
  <2> QED
    BY <2>8, <2>9
<1> QED
  BY <1>15, <1>16 DEF KeepsDistances, E, found, shorter, longer

-----------------------------------------------------------------------------
(***************************************************************************)
(* What the reader and the program promise, whatever the files, the options*)
(* and the sizes are.                                                      *)
(***************************************************************************)

(* The edges delivered are an input graph as the constructor expects it.   *)
THEOREM InputGraphsAreDelivered == ProgramSpec => []DeliversInputGraph
<1>1. ReaderInv => DeliversInputGraph
  BY InputGraphDelivered
<1> QED
  BY <1>1, ReaderInvHolds, PTL

(* A file in another layout than the one named by -f gives no edges.       *)
THEOREM OtherLayoutsGiveNothing == ProgramSpec => []MisreadFilesGiveNothing
<1>1. ReaderInv => MisreadFilesGiveNothing
  BY NothingIsMisread
<1> QED
  BY <1>1, ReaderInvHolds, PTL

(* What is in order is not turned away.                                    *)
THEOREM NothingInOrderIsRefused == ProgramSpec => []CompleteFilesAreRead
<1>1. ReaderInv => CompleteFilesAreRead
  BY DEF ReaderInv
<1> QED
  BY <1>1, ReaderInvHolds, PTL

(* If the times fit into their type, none is less than its length, but for *)
(* rounding.                                                               *)
THEOREM TimesAreNoLess ==
  ASSUME TimesFit
  PROVE  ProgramSpec => []TimesCoverLengths
<1>1. ReaderInv => TimesCoverLengths
  BY TimesAreCovered
<1> QED
  BY <1>1, ReaderInvHolds, PTL

(* Dropping loops, lines of negative length and all but the shortest of    *)
(* parallel edges loses no shortest path.                                  *)
THEOREM ReadingKeepsDistances == ProgramSpec => []KeepsDistances
<1>1. ReaderInv => KeepsDistances
  BY DistancesAreKept
<1> QED
  BY <1>1, ReaderInvHolds, PTL
=============================================================================
