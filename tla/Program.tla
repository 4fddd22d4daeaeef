------------------------------ MODULE Program ------------------------------
(***************************************************************************)
(* The program (main() in ch_constructor.cpp): the options, the choice of  *)
(* the types for both formats (file_formats.h), and the order in which the *)
(* input is read, the hierarchy built and the output opened and written.   *)
(* What the hierarchy becomes is modelled in CHPipeline.                   *)
(***************************************************************************)
EXTENDS GraphReader

CONSTANTS
  Starts,          \* what the program may be started with: arguments and the input file
  ReadableFiles,   \* names of files that can be opened for reading
  WritableFiles,   \* names of files that can be opened for writing
  MaxThreads       \* threads there is memory for

ASSUME StartsAssumption == \A start \in Starts : IsFile(start.file)
ASSUME MaxThreadsAssumption == MaxThreads \in 1..MaxUint

VARIABLES
  args,      \* the arguments getopt_long() has not returned yet
  options,   \* the values they have set; that of -f is informat
  output     \* what is in the file options.outfile: "as it was", "empty", "complete", "cut off"

program_vars == <<reader_vars, args, options, output>>

ProgramInit ==
  /\ \E start \in Starts : args = start.args /\ file = start.file /\ text = Text(start.file)
  /\ options = [infile |-> "", outfile |-> "ch_out.graph", outformat |-> "FMI_CH",
                nr_of_threads |-> 1, prioritizer_type |-> "NONE"]
  /\ informat = "FMI_DIST"
  /\ output = "as it was"
  /\ stage = "options"
  /\ ReaderInit

-----------------------------------------------------------------------------
(* The loop over the options.  An argument is the letter of an option, its *)
(* text and, for -t, the number the text begins with.                      *)
arg == Head(args)

NextOption(letters) ==
  stage = "options" /\ args # <<>> /\ arg.option \in letters /\ args' = Tail(args)

stream_vars == <<is, line, count_vars, edges>>

Help ==
  /\ NextOption({"h"})
  /\ stage' = "exit_0"
  /\ UNCHANGED <<file, text, informat, stream_vars, options, output>>

ToPrioritizerType(name) == IF name \in {"ONE_BY_ONE", "EDGE_DIFF"} THEN name ELSE "NONE"

SetOption ==
  /\ NextOption({"i", "o", "g", "p"})
  /\ options' = CASE arg.option = "i" -> [options EXCEPT !.infile = arg.text]
                  [] arg.option = "o" -> [options EXCEPT !.outfile = arg.text]
                  [] arg.option = "g" -> [options EXCEPT !.outformat = ToFileFormat(arg.text)]
                  [] arg.option = "p" -> [options EXCEPT !.prioritizer_type = ToPrioritizerType(arg.text)]
  /\ UNCHANGED <<file, text, informat, stream_vars, stage, output>>

SetInformat ==
  /\ NextOption({"f"})
  /\ informat' = ToFileFormat(arg.text)
  /\ UNCHANGED <<file, text, stream_vars, stage, options, output>>

(* std::stoi() throws if there is no number, and nobody catches that.  What*)
(* it returns is put into an unsigned variable before it is compared with 0*)
SetThreads ==
  /\ NextOption({"t"})
  /\ options' = IF arg.text = "no number" THEN options
                ELSE [options EXCEPT !.nr_of_threads = arg.number % (MaxUint + 1)]
  /\ stage' = CASE arg.text = "no number" -> "terminated"
                [] arg.text = "number and more" -> "exit_1"
                [] OTHER -> IF options'.nr_of_threads = 0 THEN "exit_1" ELSE stage
  /\ UNCHANGED <<file, text, informat, stream_vars, output>>

UnknownOption ==
  /\ NextOption({"?"})
  /\ stage' = "exit_1"
  /\ UNCHANGED <<file, text, informat, stream_vars, options, output>>

ParseOptions == Help \/ SetOption \/ SetInformat \/ SetThreads \/ UnknownOption

-----------------------------------------------------------------------------
(* readGraphForWriteFormat(): the types of the graph are those the writer  *)
(* of the output needs, and the reader has to provide them.                *)
TypesOfReader(inf, outf) == ReaderTypes[inf]   \* mutant

GraphTypes(inf, outf) == WriterTypes[outf]

OptionsParsed == stage = "options" /\ args = <<>>

Stop(how) ==
  /\ stage' = how
  /\ UNCHANGED <<file, text, informat, stream_vars, args, options, output>>

NoInfile == OptionsParsed /\ options.infile = "" /\ Stop("exit_1")

HasInfile == OptionsParsed /\ options.infile # ""

UnknownOutputFormat ==
  HasInfile /\ options.outformat \notin DOMAIN WriterTypes /\ Stop("exit_1")

UnknownInputFormat ==
  /\ HasInfile /\ options.outformat \in DOMAIN WriterTypes
  /\ informat \notin DOMAIN ReaderTypes
  /\ Stop("exit_1")

FormatsKnown ==
  HasInfile /\ options.outformat \in DOMAIN WriterTypes /\ informat \in DOMAIN ReaderTypes

CannotOpenInput == FormatsKnown /\ options.infile \notin ReadableFiles /\ Stop("aborted")

CannotReadTypes ==
  /\ FormatsKnown /\ options.infile \in ReadableFiles
  /\ ~CanRead(informat, GraphTypes(informat, options.outformat))
  /\ Stop("aborted")

OpenInput ==
  /\ FormatsKnown /\ options.infile \in ReadableFiles
  /\ CanRead(informat, GraphTypes(informat, options.outformat))
  /\ OpenStream
  /\ UNCHANGED <<file, text, informat, count_vars, edges, args, options, output>>

ChooseTypes ==
  NoInfile \/ UnknownOutputFormat \/ UnknownInputFormat \/ CannotOpenInput \/ CannotReadTypes
  \/ OpenInput

ReadInput == ReadGraph /\ UNCHANGED <<args, options, output>>

-----------------------------------------------------------------------------
(* BuildAndStoreCHGraph.  The constructor makes room for every thread.     *)
BuildHierarchy ==
  stage = "delivered" /\ Stop(IF options.nr_of_threads > MaxThreads THEN "terminated" ELSE "built")

(* writeCHGraphFile(): opening the file empties it, and only then does the *)
(* writer turn types away.  Nothing asks whether writing has failed.       *)
CannotOpenOutput == stage = "built" /\ options.outfile \notin WritableFiles /\ Stop("aborted")

OpenOutput ==
  /\ stage = "built" /\ options.outfile \in WritableFiles
  /\ output' = "empty"
  /\ stage' = "opened"
  /\ UNCHANGED <<file, text, informat, stream_vars, args, options>>

WriteHierarchy ==
  /\ stage = "opened"
  /\ IF CanWrite(options.outformat, GraphTypes(informat, options.outformat))
     THEN stage' = "exit_0" /\ output' \in {"complete", "cut off"}
     ELSE stage' = "aborted" /\ UNCHANGED output
  /\ UNCHANGED <<file, text, informat, stream_vars, args, options>>

BuildAndStore == BuildHierarchy \/ CannotOpenOutput \/ OpenOutput \/ WriteHierarchy

Failed == stage \in {"exit_1", "aborted", "terminated"}

Stopped == Failed \/ stage = "exit_0"

Ended == Stopped /\ UNCHANGED program_vars

ProgramNext == ParseOptions \/ ChooseTypes \/ ReadInput \/ BuildAndStore \/ Ended

(* One thread runs the program, and nothing can block it.                  *)
ProgramSpec ==
  ProgramInit /\ [][ProgramNext]_program_vars /\ WF_program_vars(ProgramNext)

-----------------------------------------------------------------------------
Delivered == stage \in {"delivered", "built", "opened"}

(* What the reader delivers is an input graph: no loops, sorted, no two    *)
(* edges with the same ends, and the ids are those the constructor expects.*)
DeliversInputGraph == Delivered => IsInputGraph(edges)

RightLayout ==
  /\ HasMetadata(file.layout) = HasMetadata(informat)
  /\ NodeFields(file.layout) = NodeFields(informat)
  /\ EdgeFields(file.layout) = EdgeFields(informat)

(* The lines announced that are not negative.                              *)
AnnouncedRows ==
  {file.edges[k] : k \in {k \in DOMAIN file.edges : k <= file.announced /\ file.edges[k].dist >= 0}}

(* Their ends, with the shortest and with the longest of their lengths.    *)
Arc(r, d) == [src |-> r.src, tgt |-> r.tgt, dist |-> d]
ShortArcs == {Arc(r, Min(LengthsOf(r))) : r \in AnnouncedRows}
LongArcs == {Arc(r, Max(LengthsOf(r))) : r \in AnnouncedRows}

(* No shortest path of the file is lost with the lines that are dropped,   *)
(* and none is gained: what is found is between the distances that the     *)
(* shortest and the longest lengths give that a line may get, as rounding  *)
(* takes one from some times.                                              *)
KeepsDistances ==
  Delivered /\ RightLayout =>
    LET found   == Distances(Range(edges))
        shorter == Distances(ShortArcs)
        longer  == Distances(LongArcs)
        Between(t) == /\ \E l \in shorter : l[1] = t[1] /\ l[2] = t[2] /\ l[3] <= t[3]
                      /\ \E l \in longer : l[1] = t[1] /\ l[2] = t[2] /\ l[3] >= t[3]
        Ends(D) == {<<t[1], t[2]>> : t \in D}
    IN  Ends(found) = Ends(shorter) /\ \A t \in found : Between(t)

(* Whatever the type of a road and its speed, nobody drives faster than 130*)
(* km/h, the speed at which a time is the length: a time is no less than   *)
(* the length of a line with the same ends, but for rounding.              *)
TimesCoverLengths ==
  Delivered /\ RightLayout /\ HasTimeMetric(informat) =>
    \A e \in Range(edges) :
      \E r \in AnnouncedRows : r.src = e.src /\ r.tgt = e.tgt /\ r.dist <= e.dist + 1

(* No time of a file is too large for the unsigned type it is put into.   *)
TimesFit ==
  \A start \in Starts : \A k \in DOMAIN start.file.edges :
    LET r == start.file.edges[k]
        f == TimeFactor(r.type, r.speed)
    IN  (r.dist * f[1]) \div f[2] <= MaxUint

(* A file in another layout than the format says is not taken for a graph: *)
(* the program aborts, or finds no node at all.                            *)
MisreadFilesGiveNothing ==
  Delivered /\ ~RightLayout => nr_of_nodes = 0 /\ edges = <<>>

(* Files and options that are in order get through: whichever of its lines *)
(* are dropped, the file is read to its end and no further.                *)
RecordsInOrder ==
  /\ RightLayout
  /\ file.announced <= Len(file.edges)
  /\ NodeFields(informat) = 5 => file.first_id = 0

OptionsInOrder ==
  /\ options.infile \in ReadableFiles /\ options.outfile \in WritableFiles
  /\ CanRead(informat, WriterTypes[options.outformat])

CompleteFilesAreRead ==
  stage = "aborted" => ~(RecordsInOrder /\ file.ends_with_newline /\ OptionsInOrder)

(* A run that fails has not touched the output file: a reader's error comes*)
(* before it is opened, and nothing can go wrong after that.               *)
FailureLeavesOutput == Failed => output = "as it was"

(* The program ends, whatever it is told to read as what, if only the last *)
(* line of the file is ended.                                              *)
ProgramEnds == file.ends_with_newline => <>Stopped

-----------------------------------------------------------------------------
(* The comment in readLine(): a newline or the end of the file has to      *)
(* follow a record.                                                        *)
LastRecordMayEndTheFile ==
  stage = "aborted" => ~(RecordsInOrder /\ OptionsInOrder)
=============================================================================
