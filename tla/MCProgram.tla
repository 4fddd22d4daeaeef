----------------------------- MODULE MCProgram -----------------------------
(***************************************************************************)
(* Instances of the program: many files read with one set of options, and  *)
(* a few files with many sets of options.                                  *)
(***************************************************************************)
EXTENDS Program

File(layout, announced, lines) ==
  [layout |-> layout, nr_of_nodes |-> NrOfNodes, announced |-> announced,
   edges |-> [k \in DOMAIN lines |->
                [src |-> lines[k][1], tgt |-> lines[k][2], dist |-> lines[k][3],
                 type |-> lines[k][4], speed |-> lines[k][5]]],
   first_id |-> 0, ends_with_newline |-> TRUE]

(* Lines with two directions of an edge and a loop, and lengths -1, 1 and 2*)
(* that announce as many edges as there are, one less or one more.         *)
ShortFiles(n, ends) ==
  {File("SIMPLE", a, l) :
     a \in {n - 1, n, n + 1} \ {-1},
     l \in [1..n -> {e \o <<d, 0, 0>> : e \in ends, d \in {-1, 1, 2}}]}

SimpleFiles ==
  UNION {ShortFiles(n, {<<0, 1>>, <<1, 0>>, <<1, 1>>}) : n \in 0..3}
    \cup ShortFiles(4, {<<0, 1>>, <<1, 1>>})

LongFiles ==
  {File("SIMPLE", 6, << <<2, 0, 3, 0, 0>>, <<0, 0, 1, 0, 0>>, <<0, 1, x, 0, 0>>, <<2, 0, y, 0, 0>>,
                        <<1, 2, -2, 0, 0>>, <<0, 1, 1, 0, 0>> >>) : x, y \in -2..4}

(* Two roads from 0 to 1 and one way on from there, with every type and    *)
(* speed the time depends on in another way.                               *)
Roads == {<<1, 0>>, <<2, -1>>, <<4, 0>>, <<12, 0>>, <<17, 0>>, <<12, 50>>, <<12, 130>>, <<12, 200>>}

RoadFiles ==
  {File(layout, 4, << <<0, 1, 7>> \o r, <<1, 2, 3>> \o r, <<0, 1, 5>> \o q, <<2, 0, -2, 1, 0>> >>) :
     layout \in {"FMI", "STD"}, r \in Roads, q \in {<<1, 0>>, <<12, 0>>, <<3, 100>>}}

(* One file in each layout, in order or with something wrong with it.      *)
Triangle == << <<0, 1, 1, 1, 0>>, <<1, 2, 1, 1, 0>>, <<2, 0, 1, 1, 0>> >>

OrderlyFiles == {File(layout, 3, Triangle) : layout \in {"SIMPLE", "STD", "FMI"}}

WrongFiles ==
  UNION {{[f EXCEPT !.first_id = 1], [f EXCEPT !.ends_with_newline = FALSE],
          [f EXCEPT !.nr_of_nodes = 0, !.announced = 0, !.edges = <<>>],
          [f EXCEPT !.nr_of_nodes = 0, !.announced = 0, !.edges = <<>>,
                    !.ends_with_newline = FALSE]} : f \in OrderlyFiles}

-----------------------------------------------------------------------------
Option(letter, value) == [option |-> letter, text |-> value]

Threads(value, number) == [option |-> "t", text |-> value, number |-> number]

Infile == Option("i", "in.graph")

Formats(inf, outf) == <<Option("f", inf), Infile, Option("g", outf)>>

AllFormats == {Formats(inf, outf) : inf, outf \in FileFormat \cup {"FMI_TXT"}}

OtherCalls ==
  { <<>>, <<Infile>>, <<Infile, Option("h", "")>>, <<Option("?", ""), Infile>>,
    <<Infile, Option("i", "")>>, <<Option("i", "no.graph")>>,
    <<Infile, Option("o", "out.graph"), Option("p", "EDGE_DIFF")>>,
    <<Infile, Option("o", "no/out.graph"), Option("p", "RANDOM")>>,
    <<Infile, Threads("number", 2)>>, <<Infile, Threads("number", 0)>>,
    <<Infile, Threads("number", -1)>>, <<Threads("number and more", 2), Infile>>,
    <<Threads("no number", 0), Infile>> }

Started(calls, files) == [args : calls, file : files]

ProgramStarts ==
  Started({Formats("SIMPLE", "SIMPLE")}, SimpleFiles \cup LongFiles)
    \cup Started({Formats(inf, outf) : inf \in {"STD", "FMI", "FMI_DIST", "FMI_EUCL"},
                                       outf \in {"SIMPLE", "FMI_CH"}}, RoadFiles)
    \cup Started(AllFormats, OrderlyFiles \cup WrongFiles)
    \cup Started(OtherCalls, OrderlyFiles)

(* Their times fit.                                                        *)
ASSUME FilesFit == TimesFit

Readable == {"in.graph", "out.graph"}
Writable == {"ch_out.graph", "out.graph", "in.graph"}
=============================================================================
