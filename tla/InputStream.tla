---------------------------- MODULE InputStream ----------------------------
(***************************************************************************)
(* std::ifstream as the readers use it.  A text is a sequence of symbols:  *)
(* numbers, words that are not numbers, and ends of lines.  Blanks are left*)
(* out, numbers are whole.                                                 *)
(*                                                                         *)
(* A stream counts the symbols it has consumed.  It cannot tell that the   *)
(* text has ended before it looks past its last symbol: the last number of *)
(* a text sets eof unless the end of a line follows.                       *)
(***************************************************************************)
EXTENDS Integers, FiniteSetsExt, SequencesExt

CONSTANTS NewLine, Word   \* the symbols that are not numbers

ASSUME SymbolsAssumption == NewLine \notin Int /\ Word \notin Int /\ NewLine # Word

OpenedStream == [pos |-> 0, eof |-> FALSE, fail |-> FALSE]

Good(is) == ~is.eof /\ ~is.fail

(* is >> n, after the numbers of `read`.  Ends of lines are skipped.  A    *)
(* word or the end of the text makes the extraction fail, and all that     *)
(* follow; the number is 0 then.                                           *)
Extract(text, read) ==
  LET symbols  == {p \in (read.is.pos + 1)..Len(text) : text[p] # NewLine}
      next     == Min(symbols)
      After(pos, eof, fail, number) ==
        [is |-> [pos |-> pos, eof |-> eof, fail |-> fail],
         numbers |-> Append(read.numbers, number)]
  IN  CASE ~Good(read.is) -> After(read.is.pos, read.is.eof, TRUE, 0)
        [] Good(read.is) /\ symbols = {} -> After(Len(text), TRUE, TRUE, 0)
        [] Good(read.is) /\ symbols # {} /\ text[next] = Word -> After(next - 1, FALSE, TRUE, 0)
        [] OTHER -> After(next, next = Len(text), FALSE, text[next])

(* is >> n1 >> n2 ..; a set with one element, which TLC computes only once.*)
ExtractNumbers(text, is, count) ==
  LET read[k \in 0..count] ==
        IF k = 0 THEN {[is |-> is, numbers |-> <<>>]}
        ELSE {Extract(text, fewer) : fewer \in read[k - 1]}
  IN  read[count]

(* std::getline(is, line).  From a stream that is not good nothing is read,*)
(* and line keeps what it held.  At the end of the text it gets empty.     *)
GetLine(text, is, line) ==
  LET ends == {p \in (is.pos + 1)..Len(text) : text[p] = NewLine}
  IN  CASE ~Good(is) -> [is |-> [is EXCEPT !.fail = TRUE], line |-> line]
        [] Good(is) /\ is.pos = Len(text) ->
             [is |-> [is EXCEPT !.eof = TRUE, !.fail = TRUE], line |-> ""]
        [] Good(is) /\ is.pos < Len(text) /\ ends = {} ->
             [is |-> [is EXCEPT !.pos = Len(text), !.eof = TRUE], line |-> "text"]
        [] OTHER ->
             [is |-> [is EXCEPT !.pos = Min(ends)],
              line |-> IF Min(ends) = is.pos + 1 THEN "" ELSE "text"]

(* is.peek() of a stream that is good sees a symbol or the end of the text;*)
(* it fails where a read before has met the end.                           *)
Peek(text, is) ==
  CASE ~Good(is) -> [is EXCEPT !.fail = TRUE]
    [] Good(is) /\ is.pos = Len(text) -> [is EXCEPT !.eof = TRUE]
    [] OTHER -> is

AtLineEnd(text, is) == is.pos = Len(text) \/ text[is.pos + 1] = NewLine
=============================================================================
