-------------------------------- MODULE Source --------------------------------
(***************************************************************************)
(* source.c and diagnostic.c: a text is loaded together with the table of  *)
(* the offsets at which its lines start, and a diagnostic about a span of it*)
(* is shown with line, column and a line of carets.  The line is found by a *)
(* binary search, a step of which is a step here.                           *)
(*                                                                          *)
(* A text is a sequence of characters, an offset counts from 0 as in C.     *)
(* line_offsets[n] is the offset of line n, counted from 1 as in messages.  *)
(***************************************************************************)
EXTENDS Naturals, Sequences, FiniteSets

CONSTANTS
  Chars,       (* The characters that the lexer tells apart.                *)
  Texts,       (* The texts to be loaded.                                   *)
  U32          (* Unsigned arithmetic is modulo U32, 2^32 in the code.      *)

NewLine == "newline"
Return  == "return"
NUL     == "NUL"

(* Offsets are kept in 32 bits; longer texts are left out, and nothing in   *)
(* source_load refuses them.                                                *)
ASSUME TextAssumption ==
  /\ Texts \subseteq Seq(Chars)
  /\ NUL \notin Chars
  /\ U32 \in Nat \ {0}
  /\ \A t \in Texts : Len(t) < U32

VARIABLES
  text,          (* SourceFile.content                                      *)
  scanned,       (* how much of it build_line_offsets has seen              *)
  line_offsets,  (* SourceFile.line_offsets                                 *)
  report,        (* the diag_emit under way: its span, and lo and hi of the *)
                 (* search, or NoReport                                     *)
  output         (* the diagnostics shown, whose number is g_error_count    *)

sourceVars == <<text, scanned, line_offsets, report, output>>

NoReport == [start |-> 0, end |-> 0, lo |-> 1, hi |-> 0]
Length == Len(text)
At(i)  == IF i < Length THEN text[i + 1] ELSE NUL
Lines  == Len(line_offsets)

SourceInit ==
  /\ text \in Texts
  /\ scanned = 0
  /\ line_offsets = <<0>>
  /\ report = NoReport
  /\ output = <<>>

Loaded == scanned = Length

(* The loop of build_line_offsets.                                          *)
ScanChar ==
  /\ ~Loaded
  /\ scanned' = scanned + 1
  /\ line_offsets' = IF At(scanned) = NewLine THEN Append(line_offsets, scanned + 1)
                                              ELSE line_offsets
  /\ UNCHANGED <<text, report, output>>

(* diag_emit is called.                                                     *)
Report(start, end) ==
  report' = [start |-> start, end |-> end, lo |-> 0, hi |-> Lines - 1]

Reporting == report # NoReport

(* source_get_line_text: where the line ends without its line break.        *)
LineEnd(line) ==
  LET first == line_offsets[line]
      last  == IF line < Lines THEN line_offsets[line + 1] ELSE Length
  IN  CHOOSE e \in first .. last :
        /\ \A i \in e .. last - 1 : At(i) \in {NewLine, Return}
        /\ e > first => At(e - 1) \notin {NewLine, Return}

(* Mutant: the carets are not cut at the end of the line.                   *)
CaretsUncut(start, end, col, length) ==
  IF length = 0 THEN 0 ELSE IF end > start THEN end - start ELSE 1

(* The carets under a span that starts in this column of a line.            *)
Carets(start, end, col, length) ==
  LET span == IF end > start THEN end - start ELSE 1
      room == (length + U32 - (col - 1)) % U32
  IN  CASE length = 0 -> 0
        [] length > 0 /\ room = 0 -> 1
        [] length > 0 /\ room > 0 -> IF span > room THEN room ELSE span

Show(line, col) ==
  LET length == LineEnd(line) - line_offsets[line]
  IN  /\ output' = Append(output,
           [start |-> report.start, line |-> line, col |-> col, length |-> length,
            carets |-> Carets(report.start, report.end, col, length)])
      /\ report' = NoReport

(* A round of source_get_loc with mid, which counts lines from 0, when the  *)
(* line after it starts at or before the offset (below).  The fallback after*)
(* the loop takes the first line.                                           *)
SearchAt(mid, below) ==
  IF report.lo > report.hi THEN Show(1, report.start + 1)
  ELSE IF below
       THEN report' = [report EXCEPT !.lo = mid + 1] /\ UNCHANGED output
  ELSE IF line_offsets[mid + 1] <= report.start
       THEN Show(mid + 1, report.start - line_offsets[mid + 1] + 1)
  ELSE IF mid = 0 THEN Show(1, report.start + 1)
  ELSE report' = [report EXCEPT !.hi = mid - 1] /\ UNCHANGED output

Mid == (report.lo + report.hi) \div 2

(* Mutant: a line that starts at the offset is not taken for its line.      *)
SearchTooLow ==
  SearchAt(Mid, Mid + 1 < Lines /\ line_offsets[Mid + 2] < report.start)

Search ==
  SearchAt(Mid, Mid + 1 < Lines /\ line_offsets[Mid + 2] <= report.start)

Locate ==
  /\ Reporting
  /\ Search
  /\ UNCHANGED <<text, scanned, line_offsets>>

-----------------------------------------------------------------------------
NewLinesBefore(offset) == {i \in 0 .. offset - 1 : At(i) = NewLine}

(* This offset is in this line and column: as many lines end before it, and *)
(* the line starts col - 1 characters before it.                            *)
IsAt(offset, line, col) ==
  LET first == offset + 1 - col
  IN  /\ Cardinality(NewLinesBefore(offset)) = line - 1
      /\ first \in 0 .. offset
      /\ first > 0 => At(first - 1) = NewLine
      /\ \A i \in first .. offset - 1 : At(i) # NewLine

(* Whatever the offset is, also that of the end of the text, of a line break*)
(* or of an empty line, a diagnostic names its line and column.  Hazard: the*)
(* limits of the binary search and a line of length zero.                   *)
LocationExact ==
  \A i \in DOMAIN output : IsAt(output[i].start, output[i].line, output[i].col)

(* The carets end with the line, also under a span that goes on for several *)
(* lines.  Hazard: the room that is left is computed without a sign, and is *)
(* huge when the column is behind the carriage returns that were stripped.  *)
CaretsWithinLine ==
  \A i \in DOMAIN output :
     LET d == output[i] IN d.carets > 1 => d.col - 1 + d.carets <= d.length
=============================================================================
