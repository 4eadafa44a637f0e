------------------------------ MODULE LexerProofs ------------------------------
(***************************************************************************)
(* Proofs about Source and Lexer, for every set of texts: the line and the *)
(* column of a diagnostic are those of its offset, its carets end with the *)
(* line, the tokens lie in the text one after the other, each is all of    *)
(* what the language takes for it, and the keywords are those of the table *)
(* that are at their place in it.                                          *)
(*                                                                         *)
(* LexerInv is about places: the table of lines, the search of a diagnostic*)
(* and where tokens are.  TokensInv, which needs it, is about what stands  *)
(* there.                                                                  *)
(***************************************************************************)
EXTENDS Lexer, BasicLemmas, FiniteSetTheorems, SequenceTheorems

-----------------------------------------------------------------------------
(* The text.                                                                *)

LineBreaks == {NewLine, Return}

LEMMA TextChars ==
  ASSUME text \in Texts
  PROVE  /\ Length \in Nat /\ Length < U32
         /\ \A i \in Nat : i < Length => At(i) \in Chars
         /\ \A i \in Nat : At(i) # NUL => i < Length
<1>1. text \in Seq(Chars) /\ Length < U32 BY TextAssumption DEF Length
<1>2. Length \in Nat BY <1>1, LenProperties DEF Length
<1>3. ASSUME NEW i \in Nat, i < Length PROVE At(i) \in Chars
  <2>1. i + 1 \in 1 .. Len(text) BY <1>2, <1>3 DEF Length
  <2>2. text[i + 1] \in Chars BY <1>1, <2>1, ElementOfSeq
  <2>3. QED BY <1>3, <2>2 DEF At
<1>4. \A i \in Nat : At(i) # NUL => i < Length BY DEF At
<1>5. QED BY <1>1, <1>2, <1>3, <1>4

(* The text of a file never changes.                                        *)
LEMMA SameText ==
  ASSUME UNCHANGED text
  PROVE  /\ Length' = Length
         /\ \A i : At(i)' = At(i)
         /\ \A o : NewLinesBefore(o)' = NewLinesBefore(o)
         /\ \A o, l, c : IsAt(o, l, c)' = IsAt(o, l, c)
<1>1. Length' = Length BY DEF Length
<1>2. \A i : At(i)' = At(i) BY <1>1 DEF At
<1>3. \A o : NewLinesBefore(o)' = NewLinesBefore(o) BY <1>2 DEF NewLinesBefore
<1>4. \A o, l, c : IsAt(o, l, c)' = IsAt(o, l, c) BY <1>2, <1>3 DEF IsAt
<1>5. QED BY <1>1, <1>2, <1>3, <1>4

NoNewLine(a, b) == \A i \in a .. b - 1 : At(i) # NewLine

LEMMA NewLinesFinite ==
  ASSUME NEW o \in Nat
  PROVE  IsFiniteSet(NewLinesBefore(o)) /\ Cardinality(NewLinesBefore(o)) \in Nat
<1>1. IsFiniteSet(0 .. o - 1) BY FS_Interval
<1>2. IsFiniteSet(NewLinesBefore(o)) BY <1>1, FS_Subset DEF NewLinesBefore
<1>3. QED BY <1>2, FS_CardinalityType

(* Without a line break in between, as many lines end before b as before a. *)
LEMMA SameLine ==
  ASSUME NEW a \in Nat, NEW b \in Nat, a <= b, NoNewLine(a, b)
  PROVE  NewLinesBefore(b) = NewLinesBefore(a)
BY DEF NoNewLine, NewLinesBefore

-----------------------------------------------------------------------------
(* The table of lines.                                                      *)

(* line_offsets has the start of each line of the text scanned so far.      *)
LinesInv ==
  /\ line_offsets \in Seq(Nat) /\ Lines \in Nat \ {0} /\ line_offsets[1] = 0
  /\ \A n \in 1 .. Lines :
       /\ line_offsets[n] \in 0 .. scanned
       /\ Cardinality(NewLinesBefore(line_offsets[n])) = n - 1
       /\ line_offsets[n] > 0 => At(line_offsets[n] - 1) = NewLine
  /\ \A m, n \in 1 .. Lines : m < n => line_offsets[m] < line_offsets[n]
  /\ \A n \in 1 .. Lines - 1 : NoNewLine(line_offsets[n], line_offsets[n + 1] - 1)
  /\ NoNewLine(line_offsets[Lines], scanned)

TextInv == text \in Texts /\ scanned \in 0 .. Length /\ LinesInv

LEMMA TextStarts ==
  ASSUME SourceInit
  PROVE  TextInv
<1>1. text \in Texts /\ scanned = 0 /\ line_offsets = <<0>> BY DEF SourceInit
<1>2. Length \in Nat BY <1>1, TextChars
<1>3. line_offsets \in Seq(Nat) /\ Lines = 1 /\ line_offsets[1] = 0 BY <1>1 DEF Lines
<1>4. NewLinesBefore(0) = {} BY DEF NewLinesBefore
<1>5. Cardinality(NewLinesBefore(0)) = 0 BY <1>4, FS_EmptySet
<1>6. \A n \in 1 .. Lines : n = 1 BY <1>3
<1>7. LinesInv BY <1>1, <1>3, <1>5, <1>6 DEF LinesInv, NoNewLine
<1>8. QED BY <1>1, <1>2, <1>7 DEF TextInv

LEMMA ScanKeepsText ==
  ASSUME TextInv, ScanChar
  PROVE  TextInv'
<1>1. /\ text' = text /\ scanned' = scanned + 1 /\ scanned \in Nat /\ scanned < Length
      /\ text \in Texts /\ Length \in Nat
  BY TextChars DEF TextInv, ScanChar, Loaded
<1>2. /\ Length' = Length /\ \A i : At(i)' = At(i)
      /\ \A o : NewLinesBefore(o)' = NewLinesBefore(o)
  BY <1>1, SameText
<1>3. /\ line_offsets \in Seq(Nat) /\ Lines \in Nat \ {0} /\ line_offsets[1] = 0
      /\ \A n \in 1 .. Lines :
           /\ line_offsets[n] \in 0 .. scanned
           /\ Cardinality(NewLinesBefore(line_offsets[n])) = n - 1
           /\ line_offsets[n] > 0 => At(line_offsets[n] - 1) = NewLine
      /\ \A m, n \in 1 .. Lines : m < n => line_offsets[m] < line_offsets[n]
      /\ \A n \in 1 .. Lines - 1 : NoNewLine(line_offsets[n], line_offsets[n + 1] - 1)
      /\ NoNewLine(line_offsets[Lines], scanned)
  BY DEF TextInv, LinesInv
<1>4. \A a, b : NoNewLine(a, b)' = NoNewLine(a, b) BY <1>2 DEF NoNewLine
<1>5. CASE At(scanned) # NewLine
  <2>1. line_offsets' = line_offsets /\ Lines' = Lines BY <1>5 DEF ScanChar, Lines
  <2>2. NoNewLine(line_offsets[Lines], scanned + 1) BY <1>1, <1>3, <1>5 DEF NoNewLine
  <2>3. \A n \in 1 .. Lines : line_offsets[n] \in 0 .. scanned + 1 BY <1>1, <1>3
  <2>4. LinesInv' BY <1>1, <1>2, <1>3, <1>4, <2>1, <2>2, <2>3 DEF LinesInv
  <2>5. QED BY <1>1, <1>2, <2>4 DEF TextInv
<1>6. CASE At(scanned) = NewLine
  <2>1. line_offsets' = Append(line_offsets, scanned + 1) BY <1>6 DEF ScanChar
  <2>2. PICK len \in Nat \ {0} : len = Lines BY <1>3
  <2>3. PICK next \in Nat : next = scanned + 1 BY <1>1
  <2>4. /\ line_offsets' \in Seq(Nat) /\ Lines' = len + 1
        /\ \A n \in 1 .. len : line_offsets'[n] = line_offsets[n]
        /\ line_offsets'[len + 1] = next
    BY <1>3, <2>1, <2>2, <2>3, AppendProperties DEF Lines
  <2>5. Cardinality(NewLinesBefore(next)) = len
    <3>1. PICK last \in Nat : last = line_offsets[len] /\ last <= scanned BY <1>1, <1>3, <2>2
    <3>2. NewLinesBefore(scanned) = NewLinesBefore(last)
      BY <1>1, <1>3, <2>2, <3>1, SameLine
    <3>3. NewLinesBefore(next) = NewLinesBefore(scanned) \cup {scanned}
      BY <1>1, <1>6, <2>3 DEF NewLinesBefore
    <3>4. scanned \notin NewLinesBefore(scanned) BY <1>1 DEF NewLinesBefore
    <3>5. Cardinality(NewLinesBefore(last)) = len - 1 BY <1>3, <2>2, <3>1
    <3>6. IsFiniteSet(NewLinesBefore(scanned)) BY <1>1, NewLinesFinite
    <3>7. Cardinality(NewLinesBefore(next)) = Cardinality(NewLinesBefore(scanned)) + 1
      BY <3>3, <3>4, <3>6, FS_AddElement
    <3>8. QED BY <2>2, <3>2, <3>5, <3>7
  <2>6. ASSUME NEW n \in 1 .. len + 1
        PROVE  /\ line_offsets'[n] \in 0 .. next
               /\ Cardinality(NewLinesBefore(line_offsets'[n])) = n - 1
               /\ line_offsets'[n] > 0 => At(line_offsets'[n] - 1) = NewLine
    <3>1. CASE n = len + 1
      BY <1>1, <1>6, <2>2, <2>3, <2>4, <2>5, <3>1
    <3>2. CASE n \in 1 .. len
      <4>1. PICK o \in 0 .. scanned :
              /\ o = line_offsets[n]
              /\ Cardinality(NewLinesBefore(o)) = n - 1
              /\ o > 0 => At(o - 1) = NewLine
        BY <1>3, <2>2, <3>2
      <4>2. line_offsets'[n] = o BY <2>4, <3>2, <4>1
      <4>3. o \in 0 .. next BY <1>1, <2>3
      <4>4. QED BY <4>1, <4>2, <4>3
    <3>3. QED BY <3>1, <3>2
  <2>7. ASSUME NEW m \in 1 .. len + 1, NEW n \in 1 .. len + 1, m < n
        PROVE  line_offsets'[m] < line_offsets'[n]
    <3>1. m \in 1 .. len BY <2>7
    <3>2. CASE n = len + 1
      <4>1. line_offsets[m] \in 0 .. scanned /\ line_offsets'[m] = line_offsets[m]
        BY <1>3, <2>2, <2>4, <3>1
      <4>2. line_offsets'[n] = next BY <2>4, <3>2
      <4>3. QED BY <1>1, <2>3, <4>1, <4>2
    <3>3. CASE n \in 1 .. len BY <1>3, <2>2, <2>4, <2>7, <3>1, <3>3
    <3>4. QED BY <3>2, <3>3
  <2>8. ASSUME NEW n \in 1 .. len
        PROVE  NoNewLine(line_offsets'[n], line_offsets'[n + 1] - 1)
    <3>1. CASE n = len
      <4>1. line_offsets'[n] = line_offsets[len] /\ line_offsets'[n + 1] - 1 = scanned
        BY <1>1, <2>3, <2>4, <3>1
      <4>2. QED BY <1>3, <2>2, <4>1
    <3>2. CASE n \in 1 .. len - 1
      <4>1. line_offsets'[n] = line_offsets[n] /\ line_offsets'[n + 1] = line_offsets[n + 1]
        BY <2>4, <3>2
      <4>2. QED BY <1>3, <2>2, <3>2, <4>1
    <3>3. QED BY <3>1, <3>2
  <2>9. NoNewLine(next, next) BY DEF NoNewLine
  <2>10. LinesInv'
    <3>1. Lines' \in Nat \ {0} /\ line_offsets'[1] = 0 /\ Lines' - 1 = len
      BY <1>3, <2>2, <2>4
    <3>2. line_offsets'[Lines'] = next /\ scanned' = next BY <1>1, <2>3, <2>4
    <3>3. QED
      BY <1>2, <1>4, <2>4, <2>6, <2>7, <2>8, <2>9, <3>1, <3>2 DEF LinesInv
  <2>11. QED BY <1>1, <1>2, <2>10 DEF TextInv
<1>7. QED BY <1>5, <1>6

-----------------------------------------------------------------------------
(* Diagnostics.                                                             *)

LastOf(n) == IF n < Lines THEN line_offsets[n + 1] ELSE Length

(* The offset o is in line n.                                               *)
InLine(o, n) == line_offsets[n] <= o /\ (n < Lines => o < line_offsets[n + 1])

(* The search of a diagnostic under way stays around its line, and what is  *)
(* reported does not start with a line break unless it is empty.            *)
ReportInv ==
  Reporting =>
    /\ Loaded
    /\ report \in [start : 0 .. Length, end : 0 .. Length, lo : 0 .. Lines - 1, hi : 0 .. Lines - 1]
    /\ report.end > report.start => At(report.start) \notin LineBreaks
    /\ line_offsets[report.lo + 1] <= report.start
    /\ report.hi + 2 <= Lines => report.start < line_offsets[report.hi + 2]

Diagnostics == [start : Nat, line : Nat, col : Nat, length : Nat, carets : Nat]

SourceInv ==
  /\ TextInv
  /\ ReportInv
  /\ output \in Seq(Diagnostics)
  /\ LocationExact
  /\ CaretsWithinLine

LEMMA LineBounds ==
  ASSUME TextInv, NEW n \in 1 .. Lines
  PROVE  /\ line_offsets[n] \in Nat /\ line_offsets[n] <= scanned /\ scanned <= Length
         /\ n < Lines => /\ line_offsets[n + 1] \in Nat /\ line_offsets[n] < line_offsets[n + 1]
                         /\ line_offsets[n + 1] <= scanned
         /\ LastOf(n) \in line_offsets[n] .. Length
<1>1. Length \in Nat /\ scanned \in 0 .. Length /\ Lines \in Nat
  BY TextChars DEF TextInv, LinesInv
<1>2. line_offsets[n] \in 0 .. scanned BY DEF TextInv, LinesInv
<1>3. ASSUME n < Lines
      PROVE  /\ line_offsets[n + 1] \in 0 .. scanned
             /\ line_offsets[n] < line_offsets[n + 1]
  <2>1. n + 1 \in 1 .. Lines BY <1>1, <1>3
  <2>2. QED BY <2>1, SMTT(30) DEF TextInv, LinesInv
<1>4. QED BY <1>1, <1>2, <1>3 DEF LastOf

(* source_get_line_text finds where the line ends.                          *)
LEMMA LineEndFound ==
  ASSUME TextInv, NEW n \in 1 .. Lines
  PROVE  /\ LineEnd(n) \in line_offsets[n] .. LastOf(n)
         /\ \A i \in LineEnd(n) .. LastOf(n) - 1 : At(i) \in LineBreaks
<1>1. PICK first \in Nat, last \in Nat :
        first = line_offsets[n] /\ last = LastOf(n) /\ first <= last
  <2>1. line_offsets[n] \in Nat /\ LastOf(n) \in line_offsets[n] .. Length /\ Length \in Nat
    BY LineBounds, TextChars DEF TextInv
  <2>2. QED BY <2>1
<1> DEFINE Ends == {e \in first .. last : \A i \in e .. last - 1 : At(i) \in LineBreaks}
<1>2. last \in Ends BY <1>1
<1>3. PICK e \in Ends : \A j \in Ends : e <= j
  <2>1. Ends \subseteq Nat /\ Ends # {} BY <1>1, <1>2
  <2> HIDE DEF Ends
  <2>2. QED BY <2>1, LeastElement
<1>4. e > first => At(e - 1) \notin LineBreaks
  <2>1. SUFFICES ASSUME e > first, At(e - 1) \in LineBreaks PROVE FALSE OBVIOUS
  <2>2. e - 1 \in first .. last BY <1>1, <2>1
  <2>3. \A i \in e - 1 .. last - 1 : i = e - 1 \/ i \in e .. last - 1 BY <1>1
  <2>4. e - 1 \in Ends BY <2>1, <2>2, <2>3
  <2>5. QED BY <1>1, <1>3, <2>4
<1>5. LineEnd(n) = CHOOSE x \in first .. last :
                     /\ \A i \in x .. last - 1 : At(i) \in LineBreaks
                     /\ x > first => At(x - 1) \notin LineBreaks
  BY <1>1 DEF LineEnd, LastOf, LineBreaks
<1>6. \E x \in first .. last :
         /\ \A i \in x .. last - 1 : At(i) \in LineBreaks
         /\ x > first => At(x - 1) \notin LineBreaks
  BY <1>4
<1>7. /\ LineEnd(n) \in first .. last
      /\ \A i \in LineEnd(n) .. last - 1 : At(i) \in LineBreaks
  BY <1>5, <1>6
<1>8. QED BY <1>1, <1>7

(* Of an offset that is in a line, source_get_loc gives line and column.    *)
LEMMA PlaceFound ==
  ASSUME TextInv, Loaded, NEW o \in 0 .. Length, NEW n \in 1 .. Lines, InLine(o, n)
  PROVE  IsAt(o, n, o - line_offsets[n] + 1)
<1>1. PICK first \in Nat : first = line_offsets[n] /\ first <= o
  BY LineBounds DEF InLine
<1>2. o \in Nat /\ Length \in Nat /\ scanned = Length
  BY TextChars DEF TextInv, Loaded
<1>3. NoNewLine(first, o)
  <2>1. CASE n = Lines
    BY <1>1, <1>2, <2>1 DEF TextInv, LinesInv, NoNewLine
  <2>2. CASE n < Lines
    <3>1. Lines \in Nat /\ n \in 1 .. Lines - 1 BY <2>2 DEF TextInv, LinesInv
    <3>2. PICK next \in Nat : next = line_offsets[n + 1] /\ o < next
      BY <2>2, LineBounds DEF InLine
    <3>3. NoNewLine(first, next - 1) BY <1>1, <3>1, <3>2 DEF TextInv, LinesInv
    <3>4. QED BY <1>1, <1>2, <3>2, <3>3 DEF NoNewLine
  <2>3. Lines \in Nat BY DEF TextInv, LinesInv
  <2>4. QED BY <2>1, <2>2, <2>3
<1>4. NewLinesBefore(o) = NewLinesBefore(first) BY <1>1, <1>2, <1>3, SameLine
<1>5. /\ Cardinality(NewLinesBefore(first)) = n - 1
      /\ first > 0 => At(first - 1) = NewLine
  BY <1>1 DEF TextInv, LinesInv
<1>6. o + 1 - (o - first + 1) = first BY <1>1, <1>2
<1>7. QED BY <1>1, <1>2, <1>3, <1>4, <1>5, <1>6 DEF IsAt, NoNewLine

(* The carets under it end with the line: either it starts before the end of*)
(* the line, or the span is empty and gets at most one.                     *)
LEMMA CaretsFit ==
  ASSUME TextInv, Loaded, NEW o \in 0 .. Length, NEW e \in 0 .. Length,
         NEW n \in 1 .. Lines, InLine(o, n),
         e > o => At(o) \notin LineBreaks
  PROVE  LET col    == o - line_offsets[n] + 1
             length == LineEnd(n) - line_offsets[n]
             carets == Carets(o, e, col, length)
         IN  /\ col \in Nat /\ length \in Nat /\ carets \in Nat
             /\ carets > 1 => col - 1 + carets <= length
<1>1. PICK first \in Nat, last \in Nat, stop \in Nat :
        /\ first = line_offsets[n] /\ last = LastOf(n) /\ stop = LineEnd(n)
        /\ first <= stop /\ stop <= last /\ last <= Length
        /\ \A i \in stop .. last - 1 : At(i) \in LineBreaks
  <2>1. Length \in Nat BY TextChars DEF TextInv
  <2>2. QED BY <2>1, LineBounds, LineEndFound
<1>2. /\ o \in Nat /\ e \in Nat /\ Length \in Nat /\ Length < U32 /\ U32 \in Nat \ {0}
      /\ o <= Length /\ e <= Length /\ first <= o
  BY <1>1, TextChars, TextAssumption DEF TextInv, InLine
<1> DEFINE before == o - first
           length == stop - first
           room   == (length + U32 - before) % U32
           span   == IF e > o THEN e - o ELSE 1
           carets == Carets(o, e, before + 1, length)
<1>3. before \in Nat /\ length \in Nat /\ length < U32 /\ before < U32 /\ (before + 1) - 1 = before
  BY <1>1, <1>2
<1>4. room \in Nat
  <2>1. length + U32 - before \in Nat BY <1>2, <1>3
  <2> HIDE DEF length, before
  <2>2. QED BY <1>2, <2>1, DivMod
<1>5. span \in Nat /\ (e > o => span = e - o) /\ (~ (e > o) => span = 1) BY <1>2
<1>6. /\ length = 0 => carets = 0
      /\ length > 0 /\ room = 0 => carets = 1
      /\ length > 0 /\ room > 0 => carets = IF span > room THEN room ELSE span
  <2> HIDE DEF before
  <2>1. (before + 1) - 1 = before BY <1>3
  <2>2. QED BY <1>3, <2>1 DEF Carets
<1>7. carets \in Nat
  <2> HIDE DEF length, before, room, span, carets
  <2>1. QED BY <1>3, <1>4, <1>5, <1>6
<1>8. ASSUME carets > 1 PROVE before + carets <= length
  <2>1. length > 0 /\ room > 0 /\ span > 1 /\ carets <= room
    <3> HIDE DEF length, before, room, span, carets
    <3>1. QED BY <1>3, <1>4, <1>5, <1>6, <1>8
  <2>2. e > o BY <1>5, <2>1
  <2>3. o < last
    <3>1. CASE n < Lines BY <1>1, <3>1 DEF InLine, LastOf
    <3>2. CASE ~ (n < Lines) BY <1>1, <1>2, <2>2, <3>2 DEF LastOf
    <3>3. QED BY <3>1, <3>2
  <2>4. o < stop BY <1>1, <1>2, <2>2, <2>3
  <2>5. before < length BY <1>1, <1>2, <2>4
  <2>6. room = length - before
    <3>1. PICK x \in Nat : x = length - before /\ x < U32
      <4> HIDE DEF length, before
      <4>1. length - before \in Nat /\ length - before < U32 BY <1>2, <1>3, <2>5
      <4>2. QED BY <4>1
    <3>2. length + U32 - before = U32 * 1 + x BY <1>2, <1>3, <3>1
    <3>3. (U32 * 1 + x) % U32 = x % U32 BY <1>2, ModOfMultiple
    <3>4. x % U32 = x BY <1>2, <3>1, ModOfSmall
    <3>5. QED BY <3>1, <3>2, <3>3, <3>4
  <2> HIDE DEF length, before, room, span, carets
  <2>7. QED BY <1>3, <1>7, <2>1, <2>6
<1>9. before = o - line_offsets[n] /\ length = LineEnd(n) - line_offsets[n] BY <1>1
<1> HIDE DEF carets, span, room
<1>10. QED BY <1>3, <1>7, <1>8, <1>9 DEF carets

(* A step that leaves the text, the table and the output alone, and reports *)
(* nothing or a span of the text, keeps the invariant.                      *)
LEMMA ReportKeepsSource ==
  ASSUME SourceInv, UNCHANGED <<text, scanned, line_offsets, output>>,
         \/ UNCHANGED report
         \/ Loaded /\ \E s, e \in 0 .. Length :
              Report(s, e) /\ (e > s => At(s) \notin LineBreaks)
  PROVE  SourceInv'
<1>1. /\ Length' = Length /\ \A i : At(i)' = At(i)
      /\ \A o : NewLinesBefore(o)' = NewLinesBefore(o)
      /\ \A o, l, c : IsAt(o, l, c)' = IsAt(o, l, c)
  BY SameText
<1>2. \A a, b : NoNewLine(a, b)' = NoNewLine(a, b) BY <1>1 DEF NoNewLine
<1>3. Lines' = Lines BY DEF Lines
<1>4. TextInv' BY <1>1, <1>2, <1>3 DEF SourceInv, TextInv, LinesInv
<1>5. ReportInv'
  <2>1. CASE UNCHANGED report
    BY <1>1, <1>3, <2>1 DEF SourceInv, ReportInv, Reporting, NoReport, Loaded
  <2>2. CASE Loaded /\ \E s, e \in 0 .. Length :
              Report(s, e) /\ (e > s => At(s) \notin LineBreaks)
    <3>1. PICK s \in 0 .. Length, e \in 0 .. Length :
            Report(s, e) /\ (e > s => At(s) \notin LineBreaks)
      BY <2>2
    <3>2. report' = [start |-> s, end |-> e, lo |-> 0, hi |-> Lines - 1]
      BY <3>1 DEF Report
    <3>3. /\ Lines \in Nat \ {0} /\ line_offsets[1] = 0 /\ Length \in Nat
          /\ 0 \in 0 .. Lines - 1 /\ Lines - 1 \in 0 .. Lines - 1
      BY TextChars DEF SourceInv, TextInv, LinesInv
    <3>4. report' \in [start : 0 .. Length, end : 0 .. Length, lo : 0 .. Lines - 1, hi : 0 .. Lines - 1]
      BY <3>2, <3>3
    <3>5. /\ report'.start = s /\ report'.end = e /\ report'.lo = 0 /\ report'.hi = Lines - 1
          /\ line_offsets[0 + 1] <= s /\ ~ (Lines - 1 + 2 <= Lines)
      BY <3>2, <3>3
    <3>6. Loaded' BY <1>1, <2>2 DEF Loaded
    <3>7. QED BY <1>1, <1>3, <3>1, <3>4, <3>5, <3>6 DEF ReportInv
  <2>3. QED BY <2>1, <2>2
<1>6. QED BY <1>1, <1>4, <1>5 DEF SourceInv, LocationExact, CaretsWithinLine

(* The search ends in the line of the offset.                               *)
LEMMA LocateKeepsSource ==
  ASSUME SourceInv, Locate
  PROVE  SourceInv'
<1>1. /\ Loaded
      /\ report \in [start : 0 .. Length, end : 0 .. Length, lo : 0 .. Lines - 1, hi : 0 .. Lines - 1]
      /\ report.end > report.start => At(report.start) \notin LineBreaks
      /\ line_offsets[report.lo + 1] <= report.start
      /\ report.hi + 2 <= Lines => report.start < line_offsets[report.hi + 2]
  BY DEF Locate, SourceInv, ReportInv
<1>2. /\ Lines \in Nat \ {0} /\ line_offsets[1] = 0 /\ Length \in Nat
      /\ \A m, n \in 1 .. Lines : m < n => line_offsets[m] < line_offsets[n]
      /\ \A n \in 1 .. Lines : line_offsets[n] \in Nat
      /\ TextInv
  BY LineBounds, TextChars DEF SourceInv, TextInv, LinesInv
<1>3. PICK o \in 0 .. Length, e \in 0 .. Length, lo \in 0 .. Lines - 1, hi \in 0 .. Lines - 1 :
        o = report.start /\ e = report.end /\ lo = report.lo /\ hi = report.hi
  BY <1>1
<1>4. /\ line_offsets[lo + 1] <= o
      /\ hi + 2 <= Lines => o < line_offsets[hi + 2]
      /\ e > o => At(o) \notin LineBreaks
      /\ report = [start |-> o, end |-> e, lo |-> lo, hi |-> hi]
  BY <1>1, <1>3
<1>5. lo <= hi
  <2>1. SUFFICES ASSUME hi < lo PROVE FALSE BY <1>2
  <2>2. hi + 2 \in 1 .. Lines /\ lo + 1 \in 1 .. Lines /\ hi + 2 <= lo + 1 BY <1>2, <2>1
  <2>3. o < line_offsets[hi + 2] /\ line_offsets[lo + 1] <= o BY <1>4, <2>2
  <2>4. line_offsets[hi + 2] <= line_offsets[lo + 1] BY <1>2, <2>2
  <2>5. line_offsets[hi + 2] \in Nat /\ line_offsets[lo + 1] \in Nat BY <1>2, <2>2
  <2>6. QED BY <2>3, <2>4, <2>5
<1>6. PICK mid \in lo .. hi : mid = Mid
  <2>1. (lo + hi) \div 2 \in lo .. hi BY <1>2, <1>5
  <2>2. QED BY <1>3, <2>1 DEF Mid
<1>7. mid \in Nat /\ mid + 1 \in 1 .. Lines /\ line_offsets[mid + 1] \in Nat BY <1>2, <1>6
<1>8. /\ Length' = Length /\ \A i : At(i)' = At(i)
      /\ \A x : NewLinesBefore(x)' = NewLinesBefore(x)
      /\ \A x, l, c : IsAt(x, l, c)' = IsAt(x, l, c)
  BY SameText DEF Locate
<1>9. \A a, b : NoNewLine(a, b)' = NoNewLine(a, b) BY <1>8 DEF NoNewLine
<1>10. Lines' = Lines /\ line_offsets' = line_offsets /\ Loaded'
  BY <1>1, <1>8 DEF Locate, Lines, Loaded
<1>11. TextInv' BY <1>8, <1>9, <1>10 DEF Locate, SourceInv, TextInv, LinesInv
<1> DEFINE below == mid + 1 < Lines /\ line_offsets[mid + 2] <= o
<1>12. SearchAt(mid, below) BY <1>3, <1>6 DEF Locate, Search
<1>13. CASE below
  <2>1. report' = [start |-> o, end |-> e, lo |-> mid + 1, hi |-> hi] /\ output' = output
    BY <1>4, <1>5, <1>12, <1>13 DEF SearchAt
  <2>2. mid + 1 \in 0 .. Lines - 1 /\ (mid + 1) + 1 = mid + 2 BY <1>2, <1>7, <1>13
  <2>3. ReportInv'
    <3>1. report' \in [start : 0 .. Length, end : 0 .. Length, lo : 0 .. Lines - 1, hi : 0 .. Lines - 1]
      BY <2>1, <2>2
    <3>2. report'.start = o /\ report'.end = e /\ report'.lo = mid + 1 /\ report'.hi = hi
      BY <2>1
    <3>3. line_offsets[(mid + 1) + 1] <= o BY <1>13, <2>2
    <3>4. QED BY <1>4, <1>8, <1>10, <3>1, <3>2, <3>3 DEF ReportInv
  <2>4. QED BY <1>8, <1>11, <2>1, <2>3 DEF SourceInv, LocationExact, CaretsWithinLine
<1>14. CASE ~ below /\ line_offsets[mid + 1] <= o
  <2>1. Show(mid + 1, o - line_offsets[mid + 1] + 1)
    BY <1>3, <1>5, <1>12, <1>14 DEF SearchAt
  <2>2. InLine(o, mid + 1)
    <3>1. mid + 1 < Lines => line_offsets[mid + 2] \in Nat /\ (mid + 1) + 1 = mid + 2
      BY <1>2, <1>7
    <3>2. QED BY <1>14, <3>1 DEF InLine
  <2> DEFINE n      == mid + 1
             col    == o - line_offsets[n] + 1
             length == LineEnd(n) - line_offsets[n]
             carets == Carets(o, e, col, length)
             shown  == [start |-> o, line |-> n, col |-> col, length |-> length, carets |-> carets]
  <2>3. /\ col \in Nat /\ length \in Nat /\ carets \in Nat
        /\ carets > 1 => col - 1 + carets <= length
        /\ IsAt(o, n, col)
    BY <1>1, <1>2, <1>4, <1>7, <2>2, CaretsFit, PlaceFound
  <2>4. output' = Append(output, shown) /\ report' = NoReport
    BY <1>3, <2>1 DEF Show
  <2> HIDE DEF n, col, length, carets
  <2>5. n \in Nat BY <1>7 DEF n
  <2>6. /\ shown \in Diagnostics
        /\ shown.start = o /\ shown.line = n /\ shown.col = col /\ shown.length = length
        /\ shown.carets = carets
    BY <1>2, <2>3, <2>5 DEF Diagnostics
  <2> HIDE DEF shown
  <2>7. output \in Seq(Diagnostics) BY DEF SourceInv
  <2>8. /\ output' \in Seq(Diagnostics)
        /\ DOMAIN output' = 1 .. Len(output) + 1 /\ DOMAIN output = 1 .. Len(output)
        /\ Len(output) \in Nat
        /\ output'[Len(output) + 1] = shown
        /\ \A i \in 1 .. Len(output) : output'[i] = output[i]
    BY <2>4, <2>6, <2>7, AppendProperties, LenProperties
  <2>9. LocationExact'
    <3>1. ASSUME NEW i \in 1 .. Len(output) + 1
          PROVE  IsAt(output'[i].start, output'[i].line, output'[i].col)
      <4>1. CASE i = Len(output) + 1 BY <2>3, <2>6, <2>8, <4>1
      <4>2. CASE i \in 1 .. Len(output) BY <2>8, <4>2 DEF SourceInv, LocationExact
      <4>3. QED BY <2>8, <4>1, <4>2
    <3>2. QED BY <1>8, <2>8, <3>1 DEF LocationExact
  <2>10. CaretsWithinLine'
    <3>1. ASSUME NEW i \in 1 .. Len(output) + 1, output'[i].carets > 1
          PROVE  output'[i].col - 1 + output'[i].carets <= output'[i].length
      <4>1. CASE i = Len(output) + 1 BY <2>3, <2>6, <2>8, <3>1, <4>1
      <4>2. CASE i \in 1 .. Len(output) BY <2>8, <3>1, <4>2 DEF SourceInv, CaretsWithinLine
      <4>3. QED BY <2>8, <4>1, <4>2
    <3>2. QED BY <2>8, <3>1 DEF CaretsWithinLine
  <2>11. ReportInv' BY <2>4 DEF ReportInv, Reporting, NoReport
  <2>12. QED BY <1>11, <2>8, <2>9, <2>10, <2>11 DEF SourceInv
<1>15. CASE ~ below /\ ~ (line_offsets[mid + 1] <= o)
  <2>1. mid # 0 /\ mid # lo
    BY <1>2, <1>4, <1>15
  <2>2. report' = [start |-> o, end |-> e, lo |-> lo, hi |-> mid - 1] /\ output' = output
    BY <1>4, <1>5, <1>12, <1>15, <2>1 DEF SearchAt
  <2>3. mid - 1 \in 0 .. Lines - 1 /\ (mid - 1) + 2 = mid + 1 BY <1>2, <1>7, <2>1
  <2>4. ReportInv'
    <3>1. report' \in [start : 0 .. Length, end : 0 .. Length, lo : 0 .. Lines - 1, hi : 0 .. Lines - 1]
      BY <2>2, <2>3
    <3>2. report'.start = o /\ report'.end = e /\ report'.lo = lo /\ report'.hi = mid - 1
      BY <2>2
    <3>3. o < line_offsets[(mid - 1) + 2] BY <1>2, <1>7, <1>15, <2>3
    <3>4. QED BY <1>4, <1>8, <1>10, <3>1, <3>2, <3>3 DEF ReportInv
  <2>5. QED BY <1>8, <1>11, <2>2, <2>4 DEF SourceInv, LocationExact, CaretsWithinLine
<1>16. QED BY <1>13, <1>14, <1>15

-----------------------------------------------------------------------------
(* The branches of the lexer.                                               *)

Kinds == {"eof", "error", "keyword", "identifier", "int", "float", "string", "raw string",
          "char", "operator"}

TokenRecords == [kind : Kinds, start : 0 .. Length, end : 0 .. Length]

(* The tokens are in order, a string that is being read starts after them,  *)
(* and what may be reported does not start with a line break.               *)
LexInv ==
  /\ SpansInOrder
  /\ opened \in 0 .. cursor
  /\ inside # "no" => Loaded /\ At(opened) \notin LineBreaks
  /\ tokens \in Seq(TokenRecords)
  /\ \A i \in DOMAIN tokens :
       /\ tokens[i].end > tokens[i].start => At(tokens[i].start) \notin LineBreaks
       /\ inside = "string" => tokens[i].end <= opened

(* A loop over characters ends, inside the text and before the first one    *)
(* that is not of the set.                                                  *)
LEMMA RunIs ==
  ASSUME text \in Texts, NEW i \in 0 .. Length, NEW set, NUL \notin set
  PROVE  /\ Run(i, set) \in i .. Length /\ At(Run(i, set)) \notin set
         /\ \A k \in i .. Run(i, set) - 1 : At(k) \in set
<1>1. Length \in Nat /\ i \in Nat BY TextChars
<1> DEFINE Stops == {j \in i .. Length : At(j) \notin set}
<1>2. Length \in Stops BY <1>1 DEF At
<1>3. PICK j \in Stops : \A k \in Stops : j <= k
  <2>1. Stops \subseteq Nat /\ Stops # {} BY <1>1, <1>2
  <2> HIDE DEF Stops
  <2>2. QED BY <2>1, LeastElement
<1>4. \A k \in i .. j - 1 : At(k) \in set
  <2>1. SUFFICES ASSUME NEW k \in i .. j - 1, At(k) \notin set PROVE FALSE OBVIOUS
  <2>2. k \in Stops /\ k < j BY <1>1, <2>1
  <2>3. QED BY <1>1, <1>3, <2>2
<1>5. \E x \in i .. Length : At(x) \notin set /\ \A k \in i .. x - 1 : At(k) \in set
  BY <1>4
<1>6. QED BY <1>5 DEF Run

LEMMA RunInside ==
  ASSUME text \in Texts, NEW i \in 0 .. Length, NEW set, NUL \notin set
  PROVE  Run(i, set) \in i .. Length
BY RunIs

(* Where a character is, the text goes on at least to behind it.            *)
LEMMA CharInside ==
  ASSUME text \in Texts, NEW i \in Nat, At(i) # NUL
  PROVE  i + 1 \in 1 .. Length
BY TextChars

(* A token behind all others keeps them in order.                           *)
LEMMA NextInOrder ==
  ASSUME LexInv, text \in Texts, UNCHANGED text,
         NEW t \in TokenRecords, tokens' = Append(tokens, t), cursor' = t.end,
         t.start <= t.end,
         \A i \in DOMAIN tokens : tokens[i].end <= t.start,
         t.end > t.start => At(t.start) \notin LineBreaks
  PROVE  /\ SpansInOrder' /\ (tokens \in Seq(TokenRecords))'
         /\ \A i \in DOMAIN tokens' :
              tokens'[i].end > tokens'[i].start => At(tokens[i].start)' \notin LineBreaks
<1>1. Length' = Length /\ \A i : At(i)' = At(i) BY SameText
<1>2. TokenRecords' = TokenRecords BY <1>1 DEF TokenRecords
<1>3. Length \in Nat /\ t.start \in 0 .. Length /\ t.end \in 0 .. Length
  BY TextChars DEF TokenRecords
<1>4. PICK n \in Nat : n = Len(tokens)
  BY LenProperties DEF LexInv
<1>5. /\ tokens' \in Seq(TokenRecords) /\ DOMAIN tokens' = 1 .. n + 1
      /\ DOMAIN tokens = 1 .. n
      /\ tokens'[n + 1] = t
      /\ \A i \in 1 .. n : tokens'[i] = tokens[i]
  BY <1>4, AppendProperties, LenProperties DEF LexInv
<1>6. ASSUME NEW i \in 1 .. n
      PROVE  \E u \in TokenRecords :
               /\ u = tokens[i] /\ u.start <= u.end /\ u.end <= t.start
               /\ u.end > u.start => At(u.start) \notin LineBreaks
  <2>1. PICK u \in TokenRecords : u = tokens[i] BY <1>4, ElementOfSeq DEF LexInv
  <2>2. u.start <= u.end BY <1>5, <2>1 DEF LexInv, SpansInOrder
  <2>3. u.end <= t.start BY <1>5, <2>1
  <2>4. u.end > u.start => At(u.start) \notin LineBreaks BY <1>5, <2>1 DEF LexInv
  <2>5. QED BY <2>1, <2>2, <2>3, <2>4
<1>7. ASSUME NEW i \in 1 .. n + 1
      PROVE  \E u \in TokenRecords :
               /\ u = tokens'[i] /\ u.start <= u.end /\ u.end <= t.end
               /\ u.end > u.start => At(u.start) \notin LineBreaks
  <2>1. CASE i = n + 1
    <3>1. tokens'[i] = t /\ t.end <= t.end BY <1>3, <1>5, <2>1
    <3>2. QED BY <3>1
  <2>2. CASE i \in 1 .. n
    <3>1. PICK u \in TokenRecords :
            /\ u = tokens[i] /\ u.start <= u.end /\ u.end <= t.start
            /\ u.end > u.start => At(u.start) \notin LineBreaks
      BY <1>6, <2>2
    <3>2. u.end \in 0 .. Length BY DEF TokenRecords
    <3>3. tokens'[i] = tokens[i] BY <1>5, <2>2
    <3>4. u.end <= t.end BY <1>3, <3>1, <3>2
    <3>5. QED BY <3>1, <3>3, <3>4
  <2>3. QED BY <1>4, <2>1, <2>2
<1>8. ASSUME NEW i \in 1 .. n + 1, i > 1 PROVE tokens'[i - 1].end <= tokens'[i].start
  <2>1. i - 1 \in 1 .. n /\ tokens'[i - 1] = tokens[i - 1] BY <1>4, <1>5, <1>8
  <2>2. CASE i = n + 1 BY <1>5, <2>1, <2>2
  <2>3. CASE i \in 1 .. n
    <3>1. PICK u \in TokenRecords, v \in TokenRecords : u = tokens[i - 1] /\ v = tokens[i]
      BY <1>6, <2>1, <2>3
    <3>2. u.end <= v.start BY <1>5, <1>8, <2>3, <3>1 DEF LexInv, SpansInOrder
    <3>3. u = tokens'[i - 1] /\ v = tokens'[i] BY <1>5, <2>1, <2>3, <3>1
    <3>4. QED BY <3>2, <3>3
  <2>4. i = n + 1 \/ i \in 1 .. n BY <1>4
  <2>5. QED BY <2>2, <2>3, <2>4
<1>9. ASSUME NEW i \in 1 .. n + 1
      PROVE  /\ 0 <= tokens'[i].start /\ tokens'[i].start <= tokens'[i].end
             /\ tokens'[i].end <= t.end
             /\ tokens'[i].end > tokens'[i].start => At(tokens'[i].start) \notin LineBreaks
  <2>1. PICK u \in TokenRecords :
          /\ u = tokens'[i] /\ u.start <= u.end /\ u.end <= t.end
          /\ u.end > u.start => At(u.start) \notin LineBreaks
    BY <1>7
  <2>2. 0 <= u.start BY DEF TokenRecords
  <2>3. QED BY <2>1, <2>2
<1>10. SpansInOrder' BY <1>1, <1>3, <1>5, <1>8, <1>9 DEF SpansInOrder
<1>11. \A i \in DOMAIN tokens' :
         tokens'[i].end > tokens'[i].start => At(tokens[i].start)' \notin LineBreaks
  <2>1. ASSUME NEW i \in 1 .. n + 1, tokens'[i].end > tokens'[i].start
        PROVE  At(tokens[i].start)' \notin LineBreaks
    BY <1>9, <2>1 DEF At, Length
  <2>2. QED BY <1>5, <2>1
<1>12. QED BY <1>2, <1>5, <1>10, <1>11

(* A branch that returns a token from the cursor on, or a bit further.      *)
LEMMA TokenKeepsInv ==
  ASSUME SourceInv, LexInv, Ready, NEW kind \in Kinds,
         NEW start \in cursor .. Length, NEW end \in start .. Length,
         end > start => At(start) \notin LineBreaks,
         Token(kind, start, end)
  PROVE  SourceInv' /\ LexInv'
<1>1. text \in Texts /\ Length \in Nat /\ cursor \in 0 .. Length /\ Loaded /\ inside = "no"
  BY TextChars DEF SourceInv, TextInv, LexInv, SpansInOrder, Ready
<1>2. start \in 0 .. Length /\ end \in 0 .. Length /\ start <= end /\ cursor <= start
  BY <1>1
<1>3. /\ UNCHANGED <<text, scanned, line_offsets, output, inside, opened>>
      /\ cursor' = end
      /\ tokens' = Append(tokens, [kind |-> kind, start |-> start, end |-> end])
      /\ UNCHANGED report \/ Report(start, end)
  BY DEF Token, Goto
<1>4. SourceInv'
  BY <1>1, <1>2, <1>3, ReportKeepsSource
<1>5. PICK t \in TokenRecords : t = [kind |-> kind, start |-> start, end |-> end]
  BY <1>2 DEF TokenRecords
<1>6. ASSUME NEW i \in DOMAIN tokens PROVE tokens[i].end <= t.start
  <2>1. tokens[i] \in TokenRecords BY LenProperties, ElementOfSeq DEF LexInv
  <2>2. tokens[i].end <= cursor /\ tokens[i].end \in 0 .. Length
    BY <2>1 DEF LexInv, SpansInOrder, TokenRecords
  <2>3. QED BY <1>1, <1>2, <1>5, <2>2
<1>7. /\ SpansInOrder' /\ (tokens \in Seq(TokenRecords))'
      /\ \A i \in DOMAIN tokens' :
           tokens'[i].end > tokens'[i].start => At(tokens[i].start)' \notin LineBreaks
  <2>1. t.start = start /\ t.end = end BY <1>5
  <2>2. QED BY <1>1, <1>2, <1>3, <1>5, <1>6, <2>1, NextInOrder
<1>8. opened' \in 0 .. cursor' BY <1>1, <1>2, <1>3 DEF LexInv
<1>9. inside' = "no" BY <1>1, <1>3
<1>10. LexInv'
  <2>1. (tokens \in Seq(TokenRecords))' BY <1>7
  <2>2. SpansInOrder' BY <1>7
  <2>3. \A i \in DOMAIN tokens' :
          tokens'[i].end > tokens'[i].start => At(tokens[i].start)' \notin LineBreaks
    BY <1>7
  <2>4. QED BY <1>8, <1>9, <2>1, <2>2, <2>3 DEF LexInv
<1>11. QED BY <1>4, <1>10

(* A branch that only moves on.                                             *)
LEMMA MoveKeepsInv ==
  ASSUME SourceInv, LexInv, UNCHANGED <<text, scanned, tokens>>,
         NEW i \in cursor .. Length, cursor' = i,
         \/ UNCHANGED <<inside, opened>>
         \/ inside' = "no" /\ opened' = 0
         \/ inside' = "comment" /\ opened' = cursor /\ Loaded /\ At(cursor) \notin LineBreaks
         \/ inside' = "string" /\ opened' = cursor /\ Loaded /\ At(cursor) \notin LineBreaks
  PROVE  LexInv'
<1>1. text \in Texts /\ Length \in Nat /\ cursor \in 0 .. Length /\ i \in 0 .. Length
  BY TextChars DEF SourceInv, TextInv, LexInv, SpansInOrder
<1>2. Length' = Length /\ \A j : At(j)' = At(j) BY SameText
<1>3. TokenRecords' = TokenRecords BY <1>2 DEF TokenRecords
<1>4. ASSUME NEW j \in DOMAIN tokens
      PROVE  tokens[j].start \in 0 .. Length /\ tokens[j].end \in 0 .. Length /\ tokens[j].end <= cursor
  <2>1. tokens[j] \in TokenRecords BY LenProperties, ElementOfSeq DEF LexInv
  <2>2. QED BY <2>1 DEF LexInv, SpansInOrder, TokenRecords
<1>5. SpansInOrder' BY <1>1, <1>2, <1>4 DEF LexInv, SpansInOrder
<1>6. opened' \in 0 .. cursor' BY <1>1 DEF LexInv
<1>7. ASSUME inside' # "no" PROVE Loaded' /\ At(opened)' \notin LineBreaks
  <2>1. CASE UNCHANGED <<inside, opened>>
    <3>1. Loaded /\ At(opened) \notin LineBreaks BY <1>7, <2>1 DEF LexInv
    <3>2. QED BY <2>1, <3>1 DEF Loaded, At, Length
  <2>2. CASE opened' = cursor /\ Loaded /\ At(cursor) \notin LineBreaks
    BY <2>2 DEF Loaded, At, Length
  <2>3. QED BY <1>7, <2>1, <2>2
<1>8. ASSUME NEW j \in DOMAIN tokens
      PROVE  /\ tokens[j].end > tokens[j].start => At(tokens[j].start)' \notin LineBreaks
             /\ inside' = "string" => tokens[j].end <= opened'
  <2>1. tokens[j].end > tokens[j].start => At(tokens[j].start) \notin LineBreaks BY DEF LexInv
  <2>2. inside' = "string" => tokens[j].end <= opened' BY <1>4 DEF LexInv
  <2>3. QED BY <2>1, <2>2 DEF At, Length
<1>9. (tokens \in Seq(TokenRecords))' BY <1>3 DEF LexInv
<1>10. QED
  <2>1. \A j \in DOMAIN tokens' :
          /\ tokens'[j].end > tokens'[j].start => At(tokens[j].start)' \notin LineBreaks
          /\ inside' = "string" => tokens'[j].end <= opened'
    BY <1>8 DEF At, Length
  <2>2. QED BY <1>5, <1>6, <1>7, <1>9, <2>1 DEF LexInv

-----------------------------------------------------------------------------
(* The branches, one after the other.                                       *)

LEMMA LexPlace ==
  ASSUME SourceInv, LexInv
  PROVE  text \in Texts /\ Length \in Nat /\ cursor \in 0 .. Length /\ opened \in 0 .. cursor
BY TextChars DEF SourceInv, TextInv, LexInv, SpansInOrder

(* At the cursor is a character of this set: the text goes on behind it.    *)
LEMMA CharHere ==
  ASSUME SourceInv, LexInv, NEW set, NUL \notin set, Here(set)
  PROVE  /\ Ready /\ Loaded /\ inside = "no" /\ At(cursor) \in set
         /\ cursor \in 0 .. Length /\ cursor + 1 \in 1 .. Length
<1>1. Ready /\ Loaded /\ inside = "no" /\ At(cursor) \in set BY DEF Here, Ready
<1>2. cursor \in Nat /\ cursor \in 0 .. Length /\ text \in Texts BY LexPlace
<1>3. At(cursor) # NUL BY <1>1
<1>4. QED BY <1>1, <1>2, <1>3, CharInside

(* A branch that only moves on leaves the diagnostics alone.                *)
LEMMA QuietKeepsSource ==
  ASSUME SourceInv, UNCHANGED sourceVars
  PROVE  SourceInv'
BY ReportKeepsSource DEF sourceVars

LEMMA SkipKeepsInv ==
  ASSUME SourceInv, LexInv, SkipBlanks \/ SkipLine
  PROVE  SourceInv' /\ LexInv'
<1>1. UNCHANGED <<text, scanned, tokens, inside, opened>> /\ UNCHANGED sourceVars
  BY DEF SkipBlanks, SkipLine, sourceVars
<1>2. SourceInv' BY <1>1, QuietKeepsSource
<1>3. text \in Texts /\ Length \in Nat /\ cursor \in 0 .. Length BY LexPlace
<1>4. CASE SkipBlanks
  <2>1. cursor' = Run(cursor, Blank) BY <1>4 DEF SkipBlanks, Goto
  <2>2. NUL \notin Blank BY DEF Blank, NUL, NewLine, Return
  <2>3. Run(cursor, Blank) \in cursor .. Length BY <1>3, <2>2, RunInside
  <2>4. QED BY <1>1, <1>2, <2>1, <2>3, MoveKeepsInv
<1>5. CASE SkipLine
  <2>1. cursor' = Run(cursor + 2, Chars \ {NewLine}) /\ At(cursor + 1) = "/"
    BY <1>5 DEF SkipLine, Goto
  <2>2. cursor + 2 \in 0 .. Length
    <3>1. cursor + 1 \in Nat /\ At(cursor + 1) # NUL BY <1>3, <2>1 DEF NUL
    <3>2. (cursor + 1) + 1 \in 1 .. Length BY <1>3, <3>1, CharInside
    <3>3. QED BY <1>3, <3>2
  <2>3. NUL \notin Chars \ {NewLine} BY TextAssumption
  <2>4. Run(cursor + 2, Chars \ {NewLine}) \in cursor + 2 .. Length
    BY <1>3, <2>2, <2>3, RunInside
  <2>5. Run(cursor + 2, Chars \ {NewLine}) \in cursor .. Length BY <1>3, <2>4
  <2>6. QED BY <1>1, <1>2, <2>1, <2>5, MoveKeepsInv
<1>6. QED BY <1>4, <1>5

(* Block comments.                                                          *)
LEMMA CommentKeepsInv ==
  ASSUME SourceInv, LexInv, OpenComment \/ Nest \/ CloseComment
  PROVE  SourceInv' /\ LexInv'
<1>1. text \in Texts /\ Length \in Nat /\ cursor \in 0 .. Length /\ opened \in 0 .. cursor
  BY LexPlace
<1>2. ASSUME NEW k \in Nat, At(k) # NUL PROVE k + 1 \in 1 .. Length BY <1>1, <1>2, CharInside
<1>3. CASE OpenComment
  <2>1. /\ UNCHANGED sourceVars /\ UNCHANGED <<text, scanned, tokens>>
        /\ cursor' = cursor + 2 /\ inside' = "comment" /\ opened' = cursor
        /\ Loaded /\ At(cursor) = "/" /\ At(cursor + 1) = "*"
    BY <1>3 DEF OpenComment, Goto, Here, Ready, sourceVars
  <2>2. (cursor + 1) + 1 \in 1 .. Length BY <1>1, <1>2, <2>1 DEF NUL
  <2>3. cursor + 2 \in cursor .. Length BY <1>1, <2>2
  <2>4. At(cursor) \notin LineBreaks BY <2>1 DEF LineBreaks, NewLine, Return
  <2>5. QED BY <2>1, <2>3, <2>4, QuietKeepsSource, MoveKeepsInv
<1>4. CASE Nest
  <2>1. /\ UNCHANGED sourceVars /\ UNCHANGED <<text, scanned, tokens>>
        /\ UNCHANGED <<inside, opened>> /\ cursor < Length
    BY <1>4 DEF Nest, InComment, sourceVars
  <2>2. PICK i \in cursor .. Length : cursor' = i
    <3>1. CASE cursor' = cursor + 2 /\ At(cursor + 1) \in {"*", "/"}
      <4>1. (cursor + 1) + 1 \in 1 .. Length BY <1>1, <1>2, <3>1 DEF NUL
      <4>2. cursor + 2 \in cursor .. Length BY <1>1, <4>1
      <4>3. QED BY <3>1, <4>2
    <3>2. CASE cursor' = cursor + 1 BY <1>1, <2>1, <3>2
    <3>3. QED BY <1>4, <3>1, <3>2 DEF Nest, Goto
  <2>3. QED BY <2>1, <2>2, QuietKeepsSource, MoveKeepsInv
<1>5. CASE CloseComment
  <2>1. /\ UNCHANGED <<text, scanned, line_offsets, output, cursor, tokens>>
        /\ inside' = "no" /\ opened' = 0 /\ inside = "comment"
        /\ UNCHANGED report \/ Report(opened, cursor)
    BY <1>5 DEF CloseComment
  <2>2. Loaded /\ At(opened) \notin LineBreaks /\ opened \in 0 .. Length
    BY <1>1, <2>1 DEF LexInv
  <2>3. SourceInv' BY <1>1, <2>1, <2>2, ReportKeepsSource
  <2>4. cursor \in cursor .. Length BY <1>1
  <2>5. LexInv' BY <2>1, <2>4, MoveKeepsInv
  <2>6. QED BY <2>3, <2>5
<1>6. QED BY <1>3, <1>4, <1>5

(* Names, operators and unexpected characters start at the cursor.          *)
LEMMA NameKeepsInv ==
  ASSUME SourceInv, LexInv, LexIdentifier \/ LexOperator \/ LexUnexpected \/ LexEof
  PROVE  SourceInv' /\ LexInv'
<1>1. text \in Texts /\ Length \in Nat /\ cursor \in 0 .. Length BY LexPlace
<1>2. cursor \in cursor .. Length BY <1>1
<1>3. CASE LexIdentifier
  <2>1. Here(Alpha) BY <1>3 DEF LexIdentifier
  <2>2. NUL \notin Alpha /\ NUL \notin Alnum
    BY DEF NUL, Alpha, Alnum, Digit, OctDigit, BinDigit
  <2>3. Ready /\ At(cursor) \in Alpha BY <2>1, <2>2, CharHere
  <2>4. At(cursor) \notin LineBreaks BY <2>3 DEF Alpha, LineBreaks, NewLine, Return
  <2>5. PICK end \in cursor .. Length : end = Run(cursor, Alnum) BY <1>1, <2>2, RunInside
  <2>6. PICK kind \in Kinds : Token(kind, cursor, end)
    BY <1>3, <2>5 DEF LexIdentifier, Kinds
  <2>7. QED BY <1>2, <2>3, <2>4, <2>6, TokenKeepsInv
<1>4. CASE LexOperator
  <2>1. Here(Operator \cup Single) BY <1>4 DEF LexOperator
  <2>2. NUL \notin Operator \cup Single BY DEF NUL, Operator, Single
  <2>3. Ready /\ At(cursor) \in Operator \cup Single BY <2>1, <2>2, CharHere
  <2>4. At(cursor) \notin LineBreaks
    BY <2>3 DEF Operator, Single, LineBreaks, NewLine, Return
  <2>5. PICK end \in cursor + 1 .. Length : Token("operator", cursor, end)
    BY <1>4 DEF LexOperator
  <2>6. end \in cursor .. Length BY <1>1
  <2>7. "operator" \in Kinds BY DEF Kinds
  <2>8. QED BY <1>2, <2>3, <2>4, <2>5, <2>6, <2>7, TokenKeepsInv
<1>5. CASE LexUnexpected
  <2> DEFINE set == Chars \ (Blank \cup Alnum \cup Operator \cup Single \cup {Quote, Tick})
  <2>1. Here(set) /\ Token("error", cursor, cursor + 1) BY <1>5 DEF LexUnexpected
  <2>2. NUL \notin set BY TextAssumption
  <2>3. At(cursor) \notin LineBreaks BY <2>1 DEF Here, LineBreaks, Blank
  <2> HIDE DEF set
  <2>4. Ready /\ cursor + 1 \in 1 .. Length BY <2>1, <2>2, CharHere
  <2>5. cursor + 1 \in cursor .. Length BY <1>1, <2>4
  <2>6. "error" \in Kinds BY DEF Kinds
  <2>7. QED BY <1>2, <2>1, <2>3, <2>4, <2>5, <2>6, TokenKeepsInv
<1>6. CASE LexEof
  <2>1. Ready /\ Token("eof", cursor, cursor) BY <1>6 DEF LexEof
  <2>2. "eof" \in Kinds /\ ~ (cursor > cursor) BY <1>1 DEF Kinds
  <2>3. QED BY <1>2, <2>1, <2>2, TokenKeepsInv
<1>7. QED BY <1>3, <1>4, <1>5, <1>6

(* Numbers.                                                                 *)
LEMMA NumberKeepsInv ==
  ASSUME SourceInv, LexInv, LexPrefixed \/ LexDecimal
  PROVE  SourceInv' /\ LexInv'
<1>1. text \in Texts /\ Length \in Nat /\ cursor \in 0 .. Length BY LexPlace
<1>2. ASSUME NEW k \in Nat, At(k) # NUL PROVE k + 1 \in 1 .. Length BY <1>1, <1>2, CharInside
<1>3. Here(Digit) BY DEF LexPrefixed, LexDecimal
<1>4. NUL \notin Digit /\ NUL \notin Digit \cup {"_"} BY DEF NUL, Digit, OctDigit, BinDigit
<1>5. Ready /\ At(cursor) \in Digit BY <1>3, <1>4, CharHere
<1>6. At(cursor) \notin LineBreaks
  BY <1>5 DEF Digit, OctDigit, BinDigit, LineBreaks, NewLine, Return
<1>7. cursor \in cursor .. Length BY <1>1
<1>8. ASSUME NEW kind \in Kinds, NEW end \in cursor .. Length, Token(kind, cursor, end)
      PROVE  SourceInv' /\ LexInv'
  BY <1>5, <1>6, <1>7, <1>8, TokenKeepsInv
<1>9. CASE LexPrefixed
  <2>1. cursor + 2 \in cursor .. Length
    <3>1. At(cursor + 1) \in {"x", "b", "o"} BY <1>9 DEF LexPrefixed, Prefixed
    <3>2. (cursor + 1) + 1 \in 1 .. Length BY <1>1, <1>2, <3>1 DEF NUL
    <3>3. QED BY <1>1, <3>2
  <2>2. CASE Token("error", cursor, cursor + 2)
    <3>1. "error" \in Kinds BY DEF Kinds
    <3>2. QED BY <1>8, <2>1, <2>2, <3>1
  <2>3. ASSUME NEW digits \in {HexDigit, BinDigit, OctDigit},
               Token("int", cursor, Run(cursor + 2, digits \cup {"_"}))
        PROVE  SourceInv' /\ LexInv'
    <3>1. NUL \notin digits \cup {"_"} BY DEF NUL, HexDigit, Digit, OctDigit, BinDigit
    <3>2. cursor + 2 \in 0 .. Length BY <1>1, <2>1
    <3>3. PICK end \in cursor + 2 .. Length : end = Run(cursor + 2, digits \cup {"_"})
      BY <1>1, <3>1, <3>2, RunInside
    <3>4. end \in cursor .. Length BY <1>1
    <3>5. Token("int", cursor, end) BY <2>3, <3>3
    <3>6. "int" \in Kinds BY DEF Kinds
    <3>7. QED BY <1>8, <3>4, <3>5, <3>6
  <2>4. \/ Token("error", cursor, cursor + 2)
        \/ \E digits \in {HexDigit, BinDigit, OctDigit} :
             Token("int", cursor, Run(cursor + 2, digits \cup {"_"}))
    BY <1>9 DEF LexPrefixed, Prefixed
  <2>5. QED BY <2>2, <2>3, <2>4
<1>10. CASE LexDecimal
  <2>1. PICK whole \in cursor .. Length : whole = Run(cursor, Digit \cup {"_"})
    BY <1>1, <1>4, RunInside
  <2>2. PICK point \in cursor .. Length : point = Fraction(whole)
    <3>1. CASE At(whole) = "."
      <4>1. whole + 1 \in 0 .. Length /\ whole \in Nat BY <1>1, <1>2, <3>1 DEF NUL
      <4>2. PICK end \in whole + 1 .. Length : end = Run(whole + 1, Digit \cup {"_"})
        BY <1>1, <1>4, <4>1, RunInside
      <4>3. end \in cursor .. Length BY <1>1, <4>1
      <4>4. QED BY <4>2, <4>3 DEF Fraction
    <3>2. CASE At(whole) # "." BY <3>2 DEF Fraction
    <3>3. QED BY <3>1, <3>2
  <2> DEFINE power == IF At(point + 1) \in {"+", "-"} THEN point + 2 ELSE point + 1
  <2>3. CASE At(point) # "e"
    <3>1. PICK kind \in Kinds : Token(kind, cursor, point)
      BY <1>10, <2>1, <2>2, <2>3 DEF LexDecimal, Kinds
    <3>2. QED BY <1>8, <3>1
  <2>4. CASE At(point) = "e"
    <3>1. point \in Nat /\ point + 1 \in 0 .. Length BY <1>1, <1>2, <2>4 DEF NUL
    <3>2. power \in cursor .. Length
      <4>1. CASE At(point + 1) \in {"+", "-"}
        <5>1. (point + 1) + 1 \in 1 .. Length BY <1>2, <3>1, <4>1 DEF NUL
        <5>2. point + 2 \in cursor .. Length BY <1>1, <3>1, <5>1
        <5>3. QED BY <4>1, <5>2
      <4>2. CASE At(point + 1) \notin {"+", "-"} BY <1>1, <3>1, <4>2
      <4>3. QED BY <4>1, <4>2
    <3>3. CASE At(power) \in Digit
      <4>1. Token("float", cursor, Run(power, Digit \cup {"_"}))
        BY <1>10, <2>1, <2>2, <2>4, <3>3 DEF LexDecimal
      <4> HIDE DEF power
      <4>2. power \in 0 .. Length BY <1>1, <3>2
      <4>3. PICK end \in power .. Length : end = Run(power, Digit \cup {"_"})
        BY <1>1, <1>4, <4>2, RunInside
      <4>4. end \in cursor .. Length BY <1>1, <3>2
      <4>5. "float" \in Kinds BY DEF Kinds
      <4>6. QED BY <1>8, <4>1, <4>3, <4>4, <4>5
    <3>4. CASE At(power) \notin Digit
      <4>1. Token("error", cursor, power)
        BY <1>10, <2>1, <2>2, <2>4, <3>4 DEF LexDecimal
      <4>2. "error" \in Kinds BY DEF Kinds
      <4> HIDE DEF power
      <4>3. QED BY <1>8, <3>2, <4>1, <4>2
    <3>5. QED BY <3>3, <3>4
  <2>5. QED BY <2>3, <2>4
<1>11. QED BY <1>9, <1>10

(* Strings.                                                                 *)
LEMMA StringKeepsInv ==
  ASSUME SourceInv, LexInv, OpenString \/ InString \/ CloseString \/ LexRawString
  PROVE  SourceInv' /\ LexInv'
<1>1. text \in Texts /\ Length \in Nat /\ cursor \in 0 .. Length /\ opened \in 0 .. cursor
  BY LexPlace
<1>2. ASSUME NEW k \in Nat, At(k) # NUL PROVE k + 1 \in 1 .. Length BY <1>1, <1>2, CharInside
<1>3. cursor \in cursor .. Length BY <1>1
<1>4. CASE OpenString
  <2>1. /\ UNCHANGED sourceVars /\ UNCHANGED <<text, scanned, tokens>>
        /\ cursor' = cursor + 1 /\ inside' = "string" /\ opened' = cursor
        /\ Loaded /\ At(cursor) = Quote
    BY <1>4 DEF OpenString, Goto, Here, Ready, sourceVars
  <2>2. At(cursor) \notin LineBreaks /\ At(cursor) # NUL
    BY <2>1 DEF LineBreaks, NewLine, Return, Quote, NUL
  <2>3. cursor + 1 \in cursor .. Length BY <1>1, <1>2, <2>2
  <2>4. QED BY <2>1, <2>2, <2>3, QuietKeepsSource, MoveKeepsInv
<1>5. CASE InString
  <2>1. /\ UNCHANGED sourceVars /\ UNCHANGED <<text, scanned, tokens>>
        /\ UNCHANGED <<inside, opened>> /\ cursor < Length
        /\ cursor' = IF At(cursor) = BackSlash THEN AfterEscape(cursor) ELSE cursor + 1
    BY <1>5 DEF InString, Goto, sourceVars
  <2>2. PICK i \in cursor .. Length : i = AfterEscape(cursor)
    <3> DEFINE one == IF At(cursor + 2) \in HexDigit THEN cursor + 3 ELSE cursor + 2
               two == IF At(one) \in HexDigit THEN one + 1 ELSE one
    <3>1. NUL \notin HexDigit BY DEF NUL, HexDigit, Digit, OctDigit, BinDigit
    <3>2. CASE cursor + 1 >= Length
      <4>1. AfterEscape(cursor) = cursor + 1 BY <3>2 DEF AfterEscape
      <4>2. QED BY <1>1, <2>1, <4>1
    <3>3. CASE ~ (cursor + 1 >= Length)
      <4>1. cursor + 2 \in cursor .. Length BY <1>1, <3>3
      <4>2. one \in cursor .. Length
        <5>1. CASE At(cursor + 2) \in HexDigit
          <6>1. (cursor + 2) + 1 \in 1 .. Length BY <1>1, <1>2, <3>1, <5>1
          <6>2. QED BY <1>1, <5>1, <6>1
        <5>2. CASE At(cursor + 2) \notin HexDigit BY <4>1, <5>2
        <5>3. QED BY <5>1, <5>2
      <4>3. AfterEscape(cursor) = two \/ AfterEscape(cursor) = cursor + 2
        BY <3>3 DEF AfterEscape
      <4>4. two \in cursor .. Length
        <5> HIDE DEF one
        <5>1. one \in Nat BY <1>1, <4>2
        <5>2. CASE At(one) \in HexDigit
          <6>1. one + 1 \in 1 .. Length BY <1>2, <3>1, <5>1, <5>2
          <6>2. QED BY <1>1, <4>2, <5>2, <6>1
        <5>3. CASE At(one) \notin HexDigit BY <4>2, <5>3
        <5>4. QED BY <5>2, <5>3
      <4> HIDE DEF two
      <4>5. QED BY <4>1, <4>3, <4>4
    <3>4. QED BY <3>2, <3>3
  <2>3. cursor + 1 \in cursor .. Length BY <1>1, <2>1
  <2>4. PICK j \in cursor .. Length : cursor' = j BY <2>1, <2>2, <2>3
  <2>5. QED BY <2>1, <2>4, QuietKeepsSource, MoveKeepsInv
<1>6. CASE CloseString
  <2>1. PICK end \in cursor .. Length, kind \in Kinds :
          /\ UNCHANGED <<text, scanned, line_offsets, output>>
          /\ inside = "string" /\ inside' = "no" /\ opened' = 0 /\ cursor' = end
          /\ tokens' = Append(tokens, [kind |-> kind, start |-> opened, end |-> end])
          /\ UNCHANGED report \/ Report(opened, end)
    <3>1. CASE At(cursor) = Quote
      <4>1. cursor + 1 \in cursor .. Length BY <1>1, <1>2, <3>1 DEF Quote, NUL
      <4>2. "string" \in Kinds BY DEF Kinds
      <4>3. QED BY <1>6, <3>1, <4>1, <4>2 DEF CloseString, Goto
    <3>2. CASE At(cursor) # Quote
      <4>1. "error" \in Kinds BY DEF Kinds
      <4>2. QED BY <1>3, <1>6, <3>2, <4>1 DEF CloseString, Goto
    <3>3. QED BY <3>1, <3>2
  <2>2. PICK start \in 0 .. Length : start = opened /\ start <= cursor BY <1>1
  <2>3. Loaded /\ At(start) \notin LineBreaks BY <2>1, <2>2 DEF LexInv
  <2>4. end \in 0 .. Length /\ start <= end BY <1>1, <2>2
  <2>5. SourceInv' BY <2>1, <2>2, <2>3, <2>4, ReportKeepsSource
  <2>6. PICK t \in TokenRecords : t = [kind |-> kind, start |-> start, end |-> end]
    BY <2>4 DEF TokenRecords
  <2>7. t.start = start /\ t.end = end BY <2>6
  <2>8. \A i \in DOMAIN tokens : tokens[i].end <= t.start BY <2>1, <2>2, <2>7 DEF LexInv
  <2>9. tokens' = Append(tokens, t) BY <2>1, <2>2, <2>6
  <2>10. /\ SpansInOrder' /\ (tokens \in Seq(TokenRecords))'
         /\ \A i \in DOMAIN tokens' :
              tokens'[i].end > tokens'[i].start => At(tokens[i].start)' \notin LineBreaks
    BY <1>1, <2>1, <2>3, <2>4, <2>7, <2>8, <2>9, NextInOrder
  <2>11. opened' \in 0 .. cursor' BY <1>1, <2>1, <2>4
  <2>12. LexInv'
    <3>1. SpansInOrder' BY <2>10
    <3>2. (tokens \in Seq(TokenRecords))' BY <2>10
    <3>3. \A i \in DOMAIN tokens' :
            tokens'[i].end > tokens'[i].start => At(tokens[i].start)' \notin LineBreaks
      BY <2>10
    <3>4. inside' = "no" BY <2>1
    <3>5. QED BY <2>11, <3>1, <3>2, <3>3, <3>4 DEF LexInv
  <2>13. QED BY <2>5, <2>12
<1>7. CASE LexRawString
  <2>1. /\ Ready /\ At(cursor) = "r" /\ At(cursor + 1) = Quote
    BY <1>7 DEF LexRawString, Here
  <2>2. At(cursor) \notin LineBreaks BY <2>1 DEF LineBreaks, NewLine, Return
  <2>3. cursor + 2 \in 0 .. Length
    <3>1. (cursor + 1) + 1 \in 1 .. Length BY <1>1, <1>2, <2>1 DEF Quote, NUL
    <3>2. QED BY <1>1, <3>1
  <2>4. NUL \notin Chars \ {Quote} BY TextAssumption
  <2>5. PICK stop \in cursor + 2 .. Length : stop = Run(cursor + 2, Chars \ {Quote})
    BY <1>1, <2>3, <2>4, RunInside
  <2>6. PICK end \in cursor .. Length, kind \in Kinds : Token(kind, cursor, end)
    <3>1. CASE At(stop) = Quote
      <4>1. stop \in Nat BY <1>1
      <4>2. stop + 1 \in 1 .. Length BY <1>2, <3>1, <4>1 DEF Quote, NUL
      <4>3. stop + 1 \in cursor .. Length BY <1>1, <4>2
      <4>4. "raw string" \in Kinds BY DEF Kinds
      <4>5. QED BY <1>7, <2>5, <3>1, <4>3, <4>4 DEF LexRawString
    <3>2. CASE At(stop) # Quote
      <4>1. stop \in cursor .. Length /\ "error" \in Kinds BY <1>1 DEF Kinds
      <4>2. QED BY <1>7, <2>5, <3>2, <4>1 DEF LexRawString
    <3>3. QED BY <3>1, <3>2
  <2>7. QED BY <1>3, <2>1, <2>2, <2>6, TokenKeepsInv
<1>8. QED BY <1>4, <1>5, <1>6, <1>7

(* Character literals.                                                      *)
LEMMA CharKeepsInv ==
  ASSUME SourceInv, LexInv, LexChar
  PROVE  SourceInv' /\ LexInv'
<1>1. text \in Texts /\ Length \in Nat /\ cursor \in 0 .. Length BY LexPlace
<1>2. ASSUME NEW k \in Nat, At(k) # NUL PROVE k + 1 \in 1 .. Length BY <1>1, <1>2, CharInside
<1>3. PICK start \in cursor .. Length : 
        /\ start = IF At(cursor) = "b" THEN cursor + 1 ELSE cursor
        /\ start + 1 \in 0 .. Length /\ Ready /\ At(start) \notin LineBreaks
  <2>1. CASE Here({Tick})
    <3>1. At(cursor) = Tick /\ Ready BY <2>1 DEF Here
    <3>2. cursor + 1 \in 1 .. Length /\ At(cursor) # "b" /\ At(cursor) \notin LineBreaks
      BY <1>1, <1>2, <3>1 DEF Tick, NUL, LineBreaks, NewLine, Return
    <3>3. QED BY <1>1, <3>1, <3>2
  <2>2. CASE Here({"b"}) /\ At(cursor + 1) = Tick
    <3>1. At(cursor) = "b" /\ Ready /\ At(cursor + 1) = Tick BY <2>2 DEF Here
    <3>2. (cursor + 1) + 1 \in 1 .. Length /\ At(cursor + 1) \notin LineBreaks
      BY <1>1, <1>2, <3>1 DEF Tick, NUL, LineBreaks, NewLine, Return
    <3>3. cursor + 1 \in cursor .. Length BY <1>1, <3>2
    <3>4. (cursor + 1) + 1 \in 0 .. Length BY <1>1, <3>2
    <3>5. QED BY <3>1, <3>2, <3>3, <3>4
  <2>3. QED BY <2>1, <2>2 DEF LexChar
<1>4. PICK first \in start .. Length : first = start + 1 /\ first \in Nat BY <1>1, <1>3
<1>5. PICK last \in first .. Length :
        last = IF At(first) = BackSlash THEN Escape(first + 1)
               ELSE IF first < Length THEN first + 1 ELSE first
  <2>1. CASE At(first) = BackSlash
    <3>1. first + 1 \in 1 .. Length BY <1>2, <1>4, <2>1 DEF BackSlash, NUL
    <3>2. CASE /\ At(first + 1) = "x" /\ At((first + 1) + 1) \in HexDigit
               /\ At((first + 1) + 2) \in HexDigit
      <4>1. At((first + 1) + 2) # NUL
        BY <3>2 DEF NUL, HexDigit, Digit, OctDigit, BinDigit
      <4>2. ((first + 1) + 2) + 1 \in 1 .. Length BY <1>2, <1>4, <4>1
      <4>3. Escape(first + 1) = (first + 1) + 3 BY <3>2 DEF Escape
      <4>4. (first + 1) + 3 \in first .. Length BY <1>1, <1>4, <4>2
      <4>5. QED BY <2>1, <4>3, <4>4
    <3>3. CASE ~ (/\ At(first + 1) = "x" /\ At((first + 1) + 1) \in HexDigit
                  /\ At((first + 1) + 2) \in HexDigit)
      <4>1. Escape(first + 1) = IF first + 1 < Length THEN (first + 1) + 1 ELSE first + 1
        BY <3>3 DEF Escape
      <4>2. Escape(first + 1) \in first .. Length BY <1>1, <1>4, <3>1, <4>1
      <4>3. QED BY <2>1, <4>2
    <3>4. QED BY <3>2, <3>3
  <2>2. CASE At(first) # BackSlash BY <1>1, <1>4, <2>2
  <2>3. QED BY <2>1, <2>2
<1>6. last \in Nat /\ last \in 0 .. Length BY <1>1, <1>4
<1>7. PICK rest \in last .. Length : rest = Run(last, Chars \ {Tick, NewLine})
  <2>1. NUL \notin Chars \ {Tick, NewLine} BY TextAssumption
  <2>2. QED BY <1>1, <1>6, <2>1, RunInside
<1>8. \/ Token("error", start, first)
      \/ At(last) = Tick /\ Token("char", start, last + 1)
      \/ Token("error", start, IF At(rest) = Tick THEN rest + 1 ELSE rest)
  BY <1>3, <1>4, <1>5, <1>7 DEF LexChar
<1>9. "error" \in Kinds /\ "char" \in Kinds BY DEF Kinds
<1>10. ASSUME NEW kind \in Kinds, NEW end \in start .. Length, Token(kind, start, end)
       PROVE  SourceInv' /\ LexInv'
  BY <1>3, <1>10, TokenKeepsInv
<1>11. CASE Token("error", start, first) BY <1>9, <1>10, <1>11
<1>12. CASE At(last) = Tick /\ Token("char", start, last + 1)
  <2>1. last + 1 \in 1 .. Length BY <1>2, <1>6, <1>12 DEF Tick, NUL
  <2>2. last + 1 \in start .. Length BY <1>1, <1>4, <1>6, <2>1
  <2>3. QED BY <1>9, <1>10, <1>12, <2>2
<1>13. CASE Token("error", start, IF At(rest) = Tick THEN rest + 1 ELSE rest)
  <2>1. rest \in Nat /\ rest \in start .. Length BY <1>1, <1>4, <1>6
  <2>2. CASE At(rest) = Tick
    <3>1. rest + 1 \in 1 .. Length BY <1>2, <2>1, <2>2 DEF Tick, NUL
    <3>2. rest + 1 \in start .. Length BY <1>1, <2>1, <3>1
    <3>3. QED BY <1>9, <1>10, <1>13, <2>2, <3>2
  <2>3. CASE At(rest) # Tick BY <1>9, <1>10, <1>13, <2>1, <2>3
  <2>4. QED BY <2>2, <2>3
<1>14. QED BY <1>8, <1>11, <1>12, <1>13

-----------------------------------------------------------------------------
(* The theorems.                                                            *)

(* A file that is not loaded yet has no tokens.                             *)
Idle == ~ Loaded => tokens = <<>> /\ inside = "no"

LexerInv == SourceInv /\ LexInv /\ Idle

LEMMA LexerStarts ==
  ASSUME Init
  PROVE  LexerInv
<1>1. /\ SourceInit /\ cursor = 0 /\ inside = "no" /\ opened = 0 /\ tokens = <<>>
  BY DEF Init
<1>2. TextInv /\ text \in Texts /\ report = NoReport /\ output = <<>>
  BY <1>1, TextStarts DEF SourceInit
<1>3. SourceInv
  BY <1>2 DEF SourceInv, ReportInv, Reporting, LocationExact, CaretsWithinLine
<1>4. Length \in Nat BY <1>2, TextChars
<1>5. SpansInOrder BY <1>1, <1>4 DEF SpansInOrder
<1>6. LexInv BY <1>1, <1>5 DEF LexInv
<1>7. QED BY <1>1, <1>3, <1>6 DEF LexerInv, Idle

LEMMA ScanKeepsInv ==
  ASSUME LexerInv, ScanChar, UNCHANGED lexVars
  PROVE  LexerInv'
<1>1. /\ SourceInv /\ LexInv /\ ~ Loaded /\ tokens = <<>> /\ inside = "no"
      /\ UNCHANGED <<text, report, output>>
      /\ UNCHANGED <<cursor, inside, opened, tokens>>
  BY DEF LexerInv, Idle, ScanChar, lexVars
<1>2. TextInv' BY <1>1, ScanKeepsText DEF SourceInv
<1>3. ReportInv' BY <1>1 DEF SourceInv, ReportInv, Reporting
<1>4. \A o, l, c : IsAt(o, l, c)' = IsAt(o, l, c) BY <1>1, SameText
<1>5. SourceInv' BY <1>1, <1>2, <1>3, <1>4 DEF SourceInv, LocationExact, CaretsWithinLine
<1>6. Length' = Length BY <1>1, SameText
<1>7. SpansInOrder' BY <1>1, <1>6 DEF LexInv, SpansInOrder
<1>8. LexInv' BY <1>1, <1>7 DEF LexInv
<1>9. Idle' BY <1>1 DEF Idle
<1>10. QED BY <1>5, <1>8, <1>9 DEF LexerInv

LEMMA LexerStepKeepsInv ==
  ASSUME LexerInv, [Next]_vars
  PROVE  LexerInv'
<1>1. SourceInv /\ LexInv /\ text \in Texts /\ Length \in Nat /\ cursor \in 0 .. Length
  BY LexPlace DEF LexerInv
<1>2. CASE ScanChar /\ UNCHANGED lexVars BY <1>2, ScanKeepsInv
<1>3. ASSUME UNCHANGED <<text, scanned>>, Loaded PROVE Idle'
  BY <1>3 DEF Idle, Loaded, Length
<1>4. cursor \in cursor .. Length BY <1>1
<1>5. CASE Locate /\ UNCHANGED lexVars
  <2>1. UNCHANGED <<text, scanned, tokens, inside, opened, cursor>> BY <1>5 DEF Locate, lexVars
  <2>2. SourceInv' BY <1>1, <1>5, LocateKeepsSource
  <2>3. LexInv' BY <1>1, <1>4, <2>1, MoveKeepsInv
  <2>4. Loaded BY <1>1, <1>5 DEF Locate, SourceInv, ReportInv
  <2>5. QED BY <1>3, <2>1, <2>2, <2>3, <2>4 DEF LexerInv
<1>6. CASE NextToken
  <2>1. SourceInv' /\ LexInv'
    BY <1>1, <1>6, SkipKeepsInv, CommentKeepsInv, NameKeepsInv, NumberKeepsInv,
       StringKeepsInv, CharKeepsInv
       DEF NextToken
  <2>2. UNCHANGED <<text, scanned>>
    BY <1>6 DEF NextToken, SkipBlanks, SkipLine, OpenComment, Nest, CloseComment, LexIdentifier,
       LexPrefixed, LexDecimal, LexRawString, OpenString, InString, CloseString, LexChar,
       LexOperator, LexUnexpected, LexEof, Token, sourceVars
  <2>3. Loaded
    BY <1>1, <1>6 DEF NextToken, SkipBlanks, SkipLine, OpenComment, Nest, CloseComment,
       LexIdentifier, LexPrefixed, LexDecimal, LexRawString, OpenString, InString, CloseString,
       LexChar, LexOperator, LexUnexpected, LexEof, Here, Ready, InComment, LexInv
  <2>4. QED BY <1>3, <2>1, <2>2, <2>3 DEF LexerInv
<1>7. CASE ParserReports
  <2>1. /\ UNCHANGED <<text, scanned, line_offsets, output>> /\ Loaded /\ tokens # <<>>
        /\ UNCHANGED <<cursor, tokens, inside, opened>>
        /\ Report(tokens[Len(tokens)].start, tokens[Len(tokens)].end)
    BY <1>7 DEF ParserReports, lexVars
  <2>2. PICK n \in DOMAIN tokens : n = Len(tokens) /\ tokens[n] \in TokenRecords
    BY <1>1, <2>1, EmptySeq, LenProperties, ElementOfSeq DEF LexInv
  <2>3. PICK t \in TokenRecords : t = tokens[n] BY <2>2
  <2>4. t.start \in 0 .. Length /\ t.end \in 0 .. Length BY DEF TokenRecords
  <2>5. t.end > t.start => At(t.start) \notin LineBreaks BY <1>1, <2>3 DEF LexInv
  <2>6. Report(t.start, t.end) BY <2>1, <2>2, <2>3
  <2>7. SourceInv' BY <1>1, <2>1, <2>4, <2>5, <2>6, ReportKeepsSource
  <2>8. LexInv' BY <1>1, <1>4, <2>1, MoveKeepsInv
  <2>9. QED BY <1>3, <2>1, <2>7, <2>8 DEF LexerInv
<1>8. CASE UNCHANGED vars
  <2>1. UNCHANGED sourceVars /\ UNCHANGED <<cursor, tokens, inside, opened>>
    BY <1>8 DEF vars, lexVars
  <2>2. UNCHANGED <<text, scanned>> BY <2>1 DEF sourceVars
  <2>3. SourceInv' /\ LexInv'
    BY <1>1, <1>4, <2>1, <2>2, QuietKeepsSource, MoveKeepsInv
  <2>4. Idle' BY <2>1, <2>2 DEF LexerInv, Idle, Loaded, Length
  <2>5. QED BY <2>3, <2>4 DEF LexerInv
<1>9. QED BY <1>2, <1>5, <1>6, <1>7, <1>8 DEF Next

(* The table of lines is right, a search under way is around its line, and  *)
(* the tokens and literals that were read lie in the text, whatever it is.  *)
THEOREM LexerInvariant == Spec => []LexerInv
<1>1. Init => LexerInv BY LexerStarts
<1>2. LexerInv /\ [Next]_vars => LexerInv' BY LexerStepKeepsInv
<1>3. QED BY <1>1, <1>2, PTL DEF Spec

(* The tokens of any text lie in it one after the other.                    *)
THEOREM TokensInOrder == Spec => []SpansInOrder
<1>1. LexerInv => SpansInOrder BY DEF LexerInv, LexInv
<1>2. QED BY <1>1, LexerInvariant, PTL

(* A diagnostic names the line and column of its offset, in any text.       *)
THEOREM DiagnosticLocationExact == Spec => []LocationExact
<1>1. LexerInv => LocationExact BY DEF LexerInv, SourceInv
<1>2. QED BY <1>1, LexerInvariant, PTL

(* Its carets end with the line, and the 32 bits of their number suffice.   *)
THEOREM DiagnosticCaretsFit == Spec => []CaretsWithinLine
<1>1. LexerInv => CaretsWithinLine BY DEF LexerInv, SourceInv
<1>2. QED BY <1>1, LexerInvariant, PTL

-----------------------------------------------------------------------------
(* The search for a word in KEYWORDS.                                       *)

Ranges == (0 .. 72) \X (-1 .. 71)

Size(range) == range[2] - range[1] + 1

Body(w, f) == [range \in Ranges |-> Round(w, f, range)]

Middle(range) == (range[1] + range[2]) \div 2

(* The middle of a range that is not empty is in it, and the halves left of *)
(* it and right of it are smaller.                                          *)
LEMMA Halves ==
  ASSUME NEW range \in Ranges, range[1] <= range[2]
  PROVE  /\ Middle(range) \in range[1] .. range[2] /\ Middle(range) \in 0 .. 71
         /\ KEYWORDS[Middle(range)] \in Nat
         /\ <<range[1], Middle(range) - 1>> \in Ranges
         /\ <<Middle(range) + 1, range[2]>> \in Ranges
         /\ Size(<<range[1], Middle(range) - 1>>) < Size(range)
         /\ Size(<<Middle(range) + 1, range[2]>>) < Size(range)
  <1>1. PICK lo \in 0 .. 72, hi \in -1 .. 71 : range = <<lo, hi>>
    BY DEF Ranges
  <1> DEFINE mid == (lo + hi) \div 2
  <1>2. Middle(range) = mid /\ range[1] = lo /\ range[2] = hi /\ lo <= hi
    BY <1>1 DEF Middle
  <1>3. mid \in lo .. hi /\ mid \in 0 .. 71
    BY <1>2
  <1> HIDE DEF mid
  <1>4. KEYWORDS[mid] \in Nat
    BY <1>3 DEF KEYWORDS
  <1>5. <<lo, mid - 1>> \in Ranges /\ <<mid + 1, hi>> \in Ranges
    BY <1>3 DEF Ranges
  <1>6. Size(<<lo, mid - 1>>) < Size(range) /\ Size(<<mid + 1, hi>>) < Size(range)
    BY <1>2, <1>3 DEF Size
  <1> QED
    BY <1>2, <1>3, <1>4, <1>5, <1>6

LEMMA Compared ==
  ASSUME NEW w \in Words, NEW range \in Ranges, range[1] <= range[2]
  PROVE  LET v == KEYWORDS[Middle(range)] IN w = v \/ w < v \/ w > v
  <1>1. w \in Nat
    BY DEF Words
  <1>2. KEYWORDS[Middle(range)] \in Nat
    BY Halves
  <1> QED
    BY <1>1, <1>2

LEMMA RoundIs ==
  ASSUME NEW w \in Words, NEW f, NEW range \in Ranges
  PROVE  /\ range[1] > range[2] => Round(w, f, range) = FALSE
         /\ range[1] <= range[2] =>
              /\ w = KEYWORDS[Middle(range)] => Round(w, f, range) = TRUE
              /\ w < KEYWORDS[Middle(range)] =>
                   Round(w, f, range) = f[<<range[1], Middle(range) - 1>>]
              /\ w > KEYWORDS[Middle(range)] =>
                   Round(w, f, range) = f[<<Middle(range) + 1, range[2]>>]
  <1> DEFINE lo  == range[1]
             hi  == range[2]
             mid == Middle(range)
             a == f[<<lo, mid - 1>>]
             b == f[<<mid + 1, hi>>]
  <1>1. lo \in Int /\ hi \in Int
    BY DEF Ranges
  <1>2. Round(w, f, range) =
          CASE lo > hi           -> FALSE
            [] lo <= hi /\ w = KEYWORDS[mid] -> TRUE
            [] lo <= hi /\ w < KEYWORDS[mid] -> a
            [] lo <= hi /\ w > KEYWORDS[mid] -> b
    BY DEF Round, Middle
  <1>3. w \in Nat
    BY DEF Words
  <1>4. lo <= hi => KEYWORDS[mid] \in Nat
    BY Halves
  <1> HIDE DEF lo, hi, mid, a, b
  <1>5. CASE lo > hi
    <2>1. ~ (lo <= hi)
      BY <1>1, <1>5
    <2>2. Round(w, f, range) = FALSE
      BY <1>2, <1>5, <2>1, Zenon
    <2> QED
      BY <2>1, <2>2 DEF lo, hi
  <1>6. CASE lo <= hi
    <2>1. ~ (lo > hi)
      BY <1>1, <1>6
    <2> DEFINE v == KEYWORDS[mid]
    <2>2. v \in Nat
      BY <1>4, <1>6
    <2>3. ASSUME w = v PROVE Round(w, f, range) = TRUE
      <3>1. ~ (w < v) /\ ~ (w > v)
        BY <1>3, <2>2, <2>3
      <3> QED
        BY <1>2, <1>6, <2>1, <2>3, <3>1, Zenon
    <2>4. ASSUME w < v PROVE Round(w, f, range) = a
      <3>1. ~ (w = v) /\ ~ (w > v)
        BY <1>3, <2>2, <2>4
      <3> QED
        BY <1>2, <1>6, <2>1, <2>4, <3>1, Zenon
    <2>5. ASSUME w > v PROVE Round(w, f, range) = b
      <3>1. ~ (w = v) /\ ~ (w < v)
        BY <1>3, <2>2, <2>5
      <3> QED
        BY <1>2, <1>6, <2>1, <2>5, <3>1, Zenon
    <2> QED
      BY <2>1, <2>3, <2>4, <2>5 DEF lo, hi, a, b, mid
  <1>7. lo > hi \/ lo <= hi
    BY <1>1
  <1> QED
    BY <1>5, <1>6, <1>7 DEF lo, hi

(* A search that ends: there is a function that answers for every range what*)
(* the rounds answer.                                                       *)
LEMMA SearchExists ==
  ASSUME NEW w \in Words
  PROVE  \E g : g = Body(w, g)
  <1> DEFINE S == [Ranges -> BOOLEAN]
             x == [range \in Ranges |-> FALSE]
             h == [f \in S |-> Body(w, f)]
  <1>1. x \in S
    OBVIOUS
  <1>2. ASSUME NEW f \in S
        PROVE  Body(w, f) \in S
    <2>1. ASSUME NEW range \in Ranges
          PROVE  Round(w, f, range) \in BOOLEAN
      <3>1. CASE range[1] > range[2]
        BY <3>1, RoundIs
      <3>2. CASE range[1] <= range[2]
        <4> DEFINE mid == Middle(range)
        <4>2. w = KEYWORDS[mid] \/ w < KEYWORDS[mid] \/ w > KEYWORDS[mid]
          BY <3>2, Compared
        <4>3. f[<<range[1], mid - 1>>] \in BOOLEAN /\ f[<<mid + 1, range[2]>>] \in BOOLEAN
          BY <3>2, Halves
        <4>4. /\ w = KEYWORDS[mid] => Round(w, f, range) = TRUE
              /\ w < KEYWORDS[mid] => Round(w, f, range) = f[<<range[1], mid - 1>>]
              /\ w > KEYWORDS[mid] => Round(w, f, range) = f[<<mid + 1, range[2]>>]
          BY <3>2, RoundIs
        <4> HIDE DEF mid, S
        <4> QED
          BY <4>2, <4>3, <4>4, Zenon
      <3> QED
        BY <3>1, <3>2 DEF Ranges
    <2> QED
      BY <2>1 DEF Body
  <1>3. h \in Maps(S)
    BY <1>2 DEF Maps
  <1> HIDE DEF S, x
  <1>4. PICK f \in [Nat -> S] : f[0] = x /\ \A n \in Nat : f[n + 1] = h[f[n]]
    <2> HIDE DEF h
    <2> QED
      BY <1>1, <1>3, RecursionOnNat
  <1>5. \A n \in Nat : f[n + 1] = Body(w, f[n])
    BY <1>4
  <1>6. \A n \in Nat, range \in Ranges : f[n + 1][range] = Round(w, f[n], range)
    BY <1>5 DEF Body
  <1> HIDE DEF h
  <1> DEFINE P == {n \in 0 .. 72 : \A range \in Ranges :
                     Size(range) <= n => f[n + 1][range] = f[n][range]}
  <1>7. 0 \in P
    <2>1. ASSUME NEW range \in Ranges, Size(range) <= 0
          PROVE  f[1][range] = f[0][range]
      <3>1. range[1] > range[2]
        BY <2>1 DEF Size, Ranges
      <3>2. f[0][range] = FALSE
        BY <1>4 DEF x
      <3>3. f[1][range] = Round(w, f[0], range)
        <4>1. 0 \in Nat /\ 0 + 1 = 1
          OBVIOUS
        <4> HIDE DEF P
        <4>2. f[0 + 1][range] = Round(w, f[0], range)
          BY <1>6, <4>1
        <4> QED
          BY <4>1, <4>2
      <3>4. Round(w, f[0], range) = FALSE
        BY <3>1, RoundIs
      <3> QED
        BY <3>2, <3>3, <3>4
    <2> QED
      BY <2>1
  <1>8. ASSUME NEW n \in 0 .. 71, n \in P
        PROVE  n + 1 \in P
    <2>1. ASSUME NEW range \in Ranges, Size(range) <= n + 1
          PROVE  f[(n + 1) + 1][range] = f[n + 1][range]
      <3>1. /\ f[(n + 1) + 1][range] = Round(w, f[n + 1], range)
            /\ f[n + 1][range] = Round(w, f[n], range)
        BY <1>6
      <3>2. CASE range[1] > range[2]
        <4>1. Round(w, f[n + 1], range) = FALSE /\ Round(w, f[n], range) = FALSE
          BY <3>2, RoundIs
        <4> QED
          BY <3>1, <4>1
      <3>3. CASE range[1] <= range[2]
        <4> DEFINE mid == Middle(range)
                   left == <<range[1], mid - 1>>
                   right == <<mid + 1, range[2]>>
        <4>2. w = KEYWORDS[mid] \/ w < KEYWORDS[mid] \/ w > KEYWORDS[mid]
          BY <3>3, Compared
        <4>3. /\ left \in Ranges /\ right \in Ranges
              /\ Size(left) < Size(range) /\ Size(right) < Size(range)
          BY <3>3, Halves
        <4>4. /\ w = KEYWORDS[mid] =>
                    Round(w, f[n], range) = TRUE /\ Round(w, f[n + 1], range) = TRUE
              /\ w < KEYWORDS[mid] => /\ Round(w, f[n], range) = f[n][left]
                                      /\ Round(w, f[n + 1], range) = f[n + 1][left]
              /\ w > KEYWORDS[mid] => /\ Round(w, f[n], range) = f[n][right]
                                      /\ Round(w, f[n + 1], range) = f[n + 1][right]
          <5>1. \A e : /\ w = KEYWORDS[mid] => Round(w, e, range) = TRUE
                       /\ w < KEYWORDS[mid] => Round(w, e, range) = e[left]
                       /\ w > KEYWORDS[mid] => Round(w, e, range) = e[right]
            BY <3>3, RoundIs
          <5> HIDE DEF mid, left, right
          <5> QED
            BY <5>1, Zenon
        <4> HIDE DEF mid, left, right
        <4>5. Size(left) <= n /\ Size(right) <= n
          <5>1. \A r \in Ranges : Size(r) \in Int
            BY DEF Size, Ranges
          <5> QED
            BY <2>1, <4>3, <5>1
        <4>6. f[n + 1][left] = f[n][left] /\ f[n + 1][right] = f[n][right]
          BY <1>8, <4>3, <4>5
        <4> HIDE DEF P
        <4>7. CASE w = KEYWORDS[mid]
          BY <3>1, <4>4, <4>7, Zenon
        <4>8. CASE w < KEYWORDS[mid]
          BY <3>1, <4>4, <4>6, <4>8, Zenon
        <4>9. CASE w > KEYWORDS[mid]
          BY <3>1, <4>4, <4>6, <4>9, Zenon
        <4> QED
          BY <4>2, <4>7, <4>8, <4>9, Zenon
      <3> QED
        BY <3>2, <3>3 DEF Ranges
    <2>2. n + 1 \in 0 .. 72
      OBVIOUS
    <2> QED
      BY <2>1, <2>2
  <1>9. 72 \in P
    <2> HIDE DEF P
    <2>1. 72 \in Nat /\ 72 - 1 = 71 /\ 72 \in 0 .. 72
      OBVIOUS
    <2>2. 0 .. 72 \subseteq P
      BY <1>7, <1>8, <2>1, BoundedInduction
    <2> QED
      BY <2>1, <2>2
  <1>10. f[73] = f[72]
    <2>1. \A range \in Ranges : Size(range) <= 72
      BY DEF Size, Ranges
    <2>2. \A range \in Ranges : f[73][range] = f[72][range]
      BY <1>9, <2>1
    <2>3. f[73] \in [Ranges -> BOOLEAN] /\ f[72] \in [Ranges -> BOOLEAN]
      BY <1>4 DEF S
    <2> QED
      BY <2>2, <2>3
  <1>11. f[72 + 1] = Body(w, f[72])
    BY <1>5
  <1> QED
    BY <1>10, <1>11

LEMMA LookupIs ==
  ASSUME NEW w \in Words
  PROVE  \E k : /\ Lookup(w, 71) = k[<<0, 71>>]
                /\ \A range \in Ranges : k[range] = Round(w, k, range)
  <1> DEFINE k == CHOOSE f : f = [range \in Ranges |-> Round(w, f, range)]
  <1>1. Lookup(w, 71) = k[<<0, 71>>]
    BY Zenon DEF Lookup, Ranges
  <1>2. k = Body(w, k)
    BY SearchExists DEF Body
  <1> HIDE DEF k
  <1>3. \A range \in Ranges : k[range] = Round(w, k, range)
    BY <1>2 DEF Body
  <1> QED
    BY <1>1, <1>3

Entered(w, from, to) == \E j \in 0 .. 71 : from <= j /\ j <= to /\ KEYWORDS[j] = w

(* The table: it is in order except for two entries.                        *)
LEMMA Table ==
  /\ \A j \in 0 .. 71 : j # 1 /\ j # 2 => KEYWORDS[j] = 2 * j + 2
  /\ KEYWORDS[1] = 6 /\ KEYWORDS[2] = 4
  BY DEF KEYWORDS

LEMMA OnlyAliasMisplaced ==
  ASSUME NEW w \in Words
  PROVE  Misplaced(w) <=> w = 4
  <1>1. ASSUME NEW i \in 1 .. 71
        PROVE  KEYWORDS[i] < KEYWORDS[i - 1] <=> i = 2
    <2>1. i \in 0 .. 71 /\ i - 1 \in 0 .. 71
      OBVIOUS
    <2>2. CASE i = 1
      BY <2>1, <2>2, Table
    <2>3. CASE i = 2
      BY <2>1, <2>3, Table
    <2>4. CASE i = 3
      BY <2>1, <2>4, Table
    <2>5. CASE i \notin {1, 2, 3}
      <3>1. KEYWORDS[i] = 2 * i + 2 /\ KEYWORDS[i - 1] = 2 * (i - 1) + 2
        BY <2>1, <2>5, Table
      <3> QED
        BY <2>5, <3>1
    <2> QED
      BY <2>2, <2>3, <2>4, <2>5
  <1>2. Misplaced(w) => w = 4
    BY <1>1, Table DEF Misplaced
  <1>3. w = 4 => Misplaced(w)
    <2>1. 2 \in 1 .. 71
      OBVIOUS
    <2> QED
      BY <1>1, <2>1, Table DEF Misplaced
  <1> QED
    BY <1>2, <1>3

(* A word that is not near the two entries: what is not in the half that the*)
(* comparison leaves is in no other.                                        *)
LEMMA HalfSuffices ==
  ASSUME NEW w \in Words \ {4, 5, 6}, NEW mid \in 0 .. 71, NEW lo \in 0 .. 72, NEW hi \in -1 .. 71,
         lo <= mid, mid <= hi
  PROVE  /\ w < KEYWORDS[mid] => (Entered(w, lo, hi) <=> Entered(w, lo, mid - 1))
         /\ w > KEYWORDS[mid] => (Entered(w, lo, hi) <=> Entered(w, mid + 1, hi))
         /\ w = KEYWORDS[mid] => Entered(w, lo, hi)
  <1>1. w \in Nat
    BY DEF Words
  <1>2. ASSUME NEW j \in 0 .. 71, KEYWORDS[j] = w
        PROVE  /\ w < KEYWORDS[mid] => j < mid
               /\ w > KEYWORDS[mid] => j > mid
    <2>1. j # 1 /\ j # 2
      BY <1>2, Table
    <2>2. w = 2 * j + 2
      BY <1>2, <2>1, Table
    <2>3. CASE mid = 1
      BY <2>1, <2>2, <2>3, Table
    <2>4. CASE mid = 2
      BY <2>1, <2>2, <2>4, Table
    <2>5. CASE mid # 1 /\ mid # 2
      <3>1. KEYWORDS[mid] = 2 * mid + 2
        BY <2>5, Table
      <3> QED
        BY <2>2, <3>1
    <2> QED
      BY <2>3, <2>4, <2>5
  <1>3. ASSUME w < KEYWORDS[mid]
        PROVE  Entered(w, lo, hi) <=> Entered(w, lo, mid - 1)
    <2>1. ASSUME Entered(w, lo, hi) PROVE Entered(w, lo, mid - 1)
      <3>1. PICK j \in 0 .. 71 : lo <= j /\ j <= hi /\ KEYWORDS[j] = w
        BY <2>1 DEF Entered
      <3>2. j <= mid - 1
        BY <1>2, <1>3, <3>1
      <3> QED
        BY <3>1, <3>2 DEF Entered
    <2>2. ASSUME Entered(w, lo, mid - 1) PROVE Entered(w, lo, hi)
      <3>1. PICK j \in 0 .. 71 : lo <= j /\ j <= mid - 1 /\ KEYWORDS[j] = w
        BY <2>2 DEF Entered
      <3>2. j <= hi
        BY <3>1
      <3> QED
        BY <3>1, <3>2 DEF Entered
    <2> QED
      BY <2>1, <2>2
  <1>4. ASSUME w > KEYWORDS[mid]
        PROVE  Entered(w, lo, hi) <=> Entered(w, mid + 1, hi)
    <2>1. ASSUME Entered(w, lo, hi) PROVE Entered(w, mid + 1, hi)
      <3>1. PICK j \in 0 .. 71 : lo <= j /\ j <= hi /\ KEYWORDS[j] = w
        BY <2>1 DEF Entered
      <3>2. mid + 1 <= j
        BY <1>2, <1>4, <3>1
      <3> QED
        BY <3>1, <3>2 DEF Entered
    <2>2. ASSUME Entered(w, mid + 1, hi) PROVE Entered(w, lo, hi)
      <3>1. PICK j \in 0 .. 71 : mid + 1 <= j /\ j <= hi /\ KEYWORDS[j] = w
        BY <2>2 DEF Entered
      <3>2. lo <= j
        BY <3>1
      <3> QED
        BY <3>1, <3>2 DEF Entered
    <2> QED
      BY <2>1, <2>2
  <1>5. w = KEYWORDS[mid] => Entered(w, lo, hi)
    BY DEF Entered
  <1> QED
    BY <1>3, <1>4, <1>5

LEMMA SearchRound ==
  ASSUME NEW w \in Words, NEW k, NEW r \in Ranges, r[1] <= r[2]
  PROVE  k[r] = Round(w, k, r) =>
           /\ w = KEYWORDS[Middle(r)] => k[r] = TRUE
           /\ w < KEYWORDS[Middle(r)] => k[r] = k[<<r[1], Middle(r) - 1>>]
           /\ w > KEYWORDS[Middle(r)] => k[r] = k[<<Middle(r) + 1, r[2]>>]
  <1> DEFINE v == KEYWORDS[Middle(r)]
             y == Round(w, k, r)
             a == k[<<r[1], Middle(r) - 1>>]
             b == k[<<Middle(r) + 1, r[2]>>]
  <1>1. (w = v => y = TRUE) /\ (w < v => y = a) /\ (w > v => y = b)
    BY RoundIs
  <1> HIDE DEF v, y, a, b
  <1>2. k[r] = y => (w = v => k[r] = TRUE) /\ (w < v => k[r] = a) /\ (w > v => k[r] = b)
    BY <1>1
  <1> QED
    BY <1>2 DEF v, y, a, b

(* For all but three words the search finds exactly what is in the range.   *)
LEMMA SearchFinds ==
  ASSUME NEW w \in Words \ {4, 5, 6}, NEW k,
         \A range \in Ranges : k[range] = Round(w, k, range)
  PROVE  \A range \in Ranges :
           /\ Entered(w, range[1], range[2]) => k[range] = TRUE
           /\ ~ Entered(w, range[1], range[2]) => k[range] = FALSE
  <1> DEFINE Right(range) == /\ Entered(w, range[1], range[2]) => k[range] = TRUE
                             /\ ~ Entered(w, range[1], range[2]) => k[range] = FALSE
             P == {n \in 0 .. 72 : \A range \in Ranges : Size(range) <= n => Right(range)}
  <1>1. ASSUME NEW range \in Ranges, range[1] > range[2]
        PROVE  Right(range)
    <2>1. k[range] = FALSE
      BY <1>1, RoundIs, ZenonT(30)
    <2>2. range[1] \in Int /\ range[2] \in Int
      BY DEF Ranges
    <2>3. ~ Entered(w, range[1], range[2])
      BY <1>1, <2>2 DEF Entered
    <2> QED
      BY <2>1, <2>3
  <1>2. ASSUME NEW range \in Ranges, range[1] <= range[2],
               Right(<<range[1], Middle(range) - 1>>), Right(<<Middle(range) + 1, range[2]>>)
        PROVE  Right(range)
    <2> DEFINE mid == Middle(range)
               left == <<range[1], mid - 1>>
               right == <<mid + 1, range[2]>>
               v == KEYWORDS[mid]
    <2>1. /\ w = v => k[range] = TRUE
          /\ w < v => k[range] = k[left]
          /\ w > v => k[range] = k[right]
      <3>1. w \in Words
        OBVIOUS
      <3>2. k[range] = Round(w, k, range)
        OBVIOUS
      <3> QED
        BY <1>2, <3>1, <3>2, SearchRound
    <2>2. w = v \/ w < v \/ w > v
      BY <1>2, Compared
    <2>3. /\ w < v => (Entered(w, range[1], range[2]) <=> Entered(w, range[1], mid - 1))
          /\ w > v => (Entered(w, range[1], range[2]) <=> Entered(w, mid + 1, range[2]))
          /\ w = v => Entered(w, range[1], range[2])
      <3>1. range[1] \in 0 .. 72 /\ range[2] \in -1 .. 71
        BY DEF Ranges
      <3>2. mid \in 0 .. 71 /\ range[1] <= mid /\ mid <= range[2]
        BY <1>2, <3>1, Halves
      <3> QED
        BY <3>1, <3>2, HalfSuffices
    <2>4. /\ Entered(w, range[1], mid - 1) => k[left] = TRUE
          /\ ~ Entered(w, range[1], mid - 1) => k[left] = FALSE
          /\ Entered(w, mid + 1, range[2]) => k[right] = TRUE
          /\ ~ Entered(w, mid + 1, range[2]) => k[right] = FALSE
      BY <1>2
    <2> HIDE DEF mid, left, right, v
    <2> QED
      BY <2>1, <2>2, <2>3, <2>4, Zenon
  <1> HIDE DEF Right
  <1>3. \A range \in Ranges : Size(range) \in Int /\ Size(range) <= 72
        /\ (range[1] > range[2] \/ (range[1] <= range[2] /\ Size(range) > 0))
    BY SMTT(30) DEF Size, Ranges
  <1>4. 0 \in P
    <2>1. ASSUME NEW range \in Ranges, Size(range) <= 0 PROVE Right(range)
      <3>1. range[1] > range[2]
        BY <1>3, <2>1
      <3> QED
        BY <1>1, <3>1
    <2> QED
      BY <2>1
  <1>5. ASSUME NEW n \in 0 .. 71, n \in P
        PROVE  n + 1 \in P
    <2>1. ASSUME NEW range \in Ranges, Size(range) <= n + 1
          PROVE  Right(range)
      <3>1. CASE range[1] > range[2]
        BY <1>1, <3>1
      <3>2. CASE range[1] <= range[2]
        <4> DEFINE left == <<range[1], Middle(range) - 1>>
                   right == <<Middle(range) + 1, range[2]>>
        <4>1. /\ left \in Ranges /\ right \in Ranges
              /\ Size(left) < Size(range) /\ Size(right) < Size(range)
          BY <3>2, Halves
        <4>2. Right(left) /\ Right(right)
          <5> HIDE DEF left, right
          <5>1. Size(left) <= n /\ Size(right) <= n
            BY <1>3, <2>1, <4>1
          <5> QED
            BY <1>5, <4>1, <5>1
        <4> HIDE DEF P
        <4> QED
          BY <1>2, <3>2, <4>2
      <3> QED
        BY <1>3, <3>1, <3>2
    <2>2. n + 1 \in 0 .. 72
      OBVIOUS
    <2> QED
      BY <2>1, <2>2
  <1>6. 72 \in P
    <2> HIDE DEF P
    <2>1. 72 \in Nat /\ 72 - 1 = 71 /\ 72 \in 0 .. 72
      OBVIOUS
    <2>2. 0 .. 72 \subseteq P
      BY <1>4, <1>5, <2>1, BoundedInduction
    <2> QED
      BY <2>1, <2>2
  <1>7. \A range \in Ranges : Right(range)
    BY <1>3, <1>6
  <1> QED
    BY <1>7 DEF Right

(* A round of the search in lo .. hi, which looks at this entry.            *)
RoundDone(w, k, lo, hi, mid) ==
  /\ w = KEYWORDS[mid] => k[<<lo, hi>>] = TRUE
  /\ w < KEYWORDS[mid] => k[<<lo, hi>>] = k[<<lo, mid - 1>>]
  /\ w > KEYWORDS[mid] => k[<<lo, hi>>] = k[<<mid + 1, hi>>]

LEMMA RoundAt ==
  ASSUME NEW w \in Words, NEW k, \A range \in Ranges : k[range] = Round(w, k, range),
         NEW lo \in 0 .. 71, NEW hi \in 0 .. 71, lo <= hi,
         NEW mid, mid = (lo + hi) \div 2
  PROVE  RoundDone(w, k, lo, hi, mid)
  <1> DEFINE range == <<lo, hi>>
  <1>1. range \in Ranges /\ range[1] = lo /\ range[2] = hi /\ Middle(range) = mid
    BY DEF Ranges, Middle
  <1> HIDE DEF range
  <1>2. range[1] <= range[2] /\ k[range] = Round(w, k, range)
    BY <1>1
  <1>3. /\ w = KEYWORDS[Middle(range)] => k[range] = TRUE
        /\ w < KEYWORDS[Middle(range)] => k[range] = k[<<range[1], Middle(range) - 1>>]
        /\ w > KEYWORDS[Middle(range)] => k[range] = k[<<Middle(range) + 1, range[2]>>]
    BY <1>1, <1>2, SearchRound
  <1> QED
    BY <1>1, <1>3 DEF range, RoundDone

(* The words around "alias": the search comes to the entries before the     *)
(* fourth, finds "alloc" there, and turns away from "alias".                *)
LEMMA SearchNearAlias ==
  ASSUME NEW w \in {4, 5, 6}, NEW k,
         \A range \in Ranges : k[range] = Round(w, k, range)
  PROVE  /\ w = 6 => k[<<0, 71>>] = TRUE
         /\ w # 6 => k[<<0, 71>>] = FALSE
  <1>1. w \in Words
    BY DEF Words
  <1>2. k[<<0, 71>>] = k[<<0, 34>>]
    <2>1. 35 = (0 + 71) \div 2 /\ 35 - 1 = 34 /\ 0 \in 0 .. 71 /\ 71 \in 0 .. 71 /\ 0 <= 71
      OBVIOUS
    <2>3. RoundDone(w, k, 0, 71, 35)
      BY <1>1, <2>1, RoundAt, Zenon
    <2>2. w < KEYWORDS[35]
      BY Table
    <2> QED
      BY <2>1, <2>2, <2>3 DEF RoundDone
  <1>3. k[<<0, 34>>] = k[<<0, 16>>]
    <2>1. 17 = (0 + 34) \div 2 /\ 17 - 1 = 16 /\ 0 \in 0 .. 71 /\ 34 \in 0 .. 71 /\ 0 <= 34
      OBVIOUS
    <2>3. RoundDone(w, k, 0, 34, 17)
      BY <1>1, <2>1, RoundAt, Zenon
    <2>2. w < KEYWORDS[17]
      BY Table
    <2> QED
      BY <2>1, <2>2, <2>3 DEF RoundDone
  <1>4. k[<<0, 16>>] = k[<<0, 7>>]
    <2>1. 8 = (0 + 16) \div 2 /\ 8 - 1 = 7 /\ 0 \in 0 .. 71 /\ 16 \in 0 .. 71 /\ 0 <= 16
      OBVIOUS
    <2>3. RoundDone(w, k, 0, 16, 8)
      BY <1>1, <2>1, RoundAt, Zenon
    <2>2. w < KEYWORDS[8]
      BY Table
    <2> QED
      BY <2>1, <2>2, <2>3 DEF RoundDone
  <1>5. k[<<0, 7>>] = k[<<0, 2>>]
    <2>1. 3 = (0 + 7) \div 2 /\ 3 - 1 = 2 /\ 0 \in 0 .. 71 /\ 7 \in 0 .. 71 /\ 0 <= 7
      OBVIOUS
    <2>3. RoundDone(w, k, 0, 7, 3)
      BY <1>1, <2>1, RoundAt, Zenon
    <2>2. w < KEYWORDS[3]
      BY Table
    <2> QED
      BY <2>1, <2>2, <2>3 DEF RoundDone
  <1>6. w = 6 => k[<<0, 2>>] = TRUE
    <2>1. 1 = (0 + 2) \div 2 /\ 0 \in 0 .. 71 /\ 2 \in 0 .. 71 /\ 0 <= 2
      OBVIOUS
    <2>3. RoundDone(w, k, 0, 2, 1)
      BY <1>1, <2>1, RoundAt, Zenon
    <2> QED
      BY <2>1, <2>3, Table DEF RoundDone
  <1>7. w # 6 => k[<<0, 2>>] = k[<<0, 0>>]
    <2>1. 1 = (0 + 2) \div 2 /\ 1 - 1 = 0 /\ 0 \in 0 .. 71 /\ 2 \in 0 .. 71 /\ 0 <= 2
      OBVIOUS
    <2>3. RoundDone(w, k, 0, 2, 1)
      BY <1>1, <2>1, RoundAt, Zenon
    <2>2. w # 6 => w < KEYWORDS[1]
      BY Table
    <2> QED
      BY <2>1, <2>2, <2>3 DEF RoundDone
  <1>8. k[<<0, 0>>] = k[<<1, 0>>]
    <2>1. 0 = (0 + 0) \div 2 /\ 0 + 1 = 1 /\ 0 \in 0 .. 71 /\ 0 <= 0
      OBVIOUS
    <2>3. RoundDone(w, k, 0, 0, 0)
      BY <1>1, <2>1, RoundAt, Zenon
    <2>2. w > KEYWORDS[0]
      BY Table
    <2> QED
      BY <2>1, <2>2, <2>3 DEF RoundDone
  <1>9. k[<<1, 0>>] = FALSE
    <2> DEFINE range == <<1, 0>>
    <2>1. range \in Ranges /\ range[1] > range[2]
      BY DEF Ranges
    <2> HIDE DEF range
    <2>2. k[range] = FALSE
      BY <1>1, <2>1, RoundIs, ZenonT(30)
    <2> QED
      BY <2>2 DEF range
  <1>10. CASE w = 6
    BY <1>2, <1>3, <1>4, <1>5, <1>6, <1>10
  <1>11. CASE w # 6
    BY <1>2, <1>3, <1>4, <1>5, <1>7, <1>8, <1>9, <1>11
  <1> QED
    BY <1>10, <1>11

(* The search finds the words of the table, but not the one that stands     *)
(* behind a later word.                                                     *)
LEMMA KeywordSearch ==
  ASSUME NEW w \in Words
  PROVE  IsKeyword(w) <=> (\E j \in 0 .. 71 : KEYWORDS[j] = w) /\ ~ Misplaced(w)
  <1>1. PICK k : /\ Lookup(w, 71) = k[<<0, 71>>]
                 /\ \A range \in Ranges : k[range] = Round(w, k, range)
    BY LookupIs
  <1>2. IsKeyword(w) = k[<<0, 71>>]
    BY <1>1 DEF IsKeyword
  <1>3. CASE w \in {4, 5, 6}
    <2>1. /\ w = 6 => k[<<0, 71>>] = TRUE
          /\ w # 6 => k[<<0, 71>>] = FALSE
      BY <1>1, <1>3, SearchNearAlias
    <2>2. w = 6 => \E j \in 0 .. 71 : KEYWORDS[j] = w
      BY Table
    <2>3. w = 5 => ~ \E j \in 0 .. 71 : KEYWORDS[j] = w
      <3> SUFFICES ASSUME NEW j \in 0 .. 71, KEYWORDS[j] = 5 PROVE FALSE
        OBVIOUS
      <3>1. j = 1 \/ j = 2 \/ KEYWORDS[j] = 2 * j + 2
        BY Table
      <3> QED
        BY <3>1, Table
    <2>4. Misplaced(w) <=> w = 4
      BY OnlyAliasMisplaced
    <2>5. CASE w = 6
      <3>1. IsKeyword(w) = TRUE /\ ~ Misplaced(w)
        BY <1>2, <2>1, <2>4, <2>5
      <3> QED
        BY <2>2, <2>5, <3>1, Zenon
    <2>6. CASE w # 6
      <3>1. IsKeyword(w) = FALSE
        BY <1>2, <2>1, <2>6
      <3>2. w = 4 \/ w = 5
        BY <1>3, <2>6
      <3>3. Misplaced(w) \/ ~ \E j \in 0 .. 71 : KEYWORDS[j] = w
        BY <2>3, <2>4, <3>2
      <3> QED
        BY <3>1, <3>3, Zenon
    <2> QED
      BY <2>5, <2>6
  <1>4. CASE w \notin {4, 5, 6}
    <2>1. ~ Misplaced(w)
      BY <1>4, OnlyAliasMisplaced
    <2> DEFINE range == <<0, 71>>
    <2>2. range \in Ranges /\ range[1] = 0 /\ range[2] = 71
      BY DEF Ranges
    <2> HIDE DEF range
    <2>3. /\ Entered(w, 0, 71) => k[range] = TRUE
          /\ ~ Entered(w, 0, 71) => k[range] = FALSE
      <3>1. w \in Words \ {4, 5, 6}
        BY <1>4
      <3>2. /\ Entered(w, range[1], range[2]) => k[range] = TRUE
            /\ ~ Entered(w, range[1], range[2]) => k[range] = FALSE
        BY <1>1, <2>2, <3>1, SearchFinds, ZenonT(30)
      <3> QED
        BY <2>2, <3>2
    <2>4. IsKeyword(w) = k[range]
      BY <1>2 DEF range
    <2>5. Entered(w, 0, 71) <=> \E j \in 0 .. 71 : KEYWORDS[j] = w
      BY DEF Entered
    <2>6. CASE Entered(w, 0, 71)
      BY <2>1, <2>3, <2>4, <2>5, <2>6
    <2>7. CASE ~ Entered(w, 0, 71)
      BY <2>1, <2>3, <2>4, <2>5, <2>7
    <2> QED
      BY <2>6, <2>7
  <1> QED
    BY <1>3, <1>4

-----------------------------------------------------------------------------
(* What a token is.                                                         *)

LEMMA SliceIs ==
  ASSUME text \in Texts, NEW a \in 0 .. Length, NEW b \in a .. Length
  PROVE  /\ Slice(a, b) \in Seq(Chars) /\ Len(Slice(a, b)) = b - a
         /\ \A i \in 1 .. b - a : Slice(a, b)[i] = At(a + i - 1)
  <1>1. text \in Seq(Chars) /\ Length \in Nat /\ Length = Len(text)
    BY TextChars, TextAssumption DEF Length
  <1>2. /\ SubSeq(text, a + 1, b) \in Seq(Chars) /\ Len(SubSeq(text, a + 1, b)) = b - a
        /\ \A i \in 1 .. b - a : SubSeq(text, a + 1, b)[i] = text[a + i]
    BY <1>1
  <1>3. \A i \in 1 .. b - a : At(a + i - 1) = text[a + i]
    BY <1>1 DEF At
  <1> QED
    BY <1>2, <1>3 DEF Slice

LEMMA NoKeyword ==
  ASSUME text \in Texts, NEW t, t.start \in 0 .. Length, t.end \in t.start .. Length,
         At(t.start) # "k" \/ t.start = t.end
  PROVE  KeywordRight(t)
  <1>1. Length \in Nat
    BY TextChars
  <1>2. ASSUME Slice(t.start, t.end) = <<"k">> PROVE FALSE
    <2>1. Len(<<"k">>) = 1 /\ <<"k">>[1] = "k"
      OBVIOUS
    <2>2. /\ Len(Slice(t.start, t.end)) = t.end - t.start
          /\ \A i \in 1 .. t.end - t.start : Slice(t.start, t.end)[i] = At(t.start + i - 1)
      BY SliceIs
    <2>3. t.end - t.start = 1
      BY <1>2, <2>1, <2>2
    <2>4. 1 \in 1 .. t.end - t.start /\ t.start + 1 - 1 = t.start
      BY <1>1, <2>3
    <2>5. At(t.start) = "k"
      BY <1>2, <2>1, <2>2, <2>4
    <2> QED
      BY <1>1, <2>3, <2>5
  <1> QED
    BY <1>2 DEF KeywordRight, Listed

LEMMA TokensStay ==
  ASSUME UNCHANGED <<text, word>>, NEW t
  PROVE  /\ Complete(t) => Complete(t)'
         /\ KeywordRight(t) => KeywordRight(t)'
  BY DEF Complete, KeywordRight, Listed, Slice, At, Length, Escaped, Base

LEMMA NewToken ==
  ASSUME LexInv, (tokens \in Seq(TokenRecords))', LongestTokens, KeywordsInPlace, UNCHANGED <<text, word>>,
         NEW t, tokens' = Append(tokens, t), Complete(t), KeywordRight(t)
  PROVE  LongestTokens' /\ KeywordsInPlace'
  <1>1. tokens \in Seq(TokenRecords)
    BY DEF LexInv
  <1>2. /\ DOMAIN tokens = 1 .. Len(tokens) /\ DOMAIN tokens' = 1 .. Len(tokens) + 1
        /\ Len(tokens) \in Nat
        /\ tokens'[Len(tokens) + 1] = t /\ \A i \in 1 .. Len(tokens) : tokens'[i] = tokens[i]
    BY <1>1
  <1>3. ASSUME NEW i \in DOMAIN tokens'
        PROVE  \E u : u = tokens'[i] /\ Complete(u) /\ KeywordRight(u)
    <2>1. CASE i = Len(tokens) + 1
      BY <1>2, <2>1
    <2>2. CASE i # Len(tokens) + 1
      <3>1. i \in DOMAIN tokens /\ tokens'[i] = tokens[i]
        BY <1>2, <2>2
      <3> QED
        BY <3>1 DEF LongestTokens, KeywordsInPlace
    <2> QED
      BY <2>1, <2>2
  <1>4. ASSUME NEW i \in DOMAIN tokens'
        PROVE  \E u : u = tokens'[i] /\ Complete(u)' /\ KeywordRight(u)'
    <2>1. PICK u : u = tokens'[i] /\ Complete(u) /\ KeywordRight(u)
      BY <1>3
    <2>2. Complete(u)' /\ KeywordRight(u)'
      BY <2>1, TokensStay
    <2> QED
      BY <2>1, <2>2
  <1> QED
    BY <1>4 DEF LongestTokens, KeywordsInPlace

LEMMA OldTokens ==
  ASSUME LongestTokens, KeywordsInPlace, UNCHANGED <<text, word, tokens>>
  PROVE  LongestTokens' /\ KeywordsInPlace'
  <1>1. ASSUME NEW i \in DOMAIN tokens
        PROVE  \E u : u = tokens[i] /\ Complete(u)' /\ KeywordRight(u)'
    <2>1. PICK u : u = tokens[i] /\ Complete(u) /\ KeywordRight(u)
      BY DEF LongestTokens, KeywordsInPlace
    <2>2. Complete(u)' /\ KeywordRight(u)'
      BY <2>1, TokensStay
    <2> QED
      BY <2>1, <2>2
  <1> QED
    BY <1>1 DEF LongestTokens, KeywordsInPlace

(* Escapes.                                                                 *)
LEMMA NotEscaped ==
  ASSUME NEW from \in Nat, NEW i \in Nat, from <= i, i > from => At(i - 1) # BackSlash
  PROVE  ~ Escaped(from, i)
  <1> SUFFICES ASSUME NEW n \in 0 .. i - from, n % 2 = 1,
                      \A k \in i - n .. i - 1 : At(k) = BackSlash
               PROVE  FALSE
    BY DEF Escaped
  <1>1. n # 0
    OBVIOUS
  <1>2. i - 1 \in i - n .. i - 1 /\ i > from
    BY <1>1
  <1> QED
    BY <1>2

(* The backslashes before a place.                                          *)
Backslashes(from, i, n) ==
  /\ n \in 0 .. i - from
  /\ \A k \in i - n .. i - 1 : At(k) = BackSlash
  /\ i - n > from => At(i - n - 1) # BackSlash

LEMMA BackslashesExist ==
  ASSUME NEW from \in Nat, NEW i \in Nat, from <= i
  PROVE  \E n : Backslashes(from, i, n)
  <1> DEFINE T == {j \in from .. i : \A k \in j .. i - 1 : At(k) = BackSlash}
  <1>1. i \in T /\ T \subseteq Nat
    OBVIOUS
  <1>2. PICK j \in T : \A m \in T : j <= m
    <2> HIDE DEF T
    <2> QED
      BY <1>1, LeastElement
  <1>3. j > from => At(j - 1) # BackSlash
    <2> SUFFICES ASSUME j > from, At(j - 1) = BackSlash PROVE FALSE
      OBVIOUS
    <2>1. j - 1 \in from .. i
      BY <1>2
    <2>2. \A k \in j - 1 .. i - 1 : At(k) = BackSlash
      BY <1>2
    <2>3. j - 1 \in T
      BY <2>1, <2>2
    <2> QED
      BY <1>1, <1>2, <2>3
  <1> DEFINE n == i - j
  <1>4. n \in 0 .. i - from /\ i - n = j /\ i - n - 1 = j - 1
    BY <1>2
  <1>5. Backslashes(from, i, n)
    BY <1>2, <1>3, <1>4 DEF Backslashes
  <1> QED
    BY <1>5

LEMMA BackslashesUnique ==
  ASSUME NEW from \in Nat, NEW i \in Nat, from <= i, NEW n, NEW m,
         Backslashes(from, i, n), Backslashes(from, i, m)
  PROVE  n = m
  <1>1. ASSUME NEW a, NEW b, Backslashes(from, i, a), Backslashes(from, i, b), a < b PROVE FALSE
    <2>1. a \in 0 .. i - from /\ b \in 0 .. i - from
      BY <1>1 DEF Backslashes
    <2>2. i - a - 1 \in i - b .. i - 1 /\ i - a > from
      BY <1>1, <2>1
    <2> QED
      BY <1>1, <2>2 DEF Backslashes
  <1>2. n \in Int /\ m \in Int
    BY DEF Backslashes
  <1>3. n < m \/ m < n \/ n = m
    BY <1>2
  <1> QED
    BY <1>1, <1>3

LEMMA EscapedByParity ==
  ASSUME NEW from \in Nat, NEW i \in Nat, from <= i, NEW n, Backslashes(from, i, n)
  PROVE  Escaped(from, i) <=> n % 2 = 1
  <1>1. n % 2 = 1 => Escaped(from, i)
    BY DEF Escaped, Backslashes
  <1>2. ASSUME Escaped(from, i) PROVE n % 2 = 1
    <2>1. PICK m \in 0 .. i - from : m % 2 = 1 /\ Backslashes(from, i, m)
      BY <1>2 DEF Escaped, Backslashes
    <2>2. n = m
      BY <2>1, BackslashesUnique
    <2> QED
      BY <2>1, <2>2
  <1> QED
    BY <1>1, <1>2

(* A backslash turns it round.                                              *)
LEMMA BackslashTurns ==
  ASSUME NEW from \in Nat, NEW i \in Nat, from <= i, At(i) = BackSlash
  PROVE  Escaped(from, i + 1) <=> ~ Escaped(from, i)
  <1>1. PICK n : Backslashes(from, i, n)
    BY BackslashesExist
  <1>2. Backslashes(from, i + 1, n + 1)
    <2>1. n \in 0 .. i - from
      BY <1>1 DEF Backslashes
    <2>2. n + 1 \in 0 .. (i + 1) - from /\ (i + 1) - (n + 1) = i - n
      BY <2>1
    <2>3. \A k \in i - n .. (i + 1) - 1 : At(k) = BackSlash
      BY <1>1, <2>1 DEF Backslashes
    <2> QED
      BY <1>1, <2>2, <2>3 DEF Backslashes
  <1>3. n \in Nat
    BY <1>1 DEF Backslashes
  <1>4. (n + 1) % 2 = 1 <=> ~ (n % 2 = 1)
    BY <1>3
  <1>5. i + 1 \in Nat /\ from <= i + 1
    OBVIOUS
  <1> QED
    BY <1>1, <1>2, <1>4, <1>5, EscapedByParity

-----------------------------------------------------------------------------
(* Operators by their length.                                               *)

Pair(x, y) ==
  \/ y = "=" /\ x \in Operator \ {":", "."}
  \/ y = ">" /\ x \in {"-", "=", ">"}
  \/ y = x /\ x \in {"<", ":", "."}

Triple(x, y, z) == z = "=" /\ y = x /\ x \in {"<", ">", "."}

LEMMA OperatorLengths ==
  /\ \A x : <<x>> \in Operators <=> x \in Operator \cup Single
  /\ \A x, y : <<x, y>> \in Operators <=> Pair(x, y)
  /\ \A x, y, z : <<x, y, z>> \in Operators <=> Triple(x, y, z)
  /\ \A s \in Operators : Len(s) \in 1 .. 3
  <1>1. ASSUME NEW x PROVE <<x>> \in Operators <=> x \in Operator \cup Single
    BY DEF Operators
  <1>2. ASSUME NEW x, NEW y PROVE <<x, y>> \in Operators <=> Pair(x, y)
    BY DEF Operators, Pair, Operator
  <1>3. ASSUME NEW x, NEW y, NEW z PROVE <<x, y, z>> \in Operators <=> Triple(x, y, z)
    BY DEF Operators, Triple
  <1>4. ASSUME NEW s \in Operators PROVE Len(s) \in 1 .. 3
    BY DEF Operators
  <1> QED
    BY <1>1, <1>2, <1>3, <1>4

LEMMA ExtendsLengths ==
  /\ \A x, c : Extends(<<x>>, c) <=> Pair(x, c)
  /\ \A x, y, c : Extends(<<x, y>>, c) <=> Triple(x, y, c)
  /\ \A s, c : Extends(s, c) => Len(s) \in 1 .. 2
  <1>1. ASSUME NEW x, NEW c PROVE Extends(<<x>>, c) <=> Pair(x, c)
    BY DEF Extends, Pair
  <1>2. ASSUME NEW x, NEW y, NEW c PROVE Extends(<<x, y>>, c) <=> Triple(x, y, c)
    BY DEF Extends, Triple
  <1>3. ASSUME NEW s, NEW c, Extends(s, c) PROVE Len(s) \in 1 .. 2
    BY <1>3 DEF Extends
  <1> QED
    BY <1>1, <1>2, <1>3

(* What stands between two places, when it is at most three characters.     *)
LEMMA ShortSlices ==
  ASSUME text \in Texts, NEW a \in 0 .. Length
  PROVE  /\ a + 1 <= Length => Slice(a, a + 1) = <<At(a)>>
         /\ a + 2 <= Length => Slice(a, a + 2) = <<At(a), At(a + 1)>>
         /\ a + 3 <= Length => Slice(a, a + 3) = <<At(a), At(a + 1), At(a + 2)>>
  <1>1. Length \in Nat /\ a \in Nat
    BY TextChars
  <1>2. ASSUME a + 1 <= Length PROVE Slice(a, a + 1) = <<At(a)>>
    <2>1. PICK b \in a .. Length : b = a + 1 /\ b - a = 1
      BY <1>1, <1>2
    <2>2. /\ Slice(a, b) \in Seq(Chars) /\ Len(Slice(a, b)) = 1
          /\ \A i \in 1 .. 1 : Slice(a, b)[i] = At(a + i - 1)
      BY <2>1, SliceIs
    <2>3. a + 1 - 1 = a
      BY <1>1
    <2>4. Slice(a, b)[1] = At(a)
      BY <2>2, <2>3
    <2>5. Slice(a, b) = <<At(a)>>
      BY <2>2, <2>4
    <2> QED
      BY <2>1, <2>5
  <1>3. ASSUME a + 2 <= Length PROVE Slice(a, a + 2) = <<At(a), At(a + 1)>>
    <2>1. PICK b \in a .. Length : b = a + 2 /\ b - a = 2
      BY <1>1, <1>3
    <2>2. /\ Slice(a, b) \in Seq(Chars) /\ Len(Slice(a, b)) = 2
          /\ \A i \in 1 .. 2 : Slice(a, b)[i] = At(a + i - 1)
      BY <2>1, SliceIs
    <2>3. a + 1 - 1 = a /\ a + 2 - 1 = a + 1
      BY <1>1
    <2>4. Slice(a, b)[1] = At(a) /\ Slice(a, b)[2] = At(a + 1)
      BY <2>2, <2>3
    <2>5. Slice(a, b) = <<At(a), At(a + 1)>>
      BY <2>2, <2>4
    <2> QED
      BY <2>1, <2>5
  <1>4. ASSUME a + 3 <= Length PROVE Slice(a, a + 3) = <<At(a), At(a + 1), At(a + 2)>>
    <2>1. PICK b \in a .. Length : b = a + 3 /\ b - a = 3
      BY <1>1, <1>4
    <2>2. /\ Slice(a, b) \in Seq(Chars) /\ Len(Slice(a, b)) = 3
          /\ \A i \in 1 .. 3 : Slice(a, b)[i] = At(a + i - 1)
      BY <2>1, SliceIs
    <2>3. a + 1 - 1 = a /\ a + 2 - 1 = a + 1 /\ a + 3 - 1 = a + 2
      BY <1>1
    <2>4. Slice(a, b)[1] = At(a) /\ Slice(a, b)[2] = At(a + 1) /\ Slice(a, b)[3] = At(a + 2)
      BY <2>2, <2>3
    <2>5. Slice(a, b) = <<At(a), At(a + 1), At(a + 2)>>
      BY <2>2, <2>4
    <2> QED
      BY <2>1, <2>5
  <1> QED
    BY <1>2, <1>3, <1>4

(* match_char takes characters as long as an operator goes on.              *)
LEMMA LongestOperator ==
  ASSUME text \in Texts, NEW a \in 0 .. Length, NEW end \in a + 1 .. Length,
         At(a) \in Operator \cup Single,
         \A i \in a + 1 .. end - 1 : Extends(Slice(a, i), At(i)),
         ~ Extends(Slice(a, end), At(end))
  PROVE  /\ Slice(a, end) \in Operators
         /\ \A e \in end + 1 .. Length : Slice(a, e) \notin Operators
  <1> DEFINE x == At(a)
             y == At(a + 1)
             z == At(a + 2)
  <1>1. Length \in Nat /\ a \in Nat /\ end \in Nat
    BY TextChars
  <1>2. /\ a + 1 <= Length => Slice(a, a + 1) = <<x>>
        /\ a + 2 <= Length => Slice(a, a + 2) = <<x, y>>
        /\ a + 3 <= Length => Slice(a, a + 3) = <<x, y, z>>
    BY ShortSlices
  <1>3. \A e \in a .. Length : Len(Slice(a, e)) = e - a
    BY SliceIs
  <1>4. \A e \in a + 4 .. Length : Slice(a, e) \notin Operators
    <2> SUFFICES ASSUME NEW e \in a + 4 .. Length, Slice(a, e) \in Operators PROVE FALSE
      OBVIOUS
    <2>1. Len(Slice(a, e)) = e - a /\ e - a > 3
      BY <1>1, <1>3
    <2>2. Len(Slice(a, e)) \in 1 .. 3
      BY OperatorLengths
    <2> QED
      BY <1>1, <2>1, <2>2
  <1> HIDE DEF x, y, z
  <1>5. CASE end = a + 1
    <2>1. Slice(a, end) \in Operators
      BY <1>1, <1>2, <1>5, OperatorLengths DEF x
    <2>2. ~ Pair(x, y)
      BY <1>1, <1>2, <1>5, ExtendsLengths DEF y
    <2>3. ~ Triple(x, y, z)
      BY <2>2 DEF Pair, Triple, Operator
    <2>4. ASSUME NEW e \in end + 1 .. Length PROVE Slice(a, e) \notin Operators
      <3>1. e = a + 2 \/ e = a + 3 \/ e \in a + 4 .. Length
        BY <1>1, <1>5
      <3>2. e = a + 2 => Slice(a, e) \notin Operators
        BY <1>1, <1>2, <2>2, OperatorLengths
      <3>3. e = a + 3 => Slice(a, e) \notin Operators
        BY <1>1, <1>2, <2>3, OperatorLengths
      <3> QED
        BY <1>4, <3>1, <3>2, <3>3
    <2> QED
      BY <2>1, <2>4
  <1>6. CASE end = a + 2
    <2>1. Pair(x, y)
      <3>1. a + 1 \in a + 1 .. end - 1 /\ a + 1 <= Length
        BY <1>1, <1>6
      <3>2. Extends(<<x>>, y)
        BY <1>2, <3>1 DEF y
      <3> QED
        BY <3>2, ExtendsLengths
    <2>2. Slice(a, end) \in Operators
      BY <1>1, <1>2, <1>6, <2>1, OperatorLengths
    <2>3. ~ Triple(x, y, z)
      BY <1>1, <1>2, <1>6, ExtendsLengths DEF z
    <2>4. ASSUME NEW e \in end + 1 .. Length PROVE Slice(a, e) \notin Operators
      <3>1. e = a + 3 \/ e \in a + 4 .. Length
        BY <1>1, <1>6
      <3>2. e = a + 3 => Slice(a, e) \notin Operators
        BY <1>1, <1>2, <2>3, OperatorLengths
      <3> QED
        BY <1>4, <3>1, <3>2
    <2> QED
      BY <2>2, <2>4
  <1>7. CASE end >= a + 3
    <2>1. Triple(x, y, z)
      <3>1. a + 2 \in a + 1 .. end - 1 /\ a + 2 <= Length
        BY <1>1, <1>7
      <3>2. Extends(<<x, y>>, z)
        BY <1>2, <3>1 DEF z
      <3> QED
        BY <3>2, ExtendsLengths
    <2>2. end = a + 3
      <3> SUFFICES ASSUME end # a + 3 PROVE FALSE
        OBVIOUS
      <3>1. PICK e \in a .. Length : e \in a + 1 .. end - 1 /\ e - a = 3
        BY <1>1, <1>7
      <3>2. Len(Slice(a, e)) \in 1 .. 2
        BY <3>1, ExtendsLengths
      <3>3. Len(Slice(a, e)) = 3
        BY <1>3, <3>1
      <3> QED
        BY <3>2, <3>3
    <2>3. Slice(a, end) \in Operators
      BY <1>1, <1>2, <2>1, <2>2, OperatorLengths
    <2>4. end + 1 = a + 4
      BY <1>1, <2>2
    <2> QED
      BY <1>4, <2>3, <2>4
  <1>8. end = a + 1 \/ end = a + 2 \/ end >= a + 3
    BY <1>1
  <1> QED
    BY <1>5, <1>6, <1>7, <1>8

(* A fraction is digits behind one point that is no range.                  *)
LEMMA FractionIs ==
  ASSUME text \in Texts, NEW i \in 0 .. Length
  PROVE  /\ Fraction(i) \in i .. Length
         /\ Fraction(i) = i => (At(i) = "." => At(i + 1) = ".")
         /\ \A q \in i .. Fraction(i) - 1 : At(q) = "." => At(q + 1) # "."
  <1> DEFINE set == Digit \cup {"_"}
  <1>1. Length \in Nat /\ i \in Nat /\ NUL \notin set /\ "." \notin set
    BY TextChars DEF NUL, Digit, OctDigit, BinDigit
  <1> HIDE DEF set
  <1>2. CASE At(i) = "." /\ At(i + 1) # "."
    <2>1. i + 1 \in 0 .. Length
      <3>1. At(i) # NUL
        BY <1>2 DEF NUL
      <3> QED
        BY <1>1, <3>1, CharInside
    <2>2. /\ Run(i + 1, set) \in i + 1 .. Length
          /\ \A k \in i + 1 .. Run(i + 1, set) - 1 : At(k) \in set
      BY <1>1, <2>1, RunIs
    <2>3. Fraction(i) = Run(i + 1, set)
      BY <1>2 DEF Fraction, set
    <2>4. ASSUME NEW q \in i .. Fraction(i) - 1, At(q) = "." PROVE At(q + 1) # "."
      <3>1. CASE q = i
        BY <1>2, <3>1
      <3>2. CASE q # i
        <4>1. q \in i + 1 .. Run(i + 1, set) - 1
          BY <1>1, <2>2, <2>3, <3>2
        <4> QED
          BY <1>1, <2>2, <2>4, <4>1
      <3> QED
        BY <3>1, <3>2
    <2>5. Fraction(i) \in i .. Length /\ Fraction(i) # i
      BY <1>1, <2>2, <2>3
    <2> QED
      BY <2>4, <2>5
  <1>3. CASE ~ (At(i) = "." /\ At(i + 1) # ".")
    <2>1. Fraction(i) = i
      BY <1>3 DEF Fraction
    <2> QED
      BY <1>1, <1>3, <2>1
  <1> QED
    BY <1>2, <1>3

-----------------------------------------------------------------------------
(* The tokens, whole.                                                       *)

(* A string that starts at o was read up to c: every quote in it is escaped,*)
(* and c is behind an escape sequence, not in one.                          *)
ReadString(o, c) ==
  /\ At(o) = Quote /\ o < c
  /\ c < Length => ~ Escaped(o + 1, c)
  /\ \A q \in o + 1 .. c - 1 : At(q) = Quote => Escaped(o + 1, q)

StringInv == inside = "string" => ReadString(opened, cursor)

TokensInv == word \in Words /\ LongestTokens /\ KeywordsInPlace /\ StringInv

LEMMA StringStays ==
  ASSUME UNCHANGED text, NEW o, NEW c
  PROVE  ReadString(o, c) => ReadString(o, c)'
  BY DEF ReadString, At, Length, Escaped

(* A step that adds no token.                                               *)
LEMMA NoToken ==
  ASSUME TokensInv, UNCHANGED <<text, word, tokens>>,
         inside' # "string" \/ UNCHANGED <<inside, opened, cursor>>
  PROVE  TokensInv'
  <1>1. LongestTokens' /\ KeywordsInPlace' /\ (word \in Words)'
    BY OldTokens DEF TokensInv
  <1>2. StringInv'
    <2>1. CASE inside' # "string"
      BY <2>1 DEF StringInv
    <2>2. CASE UNCHANGED <<inside, opened, cursor>>
      <3>1. PICK o, c : o = opened /\ c = cursor /\ o = opened' /\ c = cursor'
        BY <2>2
      <3>2. inside' = "string" => ReadString(o, c)
        BY <2>2, <3>1 DEF TokensInv, StringInv
      <3>3. inside' = "string" => ReadString(o, c)'
        BY <3>2, StringStays
      <3> QED
        BY <3>1, <3>3 DEF StringInv, ReadString
    <2> QED
      BY <2>1, <2>2
  <1> QED
    BY <1>1, <1>2 DEF TokensInv

(* A step that adds one.                                                    *)
LEMMA OneToken ==
  ASSUME TokensInv, LexInv, (tokens \in Seq(TokenRecords))', UNCHANGED <<text, word>>,
         inside' = "no",
         NEW t, tokens' = Append(tokens, t), Complete(t), KeywordRight(t)
  PROVE  TokensInv'
  <1>1. LongestTokens' /\ KeywordsInPlace'
    BY NewToken DEF TokensInv
  <1>2. StringInv'
    BY DEF StringInv
  <1> QED
    BY <1>1, <1>2 DEF TokensInv

(* Behind a string up to c comes a character or an escape sequence.         *)
LEMMA StringGoesOn ==
  ASSUME text \in Texts, NEW o \in Nat, NEW c \in Nat, ReadString(o, c), c < Length, At(c) # Quote,
         NEW d, d = IF At(c) = BackSlash THEN AfterEscape(c) ELSE c + 1
  PROVE  ReadString(o, d)
  <1>1. Length \in Nat /\ o + 1 \in Nat /\ o + 1 <= c
    BY TextChars DEF ReadString
  <1>2. ASSUME NEW e \in Nat, c < e, e - 1 \in Nat, At(e - 1) # BackSlash,
               \A q \in c .. e - 1 : At(q) = Quote => Escaped(o + 1, q)
        PROVE  ReadString(o, e)
    <2>1. PICK from \in Nat : from = o + 1 /\ from <= e
      BY <1>1, <1>2
    <2>2. ~ Escaped(from, e)
      BY <1>2, <2>1, NotEscaped
    <2>3. \A q \in o + 1 .. e - 1 : q \in o + 1 .. c - 1 \/ q \in c .. e - 1
      BY <1>1, <1>2
    <2> QED
      BY <1>1, <1>2, <2>1, <2>2, <2>3 DEF ReadString
  <1>3. CASE At(c) # BackSlash
    <2>1. d = c + 1 /\ d - 1 = c /\ d \in Nat /\ c < d
      BY <1>3
    <2>2. \A q \in c .. d - 1 : q = c
      BY <2>1
    <2> QED
      BY <1>2, <1>3, <2>1, <2>2
  <1>4. CASE At(c) = BackSlash
    <2>1. d = AfterEscape(c)
      BY <1>4
    <2>2. PICK from \in Nat : from = o + 1 /\ from <= c /\ ~ Escaped(from, c)
      BY <1>1 DEF ReadString
    <2>3. PICK n \in Nat : n = c + 1 /\ from <= n
      BY <2>2
    <2>4. Escaped(from, n)
      BY <1>4, <2>2, <2>3, BackslashTurns
    <2>5. CASE n >= Length
      <3>1. d = n /\ ~ (d < Length)
        BY <1>1, <2>1, <2>3, <2>5 DEF AfterEscape
      <3>2. \A q \in o + 1 .. d - 1 : q \in o + 1 .. c - 1 \/ q = c
        BY <1>1, <2>3, <3>1
      <3> QED
        BY <1>1, <2>3, <3>1, <3>2 DEF ReadString
    <2>6. CASE n < Length /\ At(n) = "x"
      <3> DEFINE one == IF At(c + 2) \in HexDigit THEN c + 3 ELSE c + 2
                 two == IF At(one) \in HexDigit THEN one + 1 ELSE one
      <3>1. d = two
        BY <1>1, <2>1, <2>3, <2>6 DEF AfterEscape
      <3>2. HexDigit \cup {"x"} \subseteq {"0", "1", "7", "9", "a", "b", "e", "x"}
        BY DEF HexDigit, Digit, OctDigit, BinDigit
      <3>3. one \in {c + 2, c + 3} /\ \A q \in n .. one - 1 : At(q) \in HexDigit \cup {"x"}
        <4>1. CASE At(c + 2) \in HexDigit
          <5>1. one = c + 3
            BY <4>1
          <5>2. \A q \in n .. one - 1 : q = n \/ q = c + 2
            BY <2>3, <5>1
          <5> QED
            BY <2>6, <4>1, <5>1, <5>2
        <4>2. CASE At(c + 2) \notin HexDigit
          <5>1. one = c + 2
            BY <4>2
          <5>2. \A q \in n .. one - 1 : q = n
            BY <2>3, <5>1
          <5> QED
            BY <2>6, <5>1, <5>2
        <4> QED
          BY <4>1, <4>2
      <3> HIDE DEF one
      <3>4. d \in Nat /\ n < d /\ \A q \in n .. d - 1 : At(q) \in HexDigit \cup {"x"}
        <4>1. one \in Nat /\ n < one
          BY <2>3, <3>3
        <4>2. CASE At(one) \in HexDigit
          <5>1. d = one + 1
            BY <3>1, <4>2
          <5>2. \A q \in n .. d - 1 : q \in n .. one - 1 \/ q = one
            BY <4>1, <5>1
          <5> QED
            BY <3>3, <4>1, <4>2, <5>1, <5>2
        <4>3. CASE At(one) \notin HexDigit
          <5>1. d = one
            BY <3>1, <4>3
          <5> QED
            BY <3>3, <4>1, <5>1
        <4> QED
          BY <4>2, <4>3
      <3>5. BackSlash \notin HexDigit \cup {"x"} /\ Quote \notin HexDigit \cup {"x"}
        BY <3>2 DEF BackSlash, Quote
      <3>6. c < d /\ d - 1 \in Nat /\ d - 1 \in n .. d - 1
        BY <2>3, <3>4
      <3>7. At(d - 1) # BackSlash
        BY <3>4, <3>5, <3>6
      <3>8. \A q \in c .. d - 1 : q = c \/ q \in n .. d - 1
        BY <2>3, <3>4
      <3>9. \A q \in c .. d - 1 : At(q) = Quote => Escaped(o + 1, q)
        BY <3>4, <3>5, <3>8
      <3> QED
        BY <1>2, <3>4, <3>6, <3>7, <3>9
    <2>7. CASE n < Length /\ At(n) # "x"
      <3>1. d = c + 2 /\ d \in Nat /\ c < d /\ d = n + 1 /\ d - 1 = n /\ d - 1 \in Nat
        BY <1>1, <2>1, <2>3, <2>7 DEF AfterEscape
      <3>2. \A q \in c .. d - 1 : q = c \/ q = n
        BY <2>3, <3>1
      <3>3. \A q \in c .. d - 1 : At(q) = Quote => Escaped(o + 1, q)
        BY <2>2, <2>4, <3>2
      <3>4. CASE At(n) # BackSlash
        BY <1>2, <3>1, <3>3, <3>4
      <3>5. CASE At(n) = BackSlash
        <4>1. Escaped(from, n + 1) <=> ~ Escaped(from, n)
          BY <2>3, <3>5, BackslashTurns
        <4>2. ~ Escaped(o + 1, d)
          BY <2>2, <2>4, <3>1, <4>1
        <4>3. \A q \in o + 1 .. d - 1 : q \in o + 1 .. c - 1 \/ q \in c .. d - 1
          BY <1>1, <3>1
        <4> QED
          BY <1>1, <3>1, <3>3, <4>2, <4>3 DEF ReadString
      <3> QED
        BY <3>4, <3>5
    <2>8. n >= Length \/ n < Length
      BY <1>1
    <2> QED
      BY <2>5, <2>6, <2>7, <2>8
  <1> QED
    BY <1>3, <1>4

(* A branch that returns a token.                                           *)
LEMMA TokenWhole ==
  ASSUME TokensInv, LexInv, (tokens \in Seq(TokenRecords))', Ready,
         NEW kind, NEW start, NEW end, Token(kind, start, end),
         \A t : t = [kind |-> kind, start |-> start, end |-> end] =>
                  Complete(t) /\ KeywordRight(t)
  PROVE  TokensInv'
  <1>1. PICK t : t = [kind |-> kind, start |-> start, end |-> end]
    OBVIOUS
  <1>2. /\ UNCHANGED <<text, word>> /\ inside' = "no" /\ tokens' = Append(tokens, t)
        /\ Complete(t) /\ KeywordRight(t)
    BY <1>1 DEF Token, Ready
  <1> QED
    BY <1>2, OneToken

(* An error, a character or the end of the text is whole as it is.          *)
LEMMA PlainToken ==
  ASSUME text \in Texts, TokensInv, LexInv, (tokens \in Seq(TokenRecords))', Ready,
         NEW kind \in {"error", "char", "eof"}, NEW start \in 0 .. Length, NEW end \in start .. Length,
         Token(kind, start, end), At(start) # "k" \/ start = end
  PROVE  TokensInv'
  <1>1. ASSUME NEW t, t = [kind |-> kind, start |-> start, end |-> end]
        PROVE  Complete(t) /\ KeywordRight(t)
    <2>1. t.kind = kind /\ t.start = start /\ t.end = end
      BY <1>1
    <2>2. Complete(t)
      BY <2>1 DEF Complete
    <2>3. KeywordRight(t)
      BY <2>1, NoKeyword
    <2> QED
      BY <2>2, <2>3
  <1> QED
    BY <1>1, TokenWhole

LEMMA IdentifierWhole ==
  ASSUME SourceInv, LexInv, TokensInv, (tokens \in Seq(TokenRecords))', LexIdentifier
  PROVE  TokensInv'
  <1>1. text \in Texts /\ Length \in Nat /\ cursor \in 0 .. Length
    BY LexPlace
  <1>2. Here(Alpha) /\ Ready /\ At(cursor) \in Alpha
    BY DEF LexIdentifier, Here
  <1>3. NUL \notin Alnum /\ At(cursor) \notin Digit
    BY <1>2 DEF NUL, Alpha, Alnum, Digit, OctDigit, BinDigit
  <1>4. PICK end \in cursor .. Length : end = Run(cursor, Alnum) /\ At(end) \notin Alnum
    BY <1>1, <1>3, RunIs
  <1>5. PICK kind : /\ kind = IF Slice(cursor, end) = <<"k">> /\ IsKeyword(word)
                              THEN "keyword" ELSE "identifier"
                    /\ Token(kind, cursor, end)
    BY <1>4 DEF LexIdentifier
  <1>6. ASSUME NEW t, t = [kind |-> kind, start |-> cursor, end |-> end]
        PROVE  Complete(t) /\ KeywordRight(t)
    <2>1. t.kind = kind /\ t.start = cursor /\ t.end = end
      BY <1>6
    <2>2. kind \in {"keyword", "identifier"}
      BY <1>5
    <2>3. Complete(t)
      BY <1>3, <1>4, <2>1, <2>2 DEF Complete
    <2>4. IsKeyword(word) <=> (\E j \in 0 .. 71 : KEYWORDS[j] = word) /\ ~ Misplaced(word)
      BY KeywordSearch DEF TokensInv
    <2>5. Slice(cursor, end) = <<"k">> => (kind = "keyword" <=> IsKeyword(word))
      BY <1>5
    <2>6. KeywordRight(t)
      BY <2>1, <2>4, <2>5 DEF KeywordRight, Listed
    <2> QED
      BY <2>3, <2>6
  <1> QED
    BY <1>2, <1>5, <1>6, TokenWhole

LEMMA OperatorWhole ==
  ASSUME SourceInv, LexInv, TokensInv, (tokens \in Seq(TokenRecords))', LexOperator
  PROVE  TokensInv'
  <1>1. text \in Texts /\ Length \in Nat /\ cursor \in 0 .. Length
    BY LexPlace
  <1>2. Ready /\ At(cursor) \in Operator \cup Single
    BY DEF LexOperator, Here
  <1>3. PICK end \in cursor + 1 .. Length :
          /\ \A i \in cursor + 1 .. end - 1 : Extends(Slice(cursor, i), At(i))
          /\ ~ Extends(Slice(cursor, end), At(end))
          /\ Token("operator", cursor, end)
    BY DEF LexOperator
  <1>4. /\ Slice(cursor, end) \in Operators
        /\ \A e \in end + 1 .. Length : Slice(cursor, e) \notin Operators
    BY <1>1, <1>2, <1>3, LongestOperator
  <1>5. At(cursor) # "k"
    BY <1>2 DEF Operator, Single
  <1>6. ASSUME NEW t, t = [kind |-> "operator", start |-> cursor, end |-> end]
        PROVE  Complete(t) /\ KeywordRight(t)
    <2>1. t.kind = "operator" /\ t.start = cursor /\ t.end = end /\ end \in cursor .. Length
      BY <1>1, <1>6
    <2>2. Complete(t)
      BY <1>4, <2>1 DEF Complete
    <2>3. KeywordRight(t)
      BY <1>1, <1>5, <2>1, NoKeyword
    <2> QED
      BY <2>2, <2>3
  <1> QED
    BY <1>2, <1>3, <1>6, TokenWhole

LEMMA EndsWhole ==
  ASSUME SourceInv, LexInv, TokensInv, (tokens \in Seq(TokenRecords))', LexUnexpected \/ LexEof
  PROVE  TokensInv'
  <1>1. text \in Texts /\ Length \in Nat /\ cursor \in 0 .. Length
    BY LexPlace
  <1>2. CASE LexEof
    <2>1. Ready /\ Token("eof", cursor, cursor) /\ cursor \in cursor .. Length
      BY <1>1, <1>2 DEF LexEof
    <2> QED
      BY <1>1, <2>1, PlainToken
  <1>3. CASE LexUnexpected
    <2>1. Ready /\ At(cursor) \in Chars /\ At(cursor) # "k"
      BY <1>3 DEF LexUnexpected, Here, Alnum, Alpha
    <2>2. PICK end : end = cursor + 1 /\ Token("error", cursor, end)
      BY <1>3 DEF LexUnexpected
    <2>3. cursor + 1 \in 1 .. Length
      BY <1>1, <2>1, CharInside, TextAssumption
    <2>4. end \in cursor .. Length
      BY <1>1, <2>2, <2>3
    <2> QED
      BY <1>1, <2>1, <2>2, <2>4, PlainToken
  <1> QED
    BY <1>2, <1>3

(* Numbers.                                                                 *)
LEMMA PrefixedWhole ==
  ASSUME SourceInv, LexInv, TokensInv, (tokens \in Seq(TokenRecords))', LexPrefixed
  PROVE  TokensInv'
  <1>1. text \in Texts /\ Length \in Nat /\ cursor \in 0 .. Length
    BY LexPlace
  <1>2. Ready /\ At(cursor) = "0" /\ At(cursor + 1) \in {"x", "b", "o"}
    BY DEF LexPrefixed, Here, Prefixed
  <1>3. PICK second \in 0 .. Length : second = cursor + 2
    <2>1. (cursor + 1) + 1 \in 1 .. Length
      <3>1. At(cursor + 1) # NUL /\ cursor + 1 \in Nat
        BY <1>1, <1>2 DEF NUL
      <3> QED
        BY <1>1, <3>1, CharInside
    <2> QED
      BY <1>1, <2>1
  <1>4. \/ Token("error", cursor, second)
        \/ \E digits \in {HexDigit, BinDigit, OctDigit} :
             Token("int", cursor, Run(second, digits \cup {"_"}))
    BY <1>2, <1>3 DEF LexPrefixed
  <1>5. CASE Token("error", cursor, second)
    <2>1. second \in cursor .. Length
      BY <1>1, <1>3
    <2> QED
      BY <1>1, <1>2, <1>5, <2>1, PlainToken
  <1>6. ASSUME NEW digits \in {HexDigit, BinDigit, OctDigit},
               Token("int", cursor, Run(second, digits \cup {"_"}))
        PROVE  TokensInv'
    <2>1. NUL \notin digits \cup {"_"}
      BY DEF NUL, HexDigit, Digit, OctDigit, BinDigit
    <2>2. PICK end \in second .. Length : end = Run(second, digits \cup {"_"})
      BY <1>1, <1>3, <2>1, RunIs
    <2>3. ASSUME NEW t, t = [kind |-> "int", start |-> cursor, end |-> end]
          PROVE  Complete(t) /\ KeywordRight(t)
      <3>1. t.kind = "int" /\ t.start = cursor /\ t.end = end /\ end \in cursor .. Length
        BY <1>1, <1>3, <2>3
      <3>2. Slice(cursor, cursor + 2) = <<At(cursor), At(cursor + 1)>>
        BY <1>1, <1>3, ShortSlices
      <3>3. Slice(cursor, cursor + 2) \in {<<"0", "x">>, <<"0", "b">>, <<"0", "o">>}
        BY <1>2, <3>2
      <3>4. Base(t) = "prefixed"
        BY <3>1, <3>3 DEF Base
      <3>5. Complete(t)
        BY <3>1, <3>4 DEF Complete
      <3>6. KeywordRight(t)
        BY <1>1, <1>2, <3>1, NoKeyword
      <3> QED
        BY <3>5, <3>6
    <2>4. Token("int", cursor, end)
      BY <1>6, <2>2
    <2> QED
      BY <1>2, <2>3, <2>4, TokenWhole
  <1> QED
    BY <1>4, <1>5, <1>6

LEMMA DecimalWhole ==
  ASSUME SourceInv, LexInv, TokensInv, (tokens \in Seq(TokenRecords))', LexDecimal
  PROVE  TokensInv'
  <1>1. text \in Texts /\ Length \in Nat /\ cursor \in 0 .. Length
    BY LexPlace
  <1>2. Ready /\ At(cursor) \in Digit
    BY DEF LexDecimal, Here
  <1>3. At(cursor) # "k"
    BY <1>2 DEF Digit, OctDigit, BinDigit
  <1> DEFINE digits == Digit \cup {"_"}
  <1>4. NUL \notin digits /\ "." \notin digits /\ NUL \notin Digit
    BY DEF NUL, Digit, OctDigit, BinDigit
  <1>5. PICK whole \in cursor .. Length :
          whole = Run(cursor, digits) /\ \A q \in cursor .. whole - 1 : At(q) \in digits
    BY <1>1, <1>4, RunIs
  <1>6. whole \in 0 .. Length
    BY <1>1
  <1>7. PICK point \in whole .. Length :
          /\ point = Fraction(whole)
          /\ point = whole => (At(whole) = "." => At(whole + 1) = ".")
          /\ \A q \in whole .. point - 1 : At(q) = "." => At(q + 1) # "."
    BY <1>1, <1>6, FractionIs
  <1>8. \A q \in cursor .. point - 1 : At(q) = "." => At(q + 1) # "."
    <2>1. \A q \in cursor .. point - 1 : q \in cursor .. whole - 1 \/ q \in whole .. point - 1
      BY <1>1, <1>6, <1>7
    <2> QED
      BY <1>4, <1>5, <1>7, <2>1
  <1>9. point \in Nat /\ point \in cursor .. Length
    BY <1>1, <1>6, <1>7
  <1>10. ASSUME NEW kind, kind \in {"int", "float"}, NEW end \in cursor .. Length,
                Token(kind, cursor, end),
                kind = "int" => (At(end) = "." => At(end + 1) = "."),
                kind = "float" => \A q \in cursor .. end - 1 : At(q) = "." => At(q + 1) # "."
         PROVE  TokensInv'
    <2>1. ASSUME NEW t, t = [kind |-> kind, start |-> cursor, end |-> end]
          PROVE  Complete(t) /\ KeywordRight(t)
      <3>1. t.kind = kind /\ t.start = cursor /\ t.end = end
        BY <2>1
      <3>2. Complete(t)
        BY <1>10, <3>1 DEF Complete
      <3>3. KeywordRight(t)
        BY <1>1, <1>3, <3>1, NoKeyword
      <3> QED
        BY <3>2, <3>3
    <2> QED
      BY <1>2, <1>10, <2>1, TokenWhole
  <1> DEFINE power == IF At(point + 1) \in {"+", "-"} THEN point + 2 ELSE point + 1
  <1>11. IF At(point) # "e"
         THEN Token(IF point > whole THEN "float" ELSE "int", cursor, point)
         ELSE IF At(power) \in Digit
         THEN Token("float", cursor, Run(power, digits))
         ELSE Token("error", cursor, power)
    BY <1>5, <1>7 DEF LexDecimal
  <1>12. CASE At(point) # "e"
    <2>1. CASE point > whole
      <3>1. Token("float", cursor, point)
        BY <1>11, <1>12, <2>1
      <3> QED
        BY <1>8, <1>9, <1>10, <3>1
    <2>2. CASE ~ (point > whole)
      <3>1. Token("int", cursor, point) /\ point = whole
        BY <1>1, <1>6, <1>7, <1>11, <1>12, <2>2
      <3> QED
        BY <1>7, <1>9, <1>10, <3>1
    <2> QED
      BY <2>1, <2>2
  <1>13. CASE At(point) = "e"
    <2>1. PICK p \in cursor .. Length :
            p = power /\ p \in Nat /\ point < p /\ \A q \in point .. p - 1 : At(q) # "."
      <3>1. PICK next \in 0 .. Length : next = point + 1 /\ next \in Nat
        <4>1. At(point) # NUL
          BY <1>13 DEF NUL
        <4> QED
          BY <1>1, <1>9, <4>1, CharInside
      <3>2. CASE At(next) \in {"+", "-"}
        <4>1. next + 1 \in 1 .. Length
          <5>1. At(next) # NUL
            BY <3>2 DEF NUL
          <5> QED
            BY <1>1, <3>1, <5>1, CharInside
        <4>2. power = next + 1
          BY <1>9, <3>1, <3>2
        <4>3. \A q \in point .. next : q = point \/ q = next
          BY <1>9, <3>1
        <4>4. next + 1 \in cursor .. Length /\ next + 1 \in Nat /\ point < next + 1
              /\ (next + 1) - 1 = next
          BY <1>1, <1>9, <3>1, <4>1
        <4>5. \A q \in point .. next : At(q) # "."
          BY <1>13, <3>2, <4>3
        <4> HIDE DEF power
        <4> QED
          BY <4>2, <4>4, <4>5
      <3>3. CASE At(next) \notin {"+", "-"}
        <4>1. power = next
          BY <3>1, <3>3
        <4>2. \A q \in point .. next - 1 : q = point
          BY <1>9, <3>1
        <4>3. next \in cursor .. Length /\ point < next
          BY <1>1, <1>9, <3>1
        <4> HIDE DEF power
        <4> QED
          BY <1>13, <3>1, <4>1, <4>2, <4>3
      <3> QED
        BY <3>2, <3>3
    <2>2. IF At(p) \in Digit THEN Token("float", cursor, Run(p, digits))
                             ELSE Token("error", cursor, p)
      BY <1>11, <1>13, <2>1
    <2>3. CASE At(p) \in Digit
      <3>1. p \in 0 .. Length
        BY <1>1, <2>1
      <3>2. PICK end \in p .. Length :
              end = Run(p, digits) /\ \A q \in p .. end - 1 : At(q) \in digits
        BY <1>1, <1>4, <3>1, RunIs
      <3> HIDE DEF power, digits
      <3>3. Token("float", cursor, end)
        BY <2>2, <2>3, <3>2
      <3>4. /\ end \in cursor .. Length
            /\ \A q \in cursor .. end - 1 :
                 q \in cursor .. point - 1 \/ q \in point .. p - 1 \/ q \in p .. end - 1
        <4>1. p \in Nat /\ end \in Nat /\ p <= end /\ cursor <= p /\ end <= Length
          BY <1>1, <2>1, <3>2
        <4> QED
          BY <1>1, <1>9, <4>1
      <3>5. \A q \in cursor .. end - 1 : At(q) = "." => At(q + 1) # "."
        BY <1>4, <1>8, <2>1, <3>2, <3>4
      <3> QED
        BY <1>10, <3>3, <3>4, <3>5
    <2>4. CASE At(p) \notin Digit
      <3>1. Token("error", cursor, p)
        BY <2>2, <2>4
      <3> HIDE DEF power
      <3> QED
        BY <1>1, <1>2, <1>3, <2>1, <3>1, PlainToken
    <2> QED
      BY <2>3, <2>4
  <1> QED
    BY <1>12, <1>13

(* Where a token that was added lies.                                       *)
LEMMA TokenBounds ==
  ASSUME text \in Texts, LexInv, (tokens \in Seq(TokenRecords))', SpansInOrder',
         NEW kind, NEW start, NEW end, Token(kind, start, end)
  PROVE  start \in 0 .. Length /\ end \in start .. Length
  <1>1. PICK t : /\ t = [kind |-> kind, start |-> start, end |-> end]
                 /\ tokens' = Append(tokens, t) /\ UNCHANGED text
    BY DEF Token
  <1>2. t.start = start /\ t.end = end
    BY <1>1
  <1>3. PICK n \in Nat : n = Len(tokens)
    BY LenProperties DEF LexInv
  <1>4. tokens \in Seq(TokenRecords)
    BY DEF LexInv
  <1>5. PICK m : m = n + 1 /\ m \in DOMAIN tokens' /\ tokens'[m] = t
    BY <1>1, <1>3, <1>4
  <1>6. TokenRecords' = TokenRecords
    BY <1>1 DEF TokenRecords, Length
  <1>7. t \in TokenRecords
    <2>1. tokens' \in Seq(TokenRecords)
      BY <1>6
    <2>2. DOMAIN tokens' = 1 .. Len(tokens')
      BY <2>1
    <2>3. tokens'[m] \in TokenRecords
      BY <1>5, <2>1, <2>2, ElementOfSeq
    <2> QED
      BY <1>5, <2>3
  <1>8. tokens'[m].start <= tokens'[m].end
    BY <1>5 DEF SpansInOrder
  <1>9. t.start <= t.end
    BY <1>5, <1>8
  <1>10. t.start \in 0 .. Length /\ t.end \in 0 .. Length
    BY <1>7 DEF TokenRecords
  <1> QED
    BY <1>2, <1>9, <1>10, TextChars

(* Character literals and strings.                                          *)
LEMMA CharWhole ==
  ASSUME SourceInv, LexInv, TokensInv, (tokens \in Seq(TokenRecords))', SpansInOrder', LexChar
  PROVE  TokensInv'
  <1>1. text \in Texts /\ Length \in Nat /\ cursor \in 0 .. Length
    BY LexPlace
  <1>2. Ready /\ (At(cursor) = Tick \/ (At(cursor) = "b" /\ At(cursor + 1) = Tick))
    BY DEF LexChar, Here
  <1>3. PICK start : start = (IF At(cursor) = "b" THEN cursor + 1 ELSE cursor)
                     /\ At(start) = Tick
    <2>1. Tick # "b"
      BY DEF Tick
    <2> QED
      BY <1>2, <2>1
  <1>4. \E kind \in {"error", "char"} : \E end : Token(kind, start, end)
    BY <1>3 DEF LexChar
  <1>5. PICK kind, end : kind \in {"error", "char"} /\ Token(kind, start, end)
    BY <1>4
  <1>6. start \in 0 .. Length /\ end \in start .. Length
    BY <1>1, <1>5, TokenBounds
  <1>7. At(start) # "k"
    BY <1>3 DEF Tick
  <1> QED
    BY <1>1, <1>2, <1>5, <1>6, <1>7, PlainToken

LEMMA RawStringWhole ==
  ASSUME SourceInv, LexInv, TokensInv, (tokens \in Seq(TokenRecords))', SpansInOrder', LexRawString
  PROVE  TokensInv'
  <1>1. text \in Texts /\ Length \in Nat /\ cursor \in 0 .. Length
    BY LexPlace
  <1>2. Ready /\ At(cursor) = "r" /\ At(cursor + 1) = Quote
    BY DEF LexRawString, Here
  <1> DEFINE set == Chars \ {Quote}
  <1>3. NUL \notin set
    BY TextAssumption
  <1>4. PICK first \in 0 .. Length : first = cursor + 2
    <2>1. (cursor + 1) + 1 \in 1 .. Length
      <3>1. At(cursor + 1) # NUL /\ cursor + 1 \in Nat
        BY <1>1, <1>2 DEF NUL, Quote
      <3> QED
        BY <1>1, <3>1, CharInside
    <2> QED
      BY <1>1, <2>1
  <1>5. PICK stop \in first .. Length :
          stop = Run(first, set) /\ \A q \in first .. stop - 1 : At(q) \in set
    BY <1>1, <1>3, <1>4, RunIs
  <1>6. IF At(stop) = Quote THEN Token("raw string", cursor, stop + 1)
                            ELSE Token("error", cursor, stop)
    BY <1>4, <1>5 DEF LexRawString
  <1>7. CASE At(stop) = Quote
    <2>1. PICK end : end = stop + 1 /\ Token("raw string", cursor, end)
      BY <1>6, <1>7
    <2>2. cursor \in 0 .. Length /\ end \in cursor .. Length
      BY <1>1, <2>1, TokenBounds
    <2> HIDE DEF set
    <2>3. end - 1 = stop /\ \A q \in cursor + 2 .. end - 1 : q \in first .. stop - 1 \/ q = stop
      <3>1. first \in Nat /\ stop \in Nat
        BY <1>1
      <3>2. end = stop + 1
        BY <2>1
      <3> QED
        BY <1>1, <1>4, <3>1, <3>2
    <2>4. \A q \in first .. stop - 1 : q # stop
      BY <1>1, <1>4, <1>5
    <2>5. Quote \notin set
      BY DEF set
    <2>6. \A q \in cursor + 2 .. end - 1 : At(q) = Quote <=> q = end - 1
      BY <1>5, <1>7, <2>3, <2>4, <2>5
    <2>7. ASSUME NEW t, t = [kind |-> "raw string", start |-> cursor, end |-> end]
          PROVE  Complete(t) /\ KeywordRight(t)
      <3>1. t.kind = "raw string" /\ t.start = cursor /\ t.end = end
        BY <2>7
      <3>2. Complete(t)
        BY <2>6, <3>1 DEF Complete
      <3>3. KeywordRight(t)
        BY <1>1, <1>2, <2>2, <3>1, NoKeyword
      <3> QED
        BY <3>2, <3>3
    <2> QED
      BY <1>2, <2>1, <2>7, TokenWhole
  <1>8. CASE At(stop) # Quote
    <2>1. Token("error", cursor, stop) /\ stop \in cursor .. Length
      BY <1>1, <1>4, <1>5, <1>6, <1>8
    <2> QED
      BY <1>1, <1>2, <2>1, PlainToken
  <1> QED
    BY <1>7, <1>8

LEMMA StringWhole ==
  ASSUME SourceInv, LexInv, TokensInv, (tokens \in Seq(TokenRecords))', SpansInOrder',
         OpenString \/ InString \/ CloseString
  PROVE  TokensInv'
  <1>1. text \in Texts /\ Length \in Nat /\ cursor \in 0 .. Length /\ opened \in 0 .. cursor
    BY LexPlace
  <1>2. UNCHANGED <<text, word>>
    BY DEF OpenString, InString, CloseString, sourceVars
  <1>3. ASSUME UNCHANGED tokens, NEW o \in Nat, NEW c \in Nat, opened' = o, cursor' = c,
               ReadString(o, c)
        PROVE  TokensInv'
    <2>1. ReadString(o, c)'
      BY <1>2, <1>3, StringStays
    <2>2. StringInv'
      BY <1>3, <2>1 DEF StringInv, ReadString
    <2>3. LongestTokens' /\ KeywordsInPlace'
      BY <1>2, <1>3, OldTokens DEF TokensInv
    <2> QED
      BY <1>2, <2>2, <2>3 DEF TokensInv
  <1>4. CASE OpenString
    <2>1. PICK o \in Nat, c \in Nat : o = cursor /\ c = o + 1
      BY <1>1
    <2>2. /\ At(o) = Quote /\ UNCHANGED tokens /\ opened' = o /\ cursor' = c
      BY <1>4, <2>1 DEF OpenString, Here, Goto
    <2>3. ReadString(o, c)
      <3>1. ~ Escaped(c, c)
        BY NotEscaped
      <3> QED
        BY <2>1, <2>2, <3>1 DEF ReadString
    <2> QED
      BY <1>3, <2>2, <2>3
  <1>5. CASE InString
    <2>1. PICK o \in Nat, c \in Nat : o = opened /\ c = cursor
      BY <1>1
    <2>2. PICK d : d = IF At(c) = BackSlash THEN AfterEscape(c) ELSE c + 1
      OBVIOUS
    <2>3. /\ inside = "string" /\ c < Length /\ At(c) # Quote
          /\ UNCHANGED tokens /\ opened' = o /\ cursor' = d
      BY <1>5, <2>1, <2>2 DEF InString, Goto
    <2>4. ReadString(o, c)
      BY <2>1, <2>3 DEF TokensInv, StringInv
    <2>5. ReadString(o, d)
      BY <1>1, <2>2, <2>3, <2>4, StringGoesOn
    <2>6. d \in Nat
      BY <1>2, <2>3, TextChars, <1>1 DEF SpansInOrder, Length
    <2> QED
      BY <1>3, <2>3, <2>5, <2>6
  <1>6. CASE CloseString
    <2>1. PICK o \in Nat, c \in Nat : o = opened /\ c = cursor /\ o \in 0 .. Length /\ c \in o .. Length
      BY <1>1
    <2>2. PICK end, kind : /\ end = (IF At(c) = Quote THEN c + 1 ELSE c)
                           /\ kind = (IF At(c) = Quote THEN "string" ELSE "error")
      OBVIOUS
    <2>3. PICK t : t = [kind |-> kind, start |-> o, end |-> end]
      OBVIOUS
    <2>4. inside = "string" /\ inside' = "no" /\ tokens' = Append(tokens, t)
      BY <1>6, <2>1, <2>2, <2>3 DEF CloseString
    <2>5. ReadString(o, c)
      BY <2>1, <2>4 DEF TokensInv, StringInv
    <2>6. t.kind = kind /\ t.start = o /\ t.end = end
      BY <2>3
    <2>7. end \in o .. Length
      <3>1. CASE At(c) = Quote
        <4>1. c + 1 \in 1 .. Length
          <5>1. At(c) # NUL
            BY <3>1 DEF Quote, NUL
          <5> QED
            BY <1>1, <5>1, CharInside
        <4> QED
          BY <1>1, <2>1, <2>2, <3>1, <4>1
      <3>2. CASE At(c) # Quote
        BY <2>1, <2>2, <3>2
      <3> QED
        BY <3>1, <3>2
    <2>8. KeywordRight(t)
      <3>1. At(o) # "k"
        BY <2>5 DEF ReadString, Quote
      <3> QED
        BY <1>1, <2>1, <2>6, <2>7, <3>1, NoKeyword
    <2>9. Complete(t)
      <3>1. CASE At(c) # Quote
        BY <2>2, <2>6, <3>1 DEF Complete
      <3>2. CASE At(c) = Quote
        <4>1. kind = "string" /\ end = c + 1 /\ end - 1 = c /\ c < Length
          BY <1>1, <2>1, <2>2, <2>7, <3>2
        <4>2. /\ ~ Escaped(o + 1, c)
              /\ \A q \in o + 1 .. c - 1 : At(q) = Quote => Escaped(o + 1, q)
          BY <2>5, <4>1 DEF ReadString
        <4>3. \A q \in o + 1 .. end - 1 : q = c \/ (q \in o + 1 .. c - 1 /\ q # c)
          BY <2>1, <4>1
        <4>4. \A q \in o + 1 .. end - 1 : At(q) = Quote => (q = end - 1 <=> ~ Escaped(o + 1, q))
          BY <4>1, <4>2, <4>3
        <4> QED
          BY <2>6, <4>1, <4>4 DEF Complete
      <3> QED
        BY <3>1, <3>2
    <2> QED
      BY <1>2, <2>4, <2>8, <2>9, OneToken
  <1> QED
    BY <1>4, <1>5, <1>6

-----------------------------------------------------------------------------
(* Every step.                                                              *)

LEMMA TokensStart ==
  ASSUME Init
  PROVE  TokensInv
  <1>1. tokens = <<>> /\ inside = "no"
    BY DEF Init
  <1>2. word \in Words
    BY DEF Init, Words
  <1> QED
    BY <1>1, <1>2 DEF TokensInv, LongestTokens, KeywordsInPlace, StringInv

LEMMA QuietSteps ==
  ASSUME LexerInv, TokensInv,
         \/ (ScanChar \/ Locate) /\ UNCHANGED lexVars
         \/ SkipBlanks \/ SkipLine \/ OpenComment \/ Nest \/ CloseComment
         \/ ParserReports \/ UNCHANGED vars
  PROVE  TokensInv'
  <1>1. UNCHANGED <<text, word, tokens>>
    BY DEF ScanChar, Locate, lexVars, SkipBlanks, SkipLine, OpenComment, Nest, CloseComment,
       ParserReports, vars, sourceVars
  <1>2. inside' # "string" \/ UNCHANGED <<inside, opened, cursor>>
    BY DEF lexVars, SkipBlanks, SkipLine, OpenComment, Nest, CloseComment, InComment, Here, Ready,
       ParserReports, vars
  <1> QED
    BY <1>1, <1>2, NoToken

LEMMA TokensStep ==
  ASSUME LexerInv, LexerInv', TokensInv, [Next]_vars
  PROVE  TokensInv'
  <1>1. SourceInv /\ LexInv
    BY DEF LexerInv
  <1>2. (tokens \in Seq(TokenRecords))' /\ SpansInOrder'
    BY DEF LexerInv, LexInv
  <1>3. CASE LexIdentifier
    BY <1>1, <1>2, <1>3, IdentifierWhole
  <1>4. CASE LexPrefixed
    BY <1>1, <1>2, <1>4, PrefixedWhole
  <1>5. CASE LexDecimal
    BY <1>1, <1>2, <1>5, DecimalWhole
  <1>6. CASE LexRawString
    BY <1>1, <1>2, <1>6, RawStringWhole
  <1>7. CASE OpenString \/ InString \/ CloseString
    BY <1>1, <1>2, <1>7, StringWhole
  <1>8. CASE LexChar
    BY <1>1, <1>2, <1>8, CharWhole
  <1>9. CASE LexOperator
    BY <1>1, <1>2, <1>9, OperatorWhole
  <1>10. CASE LexUnexpected \/ LexEof
    BY <1>1, <1>2, <1>10, EndsWhole
  <1> QED
    BY <1>3, <1>4, <1>5, <1>6, <1>7, <1>8, <1>9, <1>10, QuietSteps DEF Next, NextToken

LEMMA TokensInvariant == Spec => []TokensInv
  <1>1. Init => TokensInv
    BY TokensStart
  <1>2. LexerInv /\ LexerInv' /\ TokensInv /\ [Next]_vars => TokensInv'
    BY TokensStep
  <1> QED
    BY <1>1, <1>2, LexerInvariant, PTL DEF Spec

(* A token is all of what the language takes for it and no more, whatever   *)
(* the text: the longest operator, a string up to the first quote that is   *)
(* not escaped, a number without the points of a range, a name that is whole*)
THEOREM TokensLongest == Spec => []LongestTokens
  <1>1. TokensInv => LongestTokens
    BY DEF TokensInv
  <1> QED
    BY <1>1, TokensInvariant, PTL

(* keyword_lookup finds each word of the table that is at its place, and    *)
(* takes no word for a keyword that is not in the table.                    *)
THEOREM KeywordLookupExact == Spec => []KeywordsInPlace
  <1>1. TokensInv => KeywordsInPlace
    BY DEF TokensInv
  <1> QED
    BY <1>1, TokensInvariant, PTL

===============================================================================
