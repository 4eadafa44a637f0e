-------------------------------- MODULE Lexer ---------------------------------
(***************************************************************************)
(* lexer.c: a text is cut into tokens.  An action is a branch of           *)
(* lexer_next_token, or one round of the loop that skips a block comment or *)
(* a string.  Reporting an error is a call of diag_emit (module Source), and*)
(* the parser may report an error at the token it got.                      *)
(*                                                                          *)
(* Characters that lexer.c treats alike have one representative: "a" and "e"*)
(* are letters that are hexadecimal digits, "(" is any of ( ) { } [ ] , ; ~ *)
(* @ ? #, "+" any of + * % & | ^ ! that is no comment, "$" is unexpected.   *)
(* "k" stands for the letters of any word; word says which.  What a literal *)
(* means is left out.                                                       *)
(***************************************************************************)
EXTENDS Source, Integers

Quote == "quote"
Tick  == "tick"
BackSlash == "backslash"

Blank    == {" ", NewLine, Return}
BinDigit == {"0", "1"}
OctDigit == BinDigit \cup {"7"}
Digit    == OctDigit \cup {"9"}
HexDigit == Digit \cup {"a", "b", "e"}
Alpha    == {"a", "b", "e", "k", "o", "r", "x", "_"}
Alnum    == Alpha \cup Digit
Single   == {"("}
Operator == {"+", "-", "*", "/", "=", "<", ">", ":", "."}

(* KEYWORDS, by the rank of each word in the order of strncmp: the even     *)
(* numbers are the 72 keywords, the odd ones the words between them.  The   *)
(* table is in order except that "alloc" stands before "alias".             *)
KEYWORDS == [i \in 0 .. 71 |-> CASE i = 1 -> 6 [] i = 2 -> 4 [] OTHER -> 2 * i + 2]
Words == 1 .. 145

VARIABLES
  word,      (* what the letters "k" of the text spell                      *)
  cursor,    (* Lexer.cursor                                                *)
  inside,    (* "comment" or "string" in their loops, "no" otherwise        *)
  opened,    (* where the comment or string started                         *)
  depth,     (* nesting of block comments                                   *)
  tokens     (* what lexer_next_token has returned                          *)

lexVars == <<word, cursor, inside, opened, depth, tokens>>
vars == <<sourceVars, lexVars>>

Init ==
  /\ SourceInit
  /\ word \in IF text = <<"k">> THEN Words ELSE {1}
  /\ cursor = 0
  /\ inside = "no"
  /\ opened = 0
  /\ depth = 0
  /\ tokens = <<>>

Slice(i, j) == SubSeq(text, i + 1, j)

(* Where a loop over characters of a set that starts here ends.             *)
Run(i, set) ==
  CHOOSE j \in i .. Length : At(j) \notin set /\ \A k \in i .. j - 1 : At(k) \in set

Finished == tokens # <<>> /\ tokens[Len(tokens)].kind = "eof"

(* lexer_next_token looks at the next character.                            *)
Ready == Loaded /\ ~Reporting /\ inside = "no" /\ ~Finished

Here(set) == Ready /\ At(cursor) \in set

Goto(i) == cursor' = i

Token(kind, start, end) ==
  /\ Goto(end)
  /\ tokens' = Append(tokens, [kind |-> kind, start |-> start, end |-> end])
  /\ IF kind = "error" THEN Report(start, end) ELSE UNCHANGED report
  /\ UNCHANGED <<text, scanned, line_offsets, output, word, inside, opened, depth>>

(* skip_whitespace                                                          *)
SkipBlanks ==
  /\ Here(Blank)
  /\ Goto(Run(cursor, Blank))
  /\ UNCHANGED <<sourceVars, word, inside, opened, depth, tokens>>

(* skip_comment: the rest of the line.                                      *)
SkipLine ==
  /\ Here({"/"}) /\ At(cursor + 1) = "/"
  /\ Goto(Run(cursor + 2, Chars \ {NewLine}))
  /\ UNCHANGED <<sourceVars, word, inside, opened, depth, tokens>>

Comments == Here({"/"}) /\ At(cursor + 1) \in {"/", "*"}

(* skip_comment: a block comment starts here.                               *)
OpenComment ==
  /\ Here({"/"}) /\ At(cursor + 1) = "*"
  /\ Goto(cursor + 2)
  /\ inside' = "comment" /\ opened' = cursor /\ depth' = 1
  /\ UNCHANGED <<sourceVars, word, tokens>>

InComment == inside = "comment" /\ cursor < Length /\ depth > 0

(* A round of the loop over a block comment.                                *)
Nest ==
  /\ InComment
  /\ LET open  == At(cursor) = "/" /\ At(cursor + 1) = "*"
         close == At(cursor) = "*" /\ At(cursor + 1) = "/"
     IN  /\ Goto(IF open \/ close THEN cursor + 2 ELSE cursor + 1)
         /\ depth' = IF open THEN depth + 1 ELSE IF close THEN depth - 1 ELSE depth
  /\ UNCHANGED <<sourceVars, word, inside, opened, tokens>>

(* After the loop; an error, but no token, if the text ended first.         *)
CloseComment ==
  /\ inside = "comment" /\ ~InComment
  /\ inside' = "no" /\ depth' = 0 /\ opened' = 0
  /\ IF depth > 0 THEN Report(opened, cursor) ELSE UNCHANGED report
  /\ UNCHANGED <<text, scanned, line_offsets, output, word, cursor, tokens>>

(* The end of the text.                                                     *)
LexEof == Ready /\ cursor >= Length /\ Token("eof", cursor, cursor)

(* A round of the binary search of keyword_lookup, when look answers for the*)
(* ranges <<lo, hi>> of the rounds after it.                                *)
Round(w, look, range) ==
  LET lo  == range[1]
      hi  == range[2]
      mid == (lo + hi) \div 2
  IN  CASE lo > hi           -> FALSE
        [] lo <= hi /\ w = KEYWORDS[mid] -> TRUE
        [] lo <= hi /\ w < KEYWORDS[mid] -> look[<<lo, mid - 1>>]
        [] lo <= hi /\ w > KEYWORDS[mid] -> look[<<mid + 1, hi>>]

(* keyword_lookup, up to this entry of the table.                           *)
Lookup(w, last) ==
  LET Look[range \in (0 .. 72) \X (-1 .. 71)] == Round(w, Look, range)
  IN  Look[<<0, last>>]

(* Mutant: the search never looks at the last word.                         *)
IsKeywordButLast(w) == Lookup(w, 70)

IsKeyword(w) == Lookup(w, 71)

(* lex_identifier                                                           *)
LexIdentifier ==
  /\ Here(Alpha)
  /\ ~(At(cursor) = "r" /\ At(cursor + 1) = Quote)
  /\ ~(At(cursor) = "b" /\ At(cursor + 1) = Tick)
  /\ LET end == Run(cursor, Alnum)
     IN  Token(IF Slice(cursor, end) = <<"k">> /\ IsKeyword(word)
               THEN "keyword" ELSE "identifier", cursor, end)

(* lex_number with a prefix: 0x, 0b or 0o.                                  *)
Prefixed == At(cursor) = "0" /\ At(cursor + 1) \in {"x", "b", "o"}

LexPrefixed ==
  /\ Here(Digit) /\ Prefixed
  /\ LET digits == CASE At(cursor + 1) = "x" -> HexDigit
                     [] At(cursor + 1) = "b" -> BinDigit
                     [] At(cursor + 1) = "o" -> OctDigit
     IN  IF At(cursor + 2) \in digits
         THEN Token("int", cursor, Run(cursor + 2, digits \cup {"_"}))
         ELSE Token("error", cursor, cursor + 2)

(* Where the fraction ends.                                                 *)
Fraction(i) ==
  IF At(i) = "." /\ At(i + 1) # "." THEN Run(i + 1, Digit \cup {"_"}) ELSE i

(* lex_number, decimal.                                                     *)
LexDecimal ==
  /\ Here(Digit) /\ ~Prefixed
  /\ LET whole == Run(cursor, Digit \cup {"_"})
         point == Fraction(whole)
         power == IF At(point + 1) \in {"+", "-"} THEN point + 2 ELSE point + 1
     IN  IF At(point) # "e"
         THEN Token(IF point > whole THEN "float" ELSE "int", cursor, point)
         ELSE IF At(power) \in Digit
         THEN Token("float", cursor, Run(power, Digit \cup {"_"}))
         ELSE Token("error", cursor, power)

(* lex_string, raw: nothing is escaped.                                     *)
LexRawString ==
  /\ Here({"r"}) /\ At(cursor + 1) = Quote
  /\ LET end == Run(cursor + 2, Chars \ {Quote})
     IN  IF At(end) = Quote THEN Token("raw string", cursor, end + 1)
                            ELSE Token("error", cursor, end)

(* lex_string: the loop over the characters.                                *)
OpenString ==
  /\ Here({Quote})
  /\ Goto(cursor + 1)
  /\ inside' = "string" /\ opened' = cursor
  /\ UNCHANGED <<sourceVars, word, depth, tokens>>

(* Mutant: the character after a backslash is skipped although there is none*)
AfterEscapeBlindly(i) == i + 2

(* After an escape sequence, for \x with up to two hexadecimal digits.      *)
AfterEscape(i) ==
  LET one == IF At(i + 2) \in HexDigit THEN i + 3 ELSE i + 2
      two == IF At(one) \in HexDigit THEN one + 1 ELSE one
  IN  IF i + 1 >= Length THEN i + 1
      ELSE IF At(i + 1) = "x" THEN two ELSE i + 2

(* Mutant: a line break in a string is looked at and not skipped.           *)
InStringOfOneLine ==
  /\ inside = "string" /\ cursor < Length /\ At(cursor) # Quote
  /\ Goto(CASE At(cursor) = BackSlash -> AfterEscape(cursor)
            [] At(cursor) = NewLine   -> cursor
            [] OTHER                  -> cursor + 1)
  /\ UNCHANGED <<sourceVars, word, inside, opened, depth, tokens>>

InString ==
  /\ inside = "string" /\ cursor < Length /\ At(cursor) # Quote
  /\ Goto(IF At(cursor) = BackSlash THEN AfterEscape(cursor) ELSE cursor + 1)
  /\ UNCHANGED <<sourceVars, word, inside, opened, depth, tokens>>

CloseString ==
  /\ inside = "string" /\ (cursor >= Length \/ At(cursor) = Quote)
  /\ inside' = "no" /\ opened' = 0
  /\ LET end == IF At(cursor) = Quote THEN cursor + 1 ELSE cursor
         kind == IF At(cursor) = Quote THEN "string" ELSE "error"
     IN  /\ Goto(end)
         /\ tokens' = Append(tokens, [kind |-> kind, start |-> opened, end |-> end])
         /\ IF kind = "error" THEN Report(opened, end) ELSE UNCHANGED report
  /\ UNCHANGED <<text, scanned, line_offsets, output, word, depth>>

(* lex_escape: where the character after the backslash ends.                *)
Escape(i) ==
  IF At(i) = "x" /\ At(i + 1) \in HexDigit /\ At(i + 2) \in HexDigit THEN i + 3
  ELSE IF i < Length THEN i + 1 ELSE i

(* lex_char; the b of a byte literal is skipped before.  An empty literal   *)
(* leaves the cursor on its closing quote.                                  *)
LexChar ==
  /\ Here({Tick}) \/ (Here({"b"}) /\ At(cursor + 1) = Tick)
  /\ LET start == IF At(cursor) = "b" THEN cursor + 1 ELSE cursor
         first == start + 1
         last  == IF At(first) = BackSlash THEN Escape(first + 1)
                  ELSE IF first < Length THEN first + 1 ELSE first
         rest  == Run(last, Chars \ {Tick, NewLine})
     IN  CASE At(first) = Tick -> Token("error", start, first)
           [] At(first) # Tick /\ At(last) = Tick -> Token("char", start, last + 1)
           [] At(first) # Tick /\ At(last) # Tick ->
                Token("error", start, IF At(rest) = Tick THEN rest + 1 ELSE rest)

(* Mutant: the three characters of an assigning shift are two tokens.       *)
ExtendsOnce(op, c) ==
  /\ Len(op) = 1
  /\ \/ c = "=" /\ op \in {<<o>> : o \in Operator \ {":", "."}}
     \/ c = ">" /\ op \in {<<"-">>, <<"=">>, <<">">>}
     \/ c \in {"<", ":", "."} /\ op = <<c>>

(* lex_operator: match_char takes this character after these.               *)
Extends(op, c) ==
  \/ c = "=" /\ op \in {<<o>> : o \in Operator \ {":", "."}}
                         \cup {<<"<", "<">>, <<">", ">">>, <<".", ".">>}
  \/ c = ">" /\ op \in {<<"-">>, <<"=">>, <<">">>}
  \/ c \in {"<", ":", "."} /\ op = <<c>>

LexOperator ==
  /\ Here(Operator \cup Single) /\ ~Comments
  /\ \E end \in cursor + 1 .. Length :
       /\ \A i \in cursor + 1 .. end - 1 : Extends(Slice(cursor, i), At(i))
       /\ ~Extends(Slice(cursor, end), At(end))
       /\ Token("operator", cursor, end)

LexUnexpected ==
  /\ Here(Chars \ (Blank \cup Alnum \cup Operator \cup Single \cup {Quote, Tick}))
  /\ Token("error", cursor, cursor + 1)

(* The parser reports an error at the token it got.  The next one of the    *)
(* same panic is not reported, see module Parser.                           *)
ParserReports ==
  /\ Loaded /\ ~Reporting /\ inside = "no" /\ tokens # <<>> /\ output = <<>>
  /\ LET t == tokens[Len(tokens)] IN Report(t.start, t.end)
  /\ UNCHANGED <<text, scanned, line_offsets, output, lexVars>>

NextToken ==
  \/ SkipBlanks \/ SkipLine \/ OpenComment \/ Nest \/ CloseComment
  \/ LexIdentifier \/ LexPrefixed \/ LexDecimal
  \/ LexRawString \/ OpenString \/ InString \/ CloseString \/ LexChar
  \/ LexOperator \/ LexUnexpected \/ LexEof

Next ==
  \/ (ScanChar \/ Locate) /\ UNCHANGED lexVars
  \/ NextToken
  \/ ParserReports

Spec == Init /\ [][Next]_vars /\ WF_vars(Next)

-----------------------------------------------------------------------------
(* The tokens lie in the text, one after the other, and the lexer never     *)
(* looks behind its end.  Hazard: several branches skip two characters or   *)
(* more, also at the end of the text and in literals that are not closed.   *)
SpansInOrder ==
  /\ cursor \in 0 .. Length
  /\ \A i \in DOMAIN tokens :
       /\ 0 <= tokens[i].start
       /\ tokens[i].start <= tokens[i].end
       /\ tokens[i].end <= cursor
       /\ i > 1 => tokens[i - 1].end <= tokens[i].start

(* The operators of the language.                                           *)
Operators ==
  {<<o>> : o \in Operator \cup Single} \cup {<<o, "=">> : o \in Operator \ {":", "."}}
    \cup {<<"-", ">">>, <<"=", ">">>, <<"<", "<">>, <<">", ">">>, <<":", ":">>, <<".", ".">>}
    \cup {<<"<", "<", "=">>, <<">", ">", "=">>, <<".", ".", "=">>}

(* The character at i is escaped in what starts at from: an odd number of   *)
(* backslashes stands before it.                                            *)
Escaped(from, i) ==
  \E n \in 0 .. i - from :
     /\ n % 2 = 1
     /\ \A k \in i - n .. i - 1 : At(k) = BackSlash
     /\ i - n > from => At(i - n - 1) # BackSlash

Base(t) == IF Slice(t.start, t.start + 2) \in {<<"0", "x">>, <<"0", "b">>, <<"0", "o">>}
           THEN "prefixed" ELSE "decimal"

Complete(t) ==
  /\ t.kind = "operator" =>
       /\ Slice(t.start, t.end) \in Operators
       /\ \A e \in t.end + 1 .. Length : Slice(t.start, e) \notin Operators
  /\ t.kind = "string" =>
       \A q \in t.start + 1 .. t.end - 1 :
          At(q) = Quote => (q = t.end - 1 <=> ~Escaped(t.start + 1, q))
  /\ t.kind = "raw string" =>
       \A q \in t.start + 2 .. t.end - 1 : At(q) = Quote <=> q = t.end - 1
  /\ t.kind \in {"identifier", "keyword"} =>
       At(t.end) \notin Alnum /\ At(t.start) \notin Digit
  /\ t.kind = "float" =>
       \A q \in t.start .. t.end - 1 : At(q) = "." => At(q + 1) # "."
  /\ t.kind = "int" =>
       (At(t.end) = "." => At(t.end + 1) = "." \/ Base(t) # "decimal")

(* A token is all of what the language takes for it, and no more: an        *)
(* operator is the longest that stands there, a string ends at the first    *)
(* quote that is not escaped, the points of a range are not in a number, a  *)
(* name is not cut.  Hazard: a character that means one thing after another.*)
LongestTokens == \A i \in DOMAIN tokens : Complete(tokens[i])

(* A keyword that is not at its place in the table.                         *)
Misplaced(w) == \E i \in 1 .. 71 : KEYWORDS[i] = w /\ KEYWORDS[i] < KEYWORDS[i - 1]

Listed(w) == \E j \in 0 .. 71 : KEYWORDS[j] = w

KeywordRight(t) ==
  Slice(t.start, t.end) = <<"k">> =>
     /\ t.kind = "keyword" => Listed(word)
     /\ Listed(word) /\ ~Misplaced(word) => t.kind = "keyword"

(* The binary search takes no word for a keyword that is not in the table,  *)
(* and finds every one that is at its place.  The table is not what its     *)
(* comment says, "Must remain sorted alphabetically!" (token.h:232): alloc  *)
(* stands before alias, and alias is never found.  Hazard: the words around *)
(* the wrong place could get lost too.                                      *)
KeywordsInPlace == \A i \in DOMAIN tokens : KeywordRight(tokens[i])

(* Every text is lexed to its end.  Hazard: a branch that returns an error  *)
(* without a step forward.                                                  *)
LexEnds == <>Finished
=============================================================================
