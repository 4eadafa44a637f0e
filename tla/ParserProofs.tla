----------------------------- MODULE ParserProofs -----------------------------
(* Proofs about Parser: what stands on the stack, and in which order, says  *)
(* which error was reported, which operator waits for which operand, and    *)
(* which brackets are open.                                                 *)
EXTENDS Parser, TLAPS, SequenceTheorems

(* What productions are made of.                                            *)
Ordinary ==
  {"<", ">", "(", ")", "[", "]", "lbrace", "rbrace", "semi", ":", "=", "comma", "id",
   "in", "fn", "self"} \cup
  Types \cup Primaries \cup Postfixes \cup Statements \cup
  {"function", "body", "parameter", "fields?", "field?", "imports?", "member",
   "texts?"} \cup
  {"types", "generics", "arguments", "elements", "statements", "parameters", "names",
   "members", "inputs", "attributes"} \cup
  {"skip", "any", "fail", "mut?", "pub?", "comma?", "end", "expression", "whole"}

Symbols ==
  Ordinary \cup {"declaration", "declared", "declarations", "repeat?", "recover",
                 "synchronize", "climb", "join"}

Entry == [does : Symbols, n : Nat, moved : BOOLEAN, operand : Nat]

(* Functions that read a token, also after an error.                        *)
Readers == {"skip", "any", "expression", "postfix", "primary", "statement"}

(* Functions that read a token or report an error.                          *)
Strict == Readers \cup
          {"fail", "type", "generic", "block", "parameter", "member", "declaration",
           "declared", "comma", "lbrace", "id"}

(* Entry a of the stack can stand on entry b.                               *)
Fits(a, b) ==
  /\ a.does # "declarations"
  /\ b.does # "skip"
  /\ a.does \in {"expression", "climb", "join"} => a.n <= 12
  /\ b.does = "climb" => \/ a.does \in {"postfix", "suffix?", "whole"}
                         \/ a.does = "join" /\ b.n < a.n
  /\ b.does = "join" => \/ b.n = 12
                        \/ a.does \in {"expression", "climb"} /\ a.n = b.n
  /\ a.does = "repeat?" => b.does = "elements"
  /\ a.does \in {"recover", "declaration", "declared"} => b.does = "declarations"

Shape(s) ==
  /\ s \in Seq(Entry)
  /\ s # <<>> => s[Len(s)].does = "declarations"
  /\ \A i \in 1..(Len(s) - 1) : Fits(s[i], s[i + 1])

(* Above a loop whose round has read nothing stands what will read a token, *)
(* or report an error.                                                      *)
Moves(s, panicking) ==
  ~panicking =>
    \A i \in 1..Len(s) : ~s[i].moved => \E j \in 1..(i - 1) : s[j].does \in Strict

(* Entry j of the stack will read a token, whatever the token is.           *)
Reads(s, t, j) ==
  \/ s[j].does \in Readers
  \/ j = 1 /\ t = "lbrace" /\ s[1].does \in {"block", "lbrace"}

(* An error that is recovered from has not kept the parser where it was.    *)
Recovers(s, t) ==
  Len(s) > 1 /\ s[Len(s) - 1].does = "recover" /\ ~s[Len(s)].moved =>
    \E j \in 1..(Len(s) - 2) : Reads(s, t, j)

(* What the operand that waits on top of the stack was parsed for.          *)
Binds(s, t) ==
  s # <<>> =>
    /\ s[1].does = "climb" => s[1].operand > s[1].n /\ Precedence(t) <= s[1].operand
    /\ s[1].does = "join"  => /\ s[1].n < 12 => s[1].operand > s[1].n
                              /\ Precedence(t) <= s[1].n

Opening == {"(", "[", "lbrace"}
Closing == {")", "]", "rbrace"}
Bracketing == Opening \cup Closing

(* The symbol at i, or the token that will be read for it.                  *)
Symbol(s, t, i) == IF i = 1 /\ s[1].does = "skip" THEN t ELSE s[i].does

(* What a symbol x does to the closing brackets that the parser waits for:  *)
(* before are those it waits for ahead of x, after those behind it.         *)
Awaits(x, before, after) ==
  /\ x \in Closing => before = <<x>> \o after
  /\ x \in Opening => after = <<Closer[x]>> \o before
  /\ x \notin Bracketing => before = after

(* f[i] are the closing brackets that the stack waits for from i on.        *)
Awaited(f, s, t) ==
  /\ f \in [1..(Len(s) + 1) -> Seq(Closing)]
  /\ f[Len(s) + 1] = <<>>
  /\ \A i \in 1..Len(s) : Awaits(Symbol(s, t, i), f[i], f[i + 1])

(* The brackets that are open are those that are waited for.                *)
Closes(brackets, closers) ==
  /\ brackets \in Seq(Opening)
  /\ Len(brackets) = Len(closers)
  /\ \A i \in 1..Len(brackets) : Closer[brackets[i]] = closers[i]

Matched(s, t, brackets) == \E f : Awaited(f, s, t) /\ Closes(brackets, f[1])

Sound(s, t, panicking, wrong, brackets) ==
  /\ Shape(s)
  /\ Moves(s, panicking)
  /\ Recovers(s, t)
  /\ ~wrong => Matched(s, t, brackets)
  /\ t \in Tokens \cup {"eof"} /\ panicking \in BOOLEAN /\ wrong \in BOOLEAN
  /\ panicking => wrong

Valid(s, t, panicking, wrong, brackets) ==
  Sound(s, t, panicking, wrong, brackets) /\ Binds(s, t)

ParserInv == Valid(stack, token, panic, failed, open)

-----------------------------------------------------------------------------
(* The productions: what each of them puts on the stack in place of its     *)
(* function, and how it encloses brackets.                                  *)

LEMMA Closers ==
  /\ DOMAIN Closer = Opening
  /\ Closer["("] = ")" /\ Closer["["] = "]" /\ Closer["lbrace"] = "rbrace"
BY DEF Closer, Opening

(* The symbol at i of a production, or the token that will be read for it.  *)
Produced(p, i) == IF i = 1 /\ p[1] = "skip" THEN token ELSE p[i]

(* The brackets of a production are at a and b, or it has none.             *)
Pair(p, a, b) ==
  /\ \/ a = 0 /\ b = 0
     \/ 0 < a /\ a < b /\ Produced(p, a) \in Opening /\ p[b] = Closer[Produced(p, a)]
  /\ \A i \in 1..Len(p) : i \notin {a, b} => Produced(p, i) \notin Bracketing

Paired(p) == \E a, b \in 0..Len(p) : Pair(p, a, b)

(* A production of function s as its caller can rely on it.                 *)
Productive(s, p) ==
  /\ p \in Seq(Ordinary)
  /\ Paired(p)
  /\ \A i \in 2..Len(p) : p[i] # "skip"
  /\ s \in Strict => p # <<>> /\ p[1] \in Strict
  /\ s \in Readers => \/ p[1] \in Readers
                      \/ p = <<"fail", "any">>
                      \/ p = <<"block">> /\ token = "lbrace"
  /\ s = "block" => p # <<>> /\ p[1] = "lbrace"
  /\ s \in Postfixes => p # <<>> /\ p[Len(p)] \in {"suffix?", "whole"}

LEMMA TypeProductive ==
  ASSUME NEW s \in Types
  PROVE  Productive(s, ParseType(s))
<1>1. PICK p : p = ParseType(s) OBVIOUS
<1>2. CASE s = "type"
  <2>1. \/ p = <<"skip", "mut?", "type">> /\ token \notin Bracketing
        \/ p = <<"skip", "<", "type", ">">> /\ token \notin Bracketing
        \/ p = <<"skip", "type", "semi", "expression", "]">> /\ token = "["
        \/ p = <<"skip", "generic?">> /\ token \notin Bracketing
        \/ p = <<"skip", "(", "types", ")", "result?">> /\ token \notin Bracketing
        \/ p = <<"skip">> /\ token \notin Bracketing
        \/ p = <<"fail">>
    BY <1>1, <1>2 DEF ParseType, Types, Bracketing, Opening, Closing
  <2>2. p \in Seq(Ordinary)
    <3>1. /\ <<"skip", "mut?", "type">> \in Seq(Ordinary)
          /\ <<"skip", "<", "type", ">">> \in Seq(Ordinary)
          /\ <<"skip", "type", "semi", "expression", "]">> \in Seq(Ordinary)
          /\ <<"skip", "generic?">> \in Seq(Ordinary)
          /\ <<"skip", "(", "types", ")", "result?">> \in Seq(Ordinary)
          /\ <<"skip">> \in Seq(Ordinary)
          /\ <<"fail">> \in Seq(Ordinary)
      BY DEF Ordinary, Types
    <3>2. QED BY <2>1, <3>1, Zenon
  <2>3. Paired(p)
    <3>1. ASSUME \/ p = <<"skip", "mut?", "type">> /\ token \notin Bracketing
                 \/ p = <<"skip", "<", "type", ">">> /\ token \notin Bracketing
                 \/ p = <<"skip", "generic?">> /\ token \notin Bracketing
                 \/ p = <<"skip">> /\ token \notin Bracketing
                 \/ p = <<"fail">>
          PROVE  Pair(p, 0, 0) /\ 0 \in 0..Len(p)
      BY <3>1, Closers DEF Pair, Produced, Bracketing, Opening, Closing
    <3>2. ASSUME p = <<"skip", "type", "semi", "expression", "]">> /\ token = "["
          PROVE  Pair(p, 1, 5) /\ 5 \in 0..Len(p)
      BY <3>2, Closers DEF Pair, Produced, Bracketing, Opening, Closing
    <3>3. ASSUME p = <<"skip", "(", "types", ")", "result?">> /\ token \notin Bracketing
          PROVE  Pair(p, 2, 4) /\ 4 \in 0..Len(p)
      BY <3>3, Closers DEF Pair, Produced, Bracketing, Opening, Closing
    <3>4. QED BY <2>1, <3>1, <3>2, <3>3 DEF Paired
  <2>4. \A i \in 2..Len(p) : p[i] # "skip" BY <2>1
  <2>5. p # <<>> /\ p[1] \in {"skip", "fail"}
    BY <1>1, <1>2, <2>1 DEF ParseType, Types, Strict, Readers, Bracketing,
                           Opening, Closing
  <2>6. QED BY <1>1, <1>2, <2>2, <2>3, <2>4, <2>5
           DEF Productive, Readers, Strict, Postfixes, Types
<1>3. CASE s # "type"
  <2>1. \/ p = <<"skip", "generics", ">">> /\ token \notin Bracketing
        \/ p = <<>>
        \/ p = <<"type">>
        \/ p = <<"any">>
        \/ p = <<"skip", "type">> /\ token \notin Bracketing
    BY <1>1, <1>3 DEF ParseType, Types, Bracketing, Opening, Closing
  <2>2. p \in Seq(Ordinary)
    <3>1. /\ <<"skip", "generics", ">">> \in Seq(Ordinary)
          /\ <<>> \in Seq(Ordinary)
          /\ <<"type">> \in Seq(Ordinary)
          /\ <<"any">> \in Seq(Ordinary)
          /\ <<"skip", "type">> \in Seq(Ordinary)
      BY DEF Ordinary, Types
    <3>2. QED BY <2>1, <3>1, Zenon
  <2>3. Paired(p)
    <3>1. ASSUME \/ p = <<"skip", "generics", ">">> /\ token \notin Bracketing
                 \/ p = <<>>
                 \/ p = <<"type">>
                 \/ p = <<"any">>
                 \/ p = <<"skip", "type">> /\ token \notin Bracketing
          PROVE  Pair(p, 0, 0) /\ 0 \in 0..Len(p)
      BY <3>1, Closers DEF Pair, Produced, Bracketing, Opening, Closing
    <3>2. QED BY <2>1, <3>1 DEF Paired
  <2>4. \A i \in 2..Len(p) : p[i] # "skip" BY <2>1
  <2>5. s \in Strict => p # <<>> /\ p[1] \in {"type", "any"}
    BY <1>1, <1>3, <2>1 DEF ParseType, Types, Strict, Readers, Bracketing,
                           Opening, Closing
  <2>6. QED BY <1>1, <1>3, <2>2, <2>3, <2>4, <2>5
           DEF Productive, Readers, Strict, Postfixes, Types
<1>4. QED BY <1>2, <1>3 DEF Types

LEMMA PrimaryProductive ==
  ASSUME NEW s \in Primaries
  PROVE  Productive(s, ParsePrimary(s))
<1>1. PICK p : p = ParsePrimary(s) OBVIOUS
<1>2. CASE s = "primary"
  <2>1. \/ p = <<"skip">> /\ token \notin Bracketing
        \/ p = <<"skip", "expression", ")">> /\ token = "("
        \/ p = <<"block">>
        \/ p = <<"skip", "expression", "block", "else?">> /\ token \notin Bracketing
        \/ p = <<"skip", "block">> /\ token \notin Bracketing
        \/ p = <<"skip", "expression", "block">> /\ token \notin Bracketing
        \/ p = <<"skip", "id", "in", "expression", "block">> /\ token \notin Bracketing
        \/ p = <<"skip", "primary">> /\ token \notin Bracketing
        \/ p = <<"skip", "mut?", "primary">> /\ token \notin Bracketing
        \/ p = <<"skip", "elements", "]">> /\ token = "["
        \/ p = <<"skip", "macro?">> /\ token \notin Bracketing
        \/ p = <<"fail", "any">>
    BY <1>1, <1>2 DEF ParsePrimary, Primaries, Bracketing, Opening, Closing
  <2>2. p \in Seq(Ordinary)
    <3>1. /\ <<"skip">> \in Seq(Ordinary)
          /\ <<"skip", "expression", ")">> \in Seq(Ordinary)
          /\ <<"block">> \in Seq(Ordinary)
          /\ <<"skip", "expression", "block", "else?">> \in Seq(Ordinary)
          /\ <<"skip", "block">> \in Seq(Ordinary)
          /\ <<"skip", "expression", "block">> \in Seq(Ordinary)
          /\ <<"skip", "id", "in", "expression", "block">> \in Seq(Ordinary)
          /\ <<"skip", "primary">> \in Seq(Ordinary)
          /\ <<"skip", "mut?", "primary">> \in Seq(Ordinary)
          /\ <<"skip", "elements", "]">> \in Seq(Ordinary)
          /\ <<"skip", "macro?">> \in Seq(Ordinary)
          /\ <<"fail", "any">> \in Seq(Ordinary)
      BY DEF Ordinary, Statements, Primaries
    <3>2. QED BY <2>1, <3>1, Zenon
  <2>3. Paired(p)
    <3>1. ASSUME \/ p = <<"skip">> /\ token \notin Bracketing
                 \/ p = <<"block">>
                 \/ p = <<"skip", "expression", "block", "else?">> /\ token \notin Bracketing
                 \/ p = <<"skip", "block">> /\ token \notin Bracketing
                 \/ p = <<"skip", "expression", "block">> /\ token \notin Bracketing
                 \/ p = <<"skip", "id", "in", "expression", "block">> /\ token \notin Bracketing
                 \/ p = <<"skip", "primary">> /\ token \notin Bracketing
                 \/ p = <<"skip", "mut?", "primary">> /\ token \notin Bracketing
                 \/ p = <<"skip", "macro?">> /\ token \notin Bracketing
                 \/ p = <<"fail", "any">>
          PROVE  Pair(p, 0, 0) /\ 0 \in 0..Len(p)
      BY <3>1, Closers DEF Pair, Produced, Bracketing, Opening, Closing
    <3>2. ASSUME \/ p = <<"skip", "expression", ")">> /\ token = "("
                 \/ p = <<"skip", "elements", "]">> /\ token = "["
          PROVE  Pair(p, 1, 3) /\ 3 \in 0..Len(p)
      BY <3>2, Closers DEF Pair, Produced, Bracketing, Opening, Closing
    <3>3. QED BY <2>1, <3>1, <3>2 DEF Paired
  <2>4. \A i \in 2..Len(p) : p[i] # "skip" BY <2>1
  <2>5. /\ p # <<>> /\ p[1] \in {"skip", "block", "fail"}
        /\ p[1] = "skip" \/ p = <<"fail", "any">> \/ (p = <<"block">> /\ token = "lbrace")
    BY <1>1, <1>2, <2>1 DEF ParsePrimary, Primaries, Strict, Readers, Bracketing,
                           Opening, Closing
  <2>6. QED BY <1>1, <1>2, <2>2, <2>3, <2>4, <2>5
           DEF Productive, Readers, Strict, Postfixes, Primaries
<1>3. CASE s # "primary"
  <2>1. \/ p = <<"skip", "branch">> /\ token \notin Bracketing
        \/ p = <<>>
        \/ p = <<"primary">>
        \/ p = <<"block">>
        \/ p = <<"skip", "(", "text", ")">> /\ token \notin Bracketing
        \/ p = <<"path?">>
        \/ p = <<"any", "text">>
        \/ p = <<"skip", "any", "path?">> /\ token \notin Bracketing
    BY <1>1, <1>3 DEF ParsePrimary, Primaries, Bracketing, Opening, Closing
  <2>2. p \in Seq(Ordinary)
    <3>1. /\ <<"skip", "branch">> \in Seq(Ordinary)
          /\ <<>> \in Seq(Ordinary)
          /\ <<"primary">> \in Seq(Ordinary)
          /\ <<"block">> \in Seq(Ordinary)
          /\ <<"skip", "(", "text", ")">> \in Seq(Ordinary)
          /\ <<"path?">> \in Seq(Ordinary)
          /\ <<"any", "text">> \in Seq(Ordinary)
          /\ <<"skip", "any", "path?">> \in Seq(Ordinary)
      BY DEF Ordinary, Statements, Primaries
    <3>2. QED BY <2>1, <3>1, Zenon
  <2>3. Paired(p)
    <3>1. ASSUME \/ p = <<"skip", "branch">> /\ token \notin Bracketing
                 \/ p = <<>>
                 \/ p = <<"primary">>
                 \/ p = <<"block">>
                 \/ p = <<"path?">>
                 \/ p = <<"any", "text">>
                 \/ p = <<"skip", "any", "path?">> /\ token \notin Bracketing
          PROVE  Pair(p, 0, 0) /\ 0 \in 0..Len(p)
      BY <3>1, Closers DEF Pair, Produced, Bracketing, Opening, Closing
    <3>2. ASSUME p = <<"skip", "(", "text", ")">> /\ token \notin Bracketing
          PROVE  Pair(p, 2, 4) /\ 4 \in 0..Len(p)
      BY <3>2, Closers DEF Pair, Produced, Bracketing, Opening, Closing
    <3>3. QED BY <2>1, <3>1, <3>2 DEF Paired
  <2>4. \A i \in 2..Len(p) : p[i] # "skip" BY <2>1
  <2>5. s \notin Strict
    BY <1>1, <1>3, <2>1 DEF ParsePrimary, Primaries, Strict, Readers, Bracketing,
                           Opening, Closing
  <2>6. QED BY <1>1, <1>3, <2>2, <2>3, <2>4, <2>5
           DEF Productive, Readers, Strict, Postfixes, Primaries
<1>4. QED BY <1>2, <1>3 DEF Primaries

LEMMA PostfixProductive ==
  ASSUME NEW s \in Postfixes
  PROVE  Productive(s, ParsePostfix(s))
<1>1. PICK p : p = ParsePostfix(s) OBVIOUS
<1>2. CASE s = "postfix"
  <2>1. \/ p = <<"primary", "suffix?">>
    BY <1>1, <1>2 DEF ParsePostfix, Postfixes, Bracketing, Opening, Closing
  <2>2. p \in Seq(Ordinary)
    <3>1. /\ <<"primary", "suffix?">> \in Seq(Ordinary)
      BY DEF Ordinary, Primaries, Postfixes
    <3>2. QED BY <2>1, <3>1, Zenon
  <2>3. Paired(p)
    <3>1. ASSUME p = <<"primary", "suffix?">>
          PROVE  Pair(p, 0, 0) /\ 0 \in 0..Len(p)
      BY <3>1, Closers DEF Pair, Produced, Bracketing, Opening, Closing
    <3>2. QED BY <2>1, <3>1 DEF Paired
  <2>4. \A i \in 2..Len(p) : p[i] # "skip" BY <2>1
  <2>5. p # <<>> /\ p[Len(p)] \in {"suffix?", "whole"} /\ p[1] = "primary"
    BY <1>1, <1>2, <2>1 DEF ParsePostfix, Postfixes, Strict, Readers, Bracketing,
                           Opening, Closing
  <2>6. QED BY <1>1, <1>2, <2>2, <2>3, <2>4, <2>5
           DEF Productive, Readers, Strict, Postfixes
<1>3. CASE s = "suffix?"
  <2>1. \/ p = <<"skip", "arguments", ")", "suffix?">> /\ token = "("
        \/ p = <<"skip", "any", "suffix?">> /\ token \notin Bracketing
        \/ p = <<"skip", "expression", "]", "suffix?">> /\ token = "["
        \/ p = <<"skip", "suffix?">> /\ token \notin Bracketing
        \/ p = <<"whole">>
    BY <1>1, <1>3 DEF ParsePostfix, Postfixes, Bracketing, Opening, Closing
  <2>2. p \in Seq(Ordinary)
    <3>1. /\ <<"skip", "arguments", ")", "suffix?">> \in Seq(Ordinary)
          /\ <<"skip", "any", "suffix?">> \in Seq(Ordinary)
          /\ <<"skip", "expression", "]", "suffix?">> \in Seq(Ordinary)
          /\ <<"skip", "suffix?">> \in Seq(Ordinary)
          /\ <<"whole">> \in Seq(Ordinary)
      BY DEF Ordinary, Primaries, Postfixes
    <3>2. QED BY <2>1, <3>1, Zenon
  <2>3. Paired(p)
    <3>1. ASSUME \/ p = <<"skip", "arguments", ")", "suffix?">> /\ token = "("
                 \/ p = <<"skip", "expression", "]", "suffix?">> /\ token = "["
          PROVE  Pair(p, 1, 3) /\ 3 \in 0..Len(p)
      BY <3>1, Closers DEF Pair, Produced, Bracketing, Opening, Closing
    <3>2. ASSUME \/ p = <<"skip", "any", "suffix?">> /\ token \notin Bracketing
                 \/ p = <<"skip", "suffix?">> /\ token \notin Bracketing
                 \/ p = <<"whole">>
          PROVE  Pair(p, 0, 0) /\ 0 \in 0..Len(p)
      BY <3>2, Closers DEF Pair, Produced, Bracketing, Opening, Closing
    <3>3. QED BY <2>1, <3>1, <3>2 DEF Paired
  <2>4. \A i \in 2..Len(p) : p[i] # "skip" BY <2>1
  <2>5. p # <<>> /\ p[Len(p)] \in {"suffix?", "whole"}
    BY <1>1, <1>3, <2>1 DEF ParsePostfix, Postfixes, Strict, Readers, Bracketing,
                           Opening, Closing
  <2>6. QED BY <1>1, <1>3, <2>2, <2>3, <2>4, <2>5
           DEF Productive, Readers, Strict, Postfixes
<1>4. QED BY <1>2, <1>3 DEF Postfixes

LEMMA StatementProductive ==
  ASSUME NEW s \in Statements
  PROVE  Productive(s, ParseStatement(s))
<1>1. PICK p : p = ParseStatement(s) OBVIOUS
<1>2. CASE s = "statement"
  <2>1. \/ p = <<"skip", "mut?", "id", "type?", "=", "expression", "semi">> /\ token \notin Bracketing
        \/ p = <<"skip", "returned?", "semi">> /\ token \notin Bracketing
        \/ p = <<"skip", "semi">> /\ token \notin Bracketing
        \/ p = <<"skip", "expression", "semi">> /\ token \notin Bracketing
        \/ p = <<"expression", "assign?">>
    BY <1>1, <1>2 DEF ParseStatement, Statements, Bracketing, Opening, Closing
  <2>2. p \in Seq(Ordinary)
    <3>1. /\ <<"skip", "mut?", "id", "type?", "=", "expression", "semi">> \in Seq(Ordinary)
          /\ <<"skip", "returned?", "semi">> \in Seq(Ordinary)
          /\ <<"skip", "semi">> \in Seq(Ordinary)
          /\ <<"skip", "expression", "semi">> \in Seq(Ordinary)
          /\ <<"expression", "assign?">> \in Seq(Ordinary)
      BY DEF Ordinary, Statements
    <3>2. QED BY <2>1, <3>1, Zenon
  <2>3. Paired(p)
    <3>1. ASSUME \/ p = <<"skip", "mut?", "id", "type?", "=", "expression", "semi">> /\ token \notin Bracketing
                 \/ p = <<"skip", "returned?", "semi">> /\ token \notin Bracketing
                 \/ p = <<"skip", "semi">> /\ token \notin Bracketing
                 \/ p = <<"skip", "expression", "semi">> /\ token \notin Bracketing
                 \/ p = <<"expression", "assign?">>
          PROVE  Pair(p, 0, 0) /\ 0 \in 0..Len(p)
      BY <3>1, Closers DEF Pair, Produced, Bracketing, Opening, Closing
    <3>2. QED BY <2>1, <3>1 DEF Paired
  <2>4. \A i \in 2..Len(p) : p[i] # "skip" BY <2>1
  <2>5. p # <<>> /\ p[1] \in {"skip", "expression"}
    BY <1>1, <1>2, <2>1 DEF ParseStatement, Statements, Strict, Readers, Bracketing,
                           Opening, Closing
  <2>6. QED BY <1>1, <1>2, <2>2, <2>3, <2>4, <2>5
           DEF Productive, Readers, Strict, Postfixes, Statements
<1>3. CASE s # "statement"
  <2>1. \/ p = <<"skip", "type">> /\ token \notin Bracketing
        \/ p = <<>>
        \/ p = <<"expression">>
        \/ p = <<"skip", "expression", "semi">> /\ token \notin Bracketing
        \/ p = <<"end">>
        \/ p = <<"lbrace", "statements", "rbrace">>
    BY <1>1, <1>3 DEF ParseStatement, Statements, Bracketing, Opening, Closing
  <2>2. p \in Seq(Ordinary)
    <3>1. /\ <<"skip", "type">> \in Seq(Ordinary)
          /\ <<>> \in Seq(Ordinary)
          /\ <<"expression">> \in Seq(Ordinary)
          /\ <<"skip", "expression", "semi">> \in Seq(Ordinary)
          /\ <<"end">> \in Seq(Ordinary)
          /\ <<"lbrace", "statements", "rbrace">> \in Seq(Ordinary)
      BY DEF Ordinary, Types, Statements
    <3>2. QED BY <2>1, <3>1, Zenon
  <2>3. Paired(p)
    <3>1. ASSUME \/ p = <<"skip", "type">> /\ token \notin Bracketing
                 \/ p = <<>>
                 \/ p = <<"expression">>
                 \/ p = <<"skip", "expression", "semi">> /\ token \notin Bracketing
                 \/ p = <<"end">>
          PROVE  Pair(p, 0, 0) /\ 0 \in 0..Len(p)
      BY <3>1, Closers DEF Pair, Produced, Bracketing, Opening, Closing
    <3>2. ASSUME p = <<"lbrace", "statements", "rbrace">>
          PROVE  Pair(p, 1, 3) /\ 3 \in 0..Len(p)
      BY <3>2, Closers DEF Pair, Produced, Bracketing, Opening, Closing
    <3>3. QED BY <2>1, <3>1, <3>2 DEF Paired
  <2>4. \A i \in 2..Len(p) : p[i] # "skip" BY <2>1
  <2>5. /\ s = "block" => p # <<>> /\ p[1] = "lbrace"
        /\ s \in Strict => s = "block"
    BY <1>1, <1>3, <2>1 DEF ParseStatement, Statements, Strict, Readers, Bracketing,
                           Opening, Closing
  <2>6. QED BY <1>1, <1>3, <2>2, <2>3, <2>4, <2>5
           DEF Productive, Readers, Strict, Postfixes, Statements
<1>4. QED BY <1>2, <1>3 DEF Statements

LEMMA DeclaredProductive ==
  ASSUME NEW s \in Declared \ {"declaration", "declared"}
  PROVE  Productive(s, ParseDeclaration(s))
<1>1. PICK p : p = ParseDeclaration(s) OBVIOUS
<1>2. CASE s \notin {"parameter", "member"}
  <2>1. \/ p = <<"id", "(", "parameters", ")", "result?", "body">>
        \/ p = <<"block">>
        \/ p = <<"semi">>
        \/ p = <<>>
        \/ p = <<"pub?", "id", ":", "type", "field?">>
        \/ p = <<"skip", "fields?">> /\ token \notin Bracketing
        \/ p = <<"skip", "names", "rbrace">> /\ token = "lbrace"
        \/ p = <<"skip", "text", ")">> /\ token = "("
    BY <1>1, <1>2 DEF ParseDeclaration, Declared, Bracketing, Opening, Closing
  <2>2. p \in Seq(Ordinary)
    <3>1. /\ <<"id", "(", "parameters", ")", "result?", "body">> \in Seq(Ordinary)
          /\ <<"block">> \in Seq(Ordinary)
          /\ <<"semi">> \in Seq(Ordinary)
          /\ <<>> \in Seq(Ordinary)
          /\ <<"pub?", "id", ":", "type", "field?">> \in Seq(Ordinary)
          /\ <<"skip", "fields?">> \in Seq(Ordinary)
          /\ <<"skip", "names", "rbrace">> \in Seq(Ordinary)
          /\ <<"skip", "text", ")">> \in Seq(Ordinary)
      BY DEF Ordinary, Types, Statements, Primaries, Declared
    <3>2. QED BY <2>1, <3>1, Zenon
  <2>3. Paired(p)
    <3>1. ASSUME p = <<"id", "(", "parameters", ")", "result?", "body">>
          PROVE  Pair(p, 2, 4) /\ 4 \in 0..Len(p)
      BY <3>1, Closers DEF Pair, Produced, Bracketing, Opening, Closing
    <3>2. ASSUME \/ p = <<"block">>
                 \/ p = <<"semi">>
                 \/ p = <<>>
                 \/ p = <<"pub?", "id", ":", "type", "field?">>
                 \/ p = <<"skip", "fields?">> /\ token \notin Bracketing
          PROVE  Pair(p, 0, 0) /\ 0 \in 0..Len(p)
      BY <3>2, Closers DEF Pair, Produced, Bracketing, Opening, Closing
    <3>3. ASSUME \/ p = <<"skip", "names", "rbrace">> /\ token = "lbrace"
                 \/ p = <<"skip", "text", ")">> /\ token = "("
          PROVE  Pair(p, 1, 3) /\ 3 \in 0..Len(p)
      BY <3>3, Closers DEF Pair, Produced, Bracketing, Opening, Closing
    <3>4. QED BY <2>1, <3>1, <3>2, <3>3 DEF Paired
  <2>4. \A i \in 2..Len(p) : p[i] # "skip" BY <2>1
  <2>5. s \notin Strict
    BY <1>1, <1>2, <2>1 DEF ParseDeclaration, Declared, Strict, Readers, Bracketing,
                           Opening, Closing
  <2>6. QED BY <1>1, <1>2, <2>2, <2>3, <2>4, <2>5
           DEF Productive, Readers, Strict, Postfixes, Declared
<1>3. CASE s \in {"parameter", "member"}
  <2>1. \/ p = <<"skip", "mut?", "self", "type?">> /\ token \notin Bracketing
        \/ p = <<"skip", "type?">> /\ token \notin Bracketing
        \/ p = <<"id", ":", "type">>
        \/ p = <<"skip", "function">> /\ token \notin Bracketing
        \/ p = <<"skip", "fn", "function">> /\ token \notin Bracketing
        \/ p = <<"id", ":", "type", "comma?">>
    BY <1>1, <1>3 DEF ParseDeclaration, Declared, Bracketing, Opening, Closing
  <2>2. p \in Seq(Ordinary)
    <3>1. /\ <<"skip", "mut?", "self", "type?">> \in Seq(Ordinary)
          /\ <<"skip", "type?">> \in Seq(Ordinary)
          /\ <<"id", ":", "type">> \in Seq(Ordinary)
          /\ <<"skip", "function">> \in Seq(Ordinary)
          /\ <<"skip", "fn", "function">> \in Seq(Ordinary)
          /\ <<"id", ":", "type", "comma?">> \in Seq(Ordinary)
      BY DEF Ordinary, Types, Statements, Declared
    <3>2. QED BY <2>1, <3>1, Zenon
  <2>3. Paired(p)
    <3>1. ASSUME \/ p = <<"skip", "mut?", "self", "type?">> /\ token \notin Bracketing
                 \/ p = <<"skip", "type?">> /\ token \notin Bracketing
                 \/ p = <<"id", ":", "type">>
                 \/ p = <<"skip", "function">> /\ token \notin Bracketing
                 \/ p = <<"skip", "fn", "function">> /\ token \notin Bracketing
                 \/ p = <<"id", ":", "type", "comma?">>
          PROVE  Pair(p, 0, 0) /\ 0 \in 0..Len(p)
      BY <3>1, Closers DEF Pair, Produced, Bracketing, Opening, Closing
    <3>2. QED BY <2>1, <3>1 DEF Paired
  <2>4. \A i \in 2..Len(p) : p[i] # "skip" BY <2>1
  <2>5. p # <<>> /\ p[1] \in {"skip", "id"}
    BY <1>1, <1>3, <2>1 DEF ParseDeclaration, Declared, Strict, Readers, Bracketing,
                           Opening, Closing
  <2>6. QED BY <1>1, <1>3, <2>2, <2>3, <2>4, <2>5
           DEF Productive, Readers, Strict, Postfixes, Declared
<1>4. QED BY <1>2, <1>3 DEF Declared

LEMMA DeclarationProduced ==
  LET p == ParseDeclaration("declared")
  IN  \/ /\ p \in Seq(Ordinary) /\ p # <<>> /\ p[1] = "skip" /\ Paired(p)
         /\ \A i \in 2..Len(p) : p[i] # "skip"
      \/ p = <<"statement", "recover">>
<1>1. PICK p : p = ParseDeclaration("declared") OBVIOUS
<1>2. \/ p = <<"skip", "function">> /\ token \notin Bracketing
      \/ p = <<"skip", "fn", "function">> /\ token \notin Bracketing
      \/ p = <<"skip", "id", "lbrace", "fields?", "rbrace">> /\ token \notin Bracketing
      \/ p = <<"skip", "expression", "semi">> /\ token \notin Bracketing
      \/ p = <<"skip", "expression", "imports?", "semi">> /\ token \notin Bracketing
      \/ p = <<"skip", "id", ":", "type", "=", "expression", "semi">> /\ token \notin Bracketing
      \/ p = <<"skip", "id", "lbrace", "members", "rbrace">> /\ token \notin Bracketing
      \/ p = <<"skip", "id", "(", "inputs", ")", "result?", "block">> /\ token \notin Bracketing
      \/ p = <<"statement", "recover">>
  BY <1>1 DEF ParseDeclaration, Bracketing, Opening, Closing
<1>3. /\ <<"skip", "function">> \in Seq(Ordinary)
      /\ <<"skip", "fn", "function">> \in Seq(Ordinary)
      /\ <<"skip", "id", "lbrace", "fields?", "rbrace">> \in Seq(Ordinary)
      /\ <<"skip", "expression", "semi">> \in Seq(Ordinary)
      /\ <<"skip", "expression", "imports?", "semi">> \in Seq(Ordinary)
      /\ <<"skip", "id", ":", "type", "=", "expression", "semi">> \in Seq(Ordinary)
      /\ <<"skip", "id", "lbrace", "members", "rbrace">> \in Seq(Ordinary)
      /\ <<"skip", "id", "(", "inputs", ")", "result?", "block">> \in Seq(Ordinary)
  BY DEF Ordinary, Types, Statements
<1>4. p = <<"statement", "recover">> \/ p \in Seq(Ordinary) BY <1>2, <1>3, Zenon
<1>5. p = <<"statement", "recover">> \/ Paired(p)
  <2>1. ASSUME \/ p = <<"skip", "function">> /\ token \notin Bracketing
               \/ p = <<"skip", "fn", "function">> /\ token \notin Bracketing
               \/ p = <<"skip", "expression", "semi">> /\ token \notin Bracketing
               \/ p = <<"skip", "expression", "imports?", "semi">> /\ token \notin Bracketing
               \/ p = <<"skip", "id", ":", "type", "=", "expression", "semi">> /\ token \notin Bracketing
        PROVE  Pair(p, 0, 0) /\ 0 \in 0..Len(p)
    BY <2>1, Closers DEF Pair, Produced, Bracketing, Opening, Closing
  <2>2. ASSUME \/ p = <<"skip", "id", "lbrace", "fields?", "rbrace">> /\ token \notin Bracketing
               \/ p = <<"skip", "id", "lbrace", "members", "rbrace">> /\ token \notin Bracketing
               \/ p = <<"skip", "id", "(", "inputs", ")", "result?", "block">> /\ token \notin Bracketing
        PROVE  Pair(p, 3, 5) /\ 5 \in 0..Len(p)
    BY <2>2, Closers, SMTT(30) DEF Pair, Produced, Bracketing, Opening, Closing
  <2>3. QED BY <1>2, <2>1, <2>2 DEF Paired
<1>6. /\ p = <<"statement", "recover">> \/ (p # <<>> /\ p[1] = "skip")
      /\ \A i \in 2..Len(p) : p[i] # "skip"
  BY <1>2
<1>7. QED BY <1>1, <1>4, <1>5, <1>6

-----------------------------------------------------------------------------
(* What the actions do to the stack: they put entries in place of its head, *)
(* and change what the entries say besides their symbol and number.         *)

LEMMA Spliced ==
  ASSUME NEW S, NEW s \in Seq(S), s # <<>>, NEW p \in Seq(S)
  PROVE  /\ p \o Tail(s) \in Seq(S)
         /\ Len(p \o Tail(s)) = Len(p) + Len(s) - 1
         /\ \A i \in 1..Len(p) : (p \o Tail(s))[i] = p[i]
         /\ \A i \in 2..Len(s) : (p \o Tail(s))[Len(p) + i - 1] = s[i]
<1>1. Tail(s) \in Seq(S) /\ Len(Tail(s)) = Len(s) - 1
      /\ \A i \in 1..(Len(s) - 1) : Tail(s)[i] = s[i + 1]
  OBVIOUS
<1>2. QED BY <1>1

LEMMA Itemized ==
  ASSUME NEW p \in Seq(Symbols)
  PROVE  /\ Items(p) \in Seq(Entry)
         /\ Len(Items(p)) = Len(p)
         /\ \A i \in 1..Len(p) : /\ Items(p)[i] = Item(p[i])
                                 /\ Items(p)[i].does = p[i]
                                 /\ Items(p)[i].n = 0
                                 /\ Items(p)[i].moved = TRUE
                                 /\ Items(p)[i].operand = 0
<1>1. \A i \in 1..Len(p) : Item(p[i]) \in Entry
  <2>1. \A i \in 1..Len(p) : p[i] \in Symbols OBVIOUS
  <2>2. QED BY <2>1 DEF Item, Entry
<1>2. Items(p) \in Seq(Entry) /\ Len(Items(p)) = Len(p)
  BY <1>1 DEF Items
<1>3. ASSUME NEW i \in 1..Len(p)
      PROVE  Items(p)[i] = Item(p[i])
  BY DEF Items
<1>4. ASSUME NEW x
      PROVE  /\ Item(x).does = x /\ Item(x).n = 0
             /\ Item(x).moved = TRUE /\ Item(x).operand = 0
  BY DEF Item
<1>5. ASSUME NEW i \in 1..Len(p)
      PROVE  /\ Items(p)[i].does = p[i] /\ Items(p)[i].n = 0
             /\ Items(p)[i].moved = TRUE /\ Items(p)[i].operand = 0
  <2>1. Items(p)[i] = Item(p[i]) BY <1>3
  <2>2. QED BY <2>1, <1>4
<1>6. QED BY <1>2, <1>3, <1>5

LEMMA SplicedAlone ==
  ASSUME NEW S, NEW s \in Seq(S), NEW p \in Seq(S)
  PROVE  /\ Len(s) = 1 => Tail(s) = <<>> /\ p \o Tail(s) = p
         /\ s # <<>> => <<>> \o Tail(s) = Tail(s)
<1>1. p \o <<>> = p BY ConcatEmptySeq
<1>2. s # <<>> => Tail(s) \in Seq(S) OBVIOUS
<1>3. s # <<>> => <<>> \o Tail(s) = Tail(s) BY <1>2, ConcatEmptySeq
<1>4. ASSUME Len(s) = 1 PROVE Tail(s) = <<>>
  <2>1. Tail(s) \in Seq(S) /\ Len(Tail(s)) = 0 BY <1>4
  <2>2. QED BY <2>1, EmptySeq
<1>5. QED BY <1>1, <1>3, <1>4

LEMMA NotEmpty ==
  ASSUME NEW s, Len(s) # 0 PROVE s # <<>>
BY EmptySeq

LEMMA HeadSpliced ==
  ASSUME NEW s \in Seq(Entry), s # <<>>, NEW p \in Seq(Entry), p # <<>>
  PROVE  /\ (p \o Tail(s))[1] = p[1] /\ Len(p \o Tail(s)) = Len(p) + Len(s) - 1
         /\ Len(s) > 1 => (p \o Tail(s))[Len(p) + 1] = s[2]
<1>1. 1 \in 1..Len(p) OBVIOUS
<1>2. Len(s) > 1 => 2 \in 2..Len(s) /\ Len(p) + 2 - 1 = Len(p) + 1 OBVIOUS
<1>3. QED BY <1>1, <1>2, Spliced

LEMMA ShapeSpliced ==
  ASSUME NEW s, Shape(s), s # <<>>, NEW p \in Seq(Entry),
         \A i \in 1..(Len(p) - 1) : Fits(p[i], p[i + 1]),
         p # <<>> /\ Len(s) > 1 => Fits(p[Len(p)], s[2]),
         Len(s) = 1 /\ p # <<>> => p[Len(p)].does = "declarations"
  PROVE  Shape(p \o Tail(s))
<1> DEFINE r == p \o Tail(s)
<1>1. /\ s \in Seq(Entry) /\ s[Len(s)].does = "declarations"
      /\ Len(s) \in Nat /\ Len(s) >= 1 /\ Len(p) \in Nat
  BY DEF Shape
<1>2. /\ r \in Seq(Entry)
      /\ Len(r) = Len(p) + Len(s) - 1
      /\ \A i \in 1..Len(p) : r[i] = p[i]
      /\ \A i \in 2..Len(s) : r[Len(p) + i - 1] = s[i]
  BY <1>1, Spliced
<1> HIDE DEF r
<1>3. r # <<>> => r[Len(r)].does = "declarations"
  <2>1. CASE Len(s) > 1
    <3>1. r[Len(p) + Len(s) - 1] = s[Len(s)] BY <1>1, <1>2, <2>1
    <3>2. QED BY <1>1, <1>2, <3>1
  <2>2. CASE Len(s) = 1 BY <1>1, <1>2, <2>2
  <2>3. \A n \in Nat : n >= 1 => n = 1 \/ n > 1 OBVIOUS
  <2>4. Len(s) = 1 \/ Len(s) > 1 BY <1>1, <2>3, Zenon
  <2>5. QED BY <2>1, <2>2, <2>4, Zenon
<1>4. ASSUME NEW i \in 1..(Len(r) - 1)
      PROVE  Fits(r[i], r[i + 1])
  <2>1. CASE i < Len(p)
    <3>1. r[i] = p[i] /\ r[i + 1] = p[i + 1] BY <1>2, <2>1
    <3>2. QED BY <2>1, <3>1
  <2>2. CASE i = Len(p)
    <3>1. Len(s) > 1 /\ r[i] = p[i] /\ r[i + 1] = s[2] BY <1>1, <1>2, <2>2
    <3>2. QED BY <2>2, <3>1
  <2>3. CASE i > Len(p)
    <3>1. PICK k \in Nat : k = i - Len(p) + 1 BY <1>1, <1>2, <2>3
    <3>2. k \in 2..(Len(s) - 1) BY <1>1, <1>2, <2>3, <3>1
    <3>3. /\ r[Len(p) + k - 1] = s[k]
          /\ r[Len(p) + (k + 1) - 1] = s[k + 1]
      BY <1>1, <1>2, <3>2
    <3>4. r[i] = s[k] /\ r[i + 1] = s[k + 1] BY <1>1, <3>1, <3>2, <3>3
    <3>5. QED BY <3>2, <3>4 DEF Shape
  <2>4. QED BY <1>2, <2>1, <2>2, <2>3
<1>5. Shape(r) BY <1>2, <1>3, <1>4 DEF Shape
<1>6. QED BY <1>5 DEF r

LEMMA ShapeAlike ==
  ASSUME NEW s, Shape(s), NEW r \in Seq(Entry), Len(r) = Len(s),
         \A i \in 1..Len(s) : r[i].does = s[i].does /\ r[i].n = s[i].n
  PROVE  Shape(r)
<1>1. s \in Seq(Entry) BY DEF Shape
<1>2. r # <<>> => r[Len(r)].does = "declarations" BY <1>1 DEF Shape
<1>3. ASSUME NEW i \in 1..(Len(r) - 1)
      PROVE  Fits(r[i], r[i + 1])
  <2>1. Fits(s[i], s[i + 1]) BY <1>1 DEF Shape
  <2>2. i \in 1..Len(s) /\ i + 1 \in 1..Len(s) BY <1>1
  <2>3. QED BY <2>1, <2>2 DEF Fits
<1>4. QED BY <1>2, <1>3 DEF Shape

LEMMA MovesSpliced ==
  ASSUME NEW s \in Seq(Entry), s # <<>>, NEW q \in BOOLEAN, Moves(s, q),
         NEW p \in Seq(Entry),
         \A i \in 1..Len(p) : ~p[i].moved => \E j \in 1..(i - 1) : p[j].does \in Strict,
         s[1].does \in Strict => \E j \in 1..Len(p) : p[j].does \in Strict
  PROVE  Moves(p \o Tail(s), q)
<1> DEFINE r == p \o Tail(s)
<1>1. /\ Len(s) \in Nat /\ Len(s) >= 1 /\ Len(p) \in Nat
      /\ r \in Seq(Entry)
      /\ Len(r) = Len(p) + Len(s) - 1
      /\ \A i \in 1..Len(p) : r[i] = p[i]
      /\ \A i \in 2..Len(s) : r[Len(p) + i - 1] = s[i]
  BY Spliced
<1> HIDE DEF r
<1>2. ASSUME ~q, NEW i \in 1..Len(r), ~r[i].moved
      PROVE  \E j \in 1..(i - 1) : r[j].does \in Strict
  <2>1. CASE i \in 1..Len(p)
    <3>1. PICK j \in 1..(i - 1) : p[j].does \in Strict BY <1>1, <1>2, <2>1
    <3>2. QED BY <1>1, <2>1, <3>1
  <2>2. CASE i > Len(p)
    <3>1. PICK k \in Nat : k = i - Len(p) + 1
      <4>1. \A m \in Nat : i > m => i - m + 1 \in Nat OBVIOUS
      <4>2. i - Len(p) + 1 \in Nat BY <1>1, <2>2, <4>1, Zenon
      <4>3. QED BY <4>2, Zenon
    <3>2. k \in 2..Len(s) /\ i = Len(p) + k - 1 BY <1>1, <2>2, <3>1
    <3>3. ~s[k].moved BY <1>1, <1>2, <3>2
    <3>4. PICK j \in 1..(k - 1) : s[j].does \in Strict BY <1>2, <3>2, <3>3 DEF Moves
    <3>5. CASE j = 1
      <4>1. PICK l \in 1..Len(p) : p[l].does \in Strict BY <3>4, <3>5
      <4>2. QED BY <1>1, <2>2, <4>1
    <3>6. CASE j > 1
      <4>1. r[Len(p) + j - 1] = s[j] BY <1>1, <3>2, <3>4, <3>6
      <4>2. Len(p) + j - 1 \in 1..(i - 1) BY <3>2, <3>4, <3>6
      <4>3. QED BY <3>4, <4>1, <4>2
    <3>7. QED BY <3>4, <3>5, <3>6
  <2>3. QED BY <1>1, <2>1, <2>2
<1>3. Moves(r, q) BY <1>2 DEF Moves
<1>4. QED BY <1>3 DEF r

LEMMA RecoversSpliced ==
  ASSUME NEW s \in Seq(Entry), Len(s) > 1, NEW t, Recovers(s, t), s[1].does # "recover",
         NEW p \in Seq(Entry),
         Len(s) = 2 /\ p # <<>> => p[Len(p)].does # "recover",
         Reads(s, t, 1) => \E j \in 1..Len(p) : Reads(p, t, j)
  PROVE  Recovers(p \o Tail(s), t)
<1> DEFINE r == p \o Tail(s)
<1>1. /\ Len(s) \in Nat /\ Len(s) >= 1 /\ Len(p) \in Nat
      /\ r \in Seq(Entry)
      /\ Len(r) = Len(p) + Len(s) - 1
      /\ \A i \in 1..Len(p) : r[i] = p[i]
      /\ \A i \in 2..Len(s) : r[Len(p) + i - 1] = s[i]
  BY Spliced
<1> SUFFICES Recovers(r, t) OBVIOUS
<1> HIDE DEF r
<1>2. SUFFICES ASSUME Len(r) > 1, r[Len(r) - 1].does = "recover", ~r[Len(r)].moved
               PROVE  \E j \in 1..(Len(r) - 2) : Reads(r, t, j)
  BY DEF Recovers
<1>3. r[Len(r)] = s[Len(s)] BY <1>1
<1>4. Len(s) > 2
  <2>1. ASSUME Len(s) = 2 PROVE FALSE
    <3>1. Len(r) - 1 = Len(p) /\ Len(p) \in 1..Len(p) BY <1>1, <1>2, <2>1
    <3>2. r[Len(r) - 1] = p[Len(p)] BY <1>1, <3>1
    <3>3. QED BY <1>2, <2>1, <3>1, <3>2
  <2>2. Len(s) \in Nat /\ Len(s) > 1 /\ Len(s) # 2 BY <1>1, <2>1
  <2>3. \A n \in Nat : n > 1 /\ n # 2 => n > 2 OBVIOUS
  <2>4. QED BY <2>2, <2>3, Zenon
<1>5. r[Len(p) + (Len(s) - 1) - 1] = s[Len(s) - 1] BY <1>1, <1>4
<1>6. r[Len(r) - 1] = s[Len(s) - 1]
  <2>1. Len(r) - 1 = Len(p) + (Len(s) - 1) - 1 BY <1>1
  <2>2. QED BY <1>5, <2>1
<1>7. PICK j \in 1..(Len(s) - 2) : Reads(s, t, j) BY <1>2, <1>3, <1>4, <1>6 DEF Recovers
<1>8. CASE j = 1
  <2>1. PICK l \in 1..Len(p) : Reads(p, t, l) BY <1>7, <1>8
  <2>2. r[l] = p[l] /\ (l = 1 => r[1] = p[1]) BY <1>1, <2>1
  <2>3. Reads(r, t, l) BY <2>1, <2>2 DEF Reads
  <2>4. l \in 1..(Len(r) - 2) BY <1>1, <1>4, <2>1
  <2>5. QED BY <2>3, <2>4
<1>9. CASE j > 1
  <2>1. r[Len(p) + j - 1] = s[j] BY <1>1, <1>7, <1>9
  <2>2. Reads(r, t, Len(p) + j - 1) BY <1>7, <1>9, <2>1 DEF Reads
  <2>3. Len(p) + j - 1 \in 1..(Len(r) - 2) BY <1>1, <1>7, <1>9
  <2>4. QED BY <2>2, <2>3
<1>10. QED BY <1>7, <1>8, <1>9

LEMMA MatchedSpliced ==
  ASSUME NEW s \in Seq(Entry), s # <<>>, NEW t, NEW b, Matched(s, t, b),
         s[1].does \notin Bracketing \cup {"skip"},
         Len(s) > 1 => s[2].does # "skip",
         NEW p \in Seq(Entry), NEW u \in 0..Len(p), NEW v \in 0..Len(p),
         \/ u = 0 /\ v = 0
         \/ /\ 0 < u /\ u < v
            /\ Symbol(p, t, u) \in Opening /\ p[v].does = Closer[Symbol(p, t, u)],
         \A i \in 1..Len(p) : i \notin {u, v} => Symbol(p, t, i) \notin Bracketing
  PROVE  Matched(p \o Tail(s), t, b)
<1> DEFINE r == p \o Tail(s)
<1>1. /\ Len(s) \in Nat /\ Len(s) >= 1 /\ Len(p) \in Nat
      /\ r \in Seq(Entry)
      /\ Len(r) = Len(p) + Len(s) - 1
      /\ \A i \in 1..Len(p) : r[i] = p[i]
      /\ \A i \in 2..Len(s) : r[Len(p) + i - 1] = s[i]
  BY Spliced
<1> SUFFICES Matched(r, t, b) OBVIOUS
<1> HIDE DEF r
<1>2. PICK f : Awaited(f, s, t) /\ Closes(b, f[1]) BY DEF Matched
<1>3. /\ f \in [1..(Len(s) + 1) -> Seq(Closing)]
      /\ f[Len(s) + 1] = <<>>
      /\ \A i \in 1..Len(s) : Awaits(Symbol(s, t, i), f[i], f[i + 1])
  BY <1>2 DEF Awaited
<1>4. f[1] = f[2] /\ f[2] \in Seq(Closing)
  <2>1. Symbol(s, t, 1) \notin Bracketing BY DEF Symbol
  <2>2. Awaits(Symbol(s, t, 1), f[1], f[2]) BY <1>1, <1>3
  <2>3. QED BY <1>1, <1>3, <2>1, <2>2 DEF Awaits
<1>5. PICK x : x = f[2] OBVIOUS
<1>6. PICK c : c = IF v = 0 THEN ")" ELSE p[v].does OBVIOUS
<1>7. c \in Closing
  <2>1. CASE v = 0 BY <1>6, <2>1 DEF Closing
  <2>2. CASE v # 0
    <3>1. c = Closer[Symbol(p, t, u)] /\ Symbol(p, t, u) \in Opening BY <1>6, <2>2
    <3>2. QED BY <3>1, Closers DEF Opening, Closing
  <2>3. QED BY <2>1, <2>2
<1>8. PICK y \in Seq(Closing) : y = <<c>> \o x
  <2>1. <<c>> \in Seq(Closing) /\ x \in Seq(Closing) BY <1>4, <1>5, <1>7
  <2>2. <<c>> \o x \in Seq(Closing) BY <2>1
  <2>3. QED BY <2>2, Zenon
<1> DEFINE g == [i \in 1..(Len(r) + 1) |->
                   IF i <= Len(p) THEN IF u < i /\ i <= v THEN y ELSE x
                   ELSE f[i - Len(p) + 1]]
<1>9. /\ g \in [1..(Len(r) + 1) -> Seq(Closing)]
      /\ \A i \in 1..Len(p) : g[i] = IF u < i /\ i <= v THEN y ELSE x
      /\ \A i \in 2..(Len(s) + 1) : g[Len(p) + i - 1] = f[i]
  <2>1. ASSUME NEW i \in 1..(Len(r) + 1)
        PROVE  (IF i <= Len(p) THEN IF u < i /\ i <= v THEN y ELSE x
                ELSE f[i - Len(p) + 1]) \in Seq(Closing)
    <3>1. CASE i <= Len(p) BY <1>4, <1>5, <1>8, <3>1
    <3>2. CASE ~(i <= Len(p))
      <4>1. i - Len(p) + 1 \in 1..(Len(s) + 1) BY <1>1, <3>2
      <4>2. QED BY <1>3, <3>2, <4>1
    <3>3. QED BY <3>1, <3>2
  <2>2. ASSUME NEW i \in 2..(Len(s) + 1)
        PROVE  g[Len(p) + i - 1] = f[i]
    <3>1. /\ Len(p) + i - 1 \in 1..(Len(r) + 1)
          /\ ~(Len(p) + i - 1 <= Len(p))
          /\ (Len(p) + i - 1) - Len(p) + 1 = i
      BY <1>1
    <3>2. QED BY <3>1
  <2>3. \A i \in 1..Len(p) : i \in 1..(Len(r) + 1) /\ i <= Len(p) BY <1>1
  <2>4. QED BY <2>1, <2>2, <2>3
<1> HIDE DEF g
<1>10. g[Len(p) + 1] = x
  <2>1. 2 \in 2..(Len(s) + 1) /\ Len(p) + 2 - 1 = Len(p) + 1 BY <1>1
  <2>2. QED BY <1>5, <1>9, <2>1
<1>11. g[Len(r) + 1] = <<>>
  <2>1. Len(s) + 1 \in 2..(Len(s) + 1) /\ Len(p) + (Len(s) + 1) - 1 = Len(r) + 1 BY <1>1
  <2>2. QED BY <1>3, <1>9, <2>1
<1>12. g[1] = f[1]
  <2>1. CASE p = <<>> BY <1>4, <1>5, <1>10, <2>1
  <2>2. CASE p # <<>>
    <3>1. 1 \in 1..Len(p) /\ ~(u < 1 /\ 1 <= v) BY <2>2
    <3>2. QED BY <1>4, <1>5, <1>9, <3>1
  <2>3. QED BY <2>1, <2>2
<1>13. ASSUME NEW i \in 1..Len(r), i <= Len(p)
       PROVE  Awaits(Symbol(r, t, i), g[i], g[i + 1])
  <2>1. i \in 1..Len(p) BY <1>13
  <2>2. Symbol(r, t, i) = Symbol(p, t, i)
    <3>1. r[i] = p[i] /\ (i = 1 => r[1] = p[1]) BY <1>1, <2>1
    <3>2. QED BY <3>1 DEF Symbol
  <2>3. g[i] = IF u < i /\ i <= v THEN y ELSE x BY <1>9, <2>1
  <2>4. g[i + 1] = IF u < i + 1 /\ i + 1 <= v THEN y ELSE x
    <3>1. CASE i + 1 <= Len(p)
      <4>1. i + 1 \in 1..Len(p) BY <2>1, <3>1
      <4>2. QED BY <1>9, <4>1
    <3>2. CASE i = Len(p)
      <4>1. ~(i + 1 <= v) BY <3>2
      <4>2. QED BY <1>10, <3>2, <4>1
    <3>3. QED BY <2>1, <3>1, <3>2
  <2>5. CASE i = u
    <3>1. g[i] = x /\ g[i + 1] = y BY <2>1, <2>3, <2>4, <2>5
    <3>2. Symbol(p, t, i) \in Opening /\ y = <<Closer[Symbol(p, t, i)]>> \o x
      BY <1>6, <1>8, <2>1, <2>5
    <3>3. Symbol(p, t, i) \notin Closing /\ Symbol(p, t, i) \in Bracketing
      BY <3>2 DEF Opening, Closing, Bracketing
    <3>4. QED BY <2>2, <3>1, <3>2, <3>3 DEF Awaits
  <2>6. CASE i = v
    <3>1. u < v BY <2>1, <2>6
    <3>2. g[i] = y /\ g[i + 1] = x BY <2>1, <2>3, <2>4, <2>6, <3>1
    <3>3. Symbol(p, t, i) = c BY <1>6, <2>1, <2>6, <3>1 DEF Symbol
    <3>4. c \notin Opening /\ c \in Bracketing BY <1>7 DEF Opening, Closing, Bracketing
    <3>5. QED BY <1>7, <1>8, <2>2, <3>2, <3>3, <3>4 DEF Awaits
  <2>7. CASE i \notin {u, v}
    <3>1. Symbol(p, t, i) \notin Bracketing BY <2>1, <2>7
    <3>2. (u < i /\ i <= v) <=> (u < i + 1 /\ i + 1 <= v) BY <2>1, <2>7
    <3>3. g[i] = g[i + 1] BY <2>3, <2>4, <3>2
    <3>4. QED BY <2>2, <3>1, <3>3 DEF Awaits, Bracketing
  <2>8. QED BY <2>5, <2>6, <2>7
<1>14. ASSUME NEW i \in 1..Len(r), ~(i <= Len(p))
       PROVE  Awaits(Symbol(r, t, i), g[i], g[i + 1])
  <2>1. PICK k \in 2..Len(s) : i = Len(p) + k - 1
    <3>1. i - Len(p) + 1 \in 2..Len(s) /\ i = Len(p) + (i - Len(p) + 1) - 1 BY <1>1, <1>14
    <3>2. QED BY <3>1
  <2>2. r[i] = s[k] BY <1>1, <2>1
  <2>3. g[i] = f[k]
    <3>1. k \in 2..(Len(s) + 1) BY <1>1, <2>1
    <3>2. QED BY <1>9, <2>1, <3>1
  <2>4. g[i + 1] = f[k + 1]
    <3>1. k + 1 \in 2..(Len(s) + 1) /\ i + 1 = Len(p) + (k + 1) - 1 BY <1>1, <2>1
    <3>2. QED BY <1>9, <3>1
  <2>5. Symbol(s, t, k) = s[k].does BY <2>1 DEF Symbol
  <2>6. Symbol(r, t, i) = s[k].does
    <3>1. CASE i = 1
      <4>1. k = 2 /\ Len(s) > 1 BY <1>1, <2>1, <3>1
      <4>2. r[1].does # "skip" BY <2>2, <3>1, <4>1
      <4>3. QED BY <2>2, <3>1, <4>2 DEF Symbol
    <3>2. CASE i # 1 BY <2>2, <3>2 DEF Symbol
    <3>3. QED BY <3>1, <3>2
  <2>7. Awaits(Symbol(s, t, k), f[k], f[k + 1]) BY <1>1, <1>3, <2>1
  <2>8. QED BY <2>3, <2>4, <2>5, <2>6, <2>7
<1>15. Awaited(g, r, t) BY <1>9, <1>11, <1>13, <1>14 DEF Awaited
<1>16. QED BY <1>2, <1>12, <1>15 DEF Matched

LEMMA MatchedAlike ==
  ASSUME NEW s \in Seq(Entry), NEW t, NEW b, Matched(s, t, b),
         NEW r \in Seq(Entry), Len(r) = Len(s), \A i \in 1..Len(s) : r[i].does = s[i].does,
         NEW t2, t2 = t \/ (s # <<>> => s[1].does # "skip")
  PROVE  Matched(r, t2, b)
<1>1. PICK f : Awaited(f, s, t) /\ Closes(b, f[1]) BY DEF Matched
<1>2. ASSUME NEW i \in 1..Len(r)
      PROVE  Symbol(r, t2, i) = Symbol(s, t, i)
  <2>1. s # <<>> /\ 1 \in 1..Len(s) /\ i \in 1..Len(s) OBVIOUS
  <2>2. r[i].does = s[i].does /\ r[1].does = s[1].does BY <2>1
  <2>3. QED BY <2>1, <2>2 DEF Symbol
<1>3. Awaited(f, r, t2) BY <1>1, <1>2 DEF Awaited
<1>4. QED BY <1>1, <1>3 DEF Matched

(* The head of the stack is done, and x the token it stood for was read.    *)
LEMMA MatchedPopped ==
  ASSUME NEW s \in Seq(Entry), s # <<>>, NEW t, NEW b, Matched(s, t, b),
         Len(s) > 1 => s[2].does # "skip",
         NEW r \in Seq(Entry), Len(r) = Len(s) - 1,
         \A i \in 1..Len(r) : r[i].does = s[i + 1].does,
         NEW t2, NEW x, x = Symbol(s, t, 1)
  PROVE  /\ x \notin Bracketing => Matched(r, t2, b)
         /\ x \in Opening => Matched(r, t2, <<x>> \o b)
         /\ x \in Closing => /\ b # <<>> /\ b[1] \in Opening /\ Closer[b[1]] = x
                             /\ Matched(r, t2, Tail(b))
<1>1. PICK f : Awaited(f, s, t) /\ Closes(b, f[1]) BY DEF Matched
<1>2. /\ Len(s) \in Nat /\ Len(s) >= 1
      /\ f \in [1..(Len(s) + 1) -> Seq(Closing)]
      /\ f[Len(s) + 1] = <<>>
      /\ \A i \in 1..Len(s) : Awaits(Symbol(s, t, i), f[i], f[i + 1])
  BY <1>1 DEF Awaited
<1>3. /\ b \in Seq(Opening) /\ Len(b) = Len(f[1])
      /\ \A i \in 1..Len(b) : Closer[b[i]] = f[1][i]
  BY <1>1 DEF Closes
<1> DEFINE g == [i \in 1..(Len(r) + 1) |-> f[i + 1]]
<1>4. Awaited(g, r, t2)
  <2>1. \A i \in 1..(Len(r) + 1) : i + 1 \in 1..(Len(s) + 1) BY <1>2
  <2>2. g \in [1..(Len(r) + 1) -> Seq(Closing)] BY <1>2, <2>1
  <2>3. g[Len(r) + 1] = <<>> BY <1>2
  <2>4. ASSUME NEW i \in 1..Len(r)
        PROVE  Awaits(Symbol(r, t2, i), g[i], g[i + 1])
    <3>1. g[i] = f[i + 1] /\ g[i + 1] = f[(i + 1) + 1] BY <1>2
    <3>2. i + 1 \in 1..Len(s) /\ i + 1 # 1 BY <1>2
    <3>3. Awaits(Symbol(s, t, i + 1), f[i + 1], f[(i + 1) + 1]) BY <1>2, <3>2
    <3>4. Symbol(s, t, i + 1) = s[i + 1].does BY <3>2 DEF Symbol
    <3>5. Symbol(r, t2, i) = s[i + 1].does
      <4>1. CASE i = 1
        <5>1. r[1].does = s[2].does /\ Len(s) > 1 BY <1>2, <4>1
        <5>2. QED BY <4>1, <5>1 DEF Symbol
      <4>2. CASE i # 1 BY <4>2 DEF Symbol
      <4>3. QED BY <4>1, <4>2
    <3>6. QED BY <3>1, <3>3, <3>4, <3>5
  <2>5. QED BY <2>2, <2>3, <2>4 DEF Awaited
<1>5. g[1] = f[2] BY <1>2
<1>6. f[1] \in Seq(Closing) /\ f[2] \in Seq(Closing) BY <1>2
<1>7. Awaits(x, f[1], f[2]) BY <1>2
<1> HIDE DEF g
<1>8. CASE x \notin Bracketing
  <2>1. f[1] = f[2] BY <1>7, <1>8 DEF Awaits
  <2>2. Matched(r, t2, b) BY <1>1, <1>4, <1>5, <2>1 DEF Matched
  <2>3. QED BY <1>8, <2>2 DEF Bracketing
<1>9. CASE x \in Opening
  <2>1. f[2] = <<Closer[x]>> \o f[1] /\ Closer[x] \in Closing
    BY <1>7, <1>9, Closers DEF Awaits, Opening, Closing
  <2>2. PICK c \in Seq(Opening) : c = <<x>> \o b
    <3>1. <<x>> \in Seq(Opening) BY <1>9
    <3>2. <<x>> \o b \in Seq(Opening) BY <1>3, <3>1
    <3>3. QED BY <3>2, Zenon
  <2>3. /\ Len(c) = Len(b) + 1 /\ c[1] = x
        /\ \A i \in 1..Len(b) : c[i + 1] = b[i]
    BY <1>3, <2>2
  <2>4. PICK d \in Seq(Closing) : d = f[2] BY <1>6
  <2>5. /\ Len(d) = Len(f[1]) + 1 /\ d[1] = Closer[x]
        /\ \A i \in 1..Len(f[1]) : d[i + 1] = f[1][i]
    BY <1>6, <2>1, <2>4
  <2>6. ASSUME NEW i \in 1..Len(c)
        PROVE  Closer[c[i]] = d[i]
    <3>1. CASE i = 1 BY <2>3, <2>5, <3>1
    <3>2. CASE i # 1
      <4>1. PICK j \in 1..Len(b) : i = j + 1
        <5>1. i - 1 \in 1..Len(b) /\ i = (i - 1) + 1 BY <1>3, <2>3, <3>2
        <5>2. QED BY <5>1
      <4>2. c[i] = b[j] /\ d[i] = f[1][j] BY <1>3, <2>3, <2>5, <4>1
      <4>3. QED BY <1>3, <4>1, <4>2
    <3>3. QED BY <3>1, <3>2
  <2>7. Closes(c, f[2]) BY <1>3, <2>3, <2>4, <2>5, <2>6 DEF Closes
  <2>8. Matched(r, t2, c) BY <1>4, <1>5, <2>7 DEF Matched
  <2>9. QED BY <1>9, <2>2, <2>8 DEF Opening, Closing, Bracketing
<1>10. CASE x \in Closing
  <2>1. f[1] = <<x>> \o f[2] BY <1>7, <1>10 DEF Awaits
  <2>2. PICK d \in Seq(Closing) : d = f[1] BY <1>6
  <2>3. /\ Len(d) = Len(f[2]) + 1 /\ d[1] = x
        /\ \A i \in 1..Len(f[2]) : d[i + 1] = f[2][i]
    BY <1>6, <1>10, <2>1, <2>2
  <2>4. Len(f[2]) \in Nat BY <1>6
  <2>5. b # <<>> /\ b[1] \in Opening /\ Closer[b[1]] = x
    <3>1. Len(b) = Len(d) /\ Len(b) >= 1 BY <1>3, <2>2, <2>3, <2>4
    <3>2. 1 \in 1..Len(b) BY <1>3, <3>1
    <3>3. QED BY <1>3, <2>2, <2>3, <3>2
  <2>6. PICK c \in Seq(Opening) : c = Tail(b)
    <3>1. Tail(b) \in Seq(Opening) BY <1>3, <2>5
    <3>2. QED BY <3>1, Zenon
  <2>7. Len(c) = Len(b) - 1 /\ \A i \in 1..Len(c) : c[i] = b[i + 1]
    BY <1>3, <2>5, <2>6
  <2>8. Len(c) = Len(f[2]) BY <1>3, <2>2, <2>3, <2>4, <2>7
  <2>9. ASSUME NEW i \in 1..Len(c)
        PROVE  Closer[c[i]] = f[2][i]
    <3>1. i + 1 \in 1..Len(b) /\ i \in 1..Len(f[2]) BY <1>3, <2>7, <2>8, SMTT(30)
    <3>2. c[i] = b[i + 1] /\ d[i + 1] = f[2][i] BY <2>3, <2>7, <3>1
    <3>3. QED BY <1>3, <2>2, <3>1, <3>2
  <2>10. Closes(c, f[2]) BY <2>8, <2>9 DEF Closes
  <2>11. Matched(r, t2, c) BY <1>4, <1>5, <2>10 DEF Matched
  <2>12. QED BY <1>10, <2>5, <2>6, <2>11 DEF Opening, Closing, Bracketing
<1>11. QED BY <1>8, <1>9, <1>10 DEF Bracketing

-----------------------------------------------------------------------------
(* The invariant after a step that puts entries p in place of the head.     *)

LEMMA PrecedenceBound ==
  ASSUME NEW t PROVE Precedence(t) \in 0..12
BY DEF Precedence

LEMMA Bottom ==
  ASSUME NEW s, Shape(s), s # <<>>
  PROVE  /\ s \in Seq(Entry) /\ Len(s) \in Nat /\ Len(s) >= 1
         /\ s[1] \in Entry
         /\ Len(s) = 1 <=> s[1].does = "declarations"
         /\ Len(s) = 1 \/ Len(s) > 1
         /\ Len(s) > 1 => s[2] \in Entry /\ Fits(s[1], s[2])
<1>1. s \in Seq(Entry) /\ Len(s) \in Nat /\ Len(s) >= 1 BY DEF Shape
<1>2. s[1] \in Entry BY <1>1
<1>3. \A n \in Nat : n >= 1 => n = 1 \/ n > 1 OBVIOUS
<1>4. Len(s) = 1 \/ Len(s) > 1 BY <1>1, <1>3, Zenon
<1>5. CASE Len(s) = 1 BY <1>1, <1>2, <1>5 DEF Shape
<1>6. CASE Len(s) > 1
  <2>1. 1 \in 1..(Len(s) - 1) /\ 2 \in 1..Len(s) BY <1>1, <1>6
  <2>2. Fits(s[1], s[2]) BY <2>1 DEF Shape
  <2>3. s[2] \in Entry BY <1>1, <2>1
  <2>4. s[1].does # "declarations" BY <2>2 DEF Fits
  <2>5. \A n : n > 1 => n # 1 OBVIOUS
  <2>6. Len(s) # 1 BY <1>6, <2>5, Zenon
  <2>7. QED BY <1>1, <1>2, <1>6, <2>2, <2>3, <2>4, <2>6
<1>7. QED BY <1>4, <1>5, <1>6

Operands == {"postfix", "suffix?", "whole"}

(* Nothing but an operand, or what it ends in, has an operator wait for it. *)
LEMMA NothingWaits ==
  ASSUME NEW s, Shape(s), Len(s) > 1,
         s[1].does \notin Operands \cup {"expression", "climb", "join"},
         NEW r, r[1].does = s[2].does, r[1].n = s[2].n, NEW t
  PROVE  Binds(r, t)
<1>1. s # <<>> BY DEF Shape
<1>2. Fits(s[1], s[2]) BY <1>1, Bottom
<1>3. s[2].does # "climb" /\ (s[2].does = "join" => s[2].n = 12)
  BY <1>2 DEF Fits, Operands
<1>4. Precedence(t) <= 12 BY PrecedenceBound
<1>5. QED BY <1>3, <1>4 DEF Binds

Fitting(s, p) ==
  /\ \A i \in 1..(Len(p) - 1) : Fits(p[i], p[i + 1])
  /\ p # <<>> /\ Len(s) > 1 => Fits(p[Len(p)], s[2])
  /\ Len(s) = 1 /\ p # <<>> => p[Len(p)].does = "declarations"

Moving(s, p) ==
  /\ \A i \in 1..Len(p) : ~p[i].moved => \E j \in 1..(i - 1) : p[j].does \in Strict
  /\ s[1].does \in Strict => \E j \in 1..Len(p) : p[j].does \in Strict

Recovering(s, t, p) ==
  /\ Len(s) = 1 => Recovers(p, t)
  /\ Len(s) = 2 /\ p # <<>> => p[Len(p)].does # "recover"
  /\ s[1].does # "recover"
  /\ Reads(s, t, 1) => \E j \in 1..Len(p) : Reads(p, t, j)

Enclosing(s, t, p) ==
  /\ s[1].does \notin Bracketing \cup {"skip"}
  /\ \E u, v \in 0..Len(p) :
       /\ \/ u = 0 /\ v = 0
          \/ /\ 0 < u /\ u < v
             /\ Symbol(p, t, u) \in Opening /\ p[v].does = Closer[Symbol(p, t, u)]
       /\ \A i \in 1..Len(p) : i \notin {u, v} => Symbol(p, t, i) \notin Bracketing

LEMMA SoundSpliced ==
  ASSUME NEW s, s # <<>>, NEW t, NEW panicking, NEW wrong, NEW brackets,
         Sound(s, t, panicking, wrong, brackets),
         NEW p \in Seq(Entry),
         Fitting(s, p), panicking \/ Moving(s, p),
         Recovering(s, t, p) \/ Recovers(p \o Tail(s), t),
         wrong \/ Enclosing(s, t, p)
  PROVE  Sound(p \o Tail(s), t, panicking, wrong, brackets)
<1>1. Shape(s) /\ s \in Seq(Entry) BY DEF Sound, Shape
<1>2. Shape(p \o Tail(s)) BY <1>1, ShapeSpliced DEF Fitting
<1>3. Moves(p \o Tail(s), panicking)
  <2>1. CASE panicking BY <2>1 DEF Moves
  <2>2. CASE ~panicking BY <1>1, <2>2, MovesSpliced DEF Moving, Sound
  <2>3. QED BY <2>1, <2>2
<1>4. Recovers(p \o Tail(s), t)
  <2> SUFFICES ASSUME Recovering(s, t, p) PROVE Recovers(p \o Tail(s), t) OBVIOUS
  <2>1. CASE Len(s) = 1
    <3>1. p \o Tail(s) = p BY <1>1, <2>1, SplicedAlone
    <3>2. QED BY <2>1, <3>1 DEF Recovering
  <2>2. CASE Len(s) > 1 BY <1>1, <2>2, RecoversSpliced DEF Recovering, Sound
  <2>3. QED BY <1>1, <2>1, <2>2, Bottom
<1>5. ~wrong => Matched(p \o Tail(s), t, brackets)
  <2>1. SUFFICES ASSUME ~wrong PROVE Matched(p \o Tail(s), t, brackets) OBVIOUS
  <2>2. Matched(s, t, brackets) BY <2>1 DEF Sound
  <2>3. Len(s) > 1 => s[2].does # "skip" BY <1>1, Bottom DEF Fits
  <2>4. PICK u \in 0..Len(p), v \in 0..Len(p) :
          /\ \/ u = 0 /\ v = 0
             \/ /\ 0 < u /\ u < v
                /\ Symbol(p, t, u) \in Opening
                /\ p[v].does = Closer[Symbol(p, t, u)]
          /\ \A i \in 1..Len(p) : i \notin {u, v} => Symbol(p, t, i) \notin Bracketing
    BY <2>1 DEF Enclosing
  <2>5. s[1].does \notin Bracketing \cup {"skip"} BY <2>1 DEF Enclosing
  <2>6. QED BY <1>1, <2>2, <2>3, <2>4, <2>5, MatchedSpliced
<1>6. QED BY <1>2, <1>3, <1>4, <1>5 DEF Sound

LEMMA ValidSpliced ==
  ASSUME NEW s, s # <<>>, NEW t, NEW panicking, NEW wrong, NEW brackets,
         Valid(s, t, panicking, wrong, brackets),
         NEW p \in Seq(Entry),
         Fitting(s, p), panicking \/ Moving(s, p),
         Recovering(s, t, p) \/ Recovers(p \o Tail(s), t),
         wrong \/ Enclosing(s, t, p), Binds(p \o Tail(s), t)
  PROVE  Valid(p \o Tail(s), t, panicking, wrong, brackets)
BY SoundSpliced DEF Valid

LEMMA OrdinaryFits ==
  ASSUME NEW p \in Seq(Ordinary), \A i \in 2..Len(p) : p[i] # "skip"
  PROVE  /\ p \in Seq(Symbols) /\ Items(p) \in Seq(Entry) /\ Len(Items(p)) = Len(p)
         /\ \A i \in 1..(Len(p) - 1) : Fits(Items(p)[i], Items(p)[i + 1])
<1>1. p \in Seq(Symbols)
  <2>1. Ordinary \subseteq Symbols BY DEF Symbols
  <2>2. QED BY <2>1, SeqMonotonic
<1>2. ASSUME NEW i \in 1..(Len(p) - 1)
      PROVE  Fits(Items(p)[i], Items(p)[i + 1])
  <2>1. i \in 1..Len(p) /\ i + 1 \in 1..Len(p) /\ i + 1 \in 2..Len(p) OBVIOUS
  <2>2. /\ Items(p)[i].does = p[i] /\ Items(p)[i].n = 0
        /\ Items(p)[i + 1].does = p[i + 1]
    BY <1>1, <2>1, Itemized
  <2>3. p[i] \in Ordinary /\ p[i + 1] \in Ordinary /\ p[i + 1] # "skip" BY <2>1
  <2>4. /\ Ordinary \cap {"declaration", "declared", "declarations", "repeat?", "recover",
                          "synchronize", "climb", "join"} = {}
    BY DEF Ordinary, Types, Primaries, Postfixes, Statements
  <2>5. QED BY <2>2, <2>3, <2>4 DEF Fits
<1>3. QED BY <1>1, <1>2, Itemized

(* An ordinary entry can stand where entry a did.                           *)
LEMMA OrdinaryAbove ==
  ASSUME NEW a, NEW b, Fits(a, b), NEW e, e.does \in Ordinary, e.n = 0,
         a.does \notin {"expression", "climb", "join"},
         a.does \in Operands => e.does \in Operands
  PROVE  Fits(e, b)
<1>1. Ordinary \cap {"declaration", "declared", "declarations", "repeat?", "recover",
                     "synchronize", "climb", "join"} = {}
  BY DEF Ordinary, Types, Primaries, Postfixes, Statements
<1>2. QED BY <1>1 DEF Fits, Operands

(* The symbols that stand for calls that may be made above any other.       *)
Ordinarily ==
  Symbols \ (Bracketing \cup {"skip", "recover", "whole", "expression", "climb", "join",
                              "declarations"})

(* Entries q encloses brackets as production p does, which it begins with.  *)
LEMMA ProductionEncloses ==
  ASSUME NEW p \in Seq(Symbols), Paired(p), NEW q \in Seq(Entry), Len(q) >= Len(p),
         \A i \in 1..Len(p) : q[i].does = p[i],
         \A i \in 1..Len(q) : i > Len(p) => q[i].does \notin Bracketing \cup {"skip"},
         NEW s, s[1].does \notin Bracketing \cup {"skip"}
  PROVE  Enclosing(s, token, q)
<1>1. PICK a \in 0..Len(p), b \in 0..Len(p) : Pair(p, a, b) BY DEF Paired
<1>2. ASSUME NEW i \in 1..Len(p) PROVE Symbol(q, token, i) = Produced(p, i)
  <2>1. q[i].does = p[i] /\ (i = 1 => q[1].does = p[1]) OBVIOUS
  <2>2. QED BY <2>1 DEF Symbol, Produced
<1>3. \/ a = 0 /\ b = 0
      \/ /\ 0 < a /\ a < b
         /\ Symbol(q, token, a) \in Opening /\ q[b].does = Closer[Symbol(q, token, a)]
  <2>1. CASE a = 0 /\ b = 0 BY <2>1
  <2>2. CASE 0 < a /\ a < b
    <3>1. a \in 1..Len(p) /\ b \in 1..Len(p) BY <2>2
    <3>2. Symbol(q, token, a) = Produced(p, a) /\ q[b].does = p[b] BY <1>2, <3>1
    <3>3. Produced(p, a) \in Opening /\ p[b] = Closer[Produced(p, a)]
      BY <1>1, <2>2 DEF Pair
    <3>4. QED BY <2>2, <3>2, <3>3
  <2>3. QED BY <1>1, <2>1, <2>2 DEF Pair
<1>4. ASSUME NEW i \in 1..Len(q), i \notin {a, b}
      PROVE  Symbol(q, token, i) \notin Bracketing
  <2>1. CASE i \in 1..Len(p) BY <1>1, <1>2, <1>4, <2>1 DEF Pair
  <2>2. CASE i > Len(p)
    <3>1. q[i].does \notin Bracketing \cup {"skip"} BY <2>2
    <3>2. QED BY <3>1 DEF Symbol
  <2>3. QED BY <2>1, <2>2
<1>5. a \in 0..Len(q) /\ b \in 0..Len(q) OBVIOUS
<1>6. QED BY <1>3, <1>4, <1>5 DEF Enclosing

LEMMA Produces ==
  ASSUME NEW s, NEW panicking, NEW wrong, NEW brackets,
         Valid(s, token, panicking, wrong, brackets), Len(s) > 1, s[1].does \in Ordinarily,
         NEW p, Productive(s[1].does, p)
  PROVE  Valid(Items(p) \o Tail(s), token, panicking, wrong, brackets)
<1>1. s # <<>> /\ s \in Seq(Entry) /\ Shape(s) BY DEF Valid, Sound, Shape
<1>2. Len(s) # 1 BY <1>1, Bottom DEF Ordinarily
<1>3. /\ p \in Seq(Ordinary) /\ Paired(p)
      /\ \A i \in 2..Len(p) : p[i] # "skip"
  BY DEF Productive
<1>4. PICK q : q = Items(p) OBVIOUS
<1>5. /\ p \in Seq(Symbols) /\ q \in Seq(Entry) /\ Len(q) = Len(p)
      /\ \A i \in 1..(Len(p) - 1) : Fits(q[i], q[i + 1])
      /\ \A i \in 1..Len(p) : q[i].does = p[i] /\ q[i].n = 0 /\ q[i].moved = TRUE
  BY <1>3, <1>4, OrdinaryFits, Itemized
<1>6. \A i \in 1..Len(p) : p[i] \in Ordinary BY <1>3
<1>7. p # <<>> <=> q # <<>> BY <1>3, <1>5
<1>8. p # <<>> => Len(p) \in 1..Len(p) /\ 1 \in 1..Len(p) BY <1>3
<1>9. Fitting(s, q)
  <2>1. ASSUME p # <<>> PROVE Fits(q[Len(p)], s[2])
    <3>1. q[Len(p)].does \in Ordinary /\ q[Len(p)].n = 0 /\ q[Len(p)].does = p[Len(p)]
      BY <1>5, <1>6, <1>8, <2>1
    <3>2. s[1].does \in Operands => q[Len(p)].does \in Operands
      BY <1>2, <3>1 DEF Productive, Ordinarily, Operands, Postfixes
    <3>3. Fits(s[1], s[2]) BY <1>1, Bottom
    <3>4. QED BY <1>2, <3>1, <3>2, <3>3, OrdinaryAbove DEF Ordinarily
  <2>2. QED BY <1>2, <1>5, <1>7, <2>1 DEF Fitting
<1>10. Moving(s, q)
  <2>1. ASSUME s[1].does \in Strict PROVE \E j \in 1..Len(q) : q[j].does \in Strict
    <3>1. p # <<>> /\ p[1] \in Strict BY <2>1 DEF Productive
    <3>2. QED BY <1>5, <1>8, <3>1
  <2>2. QED BY <1>2, <1>5, <2>1 DEF Moving
<1>11. Recovering(s, token, q)
  <2>1. ASSUME p # <<>> PROVE q[Len(q)].does # "recover"
    <3>1. q[Len(q)].does \in Ordinary BY <1>5, <1>6, <1>8, <2>1
    <3>2. "recover" \notin Ordinary BY DEF Ordinary, Types, Primaries, Postfixes, Statements
    <3>3. QED BY <3>1, <3>2
  <2>2. s[1].does # "recover" BY <1>2 DEF Ordinarily
  <2>3. ASSUME Reads(s, token, 1) PROVE \E j \in 1..Len(q) : Reads(q, token, j)
    <3>1. s[1].does \in Readers \/ (token = "lbrace" /\ s[1].does = "block")
      BY <1>2, <2>3 DEF Reads, Ordinarily, Bracketing, Opening
    <3>2. CASE s[1].does \in Readers
      <4>1. p # <<>> BY <3>2 DEF Productive, Strict
      <4>2. CASE p[1] \in Readers BY <1>5, <1>8, <4>1, <4>2 DEF Reads
      <4>3. CASE p = <<"fail", "any">>
        <5>1. Len(p) = 2 /\ p[2] = "any" BY <4>3
        <5>2. 2 \in 1..Len(q) /\ q[2].does = "any" BY <1>5, <5>1
        <5>3. QED BY <5>2 DEF Reads, Readers
      <4>4. CASE p = <<"block">> /\ token = "lbrace"
        <5>1. Len(p) = 1 /\ p[1] = "block" BY <4>4
        <5>2. 1 \in 1..Len(q) /\ q[1].does = "block" BY <1>5, <5>1
        <5>3. QED BY <4>4, <5>2 DEF Reads
      <4>5. QED BY <3>2, <4>2, <4>3, <4>4 DEF Productive
    <3>3. CASE token = "lbrace" /\ s[1].does = "block"
      <4>1. p # <<>> /\ p[1] = "lbrace" BY <3>3 DEF Productive
      <4>2. 1 \in 1..Len(q) /\ q[1].does = "lbrace" BY <1>5, <1>8, <4>1
      <4>3. QED BY <3>3, <4>2 DEF Reads
    <3>4. QED BY <3>1, <3>2, <3>3
  <2>4. QED BY <1>2, <1>7, <2>1, <2>2, <2>3 DEF Recovering
<1>12. Enclosing(s, token, q)
  <2>1. s[1].does \notin Bracketing \cup {"skip"} BY <1>2 DEF Ordinarily
  <2>2. QED BY <1>3, <1>4, <1>5, <2>1, ProductionEncloses
<1>13. Binds(q \o Tail(s), token)
  <2>1. CASE p = <<>>
    <3>1. q = <<>> BY <1>7, <2>1
    <3>2. q \o Tail(s) = Tail(s) BY <1>1, <3>1, SplicedAlone 
    <3>3. Tail(s)[1] = s[2] BY <1>1 
    <3>4. s[1].does \notin Operands \cup {"expression", "climb", "join"}
      BY <2>1 DEF Productive, Operands, Postfixes, Ordinarily
    <3>5. QED BY <1>1, <1>2, <3>2, <3>3, <3>4, NothingWaits
  <2>2. CASE p # <<>>
    <3>1. (q \o Tail(s))[1] = q[1] BY <1>1, <1>5, <1>8, <2>2, Spliced 
    <3>2. q[1].does \in Ordinary BY <1>5, <1>6, <1>8, <2>2
    <3>3. "climb" \notin Ordinary /\ "join" \notin Ordinary
      BY DEF Ordinary, Types, Primaries, Postfixes, Statements
    <3>4. QED BY <3>1, <3>2, <3>3 DEF Binds
  <2>3. QED BY <2>1, <2>2
<1>14. QED
  <2>1. Valid(q \o Tail(s), token, panicking, wrong, brackets)
    BY <1>1, <1>5, <1>9, <1>10, <1>11, <1>12, <1>13, ValidSpliced
  <2>2. QED BY <1>4, <2>1

(* The head of the stack is done, and reads nothing.                        *)
LEMMA SoundDrops ==
  ASSUME NEW s, NEW t, NEW panicking, NEW wrong, NEW brackets,
         Sound(s, t, panicking, wrong, brackets), Len(s) > 1,
         s[1].does # "recover",
         ~Reads(s, t, 1),
         panicking \/ s[1].does \notin Strict,
         wrong \/ s[1].does \notin Bracketing \cup {"skip"}
  PROVE  Sound(Tail(s), t, panicking, wrong, brackets)
<1>1. s # <<>> /\ s \in Seq(Entry) /\ Shape(s) BY DEF Sound, Shape
<1>2. PICK p \in Seq(Entry) : p = <<>> BY Zenon, EmptySeq
<1>3. p \o Tail(s) = Tail(s) BY <1>1, <1>2, SplicedAlone
<1>4. Len(p) = 0 /\ 0 \in 0..Len(p) /\ 1..Len(p) = {} BY <1>2
<1>5. Fitting(s, p)
  <2>1. \A i \in 1..(Len(p) - 1) : Fits(p[i], p[i + 1]) BY <1>4
  <2>2. QED BY <1>2, <2>1 DEF Fitting
<1>6. panicking \/ Moving(s, p) BY <1>4 DEF Moving
<1>7. Recovering(s, t, p)
  <2>1. \A m : m > 1 => m # 1 OBVIOUS
  <2>2. Len(s) # 1 BY <2>1, Zenon
  <2>3. QED BY <1>2, <2>2 DEF Recovering
<1>8. wrong \/ Enclosing(s, t, p) BY <1>4 DEF Enclosing
<1>9. QED BY <1>1, <1>3, <1>5, <1>6, <1>7, <1>8, SoundSpliced

LEMMA Drops ==
  ASSUME NEW s, NEW t, NEW panicking, NEW wrong, NEW brackets,
         Valid(s, t, panicking, wrong, brackets), Len(s) > 1,
         s[1].does \notin Operands \cup {"expression", "climb", "join", "recover"},
         ~Reads(s, t, 1),
         panicking \/ s[1].does \notin Strict,
         wrong \/ s[1].does \notin Bracketing \cup {"skip"}
  PROVE  Valid(Tail(s), t, panicking, wrong, brackets)
<1>1. s # <<>> /\ s \in Seq(Entry) /\ Shape(s) BY DEF Valid, Sound, Shape
<1>2. Sound(Tail(s), t, panicking, wrong, brackets) BY SoundDrops DEF Valid
<1>3. Tail(s)[1] = s[2] BY <1>1
<1>4. Binds(Tail(s), t) BY <1>1, <1>3, NothingWaits
<1>5. QED BY <1>2, <1>4 DEF Valid

AllMoved(s) == [i \in DOMAIN s |-> [s[i] EXCEPT !.moved = TRUE]]

LEMMA MovedItems ==
  ASSUME NEW s \in Seq(Entry)
  PROVE  /\ AllMoved(s) \in Seq(Entry) /\ Len(AllMoved(s)) = Len(s)
         /\ \A i \in 1..Len(s) : /\ AllMoved(s)[i].does = s[i].does
                                 /\ AllMoved(s)[i].n = s[i].n
                                 /\ AllMoved(s)[i].moved = TRUE
<1> DEFINE Moved(e) == [e EXCEPT !.moved = TRUE]
<1>1. ASSUME NEW e \in Entry
      PROVE  /\ Moved(e) \in Entry
             /\ Moved(e).does = e.does /\ Moved(e).n = e.n /\ Moved(e).moved = TRUE
  BY DEF Entry
<1>2. AllMoved(s) = [i \in 1..Len(s) |-> Moved(s[i])] BY DEF AllMoved
<1> HIDE DEF Moved
<1>3. \A i \in 1..Len(s) : s[i] \in Entry /\ Moved(s[i]) \in Entry
  <2>1. \A i \in 1..Len(s) : s[i] \in Entry OBVIOUS
  <2>2. QED BY <1>1, <2>1, Zenon
<1>4. AllMoved(s) \in Seq(Entry) /\ Len(AllMoved(s)) = Len(s) BY <1>2, <1>3
<1>5. \A i \in 1..Len(s) : AllMoved(s)[i] = Moved(s[i]) BY <1>2
<1>6. QED BY <1>1, <1>3, <1>4, <1>5

LEMMA TailShape ==
  ASSUME NEW s, Shape(s), Len(s) > 1
  PROVE  /\ Shape(Tail(s)) /\ Tail(s) \in Seq(Entry) /\ Len(Tail(s)) = Len(s) - 1
         /\ \A i \in 1..(Len(s) - 1) : Tail(s)[i] = s[i + 1]
<1>1. s # <<>> /\ s \in Seq(Entry) BY DEF Shape
<1>2. PICK p \in Seq(Entry) : p = <<>> BY Zenon, EmptySeq
<1>3. Len(p) = 0 /\ 1..Len(p) = {} BY <1>2
<1>4. /\ \A i \in 1..(Len(p) - 1) : Fits(p[i], p[i + 1])
      /\ p # <<>> /\ Len(s) > 1 => Fits(p[Len(p)], s[2])
      /\ Len(s) = 1 /\ p # <<>> => p[Len(p)].does = "declarations"
  BY <1>2, <1>3
<1>5. Shape(p \o Tail(s)) BY <1>1, <1>4, ShapeSpliced
<1>6. p \o Tail(s) = Tail(s) BY <1>1, <1>2, SplicedAlone
<1>7. /\ Tail(s) \in Seq(Entry) /\ Len(Tail(s)) = Len(s) - 1
      /\ \A i \in 1..(Len(s) - 1) : Tail(s)[i] = s[i + 1]
  BY <1>1, HeadTailProperties
<1>8. QED BY <1>5, <1>6, <1>7

(* The head of the stack is done, and has read a token.                     *)
LEMMA ReadsRest ==
  ASSUME ParserInv, Len(stack) > 1,
         Top.does \notin Operands \cup {"expression", "climb", "join"},
         NEW brackets, Read(Rest, brackets),
         \/ Symbol(stack, token, 1) \notin Bracketing /\ brackets = open
         \/ Symbol(stack, token, 1) = token /\ brackets = Bracket(token)
  PROVE  ParserInv'
<1>1. stack # <<>> /\ stack \in Seq(Entry) /\ Shape(stack) /\ Top = stack[1]
  BY DEF ParserInv, Valid, Sound, Shape, Top
<1>2. PICK r : r = stack' OBVIOUS
<1>3. PICK s : s = Tail(stack) OBVIOUS
<1>4. /\ Shape(s) /\ s \in Seq(Entry) /\ Len(s) = Len(stack) - 1
      /\ \A i \in 1..Len(s) : s[i] = stack[i + 1]
  BY <1>1, <1>3, TailShape
<1>5. r = AllMoved(s) BY <1>2, <1>3 DEF Read, Rest, AllMoved
<1>6. /\ r \in Seq(Entry) /\ Len(r) = Len(s)
      /\ \A i \in 1..Len(s) : /\ r[i].does = s[i].does /\ r[i].n = s[i].n
                              /\ r[i].moved = TRUE
  BY <1>4, <1>5, MovedItems
<1>7. Shape(r) BY <1>4, <1>6, ShapeAlike
<1>8. \A i \in 1..Len(r) : r[i].moved BY <1>6
<1>9. Moves(r, panic') BY <1>8 DEF Moves
<1>10. Recovers(r, token')
  <2>1. Len(r) > 1 => Len(r) \in 1..Len(r) BY <1>6
  <2>2. QED BY <1>8, <2>1 DEF Recovers
<1>11. Binds(r, token')
  <2>1. 1 \in 1..Len(s) BY <1>1, <1>4
  <2>2. r[1].does = stack[2].does /\ r[1].n = stack[2].n BY <1>4, <1>6, <2>1
  <2>3. QED BY <1>1, <2>2, NothingWaits
<1>12. ASSUME ~failed'
       PROVE  Matched(r, token', open')
  <2>1. PICK x : x = Symbol(stack, token, 1) OBVIOUS
  <2>2. Matched(stack, token, open) BY <1>12 DEF Read, ParserInv, Valid, Sound
  <2>3. stack[2].does # "skip" BY <1>1, Bottom DEF Fits
  <2>4. \A i \in 1..Len(r) : r[i].does = stack[i + 1].does BY <1>4, <1>6
  <2>5. Len(r) = Len(stack) - 1 BY <1>4, <1>6
  <2>6. /\ x \notin Bracketing => Matched(r, token', open)
        /\ x \in Opening => Matched(r, token', <<x>> \o open)
        /\ x \in Closing => /\ open # <<>> /\ open[1] \in Opening /\ Closer[open[1]] = x
                            /\ Matched(r, token', Tail(open))
    <3>1. PICK s0, t0, t2, b0 : s0 = stack /\ t0 = token /\ t2 = token' /\ b0 = open
      OBVIOUS
    <3>2. /\ s0 \in Seq(Entry) /\ s0 # <<>> /\ Matched(s0, t0, b0)
          /\ Len(s0) > 1 => s0[2].does # "skip"
          /\ Len(r) = Len(s0) - 1
          /\ \A i \in 1..Len(r) : r[i].does = s0[i + 1].does
          /\ x = Symbol(s0, t0, 1)
      BY <1>1, <2>1, <2>2, <2>3, <2>4, <2>5, <3>1
    <3>3. /\ x \notin Bracketing => Matched(r, t2, b0)
          /\ x \in Opening => Matched(r, t2, <<x>> \o b0)
          /\ x \in Closing => /\ b0 # <<>> /\ b0[1] \in Opening /\ Closer[b0[1]] = x
                              /\ Matched(r, t2, Tail(b0))
      <4>1. r \in Seq(Entry) BY <1>6
      <4>2. QED BY <3>2, <4>1, MatchedPopped, Zenon
    <3>4. QED BY <3>1, <3>3
  <2>7. open' = brackets BY <1>12 DEF Read
  <2>8. CASE x \notin Bracketing /\ brackets = open BY <2>6, <2>7, <2>8
  <2>9. CASE x = token /\ brackets = Bracket(token)
    <3>1. CASE x \notin Bracketing
      <4>1. Bracket(token) = open
        BY <2>9, <3>1, Closers DEF Bracket, Bracketing, Opening, Closing
      <4>2. QED BY <2>6, <2>7, <2>9, <3>1, <4>1
    <3>2. CASE x \in Opening
      <4>1. Bracket(token) = <<token>> \o open BY <2>9, <3>2, Closers DEF Bracket
      <4>2. QED BY <2>6, <2>7, <2>9, <3>2, <4>1
    <3>3. CASE x \in Closing
      <4>1. x \notin Opening /\ x \in {")", "]", "rbrace"} BY <3>3 DEF Opening, Closing
      <4>2. Head(open) = open[1] BY <2>6, <3>3
      <4>3. Bracket(token) = Tail(open)
        BY <2>6, <2>9, <3>3, <4>1, <4>2, Closers DEF Bracket
      <4>4. QED BY <2>6, <2>7, <2>9, <3>3, <4>3
    <3>4. QED BY <3>1, <3>2, <3>3 DEF Bracketing
  <2>10. QED BY <2>1, <2>8, <2>9
<1>13. /\ token' \in Tokens \cup {"eof"} /\ panic' \in BOOLEAN /\ failed' \in BOOLEAN
       /\ panic' => failed'
  BY DEF Read, ParserInv, Valid, Sound
<1>14. Valid(r, token', panic', failed', open')
  BY <1>7, <1>9, <1>10, <1>11, <1>12, <1>13 DEF Valid, Sound
<1>15. QED BY <1>2, <1>14 DEF ParserInv

(* The head of the stack is done, and has reported an error.                *)
LEMMA FailsRest ==
  ASSUME ParserInv, Len(stack) > 1,
         Top.does \notin Operands \cup {"expression", "climb", "join", "recover"},
         ~Reads(stack, token, 1), Fail(Rest)
  PROVE  ParserInv'
<1>1. stack # <<>> /\ stack \in Seq(Entry) /\ Shape(stack) /\ Top = stack[1]
  BY DEF ParserInv, Valid, Sound, Shape, Top
<1>2. Valid(stack, token, TRUE, TRUE, open)
  BY DEF ParserInv, Valid, Sound, Moves
<1>3. Valid(Tail(stack), token, TRUE, TRUE, open) BY <1>1, <1>2, Drops
<1>4. Valid(Tail(stack), token, TRUE, TRUE, <<>>) BY <1>3 DEF Valid, Sound
<1>5. QED BY <1>4 DEF ParserInv, Fail, Rest

-----------------------------------------------------------------------------
(* The actions.                                                             *)

LEMMA AtWork ==
  ASSUME ParserInv, NEW S, Doing(S)
  PROVE  /\ stack # <<>> /\ stack \in Seq(Entry) /\ Shape(stack)
         /\ Top = stack[1] /\ Top.does \in S /\ Top \in Entry
         /\ Top.does # "declarations" => Len(stack) > 1
         /\ Valid(stack, token, panic, failed, open)
<1>1. /\ stack # <<>> /\ Shape(stack) /\ stack \in Seq(Entry)
      /\ Top = stack[1] /\ Top.does \in S
  BY DEF ParserInv, Valid, Sound, Shape, Doing, Top
<1>2. QED BY <1>1, Bottom DEF ParserInv

LEMMA GotoValid ==
  ASSUME NEW items, Valid(items, token, panic, failed, open), Goto(items)
  PROVE  ParserInv'
BY DEF ParserInv, Goto

(* Two symbols that are not ordinary, each above the declarations.          *)
LEMMA DeclarationBegins ==
  ASSUME ParserInv, Doing({"declaration"}),
         Goto(Items(<<"attributes", "pub?", "declared">>) \o Rest)
  PROVE  ParserInv'
<1>1. /\ stack # <<>> /\ stack \in Seq(Entry) /\ Shape(stack)
      /\ stack[1].does = "declaration" /\ Len(stack) > 1
      /\ Valid(stack, token, panic, failed, open)
  <2>1. /\ stack # <<>> /\ stack \in Seq(Entry) /\ Shape(stack)
        /\ Top = stack[1] /\ Top.does \in {"declaration"}
        /\ Top.does # "declarations" => Len(stack) > 1
        /\ Valid(stack, token, panic, failed, open)
    BY AtWork
  <2>2. QED BY <2>1
<1>2. PICK p \in Seq(Symbols) : p = <<"attributes", "pub?", "declared">>
  <2>1. <<"attributes", "pub?", "declared">> \in Seq(Symbols) BY DEF Symbols, Ordinary
  <2>2. QED BY <2>1, Zenon
<1>3. PICK q : q = Items(p) OBVIOUS
<1>4. Len(p) = 3 /\ p[1] = "attributes" /\ p[2] = "pub?" /\ p[3] = "declared" BY <1>2
<1>5. /\ q \in Seq(Entry) /\ Len(q) = 3
      /\ \A i \in 1..3 : q[i].does = p[i] /\ q[i].n = 0 /\ q[i].moved = TRUE
  BY <1>3, <1>4, Itemized
<1>6. /\ q[1].does = "attributes" /\ q[2].does = "pub?" /\ q[3].does = "declared"
      /\ q[1].moved /\ q[2].moved /\ q[3].moved
  BY <1>4, <1>5
<1>7. stack[2].does = "declarations" BY <1>1, Bottom DEF Fits
<1>8. Fitting(stack, q)
  <2>1. Fits(q[1], q[2]) /\ Fits(q[2], q[3]) /\ Fits(q[3], stack[2])
    BY <1>6, <1>7 DEF Fits
  <2>2. ASSUME NEW i \in 1..(Len(q) - 1) PROVE Fits(q[i], q[i + 1])
    <3>1. i = 1 \/ i = 2 BY <1>5
    <3>2. QED BY <2>1, <3>1
  <2>3. Len(stack) # 1 BY <1>1, Bottom
  <2>4. QED BY <1>5, <2>1, <2>2, <2>3 DEF Fitting
<1>9. Moving(stack, q)
  <2>1. q[3].does \in Strict /\ 3 \in 1..Len(q) BY <1>5, <1>6 DEF Strict
  <2>2. QED BY <1>5, <2>1 DEF Moving
<1>10. Recovering(stack, token, q)
  <2>1. Len(stack) # 1 BY <1>1, Bottom
  <2>2. ~Reads(stack, token, 1) BY <1>1 DEF Reads, Readers
  <2>3. QED BY <1>1, <1>5, <1>6, <2>1, <2>2 DEF Recovering
<1>11. Enclosing(stack, token, q)
  <2>1. Pair(p, 0, 0) BY <1>4 DEF Pair, Produced, Bracketing, Opening, Closing
  <2>2. Paired(p) BY <1>4, <2>1 DEF Paired
  <2>3. stack[1].does \notin Bracketing \cup {"skip"}
    BY <1>1 DEF Bracketing, Opening, Closing
  <2>4. QED BY <1>4, <1>5, <2>2, <2>3, ProductionEncloses
<1>12. Binds(q \o Tail(stack), token)
  <2>1. (q \o Tail(stack))[1] = q[1]
    <3>1. Len(q) # 0 BY <1>5
    <3>2. QED BY <1>1, <1>5, <3>1, NotEmpty, HeadSpliced
  <2>2. QED BY <1>6, <2>1 DEF Binds
<1>13. Valid(q \o Tail(stack), token, panic, failed, open)
  BY <1>1, <1>5, <1>8, <1>9, <1>10, <1>11, <1>12, ValidSpliced
<1>14. QED BY <1>2, <1>3, <1>13, GotoValid DEF Rest

LEMMA DeclaredStatement ==
  ASSUME ParserInv, Doing({"declared"}),
         Goto(Items(<<"statement", "recover">>) \o Rest)
  PROVE  ParserInv'
<1>1. /\ stack # <<>> /\ stack \in Seq(Entry) /\ Shape(stack)
      /\ stack[1].does = "declared" /\ Len(stack) > 1
      /\ Valid(stack, token, panic, failed, open)
  <2>1. /\ stack # <<>> /\ stack \in Seq(Entry) /\ Shape(stack)
        /\ Top = stack[1] /\ Top.does \in {"declared"}
        /\ Top.does # "declarations" => Len(stack) > 1
        /\ Valid(stack, token, panic, failed, open)
    BY AtWork
  <2>2. QED BY <2>1
<1>2. PICK p \in Seq(Symbols) : p = <<"statement", "recover">>
  <2>1. <<"statement", "recover">> \in Seq(Symbols) BY DEF Symbols, Ordinary, Statements
  <2>2. QED BY <2>1, Zenon
<1>3. PICK q : q = Items(p) OBVIOUS
<1>4. Len(p) = 2 /\ p[1] = "statement" /\ p[2] = "recover" BY <1>2
<1>5. /\ q \in Seq(Entry) /\ Len(q) = 2
      /\ \A i \in 1..2 : q[i].does = p[i] /\ q[i].n = 0 /\ q[i].moved = TRUE
  BY <1>3, <1>4, Itemized
<1>6. q[1].does = "statement" /\ q[2].does = "recover" /\ q[1].moved /\ q[2].moved
  BY <1>4, <1>5
<1>7. stack[2].does = "declarations" BY <1>1, Bottom DEF Fits
<1>8. Fitting(stack, q)
  <2>1. Fits(q[1], q[2]) /\ Fits(q[2], stack[2])
    BY <1>6, <1>7 DEF Fits
  <2>2. ASSUME NEW i \in 1..(Len(q) - 1) PROVE Fits(q[i], q[i + 1])
    <3>1. i = 1 BY <1>5
    <3>2. QED BY <2>1, <3>1
  <2>3. Len(stack) # 1 BY <1>1, Bottom
  <2>4. QED BY <1>5, <2>1, <2>2, <2>3 DEF Fitting
<1>9. Moving(stack, q)
  <2>1. q[1].does \in Strict /\ 1 \in 1..Len(q) BY <1>5, <1>6 DEF Strict, Readers
  <2>2. QED BY <1>5, <2>1 DEF Moving
<1>10. Recovers(q \o Tail(stack), token)
  <2>1. PICK r : r = q \o Tail(stack) OBVIOUS
  <2>2. r[1] = q[1] /\ Len(r) = Len(stack) + 1
    <3>1. Len(q) # 0 BY <1>5
    <3>2. Len(r) = Len(q) + Len(stack) - 1 /\ r[1] = q[1]
      BY <1>1, <1>5, <2>1, <3>1, NotEmpty, HeadSpliced
    <3>3. Len(stack) \in Nat BY <1>1
    <3>4. QED BY <1>5, <3>2, <3>3
  <2>3. Reads(r, token, 1) BY <1>6, <2>2 DEF Reads, Readers
  <2>4. 1 \in 1..(Len(r) - 2) BY <1>1, <2>2
  <2>5. QED BY <2>1, <2>3, <2>4 DEF Recovers
<1>11. Enclosing(stack, token, q)
  <2>1. Pair(p, 0, 0) BY <1>4 DEF Pair, Produced, Bracketing, Opening, Closing
  <2>2. Paired(p) BY <1>4, <2>1 DEF Paired
  <2>3. stack[1].does \notin Bracketing \cup {"skip"}
    BY <1>1 DEF Bracketing, Opening, Closing
  <2>4. QED BY <1>4, <1>5, <2>2, <2>3, ProductionEncloses
<1>12. Binds(q \o Tail(stack), token)
  <2>1. (q \o Tail(stack))[1] = q[1]
    <3>1. Len(q) # 0 BY <1>5
    <3>2. QED BY <1>1, <1>5, <3>1, NotEmpty, HeadSpliced
  <2>2. QED BY <1>6, <2>1 DEF Binds
<1>13. Valid(q \o Tail(stack), token, panic, failed, open)
  BY <1>1, <1>5, <1>8, <1>9, <1>10, <1>11, <1>12, ValidSpliced
<1>14. QED BY <1>2, <1>3, <1>13, GotoValid DEF Rest


LEMMA CallInv ==
  ASSUME ParserInv, Call
  PROVE  ParserInv'
<1>1. ASSUME NEW S, Doing(S), S \subseteq Ordinarily,
             NEW p, Productive(Top.does, p), Goto(Items(p) \o Rest)
      PROVE  ParserInv'
  <2>1. /\ Top = stack[1] /\ Top.does \in Ordinarily
        /\ Valid(stack, token, panic, failed, open)
        /\ Top.does # "declarations" => Len(stack) > 1
    BY <1>1, AtWork
  <2>2. Len(stack) > 1 BY <2>1 DEF Ordinarily
  <2>3. Valid(Items(p) \o Tail(stack), token, panic, failed, open)
    BY <1>1, <2>1, <2>2, Produces
  <2>4. QED BY <1>1, <2>3, GotoValid DEF Rest
<1>2. CASE Doing(Types) /\ Goto(Items(ParseType(Top.does)) \o Rest)
  <2>1. Types \subseteq Ordinarily
    BY DEF Types, Ordinarily, Symbols, Ordinary, Bracketing, Opening, Closing
  <2>2. Top.does \in Types BY <1>2 DEF Doing, Top
  <2>3. QED BY <1>1, <1>2, <2>1, <2>2, TypeProductive
<1>3. CASE Doing(Primaries) /\ Goto(Items(ParsePrimary(Top.does)) \o Rest)
  <2>1. Primaries \subseteq Ordinarily
    BY DEF Primaries, Ordinarily, Symbols, Ordinary, Bracketing, Opening, Closing
  <2>2. Top.does \in Primaries BY <1>3 DEF Doing, Top
  <2>3. QED BY <1>1, <1>3, <2>1, <2>2, PrimaryProductive
<1>4. CASE Doing(Postfixes) /\ Goto(Items(ParsePostfix(Top.does)) \o Rest)
  <2>1. Postfixes \subseteq Ordinarily
    BY DEF Postfixes, Ordinarily, Symbols, Ordinary, Bracketing, Opening, Closing
  <2>2. Top.does \in Postfixes BY <1>4 DEF Doing, Top
  <2>3. QED BY <1>1, <1>4, <2>1, <2>2, PostfixProductive
<1>5. CASE Doing(Statements) /\ Goto(Items(ParseStatement(Top.does)) \o Rest)
  <2>1. Statements \subseteq Ordinarily
    BY DEF Statements, Ordinarily, Symbols, Ordinary, Bracketing, Opening, Closing
  <2>2. Top.does \in Statements BY <1>5 DEF Doing, Top
  <2>3. QED BY <1>1, <1>5, <2>1, <2>2, StatementProductive
<1>6. CASE Doing(Declared) /\ Goto(Items(ParseDeclaration(Top.does)) \o Rest)
  <2>1. Declared \subseteq Ordinarily
    BY DEF Declared, Ordinarily, Symbols, Ordinary, Bracketing, Opening, Closing
  <2>2. Top.does \in Declared BY <1>6 DEF Doing, Top
  <2>3. CASE Top.does \notin {"declaration", "declared"}
    <3>1. Productive(Top.does, ParseDeclaration(Top.does)) BY <2>2, <2>3, DeclaredProductive
    <3>2. QED BY <1>1, <1>6, <2>1, <3>1
  <2>4. CASE Top.does = "declaration"
    <3>1. ParseDeclaration("declaration") = <<"attributes", "pub?", "declared">>
      BY DEF ParseDeclaration
    <3>2. Goto(Items(<<"attributes", "pub?", "declared">>) \o Rest) BY <1>6, <2>4, <3>1
    <3>3. Doing({"declaration"}) BY <1>6, <2>4 DEF Doing, Top
    <3>4. QED BY <3>2, <3>3, DeclarationBegins
  <2>5. CASE Top.does = "declared"
    <3>1. PICK p : p = ParseDeclaration("declared") OBVIOUS
    <3>2. CASE /\ p \in Seq(Ordinary) /\ p # <<>> /\ p[1] = "skip" /\ Paired(p)
               /\ \A i \in 2..Len(p) : p[i] # "skip"
      <4>1. Productive("declared", p)
        BY <3>2 DEF Productive, Strict, Readers, Postfixes
      <4>2. QED BY <1>1, <1>6, <2>1, <2>5, <3>1, <4>1
    <3>3. CASE p = <<"statement", "recover">>
      <4>1. Goto(Items(<<"statement", "recover">>) \o Rest) BY <1>6, <2>5, <3>1, <3>3
      <4>2. Doing({"declared"}) BY <1>6, <2>5 DEF Doing, Top
      <4>3. QED BY <4>1, <4>2, DeclaredStatement
    <3>4. QED BY <3>1, <3>2, <3>3, DeclarationProduced
  <2>6. QED BY <2>3, <2>4, <2>5
<1>7. QED BY <1>2, <1>3, <1>4, <1>5, <1>6 DEF Call

LEMMA TokenIsNoFunction ==
  ASSUME NEW x \in Tokens \cup {"end"}
  PROVE  x \notin Operands \cup Readers \cup {"block", "climb", "join", "recover",
                                             "declarations"}
<1>1. CASE x \in Tokens
  <2>1. x \notin Functions BY <1>1, TokenAssumption
  <2>2. /\ Operands \cup Readers \cup {"block", "climb", "join", "recover"} \subseteq Functions
    BY DEF Operands, Readers, Functions, Postfixes, Primaries, Statements
  <2>3. "declarations" \in Functions BY DEF Functions, Lists
  <2>4. QED BY <2>1, <2>2, <2>3
<1>2. CASE x = "end" BY <1>2 DEF Operands, Readers
<1>3. QED BY <1>1, <1>2

LEMMA ExpectInv ==
  ASSUME ParserInv, Expect
  PROVE  ParserInv'
<1>1. Doing(Tokens \cup {"end"}) BY DEF Expect
<1>2. /\ stack # <<>> /\ stack \in Seq(Entry) /\ Shape(stack)
      /\ Top = stack[1] /\ Top.does \in Tokens \cup {"end"}
      /\ Top.does # "declarations" => Len(stack) > 1
      /\ Valid(stack, token, panic, failed, open)
  BY <1>1, AtWork
<1>3. Top.does \notin Operands \cup Readers \cup {"block", "climb", "join", "recover",
                                                  "declarations"}
  BY <1>2, TokenIsNoFunction
<1>4. Len(stack) > 1 BY <1>2, <1>3
<1>5. Top.does \notin Operands \cup {"expression", "climb", "join", "recover"}
  BY <1>3 DEF Readers
<1>6. CASE token = Wanted
  <2>1. Read(Rest, Bracket(token)) BY <1>6 DEF Expect
  <2>2. Symbol(stack, token, 1) = Top.does BY <1>2, <1>3 DEF Symbol, Readers
  <2>3. CASE Top.does = "end"
    <3>1. token = "semi" BY <1>6, <2>3 DEF Wanted
    <3>2. Bracket(token) = open BY <3>1, Closers DEF Bracket, Opening
    <3>3. "end" \notin Bracketing BY DEF Bracketing, Opening, Closing
    <3>4. QED BY <1>4, <1>5, <2>1, <2>2, <2>3, <3>2, <3>3, ReadsRest
  <2>4. CASE Top.does # "end"
    <3>1. Top.does = token BY <1>6, <2>4 DEF Wanted
    <3>2. QED BY <1>4, <1>5, <2>1, <2>2, <3>1, ReadsRest
  <2>5. QED BY <2>3, <2>4
<1>7. CASE token # Wanted
  <2>1. ~Reads(stack, token, 1)
    BY <1>2, <1>3, <1>7 DEF Reads, Wanted
  <2>2. CASE panic
    <3>1. Goto(Rest) BY <1>7, <2>2 DEF Expect
    <3>2. failed BY <1>2, <2>2 DEF Valid, Sound
    <3>3. Valid(Tail(stack), token, panic, failed, open)
      BY <1>2, <1>4, <1>5, <2>1, <2>2, <3>2, Drops
    <3>4. QED BY <3>1, <3>3, GotoValid DEF Rest
  <2>3. CASE ~panic
    <3>1. Fail(Rest) BY <1>7, <2>3 DEF Expect
    <3>2. QED BY <1>4, <1>5, <2>1, <3>1, FailsRest
  <2>4. QED BY <2>2, <2>3
<1>8. QED BY <1>6, <1>7

LEMMA MatchInv ==
  ASSUME ParserInv, Match
  PROVE  ParserInv'
<1>1. Doing({"mut?", "pub?", "comma?"}) BY DEF Match
<1>2. /\ stack # <<>> /\ Top = stack[1] /\ Top.does \in {"mut?", "pub?", "comma?"}
      /\ Top.does # "declarations" => Len(stack) > 1
      /\ Valid(stack, token, panic, failed, open)
  BY <1>1, AtWork
<1>3. Len(stack) > 1 BY <1>2
<1>4. /\ Top.does \notin Operands \cup {"expression", "climb", "join", "recover"}
      /\ Top.does \notin Bracketing \cup {"skip"}
      /\ Top.does \notin Strict
  BY <1>2 DEF Operands, Bracketing, Opening, Closing, Strict, Readers
<1>5. CASE Read(Rest, open)
  <2>1. Symbol(stack, token, 1) \notin Bracketing BY <1>2, <1>4 DEF Symbol
  <2>2. QED BY <1>3, <1>4, <1>5, <2>1, ReadsRest
<1>6. CASE Goto(Rest)
  <2>1. ~Reads(stack, token, 1) BY <1>2 DEF Reads, Readers
  <2>2. Valid(Tail(stack), token, panic, failed, open) BY <1>2, <1>3, <1>4, <2>1, Drops
  <2>3. QED BY <1>6, <2>2, GotoValid DEF Rest
<1>7. QED BY <1>5, <1>6 DEF Match

LEMMA SkipInv ==
  ASSUME ParserInv, Skip \/ SkipAny
  PROVE  ParserInv'
<1>1. Doing({"skip", "any"}) BY DEF Skip, SkipAny, Doing
<1>2. /\ stack # <<>> /\ Top = stack[1] /\ Top.does \in {"skip", "any"}
      /\ Top.does # "declarations" => Len(stack) > 1
  BY <1>1, AtWork
<1>3. Len(stack) > 1 BY <1>2
<1>4. Top.does \notin Operands \cup {"expression", "climb", "join"} BY <1>2 DEF Operands
<1>5. CASE Skip
  <2>1. Symbol(stack, token, 1) = token /\ Read(Rest, Bracket(token))
    BY <1>2, <1>5 DEF Skip, Doing, Top, Symbol
  <2>2. QED BY <1>3, <1>4, <2>1, ReadsRest
<1>6. CASE SkipAny
  <2>1. Top.does = "any" /\ Read(Rest, open) BY <1>6 DEF SkipAny, Doing, Top
  <2>2. Symbol(stack, token, 1) \notin Bracketing
    BY <1>2, <2>1 DEF Symbol, Bracketing, Opening, Closing
  <2>3. QED BY <1>3, <1>4, <2>1, <2>2, ReadsRest
<1>7. QED BY <1>5, <1>6

LEMMA ErrorInv ==
  ASSUME ParserInv, Error
  PROVE  ParserInv'
<1>1. Doing({"fail"}) BY DEF Error
<1>2. /\ stack # <<>> /\ Top = stack[1] /\ Top.does \in {"fail"}
      /\ Top.does # "declarations" => Len(stack) > 1
      /\ Valid(stack, token, panic, failed, open)
  BY <1>1, AtWork
<1>3. Len(stack) > 1 BY <1>2
<1>4. Top.does \notin Operands \cup {"expression", "climb", "join", "recover"}
  BY <1>2 DEF Operands
<1>5. ~Reads(stack, token, 1) BY <1>2 DEF Reads, Readers
<1>6. CASE panic
  <2>1. Goto(Rest) BY <1>6 DEF Error
  <2>2. failed BY <1>2, <1>6 DEF Valid, Sound
  <2>3. Valid(Tail(stack), token, panic, failed, open)
    BY <1>2, <1>3, <1>4, <1>5, <1>6, <2>2, Drops
  <2>4. QED BY <2>1, <2>3, GotoValid DEF Rest
<1>7. CASE ~panic
  <2>1. Fail(Rest) BY <1>7 DEF Error
  <2>2. QED BY <1>3, <1>4, <1>5, <2>1, FailsRest
<1>8. QED BY <1>6, <1>7

LEMMA RepeatInv ==
  ASSUME ParserInv, Repeat
  PROVE  ParserInv'
<1>1. Doing({"repeat?"}) BY DEF Repeat
<1>2. /\ stack # <<>> /\ Shape(stack) /\ Top = stack[1] /\ Top.does \in {"repeat?"}
      /\ Top.does # "declarations" => Len(stack) > 1
      /\ Valid(stack, token, panic, failed, open)
  BY <1>1, AtWork
<1>3. Len(stack) > 1 /\ stack[1].does = "repeat?" BY <1>2
<1>4. Valid(Tail(stack), token, panic, failed, open)
  <2>1. /\ stack[1].does \notin Operands \cup {"expression", "climb", "join", "recover"}
        /\ stack[1].does \notin Bracketing \cup {"skip"}
        /\ stack[1].does \notin Strict
        /\ ~Reads(stack, token, 1)
    BY <1>3 DEF Operands, Bracketing, Opening, Closing, Strict, Readers, Reads
  <2>2. QED BY <1>2, <1>3, <2>1, Drops
<1>5. CASE Goto(Rest) BY <1>4, <1>5, GotoValid DEF Rest
<1>6. CASE token = "semi" /\ Goto(Items(<<"skip", "expression">>) \o Tail(Rest))
  <2>1. PICK s : s = Tail(stack) OBVIOUS
  <2>2. s[1] = stack[2] /\ s # <<>> /\ Shape(s)
    <3>1. stack \in Seq(Entry) /\ Len(stack) \in Nat BY <1>2, Bottom
    <3>2. /\ Shape(s) /\ Len(s) = Len(stack) - 1
          /\ \A i \in 1..(Len(stack) - 1) : s[i] = stack[i + 1]
      BY <1>2, <1>3, <2>1, TailShape
    <3>3. 1 \in 1..(Len(stack) - 1) /\ Len(s) # 0 BY <1>3, <3>1, <3>2
    <3>4. QED BY <3>2, <3>3, NotEmpty
  <2>3. s[1].does = "elements" BY <1>2, <1>3, <2>2, Bottom DEF Fits
  <2>4. Len(s) > 1 BY <2>2, <2>3, Bottom
  <2>5. s[1].does \in Ordinarily
    BY <2>3 DEF Ordinarily, Symbols, Ordinary, Bracketing, Opening, Closing
  <2>6. PICK p : p = <<"skip", "expression">> OBVIOUS
  <2>7. Productive("elements", p)
    <3>1. Len(p) = 2 /\ p[1] = "skip" /\ p[2] = "expression" BY <2>6
    <3>2. p \in Seq(Ordinary)
      <4>1. <<"skip", "expression">> \in Seq(Ordinary) BY DEF Ordinary
      <4>2. QED BY <2>6, <4>1, Zenon
    <3>3. Pair(p, 0, 0)
      BY <1>6, <3>1 DEF Pair, Produced, Bracketing, Opening, Closing
    <3>4. Paired(p) BY <3>1, <3>3 DEF Paired
    <3>5. \A i \in 2..Len(p) : p[i] # "skip" BY <3>1
    <3>6. QED BY <3>2, <3>4, <3>5 DEF Productive, Strict, Readers, Postfixes
  <2>8. Valid(Items(p) \o Tail(s), token, panic, failed, open)
    BY <1>4, <2>1, <2>3, <2>4, <2>5, <2>7, Produces
  <2>9. QED BY <1>6, <2>1, <2>6, <2>8, GotoValid DEF Rest
<1>7. QED BY <1>5, <1>6 DEF Repeat

LEMMA RecoverInv ==
  ASSUME ParserInv, Recover
  PROVE  ParserInv'
<1>1. Doing({"recover"}) BY DEF Recover
<1>2. /\ stack # <<>> /\ stack \in Seq(Entry) /\ Shape(stack)
      /\ Top = stack[1] /\ Top.does \in {"recover"}
      /\ Top.does # "declarations" => Len(stack) > 1
      /\ Valid(stack, token, panic, failed, open)
  BY <1>1, AtWork
<1>3. Len(stack) > 1 /\ stack[1].does = "recover" BY <1>2
<1>4. stack[2].does = "declarations" BY <1>2, <1>3, Bottom DEF Fits
<1>5. PICK s : s = Tail(stack) OBVIOUS
<1>6. /\ Shape(s) /\ s \in Seq(Entry) /\ Len(s) = Len(stack) - 1
      /\ \A i \in 1..(Len(stack) - 1) : s[i] = stack[i + 1]
  BY <1>2, <1>3, <1>5, TailShape
<1>7. /\ Len(stack) \in Nat /\ 1 \in 1..(Len(stack) - 1) /\ s # <<>>
  <2>1. Len(stack) \in Nat BY <1>2
  <2>2. 1 \in 1..(Len(stack) - 1) /\ Len(s) # 0 BY <1>3, <1>6, <2>1
  <2>3. QED BY <2>1, <2>2, NotEmpty
<1>8. s[1] = stack[2] BY <1>6, <1>7
<1>9. Len(s) = 1 /\ Len(stack) = 2
  <2>1. Len(s) = 1 BY <1>4, <1>6, <1>7, <1>8, Bottom
  <2>2. \A n \in Nat : 1 = n - 1 => n = 2 OBVIOUS
  <2>3. Len(s) = Len(stack) - 1 /\ Len(stack) \in Nat BY <1>6, <1>7
  <2>4. QED BY <2>1, <2>2, <2>3, Zenon
<1>10. s[1].moved
  <2>1. Recovers(stack, token) BY <1>2 DEF Valid, Sound
  <2>2. stack[Len(stack) - 1].does = "recover" /\ stack[Len(stack)] = s[1]
    BY <1>3, <1>8, <1>9
  <2>3. 1..(Len(stack) - 2) = {} BY <1>9
  <2>4. s[1].moved \in BOOLEAN
    <3>1. s[1] \in Entry BY <1>6, <1>9
    <3>2. QED BY <3>1 DEF Entry
  <2>5. QED BY <1>3, <2>1, <2>2, <2>3, <2>4 DEF Recovers
<1>11. CASE panic
  <2>1. PICK p : p = Items(<<"synchronize">>) OBVIOUS
  <2>2. /\ p \in Seq(Entry) /\ Len(p) = 1
        /\ p[1].does = "synchronize" /\ p[1].moved = TRUE
    <3>1. PICK w \in Seq(Symbols) : w = <<"synchronize">>
      <4>1. <<"synchronize">> \in Seq(Symbols) BY DEF Symbols
      <4>2. QED BY <4>1, Zenon
    <3>2. Len(w) = 1 /\ w[1] = "synchronize" /\ 1 \in 1..Len(w) BY <3>1
    <3>3. QED BY <2>1, <3>1, <3>2, Itemized
  <2>3. PICK r : r = p \o Tail(stack) OBVIOUS
  <2>4. Shape(r)
    <3>1. 1..(Len(p) - 1) = {} BY <2>2
    <3>2. Fits(p[Len(p)], stack[2]) BY <1>4, <2>2 DEF Fits
    <3>3. Len(stack) # 1 BY <1>9
    <3>4. /\ \A i \in 1..(Len(p) - 1) : Fits(p[i], p[i + 1])
          /\ p # <<>> /\ Len(stack) > 1 => Fits(p[Len(p)], stack[2])
          /\ Len(stack) = 1 /\ p # <<>> => p[Len(p)].does = "declarations"
      BY <3>1, <3>2, <3>3
    <3>5. QED BY <1>2, <2>2, <2>3, <3>4, ShapeSpliced
  <2>5. Len(r) = 2 /\ r[1] = p[1] /\ r[2] = s[1]
    <3>1. Len(p) # 0 BY <2>2
    <3>2. /\ Len(r) = Len(p) + Len(stack) - 1 /\ r[1] = p[1]
          /\ r[Len(p) + 1] = stack[2]
      BY <1>2, <1>3, <2>2, <2>3, <3>1, NotEmpty, HeadSpliced
    <3>3. Len(r) = 2 /\ Len(p) + 1 = 2 BY <1>9, <2>2, <3>2
    <3>4. QED BY <1>8, <3>2, <3>3
  <2>6. \A i \in 1..Len(r) : r[i].moved
    <3>1. \A i \in 1..2 : i = 1 \/ i = 2 OBVIOUS
    <3>2. QED BY <1>10, <2>2, <2>5, <3>1
  <2>7. Moves(r, FALSE) BY <2>6 DEF Moves
  <2>8. Recovers(r, token)
    <3>1. Len(r) \in 1..Len(r) BY <2>5
    <3>2. QED BY <2>6, <3>1 DEF Recovers
  <2>9. Binds(r, token) BY <2>2, <2>5 DEF Binds
  <2>10. Valid(r, token, FALSE, failed, open)
    BY <1>2, <1>11, <2>4, <2>7, <2>8, <2>9 DEF Valid, Sound
  <2>11. QED BY <1>11, <2>1, <2>3, <2>10 DEF Recover, ParserInv, Rest
<1>12. CASE ~panic
  <2>1. \A i \in 1..Len(s) : s[i].moved
    <3>1. \A i \in 1..1 : i = 1 OBVIOUS
    <3>2. QED BY <1>9, <1>10, <3>1
  <2>2. Moves(s, FALSE) BY <2>1 DEF Moves
  <2>3. Recovers(s, token) BY <1>9 DEF Recovers
  <2>4. Binds(s, token) BY <1>4, <1>8 DEF Binds
  <2>5. ASSUME ~failed PROVE Matched(s, token, open)
    <3>1. Matched(stack, token, open) BY <1>2, <2>5 DEF Valid, Sound
    <3>2. PICK s0, t0, b0, x : s0 = stack /\ t0 = token /\ b0 = open /\ x = Symbol(s0, t0, 1)
      OBVIOUS
    <3>3. stack[2].does # "skip" BY <1>4
    <3>4. \A i \in 1..Len(s) : s[i].does = stack[i + 1].does BY <1>6
    <3>5. /\ s0 \in Seq(Entry) /\ s0 # <<>> /\ Matched(s0, t0, b0)
          /\ Len(s0) > 1 => s0[2].does # "skip"
          /\ Len(s) = Len(s0) - 1
          /\ \A i \in 1..Len(s) : s[i].does = s0[i + 1].does
      BY <1>2, <1>6, <3>1, <3>2, <3>3, <3>4
    <3>6. x \notin Bracketing => Matched(s, t0, b0)
      BY <1>6, <3>2, <3>5, MatchedPopped, Zenon
    <3>7. x \notin Bracketing
      BY <1>3, <3>2 DEF Symbol, Bracketing, Opening, Closing
    <3>8. QED BY <3>2, <3>6, <3>7
  <2>6. Valid(s, token, FALSE, failed, open)
    BY <1>2, <1>6, <1>12, <2>2, <2>3, <2>4, <2>5 DEF Valid, Sound
  <2>7. QED BY <1>5, <1>12, <2>6 DEF Recover, ParserInv, Rest
<1>13. QED BY <1>11, <1>12

LEMMA SynchronizeInv ==
  ASSUME ParserInv, Synchronize
  PROVE  ParserInv'
<1>1. Doing({"synchronize"}) BY DEF Synchronize
<1>2. /\ stack # <<>> /\ stack \in Seq(Entry) /\ Shape(stack)
      /\ Top = stack[1] /\ Top.does \in {"synchronize"}
      /\ Top.does # "declarations" => Len(stack) > 1
      /\ Valid(stack, token, panic, failed, open)
  BY <1>1, AtWork
<1>3. Len(stack) > 1 /\ stack[1].does = "synchronize" BY <1>2
<1>4. CASE Goto(Rest)
  <2>1. /\ stack[1].does \notin Operands \cup {"expression", "climb", "join", "recover"}
        /\ stack[1].does \notin Bracketing \cup {"skip"}
        /\ stack[1].does \notin Strict
        /\ ~Reads(stack, token, 1)
    BY <1>3 DEF Operands, Bracketing, Opening, Closing, Strict, Readers, Reads
  <2>2. Valid(Tail(stack), token, panic, failed, open) BY <1>2, <1>3, <2>1, Drops
  <2>3. QED BY <1>4, <2>2, GotoValid DEF Rest
<1>5. CASE Read(stack, open)
  <2>1. PICK r : r = stack' OBVIOUS
  <2>2. r = AllMoved(stack) BY <1>5, <2>1 DEF Read, AllMoved
  <2>3. /\ r \in Seq(Entry) /\ Len(r) = Len(stack)
        /\ \A i \in 1..Len(stack) : /\ r[i].does = stack[i].does /\ r[i].n = stack[i].n
                                    /\ r[i].moved = TRUE
    BY <1>2, <2>2, MovedItems
  <2>4. Shape(r) BY <1>2, <2>3, ShapeAlike
  <2>5. Moves(r, panic') BY <2>3 DEF Moves
  <2>6. Recovers(r, token')
    <3>1. Len(r) > 1 => Len(r) \in 1..Len(r) BY <2>3
    <3>2. QED BY <2>3, <3>1 DEF Recovers
  <2>7. Binds(r, token')
    <3>1. 1 \in 1..Len(stack) BY <1>2
    <3>2. r[1].does = "synchronize" BY <1>3, <2>3, <3>1
    <3>3. QED BY <3>2 DEF Binds
  <2>8. ASSUME ~failed' PROVE Matched(r, token', open')
    <3>1. Matched(stack, token, open) /\ open' = open
      BY <1>2, <1>5, <2>8 DEF Read, Valid, Sound
    <3>2. PICK s0, t0, b0, t2 : s0 = stack /\ t0 = token /\ b0 = open /\ t2 = token'
      OBVIOUS
    <3>3. /\ s0 \in Seq(Entry) /\ Matched(s0, t0, b0)
          /\ r \in Seq(Entry) /\ Len(r) = Len(s0)
          /\ \A i \in 1..Len(s0) : r[i].does = s0[i].does
          /\ s0 # <<>> => s0[1].does # "skip"
      BY <1>2, <1>3, <2>3, <3>1, <3>2
    <3>4. Matched(r, t2, b0) BY <3>3, MatchedAlike, Zenon
    <3>5. QED BY <3>1, <3>2, <3>4
  <2>9. /\ token' \in Tokens \cup {"eof"} /\ panic' \in BOOLEAN /\ failed' \in BOOLEAN
        /\ panic' => failed'
    BY <1>2, <1>5 DEF Read, Valid, Sound
  <2>10. Valid(r, token', panic', failed', open')
    BY <2>4, <2>5, <2>6, <2>7, <2>8, <2>9 DEF Valid, Sound
  <2>11. QED BY <2>1, <2>10 DEF ParserInv
<1>6. QED BY <1>4, <1>5 DEF Synchronize

LEMMA ExpressionInv ==
  ASSUME ParserInv, Expression
  PROVE  ParserInv'
<1>1. Doing({"expression"}) BY DEF Expression
<1>2. /\ stack # <<>> /\ stack \in Seq(Entry) /\ Shape(stack)
      /\ Top = stack[1] /\ Top.does \in {"expression"} /\ Top \in Entry
      /\ Top.does # "declarations" => Len(stack) > 1
      /\ Valid(stack, token, panic, failed, open)
  BY <1>1, AtWork
<1>3. Len(stack) > 1 /\ stack[1].does = "expression" BY <1>2
<1>4. PICK e : e = [Top EXCEPT !.does = "climb"] OBVIOUS
<1>5. e \in Entry /\ e.does = "climb" /\ e.n = Top.n
  BY <1>2, <1>4 DEF Entry, Symbols
<1>6. PICK o : o = Item("postfix") OBVIOUS
<1>7. o \in Entry /\ o.does = "postfix" /\ o.moved = TRUE
  BY <1>6 DEF Item, Entry, Symbols, Ordinary, Postfixes
<1>8. PICK q \in Seq(Entry) : q = <<o, e>>
  <2>1. <<o, e>> \in Seq(Entry) BY <1>5, <1>7
  <2>2. QED BY <2>1, Zenon
<1>9. Len(q) = 2 /\ q[1] = o /\ q[2] = e BY <1>8
<1>10. Fitting(stack, q)
  <2>1. Fits(stack[1], stack[2]) BY <1>2, <1>3, Bottom
  <2>2. Fits(o, e) BY <1>5, <1>7 DEF Fits
  <2>3. Fits(e, stack[2]) BY <1>2, <1>3, <1>5, <2>1 DEF Fits
  <2>4. \A i \in 1..(Len(q) - 1) : i = 1 BY <1>9
  <2>5. \A i \in 1..(Len(q) - 1) : Fits(q[i], q[i + 1]) BY <1>9, <2>2, <2>4
  <2>6. Len(stack) # 1 BY <1>2, <1>3, Bottom
  <2>7. QED BY <1>9, <2>3, <2>5, <2>6 DEF Fitting
<1>11. Moving(stack, q)
  <2>1. q[1].does \in Strict /\ q[1].moved /\ 1 \in 1..Len(q)
    BY <1>7, <1>9 DEF Strict, Readers
  <2>2. ASSUME NEW i \in 1..Len(q), ~q[i].moved
        PROVE  \E j \in 1..(i - 1) : q[j].does \in Strict
    <3>1. i = 2 BY <1>9, <2>1, <2>2
    <3>2. 1 \in 1..(i - 1) BY <3>1
    <3>3. QED BY <2>1, <3>2
  <2>3. QED BY <2>1, <2>2 DEF Moving
<1>12. Recovering(stack, token, q)
  <2>1. Len(stack) # 1 BY <1>2, <1>3, Bottom
  <2>2. Reads(q, token, 1) /\ 1 \in 1..Len(q) BY <1>7, <1>9 DEF Reads, Readers
  <2>3. QED BY <1>3, <1>5, <1>9, <2>1, <2>2 DEF Recovering
<1>13. Enclosing(stack, token, q)
  <2>1. PICK p \in Seq(Symbols) : p = <<"postfix", "climb">>
    <3>1. <<"postfix", "climb">> \in Seq(Symbols) BY DEF Symbols, Ordinary, Postfixes
    <3>2. QED BY <3>1, Zenon
  <2>2. Len(p) = 2 /\ p[1] = "postfix" /\ p[2] = "climb" BY <2>1
  <2>3. Pair(p, 0, 0) BY <2>2 DEF Pair, Produced, Bracketing, Opening, Closing
  <2>4. Paired(p) BY <2>2, <2>3 DEF Paired
  <2>5. stack[1].does \notin Bracketing \cup {"skip"}
    BY <1>3 DEF Bracketing, Opening, Closing
  <2>6. \A i \in 1..Len(p) : q[i].does = p[i]
    <3>1. \A i \in 1..2 : i = 1 \/ i = 2 OBVIOUS
    <3>2. QED BY <1>5, <1>7, <1>9, <2>2, <3>1
  <2>7. QED BY <1>9, <2>2, <2>4, <2>5, <2>6, ProductionEncloses
<1>14. Binds(q \o Tail(stack), token)
  <2>1. (q \o Tail(stack))[1] = q[1]
    <3>1. Len(q) # 0 BY <1>9
    <3>2. QED BY <1>2, <3>1, NotEmpty, HeadSpliced
  <2>2. QED BY <1>7, <1>9, <2>1 DEF Binds
<1>15. Valid(q \o Tail(stack), token, panic, failed, open)
  BY <1>2, <1>10, <1>11, <1>12, <1>13, <1>14, ValidSpliced
<1>16. Goto(q \o Rest) BY <1>4, <1>6, <1>8 DEF Expression
<1>17. QED BY <1>15, <1>16, GotoValid DEF Rest

(* The operand on top is handed on, and its precedence is prec.             *)
LEMMA Returned ==
  ASSUME ParserInv, Len(stack) > 1, Top.does \in {"whole", "climb", "join"},
         NEW prec \in Nat, Goto(Return(prec)),
         stack[2].does = "climb" => prec > stack[2].n /\ Precedence(token) <= prec,
         stack[2].does = "join" => /\ stack[2].n < 12 => prec > stack[2].n
                                   /\ Precedence(token) <= stack[2].n
  PROVE  ParserInv'
<1>1. /\ stack # <<>> /\ stack \in Seq(Entry) /\ Shape(stack)
      /\ Top = stack[1] /\ Sound(stack, token, panic, failed, open)
  BY DEF ParserInv, Valid, Sound, Shape, Top
<1>2. PICK s : s = Tail(stack) OBVIOUS
<1>3. /\ Shape(s) /\ s \in Seq(Entry) /\ Len(s) = Len(stack) - 1
      /\ \A i \in 1..(Len(stack) - 1) : s[i] = stack[i + 1]
  BY <1>1, <1>2, TailShape
<1>4. Len(s) \in Nat /\ Len(s) >= 1 /\ Len(stack) \in Nat BY <1>1, <1>3
<1>5. s # <<>> /\ s[1] = stack[2] /\ s[1] \in Entry
  <2>1. 1 \in 1..(Len(stack) - 1) /\ 1 \in 1..Len(s) BY <1>3, <1>4
  <2>2. s # <<>> BY <2>1, EmptySeq
  <2>3. QED BY <1>3, <2>1, <2>2
<1>6. Sound(s, token, panic, failed, open)
  <2>1. /\ stack[1].does # "recover" /\ ~Reads(stack, token, 1)
        /\ stack[1].does \notin Strict
        /\ stack[1].does \notin Bracketing \cup {"skip"}
    BY <1>1 DEF Reads, Readers, Strict, Bracketing, Opening, Closing
  <2>2. QED BY <1>1, <1>2, <2>1, SoundDrops
<1>7. PICK e : e = [s[1] EXCEPT !.operand = prec] OBVIOUS
<1>8. /\ e \in Entry /\ e.operand = prec
      /\ e.does = s[1].does /\ e.n = s[1].n /\ e.moved = s[1].moved
  BY <1>5, <1>7 DEF Entry
<1>9. PICK r : r = <<e>> \o Tail(s) OBVIOUS
<1>10. /\ r \in Seq(Entry) /\ Len(r) = Len(s) /\ r[1] = e
       /\ \A i \in 2..Len(s) : r[i] = s[i]
  <2>1. PICK p \in Seq(Entry) : p = <<e>>
    <3>1. <<e>> \in Seq(Entry) BY <1>8
    <3>2. QED BY <3>1, Zenon
  <2>2. Len(p) = 1 /\ p[1] = e /\ 1 \in 1..Len(p) BY <2>1
  <2>3. /\ r \in Seq(Entry) /\ Len(r) = Len(p) + Len(s) - 1
        /\ \A i \in 1..Len(p) : r[i] = p[i]
        /\ \A i \in 2..Len(s) : r[Len(p) + i - 1] = s[i]
    BY <1>3, <1>5, <1>9, <2>1, Spliced
  <2>4. \A i \in 2..Len(s) : Len(p) + i - 1 = i BY <2>2
  <2>5. Len(r) = Len(s) BY <1>4, <2>2, <2>3
  <2>6. QED BY <2>2, <2>3, <2>4, <2>5
<1>11. \A i \in 1..Len(s) : /\ r[i].does = s[i].does /\ r[i].n = s[i].n
                            /\ r[i].moved = s[i].moved
  <2>1. \A i \in 1..Len(s) : i = 1 \/ i \in 2..Len(s) OBVIOUS
  <2>2. QED BY <1>8, <1>10, <2>1
<1>12. Sound(r, token, panic, failed, open)
  <2>1. Shape(r) BY <1>3, <1>10, <1>11, ShapeAlike
  <2>2. Moves(r, panic)
    <3>1. Moves(s, panic) BY <1>6 DEF Sound
    <3>2. SUFFICES ASSUME ~panic, NEW i \in 1..Len(r), ~r[i].moved
                   PROVE  \E j \in 1..(i - 1) : r[j].does \in Strict
      BY DEF Moves
    <3>3. i \in 1..Len(s) /\ ~s[i].moved BY <1>10, <1>11, <3>2
    <3>4. PICK j \in 1..(i - 1) : s[j].does \in Strict BY <3>1, <3>2, <3>3 DEF Moves
    <3>5. j \in 1..Len(s) BY <1>4, <3>3, <3>4
    <3>6. QED BY <1>11, <3>4, <3>5
  <2>3. Recovers(r, token)
    <3>1. Recovers(s, token) BY <1>6 DEF Sound
    <3>2. SUFFICES ASSUME Len(r) > 1, r[Len(r) - 1].does = "recover", ~r[Len(r)].moved
                   PROVE  \E j \in 1..(Len(r) - 2) : Reads(r, token, j)
      BY DEF Recovers
    <3>3. Len(s) > 1 /\ Len(s) - 1 \in 1..Len(s) /\ Len(s) \in 1..Len(s)
      BY <1>4, <1>10, <3>2
    <3>4. s[Len(s) - 1].does = "recover" /\ ~s[Len(s)].moved
      BY <1>10, <1>11, <3>2, <3>3
    <3>5. PICK j \in 1..(Len(s) - 2) : Reads(s, token, j)
      BY <3>1, <3>3, <3>4 DEF Recovers
    <3>6. j \in 1..Len(s) /\ 1 \in 1..Len(s) BY <1>4, <3>5
    <3>7. r[j].does = s[j].does /\ r[1].does = s[1].does BY <1>11, <3>6
    <3>8. Reads(r, token, j) BY <3>5, <3>7 DEF Reads
    <3>9. QED BY <1>10, <3>5, <3>8
  <2>4. ASSUME ~failed PROVE Matched(r, token, open)
    <3>1. Matched(s, token, open) BY <1>6, <2>4 DEF Sound
    <3>2. PICK t0, b0, t2 : t0 = token /\ b0 = open /\ t2 = token OBVIOUS
    <3>3. Matched(s, t0, b0) /\ t2 = t0 BY <3>1, <3>2
    <3>4. \A i \in 1..Len(s) : r[i].does = s[i].does BY <1>11
    <3>5. Matched(r, t2, b0) BY <1>3, <1>10, <3>3, <3>4, MatchedAlike, Zenon
    <3>6. QED BY <3>2, <3>5
  <2>5. QED BY <1>6, <2>1, <2>2, <2>3, <2>4 DEF Sound
<1>13. Binds(r, token) BY <1>5, <1>8, <1>10 DEF Binds
<1>14. Valid(r, token, panic, failed, open) BY <1>12, <1>13 DEF Valid
<1>15. Valid(s, token, panic, failed, open)
       \/ s[1].does \in {"climb", "join"}
  BY <1>6 DEF Valid, Binds
<1>16. Head(s) = s[1] BY <1>3, <1>5
<1>17. CASE s[1].does \in {"climb", "join"}
  <2>1. Return(prec) = r BY <1>2, <1>7, <1>9, <1>16, <1>17 DEF Return, Rest
  <2>2. QED BY <1>14, <2>1, GotoValid
<1>18. CASE s[1].does \notin {"climb", "join"}
  <2>1. Return(prec) = s BY <1>2, <1>16, <1>18 DEF Return, Rest
  <2>2. QED BY <1>15, <1>18, <2>1, GotoValid
<1>19. QED BY <1>17, <1>18

LEMMA PostfixInv ==
  ASSUME ParserInv, Postfix
  PROVE  ParserInv'
<1>1. Doing({"whole"}) BY DEF Postfix
<1>2. /\ stack # <<>> /\ stack \in Seq(Entry) /\ Shape(stack)
      /\ Top = stack[1] /\ Top.does \in {"whole"}
      /\ Top.does # "declarations" => Len(stack) > 1
  BY <1>1, AtWork
<1>3. Len(stack) > 1 /\ stack[1].does = "whole" BY <1>2
<1>4. Fits(stack[1], stack[2]) /\ stack[2] \in Entry BY <1>2, <1>3, Bottom
<1>5. Precedence(token) \in 0..12 BY PrecedenceBound
<1>6. ASSUME stack[2].does = "climb"
      PROVE  13 > stack[2].n /\ Precedence(token) <= 13
  <2>1. stack[2].n <= 12 /\ stack[2].n \in Nat
    <3>1. Len(stack) \in Nat /\ Len(stack) # 2 BY <1>2, <1>3, <1>6 DEF Shape
    <3>2. 2 \in 1..(Len(stack) - 1)
      <4>1. \A m \in Nat : m > 1 /\ m # 2 => 2 \in 1..(m - 1) OBVIOUS
      <4>2. QED BY <1>3, <3>1, <4>1, Zenon
    <3>3. Fits(stack[2], stack[2 + 1]) BY <1>2, <3>2 DEF Shape
    <3>4. QED BY <1>4, <1>6, <3>3 DEF Fits, Entry
  <2>2. QED BY <1>5, <2>1
<1>7. ASSUME stack[2].does = "join"
      PROVE  stack[2].n = 12 /\ Precedence(token) <= stack[2].n
  BY <1>3, <1>4, <1>5, <1>7 DEF Fits
<1>8. Goto(Return(13)) /\ Top.does \in {"whole", "climb", "join"} BY <1>2 DEF Postfix
<1>9. stack[2].does = "join" => /\ stack[2].n < 12 => 13 > stack[2].n
                                /\ Precedence(token) <= stack[2].n
  BY <1>7
<1>10. QED BY <1>3, <1>6, <1>8, <1>9, Returned

LEMMA JoinedInv ==
  ASSUME ParserInv, Joined
  PROVE  ParserInv'
<1>1. Doing({"join"}) BY DEF Joined
<1>2. /\ stack # <<>> /\ stack \in Seq(Entry) /\ Shape(stack)
      /\ Top = stack[1] /\ Top.does \in {"join"} /\ Top \in Entry
      /\ Top.does # "declarations" => Len(stack) > 1
  BY <1>1, AtWork
<1>3. Len(stack) > 1 /\ stack[1].does = "join" BY <1>2
<1>4. Fits(stack[1], stack[2]) /\ stack[2] \in Entry BY <1>2, <1>3, Bottom
<1>5. Precedence(token) \in 0..12 BY PrecedenceBound
<1>6. Binds(stack, token) BY DEF ParserInv, Valid
<1>7. Precedence(token) <= Top.n BY <1>2, <1>3, <1>6 DEF Binds
<1>8. ASSUME stack[2].does = "climb"
      PROVE  Top.n > stack[2].n /\ Precedence(token) <= Top.n
  <2>1. stack[2].n < stack[1].n BY <1>3, <1>4, <1>8 DEF Fits
  <2>2. QED BY <1>2, <1>4, <1>7, <2>1 DEF Entry
<1>9. ASSUME stack[2].does = "join"
      PROVE  /\ stack[2].n < 12 => Top.n > stack[2].n
             /\ Precedence(token) <= stack[2].n
  <2>1. stack[2].n = 12 BY <1>3, <1>4, <1>9 DEF Fits
  <2>2. QED BY <1>5, <2>1
<1>10. /\ Goto(Return(Top.n)) /\ Top.does \in {"whole", "climb", "join"} /\ Top.n \in Nat
  BY <1>2 DEF Joined, Entry
<1>11. QED BY <1>3, <1>8, <1>9, <1>10, Returned

(* An operator of precedence prec is read, and its operand is next.         *)
LEMMA JoinInv ==
  ASSUME ParserInv, Doing({"climb"}), Precedence(token) > Top.n, Join(Precedence(token))
  PROVE  ParserInv'
<1>1. /\ stack # <<>> /\ stack \in Seq(Entry) /\ Shape(stack)
      /\ Top = stack[1] /\ Top.does \in {"climb"} /\ Top \in Entry
      /\ Top.does # "declarations" => Len(stack) > 1
      /\ Valid(stack, token, panic, failed, open)
  BY AtWork
<1>2. Len(stack) > 1 /\ stack[1].does = "climb" BY <1>1
<1>3. Fits(stack[1], stack[2]) /\ Len(stack) # 1 BY <1>1, <1>2, Bottom
<1>4. PICK prec \in 0..12 : prec = Precedence(token) BY PrecedenceBound
<1>5. prec > Top.n /\ Top.n \in Nat /\ prec \in Nat BY <1>1, <1>4 DEF Entry
<1>6. PICK a : a = Item("skip") OBVIOUS
<1>7. PICK b : b = IF token = "as" THEN Item("type")
                   ELSE [Item("expression") EXCEPT !.n = prec]
  OBVIOUS
<1>8. PICK c : c = [Item("join") EXCEPT !.n = prec] OBVIOUS
<1>9. PICK e : e = [Top EXCEPT !.operand = 0] OBVIOUS
<1>10. a \in Entry /\ a.does = "skip" /\ a.moved = TRUE
  BY <1>6 DEF Item, Entry, Symbols, Ordinary
<1>11. /\ b \in Entry /\ b.moved = TRUE
       /\ \/ token = "as" /\ b.does = "type"
          \/ b.does = "expression" /\ b.n = prec
  <2>1. CASE token = "as"
    BY <1>7, <2>1 DEF Item, Entry, Symbols, Ordinary, Types
  <2>2. CASE token # "as"
    <3>1. b = [Item("expression") EXCEPT !.n = prec] BY <1>7, <2>2
    <3>2. QED BY <1>5, <3>1 DEF Item, Entry, Symbols, Ordinary
  <2>3. QED BY <2>1, <2>2
<1>12. c \in Entry /\ c.does = "join" /\ c.n = prec /\ c.moved = TRUE
  BY <1>5, <1>8 DEF Item, Entry, Symbols
<1>13. e \in Entry /\ e.does = "climb" /\ e.n = Top.n
  BY <1>1, <1>9 DEF Entry
<1>14. token = "as" => prec = 12 BY <1>4 DEF Precedence
<1>15. token \notin Bracketing
  BY <1>4, <1>5 DEF Precedence, Bracketing, Opening, Closing
<1>16. PICK q \in Seq(Entry) : q = <<a, b, c, e>>
  <2>1. <<a, b, c, e>> \in Seq(Entry) BY <1>10, <1>11, <1>12, <1>13
  <2>2. QED BY <2>1, Zenon
<1>17. Len(q) = 4 /\ q[1] = a /\ q[2] = b /\ q[3] = c /\ q[4] = e BY <1>16
<1>18. \A i \in 1..4 : i = 1 \/ i = 2 \/ i = 3 \/ i = 4 OBVIOUS
<1>19. Fitting(stack, q)
  <2>1. Fits(a, b) BY <1>10, <1>11 DEF Fits
  <2>2. Fits(b, c) BY <1>4, <1>11, <1>12, <1>14 DEF Fits
  <2>3. Fits(c, e) BY <1>4, <1>5, <1>12, <1>13 DEF Fits
  <2>4. Fits(e, stack[2]) BY <1>1, <1>2, <1>3, <1>13 DEF Fits
  <2>5. ASSUME NEW i \in 1..(Len(q) - 1) PROVE Fits(q[i], q[i + 1])
    <3>1. i = 1 \/ i = 2 \/ i = 3 BY <1>17
    <3>2. QED BY <1>17, <2>1, <2>2, <2>3, <3>1
  <2>6. QED BY <1>3, <1>17, <2>4, <2>5 DEF Fitting
<1>20. Moving(stack, q)
  <2>1. q[1].does \in Strict /\ q[1].moved /\ 1 \in 1..Len(q)
    BY <1>10, <1>17 DEF Strict, Readers
  <2>2. ASSUME NEW i \in 1..Len(q), ~q[i].moved
        PROVE  \E j \in 1..(i - 1) : q[j].does \in Strict
    <3>1. i # 1 BY <2>1, <2>2
    <3>2. 1 \in 1..(i - 1) BY <1>17, <3>1
    <3>3. QED BY <2>1, <3>2
  <2>3. QED BY <2>1, <2>2 DEF Moving
<1>21. Recovering(stack, token, q)
  <2>1. ~Reads(stack, token, 1) BY <1>2 DEF Reads, Readers
  <2>2. QED BY <1>2, <1>3, <1>13, <1>17, <2>1 DEF Recovering
<1>22. Enclosing(stack, token, q)
  <2>1. Symbol(q, token, 1) = token BY <1>10, <1>17 DEF Symbol
  <2>2. /\ Symbol(q, token, 2) = b.does /\ Symbol(q, token, 3) = c.does
        /\ Symbol(q, token, 4) = e.does
    BY <1>17 DEF Symbol
  <2>3. /\ b.does \notin Bracketing /\ c.does \notin Bracketing /\ e.does \notin Bracketing
    BY <1>11, <1>12, <1>13 DEF Bracketing, Opening, Closing
  <2>4. \A i \in 1..Len(q) : Symbol(q, token, i) \notin Bracketing
    BY <1>15, <1>17, <1>18, <2>1, <2>2, <2>3
  <2>5. stack[1].does \notin Bracketing \cup {"skip"}
    BY <1>2 DEF Bracketing, Opening, Closing
  <2>6. 0 \in 0..Len(q) BY <1>17
  <2>7. QED BY <2>4, <2>5, <2>6 DEF Enclosing
<1>23. Binds(q \o Tail(stack), token)
  <2>1. (q \o Tail(stack))[1] = q[1]
    <3>1. Len(q) # 0 BY <1>17
    <3>2. QED BY <1>1, <3>1, NotEmpty, HeadSpliced
  <2>2. QED BY <1>10, <1>17, <2>1 DEF Binds
<1>24. Valid(q \o Tail(stack), token, panic, failed, open)
  BY <1>1, <1>19, <1>20, <1>21, <1>22, <1>23, ValidSpliced
<1>25. Goto(q \o Rest) BY <1>4, <1>6, <1>7, <1>8, <1>9, <1>16 DEF Join
<1>26. QED BY <1>24, <1>25, GotoValid DEF Rest

LEMMA ClimbInv ==
  ASSUME ParserInv, Climb
  PROVE  ParserInv'
<1>1. Doing({"climb"}) BY DEF Climb
<1>2. /\ stack # <<>> /\ stack \in Seq(Entry) /\ Shape(stack)
      /\ Top = stack[1] /\ Top.does \in {"climb"} /\ Top \in Entry
      /\ Top.does # "declarations" => Len(stack) > 1
  BY <1>1, AtWork
<1>3. Len(stack) > 1 /\ stack[1].does = "climb" BY <1>2
<1>4. Fits(stack[1], stack[2]) /\ stack[2] \in Entry BY <1>2, <1>3, Bottom
<1>5. Precedence(token) \in 0..12 BY PrecedenceBound
<1>6. CASE Precedence(token) <= Top.n
  <2>1. Goto(Return(Top.operand)) BY <1>6 DEF Climb
  <2>2. Binds(stack, token) BY DEF ParserInv, Valid
  <2>3. Top.operand > Top.n /\ Precedence(token) <= Top.operand
    BY <1>2, <1>3, <2>2 DEF Binds
  <2>4. stack[2].does # "climb" BY <1>3, <1>4 DEF Fits
  <2>5. ASSUME stack[2].does = "join"
        PROVE  /\ stack[2].n < 12 => Top.operand > stack[2].n
               /\ Precedence(token) <= stack[2].n
    <3>1. stack[2].n = 12 \/ Top.n = stack[2].n BY <1>2, <1>4, <2>5 DEF Fits
    <3>2. CASE stack[2].n = 12 BY <1>5, <3>2
    <3>3. CASE Top.n = stack[2].n BY <1>6, <2>3, <3>3
    <3>4. QED BY <3>1, <3>2, <3>3
  <2>6. Top.does \in {"whole", "climb", "join"} /\ Top.operand \in Nat BY <1>2 DEF Entry
  <2>7. QED BY <1>3, <2>1, <2>4, <2>5, <2>6, Returned
<1>7. CASE ~(Precedence(token) <= Top.n)
  <2>1. Join(Precedence(token)) BY <1>7 DEF Climb
  <2>2. Top.n \in Nat BY <1>2 DEF Entry
  <2>3. Precedence(token) > Top.n BY <1>5, <1>7, <2>2
  <2>4. QED BY <1>1, <2>1, <2>3, JoinInv
<1>8. QED BY <1>6, <1>7


-----------------------------------------------------------------------------
(* The loops.                                                               *)

(* What a round of loop l puts above the loop.                              *)
Turn(l, p) ==
  /\ p \in Seq(Symbols) /\ Len(p) >= 1
  /\ Paired(p)
  /\ \E j \in 1..Len(p) : p[j] \in Strict
  /\ \A i \in 1..Len(p) : i < Len(p) => p[i] \in Ordinary
  /\ \A i \in 2..Len(p) : p[i] # "skip"
  /\ \/ p[Len(p)] \in Ordinary
     \/ l = "elements" /\ p[Len(p)] = "repeat?"
     \/ l = "declarations" /\ p[Len(p)] = "declaration"

LEMMA Turned ==
  ASSUME NEW l \in DOMAIN Lists, token \notin Lists[l].until \cup {"eof"},
         token \in Tokens \cup {"eof"}
  PROVE  /\ Turn(l, Lists[l].each)
         /\ Lists[l].comma => \A i \in 1..Len(Lists[l].each) :
              Lists[l].each[i] \notin Bracketing \cup {"skip"}
<1>1. PICK e : e = Lists[l].each OBVIOUS
<1>2. \/ e \in {<<"type">>, <<"generic">>, <<"expression">>, <<"parameter">>, <<"any">>}
      \/ e = <<"expression", "repeat?">> /\ l = "elements"
      \/ e = <<"id", ":", "type">>
      \/ e = <<"statement">> /\ ~Lists[l].comma
      \/ e = <<"attributes", "pub?", "member">> /\ ~Lists[l].comma
      \/ e = <<"skip", "[", "any", "texts?", "]">> /\ ~Lists[l].comma /\ token = "#"
      \/ e = <<"declaration">> /\ l = "declarations" /\ ~Lists[l].comma
  <2>1. l \in {"types", "generics", "arguments", "elements", "statements", "parameters",
               "names", "members", "inputs", "attributes", "declarations"}
    BY DEF Lists
  <2>2. QED BY <1>1, <2>1, SMTT(30) DEF Lists, List
<1>3. /\ <<"type">> \in Seq(Symbols) /\ <<"generic">> \in Seq(Symbols)
      /\ <<"expression">> \in Seq(Symbols) /\ <<"parameter">> \in Seq(Symbols)
      /\ <<"any">> \in Seq(Symbols) /\ <<"expression", "repeat?">> \in Seq(Symbols)
      /\ <<"id", ":", "type">> \in Seq(Symbols) /\ <<"statement">> \in Seq(Symbols)
      /\ <<"attributes", "pub?", "member">> \in Seq(Symbols)
      /\ <<"skip", "[", "any", "texts?", "]">> \in Seq(Symbols)
      /\ <<"declaration">> \in Seq(Symbols)
  BY DEF Symbols, Ordinary, Types, Statements
<1>4. e \in Seq(Symbols) BY <1>2, <1>3, Zenon
<1>5. ASSUME NEW i \in 1..Len(e), i < Len(e)
      PROVE  e[i] \in Ordinary
  <2>1. CASE e = <<"expression", "repeat?">> BY <1>5, <2>1 DEF Ordinary
  <2>2. CASE e = <<"id", ":", "type">> BY <1>5, <2>2 DEF Ordinary
  <2>3. CASE e = <<"attributes", "pub?", "member">> BY <1>5, <2>3 DEF Ordinary
  <2>4. CASE e = <<"skip", "[", "any", "texts?", "]">>
    <3>1. i = 1 \/ i = 2 \/ i = 3 \/ i = 4 BY <1>5, <2>4
    <3>2. QED BY <2>4, <3>1 DEF Ordinary
  <2>5. CASE Len(e) = 1 BY <1>5, <2>5
  <2>6. QED BY <1>2, <2>1, <2>2, <2>3, <2>4, <2>5
<1>6. /\ \A i \in 2..Len(e) : e[i] # "skip"
      /\ \E j \in 1..Len(e) : e[j] \in Strict
  BY <1>2 DEF Strict, Readers
<1>7. \/ e[Len(e)] \in Ordinary
      \/ l = "elements" /\ e[Len(e)] = "repeat?"
      \/ l = "declarations" /\ e[Len(e)] = "declaration"
  BY <1>2, SMTT(30) DEF Ordinary, Types, Statements
<1>8. Lists[l].comma => \A i \in 1..Len(e) : e[i] \notin Bracketing \cup {"skip"}
  BY <1>2 DEF Bracketing, Opening, Closing
<1>9. Paired(e)
  <2>1. CASE e = <<"skip", "[", "any", "texts?", "]">> /\ token = "#"
    <3>1. Pair(e, 2, 5) /\ 2 \in 0..Len(e) /\ 5 \in 0..Len(e)
      BY <2>1, Closers DEF Pair, Produced, Bracketing, Opening, Closing
    <3>2. QED BY <3>1 DEF Paired
  <2>2. CASE ~(e = <<"skip", "[", "any", "texts?", "]">> /\ token = "#")
    <3>1. \A i \in 1..Len(e) : e[i] \notin Bracketing \cup {"skip"}
      BY <1>2, <2>2 DEF Bracketing, Opening, Closing
    <3>2. \A i \in 1..Len(e) : Produced(e, i) = e[i] BY <3>1 DEF Produced
    <3>3. Pair(e, 0, 0) BY <3>1, <3>2 DEF Pair
    <3>4. 0 \in 0..Len(e) BY <1>4
    <3>5. QED BY <3>3, <3>4 DEF Paired
  <2>3. QED BY <2>1, <2>2
<1>10. Len(e) >= 1 BY <1>2
<1>11. QED BY <1>1, <1>4, <1>5, <1>6, <1>7, <1>8, <1>9, <1>10 DEF Turn

LEMMA CommaTurned ==
  ASSUME NEW l, NEW e, Turn(l, e), \A i \in 1..Len(e) : e[i] \notin Bracketing \cup {"skip"},
         NEW p, p = <<"comma">> \o e
  PROVE  Turn(l, p)
<1>1. e \in Seq(Symbols) /\ Len(e) \in Nat /\ Len(e) >= 1 BY DEF Turn
<1>2. "comma" \in Ordinary /\ "comma" \in Symbols /\ "comma" \in Strict
      /\ "comma" \notin Bracketing \cup {"skip"}
  BY DEF Ordinary, Symbols, Strict, Bracketing, Opening, Closing
<1>3. <<"comma">> \in Seq(Symbols) /\ Len(<<"comma">>) = 1 BY <1>2
<1>4. /\ p \in Seq(Symbols) /\ Len(p) = Len(e) + 1 /\ p[1] = "comma"
      /\ \A i \in 1..Len(e) : p[i + 1] = e[i]
  BY <1>1, <1>3
<1>5. \A i \in 2..Len(p) : /\ i - 1 \in 1..Len(e) /\ p[i] = e[i - 1]
  <2>1. ASSUME NEW i \in 2..Len(p)
        PROVE  i - 1 \in 1..Len(e) /\ (i - 1) + 1 = i
    BY <1>1, <1>4
  <2>2. ASSUME NEW i \in 2..Len(p)
        PROVE  p[i] = e[i - 1]
    <3>1. p[(i - 1) + 1] = e[i - 1] BY <1>4, <2>1
    <3>2. QED BY <2>1, <3>1
  <2>3. QED BY <2>1, <2>2
<1>6. \A i \in 1..Len(p) : i = 1 \/ i \in 2..Len(p) OBVIOUS
<1>7. \A i \in 1..Len(p) : p[i] \notin Bracketing \cup {"skip"}
  BY <1>2, <1>4, <1>5, <1>6
<1>8. Paired(p)
  <2>1. \A i \in 1..Len(p) : Produced(p, i) = p[i] BY <1>7 DEF Produced
  <2>2. Pair(p, 0, 0) BY <1>7, <2>1 DEF Pair
  <2>3. 0 \in 0..Len(p) BY <1>1, <1>4
  <2>4. QED BY <2>2, <2>3 DEF Paired
<1>9. \E j \in 1..Len(p) : p[j] \in Strict
  <2>1. 1 \in 1..Len(p) BY <1>1, <1>4
  <2>2. QED BY <1>2, <1>4, <2>1
<1>10. ASSUME NEW i \in 1..Len(p), i < Len(p)
       PROVE  p[i] \in Ordinary
  <2>1. CASE i = 1 BY <1>2, <1>4, <2>1
  <2>2. CASE i \in 2..Len(p)
    <3>1. p[i] = e[i - 1] /\ i - 1 \in 1..Len(e) /\ i - 1 < Len(e)
      BY <1>1, <1>4, <1>5, <1>10, <2>2
    <3>2. QED BY <3>1 DEF Turn
  <2>3. QED BY <1>6, <2>1, <2>2
<1>11. p[Len(p)] = e[Len(e)]
  <2>1. Len(p) \in 2..Len(p) /\ Len(p) - 1 = Len(e) BY <1>1, <1>4
  <2>2. QED BY <1>5, <2>1
<1>12. Len(p) >= 1 BY <1>1, <1>4
<1>13. \A i \in 2..Len(p) : p[i] # "skip"
  <2>1. \A i \in 2..Len(p) : i \in 1..Len(p) OBVIOUS
  <2>2. QED BY <1>7, <2>1
<1>14. QED BY <1>4, <1>8, <1>9, <1>10, <1>11, <1>12, <1>13 DEF Turn

(* A loop, whose entry is on the top of the stack, begins another round.    *)
LEMMA RoundBegins ==
  ASSUME ParserInv, Doing(DOMAIN Lists), NEW p, Turn(Top.does, p),
         NEW n \in Nat,
         Goto(Items(p) \o <<[Top EXCEPT !.n = n, !.moved = FALSE]>> \o Rest)
  PROVE  ParserInv'
<1>1. /\ stack # <<>> /\ stack \in Seq(Entry) /\ Shape(stack)
      /\ Top = stack[1] /\ Top.does \in DOMAIN Lists /\ Top \in Entry
      /\ Top.does # "declarations" => Len(stack) > 1
      /\ Valid(stack, token, panic, failed, open)
  BY AtWork
<1>2. PICK l : l = Top.does OBVIOUS
<1>3. l \in {"types", "generics", "arguments", "elements", "statements", "parameters",
             "names", "members", "inputs", "attributes", "declarations"}
  BY <1>1, <1>2 DEF Lists
<1>4. /\ l \notin Readers \cup {"block", "lbrace", "recover", "skip", "climb", "join",
                                "repeat?", "expression", "declaration", "declared"}
      /\ l \notin Bracketing
  BY <1>3 DEF Readers, Bracketing, Opening, Closing
<1>5. PICK e : e = [Top EXCEPT !.n = n, !.moved = FALSE] OBVIOUS
<1>6. e \in Entry /\ e.does = l /\ e.moved = FALSE
  BY <1>1, <1>2, <1>5 DEF Entry
<1>7. PICK a \in Seq(Entry) : a = Items(p)
  <2>1. Items(p) \in Seq(Entry) BY Itemized DEF Turn
  <2>2. QED BY <2>1, Zenon
<1>8. /\ Len(p) \in Nat /\ Len(p) >= 1
      /\ Len(a) = Len(p)
      /\ \A i \in 1..Len(p) : a[i].does = p[i] /\ a[i].n = 0 /\ a[i].moved = TRUE
  <2>1. p \in Seq(Symbols) /\ Len(p) \in Nat /\ Len(p) >= 1 BY DEF Turn
  <2>2. QED BY <1>7, <2>1, Itemized
<1>9. PICK b \in Seq(Entry) : b = <<e>>
  <2>1. <<e>> \in Seq(Entry) BY <1>6
  <2>2. QED BY <2>1, Zenon
<1>10. PICK q \in Seq(Entry) : q = a \o b
  <2>1. a \o b \in Seq(Entry) BY <1>7, <1>9
  <2>2. QED BY <2>1, Zenon
<1>11. /\ Len(q) = Len(p) + 1 /\ q[Len(p) + 1] = e
       /\ \A i \in 1..Len(p) : q[i] = a[i]
  <2>1. Len(b) = 1 /\ b[1] = e BY <1>9
  <2>2. ASSUME NEW c \in Seq(Entry), NEW d \in Seq(Entry), Len(d) = 1
        PROVE  /\ Len(c \o d) = Len(c) + 1 /\ (c \o d)[Len(c) + 1] = d[1]
               /\ \A i \in 1..Len(c) : (c \o d)[i] = c[i]
    <3>1. Len(c) \in Nat /\ Len(c \o d) = Len(c) + 1
      <4>1. Len(c) \in Nat /\ Len(c \o d) = Len(c) + Len(d) OBVIOUS
      <4>2. QED BY <2>2, <4>1, Zenon
    <3>2. \A i \in 1..Len(c) : (c \o d)[i] = c[i] BY <2>2
    <3>3. \A i \in 1..Len(c \o d) : i > Len(c) => (c \o d)[i] = d[i - Len(c)] BY <2>2
    <3>4. Len(c) + 1 \in 1..Len(c \o d) /\ Len(c) + 1 > Len(c) /\ (Len(c) + 1) - Len(c) = 1
      BY <3>1
    <3>5. (c \o d)[Len(c) + 1] = d[(Len(c) + 1) - Len(c)] BY <3>3, <3>4, Zenon
    <3>6. QED BY <3>1, <3>2, <3>4, <3>5
  <2>3. QED BY <1>8, <1>10, <2>1, <2>2
<1>12. \A i \in 1..Len(p) : q[i].does = p[i] /\ q[i].n = 0 /\ q[i].moved = TRUE
  BY <1>8, <1>11
<1>13. \A i \in 1..Len(q) : i \in 1..Len(p) \/ i = Len(p) + 1 BY <1>8, <1>11
<1>14. /\ Ordinary \cap {"declaration", "declared", "declarations", "repeat?", "recover",
                         "synchronize", "climb", "join"} = {}
       /\ \A i \in 1..Len(p) : i < Len(p) => p[i] \in Ordinary
       /\ \/ p[Len(p)] \in Ordinary
          \/ l = "elements" /\ p[Len(p)] = "repeat?"
          \/ l = "declarations" /\ p[Len(p)] = "declaration"
  BY <1>2 DEF Turn, Ordinary, Types, Primaries, Postfixes, Statements
<1>15. Fitting(stack, q)
  <2>1. ASSUME NEW i \in 1..(Len(q) - 1) PROVE Fits(q[i], q[i + 1])
    <3>1. CASE i = Len(p)
      <4>1. q[i].does = p[Len(p)] /\ q[i].n = 0 /\ q[i + 1].does = l
        BY <1>6, <1>8, <1>11, <1>12, <3>1
      <4>2. QED BY <1>4, <1>14, <4>1 DEF Fits
    <3>2. CASE i < Len(p)
      <4>1. i \in 1..Len(p) /\ i + 1 \in 2..Len(p) /\ i + 1 \in 1..Len(p)
        BY <1>8, <1>11, <3>2
      <4>2. /\ q[i].does = p[i] /\ q[i].n = 0 /\ p[i] \in Ordinary
            /\ q[i + 1].does = p[i + 1] /\ p[i + 1] # "skip"
        BY <1>12, <1>14, <3>2, <4>1 DEF Turn
      <4>3. p[i + 1] \notin {"climb", "join"}
        <5>1. i + 1 < Len(p) \/ i + 1 = Len(p) BY <4>1
        <5>2. QED BY <1>14, <4>1, <5>1
      <4>4. QED BY <1>14, <4>2, <4>3 DEF Fits
    <3>3. QED BY <1>8, <1>11, <3>1, <3>2
  <2>2. q[Len(q)] = e BY <1>11
  <2>3. Len(stack) = 1 => e.does = "declarations" BY <1>1, <1>2, <1>6, Bottom
  <2>4. ASSUME Len(stack) > 1 PROVE Fits(e, stack[2])
    <3>1. Fits(stack[1], stack[2]) BY <1>1, <2>4, Bottom
    <3>2. QED BY <1>1, <1>2, <1>4, <1>6, <3>1 DEF Fits
  <2>5. QED BY <2>1, <2>2, <2>3, <2>4 DEF Fitting
<1>16. Moving(stack, q)
  <2>1. PICK j \in 1..Len(p) : p[j] \in Strict BY DEF Turn
  <2>2. j \in 1..Len(q) /\ q[j].does \in Strict BY <1>8, <1>11, <1>12, <2>1
  <2>3. ASSUME NEW i \in 1..Len(q), ~q[i].moved
        PROVE  j \in 1..(i - 1)
    <3>1. i = Len(p) + 1 BY <1>12, <1>13, <2>3
    <3>2. QED BY <1>8, <2>1, <3>1
  <2>4. QED BY <2>2, <2>3 DEF Moving
<1>17. Recovering(stack, token, q)
  <2>1. Recovers(q, token)
    <3>1. Len(q) - 1 = Len(p) /\ Len(p) \in 1..Len(p) BY <1>8, <1>11
    <3>2. q[Len(q) - 1].does = p[Len(p)] BY <1>12, <3>1
    <3>3. p[Len(p)] # "recover" BY <1>14
    <3>4. QED BY <3>2, <3>3 DEF Recovers
  <2>2. q[Len(q)].does # "recover" BY <1>4, <1>6, <1>11
  <2>3. stack[1].does # "recover" /\ ~Reads(stack, token, 1)
    BY <1>1, <1>2, <1>4 DEF Reads
  <2>4. QED BY <2>1, <2>2, <2>3 DEF Recovering
<1>18. Enclosing(stack, token, q)
  <2>1. \A i \in 1..Len(q) : i > Len(p) => q[i].does \notin Bracketing \cup {"skip"}
    BY <1>4, <1>6, <1>8, <1>11, <1>13
  <2>2. stack[1].does \notin Bracketing \cup {"skip"} BY <1>1, <1>2, <1>4
  <2>3. p \in Seq(Symbols) /\ Paired(p) /\ Len(q) >= Len(p) BY <1>8, <1>11 DEF Turn
  <2>4. QED BY <1>12, <2>1, <2>2, <2>3, ProductionEncloses
<1>19. Binds(q \o Tail(stack), token)
  <2>1. (q \o Tail(stack))[1] = q[1]
    <3>1. Len(q) # 0 BY <1>8, <1>11
    <3>2. QED BY <1>1, <3>1, NotEmpty, HeadSpliced
  <2>2. 1 \in 1..Len(p) /\ q[1].does = p[1] BY <1>8, <1>12
  <2>3. p[1] \notin {"climb", "join"}
    <3>1. 1 < Len(p) \/ 1 = Len(p) BY <1>8
    <3>2. QED BY <1>14, <2>2, <3>1
  <2>4. QED BY <2>1, <2>2, <2>3 DEF Binds
<1>20. Valid(q \o Tail(stack), token, panic, failed, open)
  BY <1>1, <1>15, <1>16, <1>17, <1>18, <1>19, ValidSpliced
<1>21. Goto(q \o Rest) BY <1>5, <1>7, <1>9, <1>10
<1>22. QED BY <1>20, <1>21, GotoValid DEF Rest

LEMMA RoundTurns ==
  ASSUME ParserInv, Round, ~Ends
  PROVE  \E p : \E n \in Nat :
           /\ Turn(Top.does, p)
           /\ Goto(Items(p) \o <<[Top EXCEPT !.n = n, !.moved = FALSE]>> \o Rest)
<1>1. Doing(DOMAIN Lists) BY DEF Round
<1>2. /\ Top.does \in DOMAIN Lists /\ Top \in Entry
      /\ Valid(stack, token, panic, failed, open)
  BY <1>1, AtWork
<1>3. PICK list : list = Lists[Top.does] OBVIOUS
<1>4. PICK comma : comma = IF list.comma /\ Top.n > 0 THEN <<"comma">> ELSE <<>> OBVIOUS
<1>5. PICK n : n = IF Top.n < list.rounds THEN Top.n + 1 ELSE Top.n OBVIOUS
<1>6. Goto(Items(comma \o list.each)
            \o <<[Top EXCEPT !.n = n, !.moved = FALSE]>> \o Rest)
  BY <1>3, <1>4, <1>5 DEF Round
<1>7. n \in Nat BY <1>2, <1>5 DEF Entry
<1>8. /\ Turn(Top.does, list.each)
      /\ list.comma => \A i \in 1..Len(list.each) :
                         list.each[i] \notin Bracketing \cup {"skip"}
  <2>1. token \notin Lists[Top.does].until \cup {"eof"} BY DEF Ends
  <2>2. token \in Tokens \cup {"eof"} BY <1>2 DEF Valid, Sound
  <2>3. QED BY <1>2, <1>3, <2>1, <2>2, Turned
<1>9. Turn(Top.does, comma \o list.each)
  <2>1. CASE list.comma /\ Top.n > 0 BY <1>4, <1>8, <2>1, CommaTurned
  <2>2. CASE ~(list.comma /\ Top.n > 0)
    <3>1. list.each \in Seq(Symbols) BY <1>8 DEF Turn
    <3>2. comma \o list.each = list.each BY <1>4, <2>2, <3>1, ConcatEmptySeq
    <3>3. QED BY <1>8, <3>2
  <2>3. QED BY <2>1, <2>2
<1>10. QED BY <1>6, <1>7, <1>9

LEMMA RoundInv ==
  ASSUME ParserInv, Round
  PROVE  ParserInv'
<1>1. Doing(DOMAIN Lists) BY DEF Round
<1>2. /\ stack # <<>> /\ stack \in Seq(Entry) /\ Shape(stack)
      /\ Top = stack[1] /\ Top.does \in DOMAIN Lists /\ Top \in Entry
      /\ Top.does # "declarations" => Len(stack) > 1
      /\ Valid(stack, token, panic, failed, open)
  BY <1>1, AtWork
<1>3. Top.does \in {"types", "generics", "arguments", "elements", "statements", "parameters",
                    "names", "members", "inputs", "attributes", "declarations"}
  BY <1>2 DEF Lists
<1>4. CASE Ends
  <2>1. Goto(Rest) BY <1>4 DEF Round
  <2>2. /\ stack[1].does \notin Operands \cup {"expression", "climb", "join", "recover"}
        /\ stack[1].does \notin Bracketing \cup {"skip"}
        /\ stack[1].does \notin Strict
        /\ ~Reads(stack, token, 1)
    BY <1>2, <1>3 DEF Operands, Bracketing, Opening, Closing, Strict, Readers, Reads
  <2>3. CASE Len(stack) > 1
    <3>1. Valid(Tail(stack), token, panic, failed, open) BY <1>2, <2>2, <2>3, Drops
    <3>2. QED BY <2>1, <3>1, GotoValid DEF Rest
  <2>4. CASE Len(stack) = 1
    <3>1. PICK r \in Seq(Entry) : r = Tail(stack)
      <4>1. Tail(stack) \in Seq(Entry) BY <1>2
      <4>2. QED BY <4>1, Zenon
    <3>2. Len(r) = 0 /\ r = <<>> BY <1>2, <2>4, <3>1, SplicedAlone
    <3>3. Shape(r) BY <3>2 DEF Shape
    <3>4. Moves(r, panic) /\ Recovers(r, token) /\ Binds(r, token)
      BY <3>2 DEF Moves, Recovers, Binds
    <3>5. ASSUME ~failed PROVE Matched(r, token, open)
      <4>1. Matched(stack, token, open) BY <1>2, <3>5 DEF Valid, Sound
      <4>2. PICK s0, t0, b0, x : s0 = stack /\ t0 = token /\ b0 = open /\ x = Symbol(s0, t0, 1)
        OBVIOUS
      <4>3. /\ s0 \in Seq(Entry) /\ s0 # <<>> /\ Matched(s0, t0, b0)
            /\ Len(s0) > 1 => s0[2].does # "skip"
            /\ Len(r) = Len(s0) - 1
            /\ \A i \in 1..Len(r) : r[i].does = s0[i + 1].does
        <5>1. Len(r) = Len(stack) - 1 BY <2>4, <3>2
        <5>2. 1..Len(r) = {} BY <3>2
        <5>3. ~(Len(stack) > 1) BY <2>4
        <5>4. s0 \in Seq(Entry) /\ s0 # <<>> /\ Matched(s0, t0, b0) BY <1>2, <4>1, <4>2
        <5>5. ~(Len(s0) > 1) /\ Len(r) = Len(s0) - 1 BY <4>2, <5>1, <5>3
        <5>6. QED BY <5>2, <5>4, <5>5
      <4>4. x \notin Bracketing => Matched(r, t0, b0)
        BY <3>1, <4>2, <4>3, MatchedPopped, Zenon
      <4>5. x \notin Bracketing BY <2>2, <4>2 DEF Symbol
      <4>6. QED BY <4>2, <4>4, <4>5
    <3>6. Valid(r, token, panic, failed, open)
      BY <1>2, <3>3, <3>4, <3>5 DEF Valid, Sound
    <3>7. QED BY <2>1, <3>1, <3>6, GotoValid DEF Rest
  <2>5. QED BY <1>2, <2>3, <2>4, Bottom
<1>5. CASE ~Ends BY <1>1, <1>5, RoundTurns, RoundBegins
<1>6. QED BY <1>4, <1>5

-----------------------------------------------------------------------------
LEMMA InitInv ==
  ASSUME Init
  PROVE  ParserInv
<1>1. PICK p \in Seq(Symbols) : p = <<"declarations">>
  <2>1. <<"declarations">> \in Seq(Symbols) BY DEF Symbols
  <2>2. QED BY <2>1, Zenon
<1>2. Len(p) = 1 /\ p[1] = "declarations" /\ 1 \in 1..Len(p) BY <1>1
<1>3. PICK s : s = stack OBVIOUS
<1>4. /\ s \in Seq(Entry) /\ Len(s) = 1
      /\ s[1].does = "declarations" /\ s[1].moved = TRUE
  BY <1>1, <1>2, <1>3, Itemized DEF Init
<1>5. Shape(s)
  <2>1. 1..(Len(s) - 1) = {} BY <1>4
  <2>2. QED BY <1>4, <2>1 DEF Shape
<1>6. Moves(s, panic)
  <2>1. \A i \in 1..Len(s) : i = 1 BY <1>4
  <2>2. QED BY <1>4, <2>1 DEF Moves
<1>7. Recovers(s, token) BY <1>4 DEF Recovers
<1>8. Binds(s, token) BY <1>4 DEF Binds
<1>9. Matched(s, token, open)
  <2>1. PICK none : none = [i \in 1..(Len(s) + 1) |-> <<>>] OBVIOUS
  <2>2. <<>> \in Seq(Closing) /\ <<>> \in Seq(Opening) BY EmptySeq
  <2>3. /\ none \in [1..(Len(s) + 1) -> Seq(Closing)]
        /\ \A i \in 1..(Len(s) + 1) : none[i] = <<>>
    BY <2>1, <2>2
  <2>4. none[1] = <<>> /\ none[2] = <<>> /\ none[Len(s) + 1] = <<>> BY <1>4, <2>3
  <2>5. Symbol(s, token, 1) \notin Bracketing
    BY <1>4 DEF Symbol, Bracketing, Opening, Closing
  <2>6. Awaits(Symbol(s, token, 1), none[1], none[2])
    BY <2>4, <2>5 DEF Awaits, Bracketing
  <2>7. Awaited(none, s, token)
    <3>1. \A i \in 1..Len(s) : i = 1 BY <1>4
    <3>2. QED BY <2>3, <2>4, <2>6, <3>1 DEF Awaited
  <2>8. Closes(open, none[1])
    <3>1. open = <<>> BY DEF Init
    <3>2. QED BY <2>2, <2>4, <3>1 DEF Closes
  <2>9. QED BY <2>7, <2>8 DEF Matched
<1>10. /\ token \in Tokens \cup {"eof"} /\ panic \in BOOLEAN /\ failed \in BOOLEAN
       /\ panic => failed
  BY DEF Init
<1>11. QED BY <1>3, <1>5, <1>6, <1>7, <1>8, <1>9, <1>10 DEF ParserInv, Valid, Sound

LEMMA NextInv ==
  ASSUME ParserInv, [Next]_vars
  PROVE  ParserInv'
<1>1. CASE Call BY <1>1, CallInv
<1>2. CASE Expect BY <1>2, ExpectInv
<1>3. CASE Match BY <1>3, MatchInv
<1>4. CASE Skip \/ SkipAny BY <1>4, SkipInv
<1>5. CASE Error BY <1>5, ErrorInv
<1>6. CASE Round BY <1>6, RoundInv
<1>7. CASE Repeat BY <1>7, RepeatInv
<1>8. CASE Recover BY <1>8, RecoverInv
<1>9. CASE Synchronize BY <1>9, SynchronizeInv
<1>10. CASE Expression BY <1>10, ExpressionInv
<1>11. CASE Postfix BY <1>11, PostfixInv
<1>12. CASE Climb BY <1>12, ClimbInv
<1>13. CASE Joined BY <1>13, JoinedInv
<1>14. CASE UNCHANGED vars BY <1>14 DEF vars, ParserInv
<1>15. QED BY <1>1, <1>2, <1>3, <1>4, <1>5, <1>6, <1>7, <1>8, <1>9, <1>10, <1>11, <1>12,
              <1>13, <1>14 DEF Next

(* The invariant of the parser: its stack holds what the grammar allows to  *)
(* stand there, loops that have read nothing have work above them that will *)
(* read, operators wait for operands that bind more tightly, and the        *)
(* brackets that are open are those whose closing ones it waits for.        *)
THEOREM ParserInvariant == Spec => []ParserInv
<1>1. Init => ParserInv BY InitInv
<1>2. ParserInv /\ [Next]_vars => ParserInv' BY NextInv
<1>3. QED BY <1>1, <1>2, PTL DEF Spec

(* A loop over a list whose round has read nothing ends, unless the parser  *)
(* has reported an error: a file without errors cannot keep it in a loop.   *)
THEOREM ParserLoopsProgress == Spec => []LoopsProgress
<1>1. ParserInv => LoopsProgress
  <2>1. SUFFICES ASSUME ParserInv, Doing(DOMAIN Lists), ~Top.moved
                 PROVE  panic /\ failed
    BY DEF LoopsProgress
  <2>2. /\ stack # <<>> /\ stack \in Seq(Entry) /\ Top = stack[1]
        /\ Valid(stack, token, panic, failed, open)
    BY <2>1, AtWork
  <2>3. 1 \in 1..Len(stack) /\ 1..(1 - 1) = {} BY <2>2
  <2>4. panic BY <2>1, <2>2, <2>3 DEF Valid, Sound, Moves
  <2>5. QED BY <2>2, <2>4 DEF Valid, Sound
<1>2. QED BY <1>1, ParserInvariant, PTL

(* When an operator takes its operands, the left one binds at least as      *)
(* tightly as the operator and the right one more tightly, so operators of  *)
(* the same precedence group to the left.                                   *)
THEOREM ParserPrecedenceKept == Spec => []PrecedenceKept
<1>1. ParserInv => PrecedenceKept
  <2>1. SUFFICES ASSUME ParserInv PROVE PrecedenceKept OBVIOUS
  <2>2. ASSUME Doing({"climb"}), Precedence(token) > Top.n
        PROVE  Top.operand >= Precedence(token)
    <3>1. /\ stack # <<>> /\ Top = stack[1] /\ Top.does \in {"climb"} /\ Top \in Entry
          /\ Valid(stack, token, panic, failed, open)
      BY <2>1, <2>2, AtWork
    <3>2. Precedence(token) <= Top.operand BY <3>1 DEF Valid, Binds
    <3>3. Precedence(token) \in 0..12 BY PrecedenceBound
    <3>4. QED BY <3>1, <3>2, <3>3 DEF Entry
  <2>3. ASSUME Doing({"join"}), Top.n < Precedence("as")
        PROVE  Top.operand > Top.n
    <3>1. /\ stack # <<>> /\ Top = stack[1] /\ Top.does \in {"join"}
          /\ Valid(stack, token, panic, failed, open)
      BY <2>1, <2>3, AtWork
    <3>2. Top.n < 12 BY <2>3 DEF Precedence
    <3>3. QED BY <3>1, <3>2 DEF Valid, Binds
  <2>4. QED BY <2>2, <2>3 DEF PrecedenceKept
<1>2. QED BY <1>1, ParserInvariant, PTL

(* In a file that is accepted every bracket is closed by its own kind and   *)
(* by the construct that opened it.                                         *)
THEOREM ParserAcceptedIsBalanced == Spec => []AcceptedIsBalanced
<1>1. ParserInv => AcceptedIsBalanced
  <2>1. SUFFICES ASSUME ParserInv, stack = <<>>, ~failed PROVE open = <<>>
    BY DEF AcceptedIsBalanced, Accepted
  <2>2. Matched(stack, token, open) BY <2>1 DEF ParserInv, Valid, Sound
  <2>3. PICK f : Awaited(f, stack, token) /\ Closes(open, f[1]) BY <2>2 DEF Matched
  <2>4. Len(stack) = 0 BY <2>1
  <2>5. f[1] = <<>> BY <2>3, <2>4 DEF Awaited
  <2>6. open \in Seq(Opening) /\ Len(open) = 0 BY <2>3, <2>5 DEF Closes
  <2>7. QED BY <2>6, EmptySeq
<1>2. QED BY <1>1, ParserInvariant, PTL
===============================================================================
