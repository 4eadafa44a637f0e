-------------------------------- MODULE Parser --------------------------------
(***************************************************************************)
(* parser.c: recursive descent over the tokens of a file.  The stack holds  *)
(* what the functions that have been called have left to do, its head first:*)
(* a token is one that has to come next, any other symbol a function, or a  *)
(* part of one, that looks at the token to see what it does.  The tokens are*)
(* chosen one by one as the parser reads them.                              *)
(*                                                                          *)
(* A brace, a comma and a semicolon are named as in token.h.                *)
(* Tokens that the parser treats alike have one representative: "u8" is any *)
(* primitive type, "ptr" also own and slice, "int" any literal, "loop" also *)
(* unsafe, "~" also not, "+=" any assignment that computes, "break" also    *)
(* continue, "port" also kernel and asm, "impl" any keyword that stops      *)
(* synchronize and begins nothing, "error" what the lexer could not read.   *)
(* The lists fit into the parser's arrays, of which it checks the size of   *)
(* two: the statements of a block and the declarations of a file.           *)
(***************************************************************************)
EXTENDS Naturals, SequencesExt, FiniteSetsExt

CONSTANTS
  Tokens,       (* The tokens of which files are made.                      *)
  StmtLimit,    (* Statements of a block, 512 in the code.                  *)
  DeclLimit,    (* Declarations of a file, 1024 in the code.                *)
  MaxNesting    (* Bound: the nesting of a file.                            *)

ASSUME LimitAssumption == {StmtLimit, DeclLimit, MaxNesting} \subseteq Nat \ {0}

VARIABLES
  stack,
  token,      (* Parser.current                                             *)
  previous,   (* Parser.previous, as far as it is a semicolon               *)
  panic,      (* Parser.panic_mode                                          *)
  failed,     (* an error was reported, by the parser or by the lexer       *)
  open        (* the brackets that have been opened and not closed, the last*)
              (* first; without those taken for a name or for a text        *)

vars == <<stack, token, previous, panic, failed, open>>

(* n is the precedence of an expression, or how many rounds a loop has had, *)
(* as far as that matters; moved, in a loop: this round has read a token;   *)
(* operand is the precedence of the operand that was parsed for it.         *)
Item(s) == [does |-> s, n |-> 0, moved |-> TRUE, operand |-> 0]
Items(symbols) == [i \in DOMAIN symbols |-> Item(symbols[i])]

(* parser_init reads the first token.                                       *)
Init ==
  /\ stack = Items(<<"declarations">>)
  /\ token \in Tokens
  /\ previous = "other"
  /\ panic = FALSE
  /\ failed = (token = "error")
  /\ open = <<>>

Doing(symbols) == stack # <<>> /\ Head(stack).does \in symbols
Top == Head(stack)
Rest == Tail(stack)

(* Bound: the expressions, blocks and brackets that are open.               *)
Nesting(items) ==
  Quantify(DOMAIN items, LAMBDA i : items[i].does \in {"climb", ")", "]", "rbrace", ">"})

Goto(items) ==
  /\ Nesting(items) <= MaxNesting
  /\ stack' = items
  /\ UNCHANGED <<token, previous, panic, failed, open>>

Closer == [b \in {"(", "[", "lbrace"} |->
             CASE b = "(" -> ")" [] b = "[" -> "]" [] b = "lbrace" -> "rbrace"]

(* The brackets that are open after this one.                               *)
Bracket(t) ==
  IF t \in DOMAIN Closer THEN <<t>> \o open
  ELSE IF t \notin {")", "]", "rbrace"} THEN open
  ELSE IF open # <<>> /\ Head(open) \in DOMAIN Closer /\ Closer[Head(open)] = t
  THEN Tail(open)
  ELSE <<"none">> \o open

(* advance                                                                  *)
Read(items, brackets) ==
  /\ stack' = [i \in DOMAIN items |-> [items[i] EXCEPT !.moved = TRUE]]
  /\ previous' = IF token = "semi" THEN "semi" ELSE "other"
  /\ token' \in IF token = "eof" THEN {"eof"} ELSE Tokens
  /\ failed' = (failed \/ token' = "error")
  /\ open' = IF failed' THEN <<>> ELSE brackets
  /\ UNCHANGED panic

(* error_current                                                            *)
Fail(items) ==
  /\ stack' = items
  /\ panic' = TRUE
  /\ failed' = TRUE
  /\ open' = <<>>
  /\ UNCHANGED <<token, previous>>

-----------------------------------------------------------------------------
(* What the functions do, by the token they look at.  A symbol that ends in *)
(* "?" may do nothing, "skip" reads the token that was looked at, "any" a   *)
(* token whatever it is.                                                    *)

TypeStart == {"u8", "id", "Self", "&", "ptr", "[", "fn", "!"}

ParseType(s) ==
  CASE s = "type" ->
         CASE token = "&"            -> <<"skip", "mut?", "type">>
           [] token = "ptr"          -> <<"skip", "<", "type", ">">>
           [] token = "["            -> <<"skip", "type", "semi", "expression", "]">>
           [] token \in {"id", "Self"} -> <<"skip", "generic?">>
           [] token = "fn"           -> <<"skip", "(", "types", ")", "result?">>
           [] token \in {"u8", "!"}  -> <<"skip">>
           [] OTHER                  -> <<"fail">>
    [] s = "generic?" -> IF token = "<" THEN <<"skip", "generics", ">">> ELSE <<>>
    [] s = "generic"  -> IF token \in TypeStart THEN <<"type">> ELSE <<"any">>
    [] s = "result?"  -> IF token = "->" THEN <<"skip", "type">> ELSE <<>>

ParsePrimary(s) ==
  CASE s = "primary" ->
         CASE token = "int"          -> <<"skip">>
           [] token = "("            -> <<"skip", "expression", ")">>
           [] token = "lbrace"       -> <<"block">>
           [] token = "if"           -> <<"skip", "expression", "block", "else?">>
           [] token = "loop"         -> <<"skip", "block">>
           [] token = "while"        -> <<"skip", "expression", "block">>
           [] token = "for"          -> <<"skip", "id", "in", "expression", "block">>
           [] token \in {"-", "~", "*"} -> <<"skip", "primary">>
           [] token = "&"            -> <<"skip", "mut?", "primary">>
           [] token = "["            -> <<"skip", "elements", "]">>
           [] token \in {"id", "self", "port"} -> <<"skip", "macro?">>
           [] OTHER                  -> <<"fail", "any">>
    [] s = "else?"  -> IF token = "else" THEN <<"skip", "branch">> ELSE <<>>
    [] s = "branch" -> IF token = "if" THEN <<"primary">> ELSE <<"block">>
    [] s = "macro?" -> IF token = "!" THEN <<"skip", "(", "text", ")">> ELSE <<"path?">>
    [] s = "text"   -> IF token \in {")", "eof"} THEN <<>> ELSE <<"any", "text">>
    [] s = "path?"  -> IF token = "::" THEN <<"skip", "any", "path?">> ELSE <<>>

(* A method call is a field access and a call.                              *)
ParsePostfix(s) ==
  CASE s = "postfix" -> <<"primary", "suffix?">>
    [] s = "suffix?" ->
         CASE token = "(" -> <<"skip", "arguments", ")", "suffix?">>
           [] token = "." -> <<"skip", "any", "suffix?">>
           [] token = "[" -> <<"skip", "expression", "]", "suffix?">>
           [] token = "?" -> <<"skip", "suffix?">>
           [] OTHER       -> <<"whole">>

ParseStatement(s) ==
  CASE s = "statement" ->
         CASE token = "let"    ->
                <<"skip", "mut?", "id", "type?", "=", "expression", "semi">>
           [] token = "return" -> <<"skip", "returned?", "semi">>
           [] token = "break"  -> <<"skip", "semi">>
           [] token = "defer"  -> <<"skip", "expression", "semi">>
           [] OTHER            -> <<"expression", "assign?">>
    [] s = "type?"     -> IF token = ":" THEN <<"skip", "type">> ELSE <<>>
    [] s = "returned?" -> IF token = "semi" THEN <<>> ELSE <<"expression">>
    [] s = "assign?"   -> IF token \in {"=", "+="} THEN <<"skip", "expression", "semi">>
                                                   ELSE <<"end">>
    [] s = "block"     -> <<"lbrace", "statements", "rbrace">>

ParseDeclaration(s) ==
  CASE s = "declaration" -> <<"attributes", "pub?", "declared">>
    [] s = "declared" ->
         CASE token = "fn"        -> <<"skip", "function">>
           [] token = "interrupt" -> <<"skip", "fn", "function">>
           [] token = "struct"    -> <<"skip", "id", "lbrace", "fields?", "rbrace">>
           [] token = "module"    -> <<"skip", "expression", "semi">>
           [] token = "import"    -> <<"skip", "expression", "imports?", "semi">>
           [] token = "const"     ->
                <<"skip", "id", ":", "type", "=", "expression", "semi">>
           [] token = "driver"    -> <<"skip", "id", "lbrace", "members", "rbrace">>
           [] token = "syscall"   ->
                <<"skip", "id", "(", "inputs", ")", "result?", "block">>
           [] OTHER               -> <<"statement", "recover">>
    [] s = "function"  -> <<"id", "(", "parameters", ")", "result?", "body">>
    [] s = "body"      -> IF token = "lbrace" THEN <<"block">> ELSE <<"semi">>
    [] s = "parameter" ->
         CASE token = "&"    -> <<"skip", "mut?", "self", "type?">>
           [] token = "self" -> <<"skip", "type?">>
           [] OTHER          -> <<"id", ":", "type">>
    [] s = "fields?"   -> IF token \in {"rbrace", "eof"} THEN <<>>
                          ELSE <<"pub?", "id", ":", "type", "field?">>
    [] s = "field?"    -> IF token = "comma" THEN <<"skip", "fields?">> ELSE <<>>
    [] s = "imports?"  -> IF token = "lbrace" THEN <<"skip", "names", "rbrace">> ELSE <<>>
    [] s = "member"    -> CASE token = "fn"        -> <<"skip", "function">>
                            [] token = "interrupt" -> <<"skip", "fn", "function">>
                            [] OTHER               -> <<"id", ":", "type", "comma?">>
    [] s = "texts?" -> IF token = "(" THEN <<"skip", "text", ")">> ELSE <<>>

Types == {"type", "generic?", "generic", "result?"}
Primaries == {"primary", "else?", "branch", "macro?", "text", "path?"}
Postfixes == {"postfix", "suffix?"}
Statements == {"statement", "type?", "returned?", "assign?", "block"}
Declared == {"declaration", "declared", "function", "body", "parameter", "fields?",
             "field?", "imports?", "member", "texts?"}

Call ==
  \/ Doing(Types)      /\ Goto(Items(ParseType(Top.does)) \o Rest)
  \/ Doing(Primaries)  /\ Goto(Items(ParsePrimary(Top.does)) \o Rest)
  \/ Doing(Postfixes)  /\ Goto(Items(ParsePostfix(Top.does)) \o Rest)
  \/ Doing(Statements) /\ Goto(Items(ParseStatement(Top.does)) \o Rest)
  \/ Doing(Declared)   /\ Goto(Items(ParseDeclaration(Top.does)) \o Rest)

-----------------------------------------------------------------------------
(* expect; the "end" of a statement that is an expression is a semicolon.   *)
Wanted == IF Top.does = "end" THEN "semi" ELSE Top.does

(* Mutant: a closing bracket that is missing is passed over.                *)
ExpectLeniently ==
  /\ Doing(Tokens \cup {"end"})
  /\ IF token = Wanted THEN Read(Rest, Bracket(token))
     ELSE IF panic \/ Wanted \in {")", "]", "rbrace"} THEN Goto(Rest)
     ELSE Fail(Rest)

Expect ==
  /\ Doing(Tokens \cup {"end"})
  /\ IF token = Wanted THEN Read(Rest, Bracket(token))
     ELSE IF panic THEN Goto(Rest)
     ELSE Fail(Rest)

(* match, when the answer does not matter.                                  *)
Match ==
  /\ Doing({"mut?", "pub?", "comma?"})
  /\ IF token = (CASE Top.does = "mut?" -> "mut" [] Top.does = "pub?" -> "pub"
                   [] OTHER -> "comma")
     THEN Read(Rest, open)
     ELSE Goto(Rest)

Skip == Doing({"skip"}) /\ Read(Rest, Bracket(token))

SkipAny == Doing({"any"}) /\ Read(Rest, open)

(* Mutant: what is no type is taken for one that is to be inferred.         *)
ErrorPassed == Doing({"fail"}) /\ Goto(Rest)

Error ==
  /\ Doing({"fail"})
  /\ IF panic THEN Goto(Rest) ELSE Fail(Rest)

(* The loops over lists: where one ends (it ends at the end of the file as  *)
(* well), what a round does, if a comma comes first in all rounds but one,  *)
(* and how many rounds are counted.                                         *)
List(until, each, comma, rounds) ==
  [until |-> until, each |-> each, comma |-> comma, rounds |-> rounds]

Lists ==
  [types        |-> List({")"}, <<"type">>, TRUE, 1),
   generics     |-> List({">"}, <<"generic">>, TRUE, 1),
   arguments    |-> List({")"}, <<"expression">>, TRUE, 1),
   elements     |-> List({"]"}, <<"expression", "repeat?">>, TRUE, 2),
   statements   |-> List({"rbrace"}, <<"statement">>, FALSE, StmtLimit),
   parameters   |-> List({")"}, <<"parameter">>, TRUE, 1),
   names        |-> List({"rbrace"}, <<"any">>, TRUE, 1),
   members      |-> List({"rbrace"}, <<"attributes", "pub?", "member">>, FALSE, 1),
   inputs       |-> List({")"}, <<"id", ":", "type">>, TRUE, 1),
   attributes   |-> List(Tokens \ {"#"}, <<"skip", "[", "any", "texts?", "]">>, FALSE, 1),
   declarations |-> List({}, <<"declaration">>, FALSE, DeclLimit)]

Limited == {"statements", "declarations"}

(* What the stack holds besides the tokens.                                 *)
Functions ==
  Types \cup Primaries \cup Postfixes \cup Statements \cup Declared \cup DOMAIN Lists \cup
  {"skip", "any", "fail", "mut?", "pub?", "comma?", "end", "repeat?", "recover",
   "synchronize", "expression", "whole", "climb", "join"}

ASSUME TokenAssumption == Tokens \cap Functions = {}

(* The loop ends, for these two also when their array is full.              *)
Ends ==
  \/ token \in Lists[Top.does].until \cup {"eof"}
  \/ Top.does \in Limited /\ Top.n = Lists[Top.does].rounds

Round ==
  /\ Doing(DOMAIN Lists)
  /\ LET list  == Lists[Top.does]
         comma == IF list.comma /\ Top.n > 0 THEN <<"comma">> ELSE <<>>
         n     == IF Top.n < list.rounds THEN Top.n + 1 ELSE Top.n
     IN  IF Ends THEN Goto(Rest)
         ELSE Goto(Items(comma \o list.each)
                     \o <<[Top EXCEPT !.n = n, !.moved = FALSE]>> \o Rest)

(* [value; count]: after the first element a semicolon ends the list.       *)
Repeat ==
  /\ Doing({"repeat?"})
  /\ IF token = "semi" /\ stack[2].n = 1
     THEN Goto(Items(<<"skip", "expression">>) \o Tail(Rest))
     ELSE Goto(Rest)

(* synchronize, which parse_declaration calls for a statement that failed.  *)
SyncTokens == {"fn", "let", "struct", "impl", "pub", "import", "module", "const",
               "driver", "syscall", "return", "if", "for", "while", "loop"}

Recover ==
  /\ Doing({"recover"})
  /\ stack' = IF panic THEN Items(<<"synchronize">>) \o Rest ELSE Rest
  /\ panic' = FALSE
  /\ UNCHANGED <<token, previous, failed, open>>

Synchronize ==
  /\ Doing({"synchronize"})
  /\ IF token \in SyncTokens \cup {"eof"} \/ previous = "semi"
     THEN Goto(Rest)
     ELSE Read(stack, open)

-----------------------------------------------------------------------------
(* get_precedence                                                           *)
Precedence(t) ==
  CASE t = "or" -> 1 [] t = "and" -> 2 [] t = "==" -> 3 [] t \in {"<", ">"} -> 4
    [] t = "|" -> 5 [] t = "^" -> 6 [] t = "&" -> 7 [] t = "<<" -> 8 [] t = ".." -> 9
    [] t \in {"+", "-"} -> 10 [] t = "*" -> 11 [] t = "as" -> 12 [] OTHER -> 0

(* parse_binary(n), for parse_expression with n = 0.                        *)
Expression ==
  /\ Doing({"expression"})
  /\ Goto(<<Item("postfix"), [Top EXCEPT !.does = "climb"]>> \o Rest)

(* An expression is handed to the operator that waits for it.               *)
Return(prec) ==
  IF Head(Rest).does \in {"climb", "join"}
  THEN <<[Head(Rest) EXCEPT !.operand = prec]>> \o Tail(Rest)
  ELSE Rest

(* What parse_postfix returns binds as a whole.                             *)
Postfix == Doing({"whole"}) /\ Goto(Return(13))

(* The operator waits for its right operand.                                *)
Join(prec) ==
  Goto(<<Item("skip"),
         IF token = "as" THEN Item("type") ELSE [Item("expression") EXCEPT !.n = prec],
         [Item("join") EXCEPT !.n = prec],
         [Top EXCEPT !.operand = 0]>> \o Rest)

(* Mutant: operators of the same precedence bind to the right.              *)
ClimbRight ==
  /\ Doing({"climb"})
  /\ IF Precedence(token) < Top.n \/ Precedence(token) = 0
     THEN Goto(Return(Top.operand))
     ELSE Join(Precedence(token))

(* A round of the loop of parse_binary.                                     *)
Climb ==
  /\ Doing({"climb"})
  /\ IF Precedence(token) <= Top.n
     THEN Goto(Return(Top.operand))
     ELSE Join(Precedence(token))

(* The node of the operator is the new left operand.                        *)
Joined == Doing({"join"}) /\ Goto(Return(Top.n))

Next ==
  \/ Call \/ Expect \/ Match \/ Skip \/ SkipAny \/ Error
  \/ Round \/ Repeat \/ Recover \/ Synchronize
  \/ Expression \/ Postfix \/ Climb \/ Joined

Spec == Init /\ [][Next]_vars

-----------------------------------------------------------------------------
Accepted == stack = <<>> /\ ~failed

(* A round of a loop that reads nothing is repeated for ever, and fills the *)
(* array of the loop; the parser gets there only after it has reported an   *)
(* error.  After one it does get there, and does not come back: expect and  *)
(* parse_type read nothing then.  Hazard: which constructs reach such a     *)
(* round.                                                                   *)
LoopsProgress == Doing(DOMAIN Lists) /\ ~Top.moved /\ ~Ends => panic /\ failed

(* Operators bind by their precedence, and those of the same to the left.   *)
(* Hazard: the loop of parse_binary and its recursion share the limit.      *)
PrecedenceKept ==
  /\ Doing({"climb"}) /\ Precedence(token) > Top.n => Top.operand >= Precedence(token)
  /\ Doing({"join"}) /\ Top.n < Precedence("as") => Top.operand > Top.n

(* In a file without errors every bracket is closed by its own kind and in  *)
(* its own construct, but for the texts of macros and attributes and what   *)
(* is taken for a name.                                                     *)
AcceptedIsBalanced == Accepted => open = <<>>
=============================================================================
