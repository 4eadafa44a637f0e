--------------------------------- MODULE Walk ---------------------------------
(***************************************************************************)
(* A Q+ program as the two analysers of the compiler meet it after parsing: *)
(* sema.c and security.c walk the same tree in the same order and share     *)
(* nothing else, so that they are modelled as walking it side by side.  The *)
(* program is chosen node by node.  path holds the constructs that are open *)
(* at the node the walk has reached, and in them what the program has       *)
(* declared so far: it says what the source means, and no analyser reads it.*)
(*                                                                          *)
(* The constructs are those that parser.c builds.  if adds nothing to its   *)
(* two blocks, defer nothing to its expression, and while and loop are a    *)
(* "loop" (the condition of a while is visited outside of it).  The body of *)
(* a function, a loop or an unsafe is a "block" inside of it.  A "for" holds*)
(* the iterable and the "loop".  A "size" is the length of an array type,   *)
(* which may be any expression.  A "statement" is one at the top level of a *)
(* file, which parse_declaration falls back to.                             *)
(***************************************************************************)
EXTENDS Naturals, FiniteSets, SequencesExt, FiniteSetsExt

CONSTANTS
  Names,       (* Names of variables.                                       *)
  MaxDepth,    (* Bound: nesting of the program.                            *)
  MaxItems     (* Bound: names and assignments in the open ones.            *)

ASSUME DepthAssumption == MaxDepth \in Nat /\ MaxItems \in Nat

VARIABLE path

Declarations == {"fn", "syscall", "driver", "const", "statement"}
Nested == {"block", "unsafe", "loop", "for", "size"}
Kinds == Declarations \cup Nested

Frame == [kind     : Kinds,
          names    : SUBSET Names,    (* declared directly in it            *)
          assigned : BOOLEAN]         (* a global was assigned in it: kept  *)
                                      (* for functions and system calls     *)

Top == Last(path).kind

Items == MapThenSumSet(LAMBDA i : Cardinality(path[i].names)
                                    + (IF path[i].assigned THEN 1 ELSE 0),
                       DOMAIN path)

(* What may be directly inside of what.                                     *)
MayOpen(k) ==
  \/ path = <<>> /\ k \in Declarations
  \/ path # <<>> /\ CASE Top = "driver" -> k = "fn"
                      [] Top \in {"fn", "syscall", "unsafe", "loop"} -> k = "block"
                      [] OTHER -> k \in Nested

(* A name is declared with the construct by the parameters of a function and*)
(* by the variable of a for.                                                *)
Open(k, names) ==
  /\ Len(path) < MaxDepth
  /\ Items + Cardinality(names) <= MaxItems
  /\ MayOpen(k)
  /\ k \notin {"fn", "syscall", "for"} => names = {}
  /\ k = "for" => names # {}
  /\ path' = Append(path, [kind |-> k, names |-> names, assigned |-> FALSE])

Close ==
  /\ path # <<>>
  /\ path' = Front(path)

HasExpressions == path # <<>> /\ Top \in {"block", "for", "const", "size", "statement"}
HasStatements  == path # <<>> /\ Top \in {"block", "statement"}

(* The innermost function, at the first place of the path or at the second, *)
(* inside a driver.                                                         *)
FunctionAt == {i \in DOMAIN path : path[i].kind \in {"fn", "syscall"}}

(* The walk is inside a construct of one of these kinds.                    *)
Within(kinds) == \E i \in DOMAIN path : path[i].kind \in kinds

Visible == UNION {path[i].names : i \in DOMAIN path}

Declare(x) ==
  /\ Items < MaxItems
  /\ path' = [path EXCEPT ![Len(path)].names = @ \cup {x}]

NoteAssignment ==
  /\ Items < MaxItems
  /\ path' = [i \in DOMAIN path |->
               [path[i] EXCEPT !.assigned = @ \/ (i \in FunctionAt /\ ~Within({"size"}))]]
=============================================================================
