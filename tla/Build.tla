--------------------------------- MODULE Build --------------------------------
(***************************************************************************)
(* qpc build, cmd_build in compiler/src/main.c: a program that has been     *)
(* parsed goes through the semantic analyser, the security analyser and the *)
(* code generator.  A stage that reports an error ends the build.  The      *)
(* analysers are walked side by side here (see Walk), and what the later one*)
(* would have done does not count when the earlier one has failed.  The     *)
(* generator walks the tree in an order of its own: Codegen chooses its tree*)
(* anew, and has every tree that the analysers let through among its choices*)
(* up to the bounds.  In the end the C file is written, or cannot be.       *)
(***************************************************************************)
EXTENDS Sema, Security, Codegen

VARIABLES
  phase,        (* "parsed", "register", "walk", "generate", "failed",      *)
                (* "built", or "unwritten" when the C file could not be.    *)
  parsed,       (* The parser reported no error.                            *)
  faults,       (* What is wrong at the node of the last step, by the rules *)
                (* of the language and the tree alone.                      *)
  unchecked,    (* ... and that node is one that no analyser walks.         *)
  guardFault,   (* An error about asm!, port:: or break so far, in checked  *)
                (* code; an error about a name so far; ...                  *)
  nameFault,
  hiddenFault   (* ... and one about a port:: that is not called directly.  *)

judgement == <<faults, unchecked, guardFault, nameFault, hiddenFault>>
buildVars == <<phase, parsed, judgement>>

vars == <<path, semaVars, secVars, buildVars, cgVars>>

Init ==
  /\ path = <<>>
  /\ SemaInit /\ SecInit /\ CgInit
  /\ phase = "parsed"
  /\ parsed \in BOOLEAN
  /\ faults = {}
  /\ unchecked = FALSE
  /\ guardFault = FALSE
  /\ nameFault = FALSE
  /\ hiddenFault = FALSE

-----------------------------------------------------------------------------

(* Errors that depend on an unsafe or a loop around the node.               *)
GuardFaults == {"asm", "port", "break"}

(* The rules are checked in functions and system calls, and in the values of*)
(* constants as far as sema does it: it knows nothing of ports.             *)
Unchecked(found) ==
  \/ Within({"statement", "size"})
  \/ Within({"const"}) /\ found \cap {"port", "hidden port"} # {}

Judge(found) ==
  /\ faults' = found
  /\ unchecked' = Unchecked(found)
  /\ guardFault' = (guardFault \/ (found \cap GuardFaults # {} /\ ~unchecked'))
  /\ nameFault' = (nameFault \/ ("twice" \in found /\ ~unchecked'))
  /\ hiddenFault' = (hiddenFault \/ ("hidden port" \in found /\ ~unchecked'))

If(condition, fault) == IF condition THEN {fault} ELSE {}

Walking == phase = "walk" /\ UNCHANGED <<phase, parsed, cgVars>>

(* Bound: after the first error of a program no construct is entered any    *)
(* more; the walk goes on with what is open.                                *)
NoFaultYet == ~guardFault /\ ~nameFault /\ ~hiddenFault

(* The parser is done; when it has reported an error the build ends.        *)
StartAnalysis ==
  /\ phase = "parsed"
  /\ phase' = IF parsed THEN "register" ELSE "failed"
  /\ UNCHANGED <<path, semaVars, secVars, parsed, judgement, cgVars>>

(* The first pass of sema over the declarations.                            *)
RegisterName ==
  /\ phase = "register"
  /\ \E x \in Names :
       /\ Register(x)
       /\ Judge(If(x \in scopes[1], "twice"))
  /\ UNCHANGED <<path, secVars, phase, parsed, cgVars>>

StartWalk ==
  /\ phase = "register"
  /\ phase' = "walk"
  /\ Report({})
  /\ Judge({})
  /\ UNCHANGED <<path, scopes, saved, inLoop, inUnsafe, secVars, parsed, cgVars>>

EnterNode ==
  /\ Walking /\ NoFaultYet
  /\ \E k \in Kinds, names \in SUBSET Names :
       Open(k, names) /\ SemaOpen(k, names) /\ SecOpen(k)
  /\ Judge({})

LeaveNode ==
  /\ Walking
  /\ Close /\ SemaClose /\ SecClose
  /\ Judge({})

(* The nodes that an analyser looks at and that are no constructs.          *)
Asm ==
  /\ Walking /\ HasExpressions
  /\ SemaAsm /\ SecAsm
  /\ Judge(If(~Within({"unsafe"}), "asm"))
  /\ UNCHANGED path

Port ==
  /\ Walking /\ HasExpressions
  /\ SemaOther
  /\ \E form \in PortForms :
       /\ SecPort(form)
       /\ Judge(If(~Within({"unsafe"}), IF form = "callee" THEN "port" ELSE "hidden port"))
  /\ UNCHANGED path

Use ==
  /\ Walking /\ HasExpressions
  /\ \E x \in Names : /\ SemaUse(x)
                      /\ Judge(If(x \notin Visible \cup scopes[1], "undeclared"))
  /\ SecOther
  /\ UNCHANGED path

Let ==
  /\ Walking /\ HasStatements /\ Top = "block"
  /\ \E x \in Names : /\ SemaLet(x) /\ Declare(x)
                      /\ Judge(If(x \in Last(path).names, "twice"))
  /\ SecOther

Assign ==
  /\ Walking /\ HasStatements
  /\ SemaOther /\ SecAssign
  /\ NoteAssignment
  /\ Judge(If(\E i \in FunctionAt : path[i].assigned, "race"))

Break ==
  /\ Walking /\ HasStatements
  /\ SemaBreak /\ SecOther
  /\ Judge(If(~Within({"loop"}), "break"))
  /\ UNCHANGED path

(* The end of the program, for the analysers: an error of one of them ends  *)
(* the build.                                                               *)
Finish ==
  /\ phase = "walk" /\ path = <<>>
  /\ phase' = IF semaErrors \/ secErrors THEN "failed" ELSE "generate"
  /\ UNCHANGED <<path, semaVars, secVars, parsed, judgement, cgVars>>

Generate ==
  /\ phase = "generate"
  /\ CgNext
  /\ UNCHANGED <<path, semaVars, secVars, buildVars>>

(* The C file is written, if it can be opened.                              *)
WriteFile ==
  /\ phase = "generate" /\ blocks = <<>>
  /\ phase' \in {"built", "unwritten"}
  /\ UNCHANGED <<path, semaVars, secVars, parsed, judgement, cgVars>>

Next ==
  \/ StartAnalysis \/ RegisterName \/ StartWalk
  \/ EnterNode \/ LeaveNode
  \/ Asm \/ Port \/ Use \/ Let \/ Assign \/ Break
  \/ Finish \/ Generate \/ WriteFile

Spec == Init /\ [][Next]_vars

-----------------------------------------------------------------------------

(* However constructs are nested, the analysers together report at every    *)
(* node what is wrong there, once or twice, and nothing else: the flags and *)
(* scopes they keep are those of the node.  Three things are excepted: code *)
(* that no analyser walks; a port:: that is not called directly, of which   *)
(* nothing is reported (PortsAreGuarded, below); and the warning about      *)
(* assignments to globals in a system call, for which sec_decl goes on      *)
(* counting where the system call before it stopped.                        *)
ReportsExact ==
  LET reported == semaReport \cup secReport
      except   == {"hidden port"} \cup (IF Within({"syscall"}) THEN {"race"} ELSE {})
  IN  ~unchecked => reported \ except = faults \ except

(* A build that generates code has found no asm! and no direct call of      *)
(* port:: outside of an unsafe block, and no break outside of a loop, in the*)
(* code that is walked.                                                     *)
BuiltIsGuarded == phase \in {"generate", "built", "unwritten"} => ~guardFault

(* A build only fails for a reason.                                         *)
FailsForCause == phase = "failed" => ~parsed \/ guardFault \/ nameFault

-----------------------------------------------------------------------------
(* What the documentation says and the code does not do.                    *)

(* SPEC.md:361, an error of the analyser is "port:: access outside          *)
(* unsafe {}": a program with one, in the code that is walked, is not built.*)
PortsAreGuarded == phase = "built" => ~guardFault /\ ~hiddenFault
=============================================================================
