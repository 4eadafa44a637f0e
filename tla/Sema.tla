--------------------------------- MODULE Sema ---------------------------------
(***************************************************************************)
(* The semantic analyser, compiler/src/sema.c: the first pass registers the *)
(* names of the declarations, the second walks their bodies with a chain of *)
(* scopes and two flags.  A flag that a construct sets is restored from a   *)
(* local variable of the call that visits the construct; saved holds those  *)
(* variables, one entry for each open construct.  Types are left out, as    *)
(* they lead to warnings only, and current_ret, which nothing reads.        *)
(***************************************************************************)
EXTENDS Walk

VARIABLES
  scopes,       (* scope and its parents, innermost last: names declared.  *)
  saved,        (* prev of the calls that are under way.                    *)
  inLoop,       (* in_loop                                                  *)
  inUnsafe,     (* in_unsafe                                                *)
  semaErrors,   (* error_count > 0                                          *)
  semaReport    (* The diagnostics of the last step.                        *)

semaVars == <<scopes, saved, inLoop, inUnsafe, semaErrors, semaReport>>

SemaInit ==
  /\ scopes = << {} >>
  /\ saved = <<>>
  /\ inLoop = FALSE
  /\ inUnsafe = FALSE
  /\ semaErrors = FALSE
  /\ semaReport = {}

(* sema_decl_pass2 does nothing for a statement at the top level, and       *)
(* sema_type does not look at the length of an array.                       *)
SemaSkips == {"statement", "size"}

(* The kinds that open a scope.                                             *)
Scoped == {"fn", "syscall", "driver", "block", "for"}

(* symtab_lookup: the name is in one of the scopes of the chain.            *)
Found(x) == \E i \in DOMAIN scopes : x \in scopes[i]

Report(diagnostics) ==
  /\ semaReport' = diagnostics
  /\ semaErrors' = (semaErrors \/ diagnostics \ {"undeclared"} # {})

-----------------------------------------------------------------------------

(* sema_decl_pass1.                                                         *)
Register(x) ==
  /\ Report(IF x \in Last(scopes) THEN {"twice"} ELSE {})
  /\ scopes' = [scopes EXCEPT ![Len(scopes)] = @ \cup {x}]
  /\ UNCHANGED <<saved, inLoop, inUnsafe>>

(* A construct is entered.                                                  *)
SemaOpen(k, names) ==
  /\ saved' = Append(saved, [inLoop |-> inLoop, inUnsafe |-> inUnsafe])
  /\ IF Within(SemaSkips)
     THEN UNCHANGED <<scopes, inLoop, inUnsafe>>
     ELSE /\ scopes' = IF k \in Scoped THEN Append(scopes, names) ELSE scopes
          /\ inLoop' = (inLoop \/ k = "loop")
          /\ inUnsafe' = (inUnsafe \/ k = "unsafe")
  /\ Report({})

(* Mutant: the flag is switched off and not restored.                       *)
SemaCloseSwitchingOff ==
  /\ saved' = Front(saved)
  /\ IF Within(SemaSkips)
     THEN UNCHANGED <<scopes, inLoop, inUnsafe>>
     ELSE /\ scopes' = IF Top \in Scoped THEN Front(scopes) ELSE scopes
          /\ inLoop' = (inLoop /\ Top # "loop")
          /\ inUnsafe' = IF Top = "unsafe" THEN Last(saved).inUnsafe ELSE inUnsafe
  /\ Report({})

(* The innermost construct is left.                                         *)
SemaClose ==
  /\ saved' = Front(saved)
  /\ IF Within(SemaSkips)
     THEN UNCHANGED <<scopes, inLoop, inUnsafe>>
     ELSE /\ scopes' = IF Top \in Scoped THEN Front(scopes) ELSE scopes
          /\ inLoop' = IF Top = "loop" THEN Last(saved).inLoop ELSE inLoop
          /\ inUnsafe' = IF Top = "unsafe" THEN Last(saved).inUnsafe ELSE inUnsafe
  /\ Report({})

(* A node that the analyser has a complaint about when condition holds.     *)
SemaNode(condition, diagnostic) ==
  /\ Report(IF condition /\ ~Within(SemaSkips) THEN {diagnostic} ELSE {})
  /\ UNCHANGED <<scopes, saved, inLoop, inUnsafe>>

SemaAsm   == SemaNode(~inUnsafe, "asm")
SemaBreak == SemaNode(~inLoop, "break")
SemaUse(x) == SemaNode(~Found(x), "undeclared")
SemaOther == SemaNode(FALSE, "none")

(* AST_LET_STMT: a name that the innermost scope has already is complained  *)
(* about and entered again.                                                 *)
SemaLet(x) ==
  IF Within(SemaSkips)
  THEN SemaOther
  ELSE /\ Report(IF x \in Last(scopes) THEN {"twice"} ELSE {})
       /\ scopes' = [scopes EXCEPT ![Len(scopes)] = @ \cup {x}]
       /\ UNCHANGED <<saved, inLoop, inUnsafe>>
=============================================================================
