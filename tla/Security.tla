------------------------------- MODULE Security -------------------------------
(***************************************************************************)
(* The security analyser, compiler/src/security.c, with the findings that   *)
(* depend on where a node is: asm! and port:: outside of unsafe, which are  *)
(* errors, and the second assignment to a global in a function, which is a  *)
(* warning.  The findings that depend on the node alone are left out, and   *)
(* in_driver, in_syscall and in_interrupt_fn, which nothing reads.          *)
(***************************************************************************)
EXTENDS Walk

CONSTANT MaxMutations  (* Bound: assignments to globals that are counted.   *)

ASSUME MutationAssumption == MaxMutations \in Nat \ {0}

VARIABLES
  secUnsafe,    (* in_unsafe                                                *)
  mutations,    (* static_mut_count                                         *)
  secSaved,     (* prev_unsafe, prev and prev_smut of the calls under way.  *)
  secErrors,    (* error_count > 0                                          *)
  secReport     (* The diagnostics of the last step.                        *)

secVars == <<secUnsafe, mutations, secSaved, secErrors, secReport>>

SecInit ==
  /\ secUnsafe = FALSE
  /\ mutations = 0
  /\ secSaved = <<>>
  /\ secErrors = FALSE
  /\ secReport = {}

(* sec_decl ignores constants and statements; sec_type ignores the length.  *)
SecSkips == {"statement", "const", "size"}

SecFinds(diagnostics) ==
  /\ secReport' = diagnostics
  /\ secErrors' = (secErrors \/ diagnostics \ {"race"} # {})

(* A construct is entered.  sec_decl counts anew for a function, and not for*)
(* a system call.                                                           *)
SecOpen(k) ==
  /\ secSaved' = Append(secSaved, [unsafe |-> secUnsafe, mutations |-> mutations])
  /\ IF Within(SecSkips)
     THEN UNCHANGED <<secUnsafe, mutations>>
     ELSE /\ secUnsafe' = (secUnsafe \/ k = "unsafe")
          /\ mutations' = IF k = "fn" THEN 0 ELSE mutations
  /\ SecFinds({})

(* Mutant: the flag is not restored.                                        *)
SecCloseKeepingUnsafe ==
  /\ secSaved' = Front(secSaved)
  /\ IF Within(SecSkips)
     THEN UNCHANGED <<secUnsafe, mutations>>
     ELSE /\ mutations' = IF Top = "fn" THEN Last(secSaved).mutations ELSE mutations
          /\ UNCHANGED secUnsafe
  /\ SecFinds({})

(* The innermost construct is left.                                         *)
SecClose ==
  /\ secSaved' = Front(secSaved)
  /\ IF Within(SecSkips)
     THEN UNCHANGED <<secUnsafe, mutations>>
     ELSE /\ secUnsafe' = IF Top \in {"unsafe", "fn"} THEN Last(secSaved).unsafe ELSE secUnsafe
          /\ mutations' = IF Top = "fn" THEN Last(secSaved).mutations ELSE mutations
  /\ SecFinds({})

SecNode(condition, diagnostic) ==
  /\ SecFinds(IF condition /\ ~Within(SecSkips) THEN {diagnostic} ELSE {})
  /\ UNCHANGED <<secUnsafe, mutations, secSaved>>

SecAsm  == SecNode(~secUnsafe, "asm")
SecOther == SecNode(FALSE, "none")

(* How a path that starts with port:: is used: the callee of a call, below  *)
(* an operator that is the callee (~port::f(x) calls what ~ makes of it), or*)
(* not called.                                                              *)
PortForms == {"callee", "below callee", "not called"}

(* AST_CALL, of which only the first form is one with an AST_PATH to call.  *)
SecPort(form) == SecNode(form = "callee" /\ ~secUnsafe, "port")

(* AST_ASSIGN_STMT with a target whose name looks like that of a global.    *)
SecAssign ==
  IF Within(SecSkips)
  THEN SecOther
  ELSE /\ mutations < MaxMutations
       /\ mutations' = mutations + 1
       /\ SecFinds(IF mutations' > 1 THEN {"race"} ELSE {})
       /\ UNCHANGED <<secUnsafe, secSaved>>
=============================================================================
