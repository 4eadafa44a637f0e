------------------------------- MODULE Codegen --------------------------------
(***************************************************************************)
(* The defer stack of the code generator, compiler/src/codegen.c.  A defer  *)
(* statement puts its expression on the stack, and cg_block writes it at the*)
(* end of the block.  The expression may hold blocks, which have defers of  *)
(* their own: the generator meets them when it writes the expression, while *)
(* the entries of the block around are still on the stack.                  *)
(*                                                                          *)
(* The tree is chosen as it is walked.  Of its nodes there are the blocks   *)
(* and the defer statements; all others leave the stack alone and are passed*)
(* without a step: also return, break and continue, which are written       *)
(* without the deferred expressions of the blocks they leave.  An expression*)
(* is named by its block's place among the open ones and its number in the  *)
(* block: what else it is does not matter.                                  *)
(***************************************************************************)
EXTENDS SequencesExt, Integers

CONSTANTS
  DeferLimit,   (* The size of defer_stack, 256.                            *)
  MaxBlocks,    (* Bound: nesting of blocks.                                *)
  MaxDefers     (* Bound: defer statements whose block is open.             *)

ASSUME DeferAssumption ==
  DeferLimit \in Nat /\ MaxBlocks \in Nat /\ MaxDefers \in Nat

VARIABLES
  blocks,       (* The calls of cg_block under way, the innermost last.     *)
  deferStack,   (* defer_stack up to defer_top.                             *)
  loose         (* How many defer statements were outside of any block.     *)

cgVars == <<blocks, deferStack, loose>>

Block == [mark    : Nat,              (* defer_mark                         *)
          next    : Nat,              (* i of the loop at the end: what is  *)
                                      (* being written is entry i; 0 before *)
          outside : Nat,              (* history: defers in the open blocks *)
                                      (* around it, ...                     *)
          defers  : Nat,              (* ... in itself so far, ...          *)
          done    : Seq(Nat \X Nat)]  (* ... and what it has written        *)

CgInit == blocks = <<>> /\ deferStack = <<>> /\ loose = 0

(* How many defer statements are in open blocks, or were in none.           *)
OpenDefers == IF blocks = <<>> THEN loose ELSE Last(blocks).outside + Last(blocks).defers

(* The statements of the innermost block, or the top level, are walked, and *)
(* not one of its deferred expressions.                                     *)
AtStatements == blocks # <<>> => Last(blocks).next = 0

(* cg_block is called, for a statement or inside of a deferred expression.  *)
OpenBlock ==
  /\ Len(blocks) < MaxBlocks
  /\ blocks' = Append(blocks, [mark |-> Len(deferStack), next |-> 0, outside |-> OpenDefers, defers |-> 0, done |-> <<>>])
  /\ UNCHANGED <<deferStack, loose>>

(* AST_DEFER_STMT: dropped when the stack is full.  A defer at the top level*)
(* stays on the stack for good.                                             *)
DeferStmt ==
  /\ AtStatements
  /\ OpenDefers < MaxDefers
  /\ IF blocks = <<>>
     THEN loose' = loose + 1 /\ UNCHANGED blocks
     ELSE blocks' = [blocks EXCEPT ![Len(blocks)].defers = @ + 1] /\ UNCHANGED loose
  /\ deferStack' = IF Len(deferStack) < DeferLimit
                   THEN Append(deferStack,
                               <<Len(blocks), IF blocks = <<>> THEN loose + 1
                                                               ELSE Last(blocks).defers + 1>>)
                   ELSE deferStack

(* Mutant: defer_top is not set back to the mark.                           *)
CloseKeepingStack ==
  blocks' = Front(blocks) /\ UNCHANGED deferStack

(* The end of cg_block.                                                     *)
CloseBlock ==
  /\ deferStack' = SubSeq(deferStack, 1, Last(blocks).mark)
  /\ blocks' = Front(blocks)

(* A round of the loop over the stack, for entry i: it is written, and its  *)
(* blocks are walked next; or the loop ends.                                *)
WriteFrom(i) ==
  /\ IF i > Last(blocks).mark
     THEN /\ blocks' = [blocks EXCEPT ![Len(blocks)].next = i,
                                      ![Len(blocks)].done = Append(@, deferStack[i])]
          /\ UNCHANGED deferStack
     ELSE CloseBlock
  /\ UNCHANGED loose

EndStatements == blocks # <<>> /\ AtStatements /\ WriteFrom(Len(deferStack))

EndDeferred == ~AtStatements /\ WriteFrom(Last(blocks).next - 1)

CgNext ==
  \/ OpenBlock
  \/ DeferStmt
  \/ EndStatements
  \/ EndDeferred

-----------------------------------------------------------------------------
Smaller(a, b) == IF a < b THEN a ELSE b

(* How many of the defers of a block find room on the stack, with those of  *)
(* the blocks around it: also of a block around it that is being written.   *)
Room(b) == Smaller(b.defers, DeferLimit - Smaller(DeferLimit, b.outside))

(* The first n expressions that block i defers, the last one first.         *)
Deferred(i, n) == [j \in 1 .. n |-> <<i, n + 1 - j>>]

(* A block ends with the expressions deferred in it, the last one first: no *)
(* other block's, none twice, and none lost that found room on the stack,   *)
(* although the expressions it writes have blocks with defers of their own. *)
(* One that finds the stack full is dropped without a word, and is written  *)
(* nowhere.                                                                 *)
DefersAtBlockEnd ==
  [][Len(blocks') < Len(blocks) =>
       Last(blocks).done = Deferred(Len(blocks), Room(Last(blocks)))]_cgVars
=============================================================================
