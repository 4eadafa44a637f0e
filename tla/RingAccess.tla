------------------------------ MODULE RingAccess ------------------------------
(***************************************************************************)
(* RingBuffer<T, N> of stdlib/collections/ringbuffer.qp used by several    *)
(* contexts, threads or interrupt handlers: each access to one of its      *)
(* fields is a step, and steps of different contexts come in any order.    *)
(* RingBuffer has the same operations as single steps.                     *)
(*                                                                         *)
(* The fields are plain variables.  The compiler may use the value that    *)
(* is_full or is_empty has loaded for the later len += 1 or len -= 1; in a *)
(* build that makes the update one instruction, which no interrupt splits, *)
(* the update uses the value of that moment.                               *)
(***************************************************************************)
EXTENDS Ring

CONSTANTS
  Contexts,    (* The threads and handlers that use the buffer.            *)
  SplitUpdate  (* Whether the build splits the updates of len.             *)

ASSUME AccessAssumption == SplitUpdate \in BOOLEAN

(* With any other size the slot after that of the last index is not the next*)
(* one.  The buffer of a channel has 64 slots (ipc.qp:149), which divide    *)
(* 2^32.                                                                    *)
ASSUME WrapAssumption == IndexLimit % N = 0

VARIABLES
  at,        (* The next step of each context's operation, or "out".       *)
  doing,     (* "push" or "pop".                                           *)
  val,       (* The value to push; the local val of pop.                   *)
  seen,      (* The value of len that is_full or is_empty has loaded.      *)
  ok         (* Whether the check let the operation through.               *)

ringVars == <<buf, head, tail, len, at, doing, val, seen, ok>>

RingInit ==
  /\ NewRing
  /\ at    = [c \in Contexts |-> "out"]
  /\ doing = [c \in Contexts |-> "push"]
  /\ val   = [c \in Contexts |-> Zero]
  /\ seen  = [c \in Contexts |-> 0]
  /\ ok    = [c \in Contexts |-> FALSE]

Goto(c, step) == at' = [at EXCEPT ![c] = step]

(* The call push(v), or pop() with v = Zero.                                *)
Enter(c, o, v) ==
  /\ at[c] = "out"
  /\ Goto(c, "check")
  /\ doing' = [doing EXCEPT ![c] = o]
  /\ val'   = [val EXCEPT ![c] = v]
  /\ UNCHANGED <<buf, head, tail, len, seen, ok>>

(* is_full() and is_empty(): push returns false, pop returns None.          *)
Check(c) ==
  /\ at[c] = "check"
  /\ LET goes == IF doing[c] = "push" THEN len < N ELSE len # 0
     IN  /\ ok' = [ok EXCEPT ![c] = goes]
         /\ Goto(c, IF goes THEN "copy" ELSE "out")
  /\ seen' = [seen EXCEPT ![c] = len]
  /\ UNCHANGED <<buf, head, tail, len, doing, val>>

(* self.buf[self.head % N] = val, and let val = self.buf[self.tail % N].    *)
Copy(c) ==
  /\ at[c] = "copy"
  /\ IF doing[c] = "push"
     THEN buf' = [buf EXCEPT ![Slot(head)] = val[c]] /\ UNCHANGED val
     ELSE val' = [val EXCEPT ![c] = buf[Slot(tail)]] /\ UNCHANGED buf
  /\ Goto(c, "index")
  /\ UNCHANGED <<head, tail, len, doing, seen, ok>>

(* self.head += 1, and self.tail += 1.                                      *)
Advance(c) ==
  /\ at[c] = "index"
  /\ IF doing[c] = "push"
     THEN head' = Plus(head, 1) /\ UNCHANGED tail
     ELSE tail' = Plus(tail, 1) /\ UNCHANGED head
  /\ Goto(c, "count")
  /\ UNCHANGED <<buf, len, doing, val, seen, ok>>

(* self.len += 1, and self.len -= 1; then the operation returns.            *)
Count(c) ==
  /\ at[c] = "count"
  /\ LET old == IF SplitUpdate THEN seen[c] ELSE len
     IN  len' = IF doing[c] = "push" THEN old + 1 ELSE old - 1
  /\ Goto(c, "out")
  /\ UNCHANGED <<buf, head, tail, doing, val, seen, ok>>

RingStep(c) == Check(c) \/ Copy(c) \/ Advance(c) \/ Count(c)

(* The locals of an operation end with it.                                  *)
Forget(c) ==
  /\ val'  = [val EXCEPT ![c] = Zero]
  /\ seen' = [seen EXCEPT ![c] = 0]
  /\ ok'   = [ok EXCEPT ![c] = FALSE]
  /\ UNCHANGED <<buf, head, tail, len, at, doing>>

(* What the operation that has just returned answered.                      *)
Answer(c) ==
  IF ok[c] THEN IF doing[c] = "push" THEN Accepted ELSE val[c]
  ELSE IF doing[c] = "push" THEN Refused ELSE None

(* The values that count as stored: an operation takes effect with its      *)
(* update of len, so that a pop that has already advanced tail still counts.*)
queued ==
  LET first == IF \E c \in Contexts : doing[c] = "pop" /\ at[c] = "count"
               THEN Plus(tail, IndexLimit - 1) ELSE tail
  IN  Stored(buf, first, len)

=============================================================================
