----------------------------- MODULE BoundedFifo -----------------------------
(***************************************************************************)
(* What a ring buffer of Capacity slots promises: a FIFO queue that refuses*)
(* values while it is full and has nothing to give while it is empty.      *)
(* Abstract specification of stdlib/collections/ringbuffer.qp and of the   *)
(* channels built on it.                                                   *)
(***************************************************************************)
EXTENDS Naturals, Sequences

CONSTANTS
  Values,    (* The values that can be queued.                             *)
  None,      (* The answer of a pop or peek that finds nothing.            *)
  Accepted,  (* The answer of a push that has queued its value.            *)
  Refused,   (* The answer of a push that has not.                         *)
  Capacity   (* How many values fit.                                       *)

VARIABLES
  queue,     (* The values in the queue, the oldest first.                 *)
  result     (* The answer of the latest operation.                        *)

vars == <<queue, result>>

Init == queue = <<>> /\ result = None

Push(v) ==
  \/ /\ Len(queue) < Capacity
     /\ queue' = Append(queue, v)
     /\ result' = Accepted
  \/ /\ Len(queue) = Capacity
     /\ result' = Refused
     /\ UNCHANGED queue

Pop ==
  \/ /\ queue # <<>>
     /\ result' = Head(queue)
     /\ queue' = Tail(queue)
  \/ /\ queue = <<>>
     /\ result' = None
     /\ UNCHANGED queue

Peek ==
  /\ result' = IF queue = <<>> THEN None ELSE Head(queue)
  /\ UNCHANGED queue

Clear ==
  /\ queue' = <<>>
  /\ UNCHANGED result

Next ==
  \/ \E v \in Values : Push(v)
  \/ Pop
  \/ Peek
  \/ Clear

Spec == Init /\ [][Next]_vars

=============================================================================
