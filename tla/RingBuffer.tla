------------------------------ MODULE RingBuffer ------------------------------
(***************************************************************************)
(* RingBuffer<T, N> of stdlib/collections/ringbuffer.qp, used by one thread*)
(* at a time: each operation is a step.                                    *)
(***************************************************************************)
EXTENDS Ring

CONSTANT Values    (* The values of type T.                                *)

VARIABLE result    (* What the latest operation returned.                  *)

vars == <<buf, head, tail, len, result>>

Init == NewRing /\ result = None

IsFull  == len >= N
IsEmpty == len = 0

(* push(val) with room left.                                                *)
Push(v) ==
  /\ ~ IsFull
  /\ buf'  = [buf EXCEPT ![Slot(head)] = v]
  /\ head' = Plus(head, 1)
  /\ len'  = len + 1
  /\ result' = Accepted
  /\ UNCHANGED tail

(* push(val) into a full buffer.                                            *)
PushFull ==
  /\ IsFull
  /\ result' = Refused
  /\ UNCHANGED <<buf, head, tail, len>>

(* pop() of a stored value.                                                 *)
Pop ==
  /\ ~ IsEmpty
  /\ result' = buf[Slot(tail)]
  /\ tail' = Plus(tail, 1)
  /\ len'  = len - 1
  /\ UNCHANGED <<buf, head>>

(* pop() and peek() on an empty buffer.                                     *)
NothingThere ==
  /\ IsEmpty
  /\ result' = None
  /\ UNCHANGED <<buf, head, tail, len>>

(* peek() of a stored value.                                                *)
Peek ==
  /\ ~ IsEmpty
  /\ result' = buf[Slot(tail)]
  /\ UNCHANGED <<buf, head, tail, len>>

(* clear(): the slots keep their values, the indices start again.           *)
Clear ==
  /\ head' = 0
  /\ tail' = 0
  /\ len'  = 0
  /\ UNCHANGED <<buf, result>>

Next ==
  \/ \E v \in Values : Push(v) \/ PushFull
  \/ Pop
  \/ NothingThere
  \/ Peek
  \/ Clear

Spec == Init /\ [][Next]_vars

-----------------------------------------------------------------------------

TypeOK ==
  /\ buf \in [0 .. N - 1 -> Values \cup {Zero}]
  /\ head \in Indices
  /\ tail \in Indices
  /\ len \in 0 .. N
  /\ result \in Values \cup {Zero, None, Accepted, Refused}

(* The three counters agree, even after the indices have wrapped: the write *)
(* index is len places after the read index.                                *)
CountersAgree == head = Plus(tail, len)

(* The queue the buffer stands for.                                         *)
contents == Stored(buf, tail, len)

Fifo == INSTANCE BoundedFifo WITH queue <- contents, Capacity <- N

(* The buffer is a bounded FIFO queue: values come out once each, in the    *)
(* order they were accepted, push refuses a value exactly when N are stored *)
(* and no index wrapping around shows.                                      *)
ImplementsFifo == Fifo!Spec

=============================================================================
