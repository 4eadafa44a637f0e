--------------------------------- MODULE Ring ---------------------------------
(***************************************************************************)
(* The fields of RingBuffer<T, N> of stdlib/collections/ringbuffer.qp.     *)
(* head and tail are u32 counters that are never reduced modulo N, they    *)
(* wrap at the width of the type; the slot of an index is index % N.       *)
(***************************************************************************)
EXTENDS Naturals, Sequences

CONSTANTS
  None,        (* Option::None.                                            *)
  Accepted,    (* true, the answer of a push that has stored its value.    *)
  Refused,     (* false, the answer of a push that has not.                *)
  Zero,        (* 0 as T, which the slots hold at first.                   *)
  N,           (* The number of slots.                                     *)
  IndexLimit   (* The number of values of an index, 2^32 for a u32.        *)

ASSUME SizeAssumption == N \in Nat \ {0} /\ IndexLimit \in Nat /\ N < IndexLimit

VARIABLES
  buf,     (* buf: the slots.                                              *)
  head,    (* head: the index of the next write.                           *)
  tail,    (* tail: the index of the next read.                            *)
  len      (* len: how many values are stored.                             *)

Indices == 0 .. IndexLimit - 1

(* u32 addition.                                                            *)
Plus(i, k) == (i + k) % IndexLimit

Slot(i) == i % N

(* RingBuffer::new.                                                         *)
NewRing ==
  /\ buf = [s \in 0 .. N - 1 |-> Zero]
  /\ head = 0
  /\ tail = 0
  /\ len  = 0

(* The values in the l slots of b from index t on.                          *)
Stored(b, t, l) == [i \in 1 .. l |-> b[Slot(Plus(t, i - 1))]]

===============================================================================
