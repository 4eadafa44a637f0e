------------------------------ MODULE RingProofs ------------------------------
(***************************************************************************)
(* Proofs about the ring buffer and its two users, the channel and the     *)
(* keyboard driver, for any number of slots that divides the number of     *)
(* index values, any number of contexts that use a channel, and any set of *)
(* keys.                                                                   *)
(***************************************************************************)
EXTENDS Keyboard, Channel, BasicLemmas, SequenceTheorems

-----------------------------------------------------------------------------
(* The ring buffer implements the bounded FIFO queue.  The invariant is     *)
(* that the three counters agree; the arithmetic shows that the len slots   *)
(* from the read index on are different slots even when an index has        *)
(* wrapped between them, so that a push touches no stored value.            *)

RingInv == TypeOK /\ CountersAgree

LEMMA PlusIsIndex ==
  ASSUME NEW i \in Nat, NEW k \in Nat
  PROVE  Plus(i, k) \in Indices /\ Plus(i, k) \in Nat
  <1>1. i + k \in Nat /\ IndexLimit \in Nat \ {0}
    BY SizeAssumption
  <1>2. (i + k) % IndexLimit \in 0 .. IndexLimit - 1
    BY <1>1, DivMod
  <1> QED
    BY <1>1, <1>2 DEF Plus, Indices

(* The slot of an index that may have wrapped is that of the sum.           *)
LEMMA SlotOfPlus ==
  ASSUME NEW i \in Nat, NEW k \in Nat
  PROVE  Slot(Plus(i, k)) = (i + k) % N
  <1> DEFINE x == i + k
  <1>1. x \in Nat /\ N \in Nat \ {0} /\ IndexLimit \in Nat \ {0} /\ IndexLimit % N = 0
    BY SizeAssumption, WrapAssumption
  <1>2. Slot(Plus(i, k)) = (x % IndexLimit) % N
    BY DEF Slot, Plus
  <1> HIDE DEF x
  <1>3. (x % IndexLimit) % N = x % N
    BY <1>1, ModOfMod
  <1> QED
    BY <1>2, <1>3 DEF x

(* Two places less than N apart are different slots.                        *)
LEMMA SlotsDiffer ==
  ASSUME NEW i \in Nat, NEW j \in 0 .. N - 1, NEW k \in 0 .. N - 1, j # k
  PROVE  Slot(Plus(i, j)) # Slot(Plus(i, k))
  <1>0. N \in Nat \ {0} /\ j \in Nat /\ k \in Nat
    BY SizeAssumption
  <1>1. (i + j) % N # (i + k) % N
    <2>1. CASE j < k
      <3>1. k - j < N
        BY <1>0
      <3> QED
        BY <1>0, <2>1, <3>1, ModInjective
    <2>2. CASE k < j
      <3>1. j - k < N
        BY <1>0
      <3> QED
        BY <1>0, <2>2, <3>1, ModInjective
    <2> QED
      BY <1>0, <2>1, <2>2
  <1> QED
    BY <1>0, <1>1, SlotOfPlus

LEMMA PlusPlus ==
  ASSUME NEW i \in Nat, NEW j \in Nat, NEW k \in Nat
  PROVE  Plus(Plus(i, j), k) = Plus(i, j + k)
  <1> DEFINE x == i + j
  <1>1. ((x % IndexLimit) + k) % IndexLimit = (x + k) % IndexLimit
    <2>1. x \in Nat /\ IndexLimit \in Nat \ {0}
      BY SizeAssumption
    <2> HIDE DEF x
    <2> QED
      BY <2>1, ModOfSum
  <1>2. (i + j) + k = i + (j + k)
    OBVIOUS
  <1> QED
    BY <1>1, <1>2 DEF Plus

LEMMA SlotInRange ==
  ASSUME NEW i \in Nat
  PROVE  Slot(i) \in 0 .. N - 1
  BY SizeAssumption, DivMod DEF Slot

(* The invariant holds at first ...                                         *)
LEMMA RingStarts ==
  ASSUME Init
  PROVE  RingInv
  <1>1. TypeOK
    BY SizeAssumption DEF Init, NewRing, TypeOK, Indices
  <1>2. CountersAgree
    BY SizeAssumption DEF Init, NewRing, CountersAgree, Plus
  <1> QED
    BY <1>1, <1>2 DEF RingInv

(* ... and every operation keeps it.                                        *)
LEMMA RingStepKeepsInv ==
  ASSUME RingInv, [Next]_vars
  PROVE  RingInv'
  <1> USE SizeAssumption
  <1>0. /\ buf \in [0 .. N - 1 -> Values \cup {Zero}]
        /\ head \in Nat /\ head \in Indices
        /\ tail \in Nat /\ tail \in Indices
        /\ len \in 0 .. N
        /\ head = Plus(tail, len)
    BY DEF RingInv, TypeOK, CountersAgree, Indices
  <1>1. ASSUME NEW v \in Values, Push(v) PROVE RingInv'
    <2>1. Plus(head, 1) \in Indices /\ Slot(head) \in 0 .. N - 1
      BY <1>0, PlusIsIndex, SlotInRange
    <2>2. TypeOK'
      BY <1>0, <1>1, <2>1 DEF Push, IsFull, TypeOK
    <2>3. Plus(head, 1) = Plus(tail, len + 1)
      BY <1>0, PlusPlus
    <2> QED
      BY <1>1, <2>2, <2>3 DEF Push, RingInv, CountersAgree, Plus
  <1>2. CASE PushFull
    BY <1>2 DEF PushFull, RingInv, TypeOK, CountersAgree, Plus
  <1>3. CASE Pop
    <2>1. Plus(tail, 1) \in Indices /\ buf[Slot(tail)] \in Values \cup {Zero}
      BY <1>0, PlusIsIndex, SlotInRange
    <2>2. TypeOK'
      BY <1>0, <1>3, <2>1 DEF Pop, IsEmpty, TypeOK
    <2>3. len - 1 \in Nat /\ 1 + (len - 1) = len
      BY <1>0, <1>3 DEF Pop, IsEmpty
    <2>4. Plus(Plus(tail, 1), len - 1) = Plus(tail, len)
      BY <1>0, <2>3, PlusPlus
    <2> QED
      BY <1>0, <1>3, <2>2, <2>4 DEF Pop, RingInv, CountersAgree, Plus
  <1>4. CASE NothingThere
    BY <1>4 DEF NothingThere, RingInv, TypeOK, CountersAgree, Plus
  <1>5. CASE Peek
    <2>1. buf[Slot(tail)] \in Values \cup {Zero}
      BY <1>0, SlotInRange
    <2> QED
      BY <1>5, <2>1 DEF Peek, RingInv, TypeOK, CountersAgree, Plus
  <1>6. CASE Clear
    <2>1. TypeOK'
      BY <1>0, <1>6 DEF Clear, RingInv, TypeOK, Indices
    <2>2. CountersAgree'
      BY <1>6 DEF Clear, CountersAgree, Plus
    <2> QED
      BY <2>1, <2>2 DEF RingInv
  <1>7. CASE UNCHANGED vars
    BY <1>7 DEF vars, RingInv, TypeOK, CountersAgree, Plus
  <1> QED
    BY <1>1, <1>2, <1>3, <1>4, <1>5, <1>6, <1>7 DEF Next

LEMMA RingInvInductive == Spec => []RingInv
  <1>1. Init => RingInv
    BY RingStarts
  <1>2. RingInv /\ [Next]_vars => RingInv'
    BY RingStepKeepsInv
  <1> QED
    BY <1>1, <1>2, PTL DEF Spec

(* Every variable keeps its type: the indices stay in their width, len      *)
(* never exceeds the number of slots and never goes below zero.             *)
THEOREM RingTypeCorrect == Spec => []TypeOK
  <1>1. RingInv => TypeOK
    BY DEF RingInv
  <1> QED
    BY <1>1, RingInvInductive, PTL

(* head, tail and len agree at all times.                                   *)
THEOREM RingCountersAgree == Spec => []CountersAgree
  <1>1. RingInv => CountersAgree
    BY DEF RingInv
  <1> QED
    BY <1>1, RingInvInductive, PTL

-----------------------------------------------------------------------------

(* Buffers with values from V.                                              *)
Buffers(V) == [0 .. N - 1 -> V]

LEMMA StoredIsSeq ==
  ASSUME NEW V, NEW b \in Buffers(V), NEW t \in Nat, NEW l \in Nat
  PROVE  /\ Stored(b, t, l) \in Seq(V)
         /\ Len(Stored(b, t, l)) = l
         /\ \A i \in 1 .. l : Stored(b, t, l)[i] = b[Slot(Plus(t, i - 1))]
  <1>1. \A i \in 1 .. l : Slot(Plus(t, i - 1)) \in 0 .. N - 1
    <2> SUFFICES ASSUME NEW i \in 1 .. l PROVE Slot(Plus(t, i - 1)) \in 0 .. N - 1
      OBVIOUS
    <2>1. i - 1 \in Nat
      OBVIOUS
    <2>2. Plus(t, i - 1) \in Nat
      BY <2>1, PlusIsIndex
    <2> QED
      BY <2>2, SlotInRange
  <1>2. Stored(b, t, l) \in [1 .. l -> V]
    BY <1>1 DEF Stored, Buffers
  <1>3. Stored(b, t, l) \in Seq(V)
    BY <1>2, SeqDef
  <1>4. Len(Stored(b, t, l)) = l
    BY <1>2, <1>3, LenProperties
  <1>5. \A i \in 1 .. l : Stored(b, t, l)[i] = b[Slot(Plus(t, i - 1))]
    BY DEF Stored
  <1> QED
    BY <1>3, <1>4, <1>5

(* Writing the slot after the stored values appends.                        *)
LEMMA WriteAppends ==
  ASSUME NEW V, NEW b \in Buffers(V), NEW t \in Nat,
         NEW l \in 0 .. N - 1, NEW v \in V
  PROVE  Stored([b EXCEPT ![Slot(Plus(t, l))] = v], t, l + 1) = Append(Stored(b, t, l), v)
  <1> DEFINE c == [b EXCEPT ![Slot(Plus(t, l))] = v]
             s == Stored(b, t, l)
             u == Stored(c, t, l + 1)
  <1>0. N \in Nat /\ l \in Nat /\ l + 1 \in Nat /\ Plus(t, l) \in Nat
    <2>1. N \in Nat /\ l \in Nat /\ l + 1 \in Nat
      BY SizeAssumption
    <2> QED
      BY <2>1, PlusIsIndex
  <1>1. c \in Buffers(V)
    BY DEF Buffers
  <1>2. /\ s \in Seq(V)
        /\ Len(s) = l
        /\ \A i \in 1 .. l : s[i] = b[Slot(Plus(t, i - 1))]
    BY <1>0, StoredIsSeq
  <1>3. /\ u \in Seq(V)
        /\ Len(u) = l + 1
        /\ \A i \in 1 .. l + 1 : u[i] = c[Slot(Plus(t, i - 1))]
    <2> HIDE DEF c
    <2> QED
      BY <1>0, <1>1, StoredIsSeq, ZenonT(30)
  <1>4. \A i \in 1 .. l : u[i] = s[i]
    <2> SUFFICES ASSUME NEW i \in 1 .. l PROVE u[i] = s[i]
      OBVIOUS
    <2>1. i - 1 \in 0 .. N - 1 /\ i - 1 # l /\ i - 1 \in Nat /\ i \in 1 .. l + 1
      BY <1>0
    <2>2. Slot(Plus(t, i - 1)) # Slot(Plus(t, l))
      BY <2>1, SlotsDiffer
    <2>3. Slot(Plus(t, i - 1)) \in 0 .. N - 1
      BY <2>1, PlusIsIndex, SlotInRange
    <2>4. c[Slot(Plus(t, i - 1))] = b[Slot(Plus(t, i - 1))]
      BY <2>2, <2>3 DEF Buffers
    <2> QED
      BY <1>2, <1>3, <2>1, <2>4
  <1>5. u[l + 1] = v
    <2>1. u[l + 1] = c[Slot(Plus(t, l))]
      <3>1. l + 1 \in 1 .. l + 1 /\ (l + 1) - 1 = l
        BY <1>0
      <3> HIDE DEF c, u
      <3> QED
        BY <1>3, <3>1
    <2>2. Slot(Plus(t, l)) \in 0 .. N - 1
      BY <1>0, SlotInRange
    <2> QED
      BY <2>1, <2>2 DEF Buffers
  <1> HIDE DEF s, u
  <1>6. /\ Append(s, v) \in Seq(V)
        /\ Len(Append(s, v)) = l + 1
        /\ \A i \in 1 .. l : Append(s, v)[i] = s[i]
        /\ Append(s, v)[l + 1] = v
    BY <1>2, AppendProperties
  <1>7. \A i \in 1 .. l + 1 : u[i] = Append(s, v)[i]
    BY <1>0, <1>4, <1>5, <1>6
  <1>8. u = Append(s, v)
    BY <1>3, <1>6, <1>7, SeqEqual
  <1> QED
    BY <1>8 DEF s, u

(* Advancing the read index drops the oldest value.                         *)
LEMMA AdvanceDrops ==
  ASSUME NEW V, NEW b \in Buffers(V), NEW t \in Indices,
         NEW l \in Nat, l > 0
  PROVE  /\ Stored(b, t, l) # <<>>
         /\ Head(Stored(b, t, l)) = b[Slot(t)]
         /\ Tail(Stored(b, t, l)) = Stored(b, Plus(t, 1), l - 1)
  <1> DEFINE s == Stored(b, t, l)
             u == Stored(b, Plus(t, 1), l - 1)
  <1>0. t \in Nat /\ l - 1 \in Nat /\ Plus(t, 1) \in Nat
    <2>1. t \in Nat /\ l - 1 \in Nat
      BY SizeAssumption DEF Indices
    <2> QED
      BY <2>1, PlusIsIndex
  <1>1. /\ s \in Seq(V)
        /\ Len(s) = l
        /\ \A i \in 1 .. l : s[i] = b[Slot(Plus(t, i - 1))]
    BY <1>0, StoredIsSeq
  <1>2. /\ u \in Seq(V)
        /\ Len(u) = l - 1
        /\ \A i \in 1 .. l - 1 : u[i] = b[Slot(Plus(Plus(t, 1), i - 1))]
    BY <1>0, StoredIsSeq
  <1>3. s[1] = b[Slot(t)]
    <2>1. Plus(t, 0) = t
      BY SizeAssumption DEF Plus, Indices
    <2>2. s[1] = b[Slot(Plus(t, 1 - 1))]
      BY <1>1
    <2>3. 1 - 1 = 0
      OBVIOUS
    <2> QED
      BY <2>1, <2>2, <2>3
  <1>4. \A i \in 1 .. l - 1 : u[i] = s[i + 1]
    <2> SUFFICES ASSUME NEW i \in 1 .. l - 1 PROVE u[i] = s[i + 1]
      OBVIOUS
    <2>1. i - 1 \in Nat /\ 1 + (i - 1) = i /\ i + 1 \in 1 .. l /\ (i + 1) - 1 = i
      BY <1>0
    <2>2. Plus(Plus(t, 1), i - 1) = Plus(t, i)
      BY <1>0, <2>1, PlusPlus
    <2>3. s[i + 1] = b[Slot(Plus(t, (i + 1) - 1))]
      BY <1>1, <2>1
    <2> QED
      BY <1>2, <2>1, <2>2, <2>3
  <1> HIDE DEF s, u
  <1>5. s # <<>>
    BY <1>1, EmptySeq
  <1>6. /\ Head(s) = s[1]
        /\ Tail(s) \in Seq(V)
        /\ Len(Tail(s)) = l - 1
        /\ \A i \in 1 .. l - 1 : Tail(s)[i] = s[i + 1]
    BY <1>1, <1>5, HeadTailProperties
  <1>7. Tail(s) = u
    BY <1>2, <1>4, <1>6, SeqEqual
  <1> QED
    BY <1>3, <1>5, <1>6, <1>7 DEF s, u

-----------------------------------------------------------------------------

(* What the operations do to the queue: push appends to it, ...             *)
LEMMA PushAppends ==
  ASSUME RingInv, NEW v \in Values, Push(v)
  PROVE  contents' = Append(contents, v)
  <1>1. /\ N \in Nat \ {0}
        /\ buf \in Buffers(Values \cup {Zero})
        /\ tail \in Nat
        /\ len \in 0 .. N - 1
        /\ head = Plus(tail, len)
    BY SizeAssumption DEF RingInv, TypeOK, CountersAgree, Indices, Buffers, Push, IsFull
  <1>2. /\ buf' = [buf EXCEPT ![Slot(Plus(tail, len))] = v]
        /\ tail' = tail /\ len' = len + 1
    BY <1>1 DEF Push
  <1>3. contents' = Stored(buf', tail', len')
    BY DEF contents, Stored, Slot, Plus
  <1> DEFINE V == Values \cup {Zero}
  <1>4. buf \in Buffers(V) /\ v \in V
    BY <1>1
  <1>a. tail \in Nat /\ len \in 0 .. N - 1
    BY <1>1
  <1> HIDE DEF V
  <1>5. Stored([buf EXCEPT ![Slot(Plus(tail, len))] = v], tail, len + 1)
          = Append(Stored(buf, tail, len), v)
    BY <1>4, <1>a, WriteAppends
  <1> QED
    BY <1>2, <1>3, <1>5 DEF contents

(* ... pop takes the first value from it and hands it out, ...              *)
LEMMA PopTakesHead ==
  ASSUME RingInv, Pop
  PROVE  /\ contents # <<>>
         /\ result' = Head(contents)
         /\ contents' = Tail(contents)
  <1>1. /\ buf \in Buffers(Values \cup {Zero})
        /\ tail \in Indices
        /\ len \in Nat /\ len > 0
    BY SizeAssumption DEF RingInv, TypeOK, Buffers, Pop, IsEmpty
  <1>2. contents' = Stored(buf, Plus(tail, 1), len - 1)
    BY DEF Pop, contents, Stored, Slot, Plus
  <1>3. /\ Stored(buf, tail, len) # <<>>
        /\ Head(Stored(buf, tail, len)) = buf[Slot(tail)]
        /\ Tail(Stored(buf, tail, len)) = Stored(buf, Plus(tail, 1), len - 1)
    BY <1>1, AdvanceDrops
  <1> QED
    BY <1>2, <1>3 DEF Pop, contents

(* ... and peek shows it and leaves it there.                               *)
LEMMA PeekShowsHead ==
  ASSUME RingInv, Peek
  PROVE  contents # <<>> /\ result' = Head(contents)
  <1>1. /\ buf \in Buffers(Values \cup {Zero})
        /\ tail \in Indices
        /\ len \in Nat /\ len > 0
    BY SizeAssumption DEF RingInv, TypeOK, Buffers, Peek, IsEmpty
  <1> QED
    BY <1>1, AdvanceDrops DEF Peek, contents

(* Operations that touch neither the slots nor the counters leave the queue *)
(* as it is.                                                                *)
LEMMA QueueStays ==
  ASSUME PushFull \/ Peek \/ NothingThere \/ UNCHANGED vars
  PROVE  contents' = contents
  BY DEF PushFull, Peek, NothingThere, vars, contents, Stored, Slot, Plus

(* Every step of the ring buffer is a step of the queue it stands for.      *)
LEMMA StepRefines ==
  ASSUME RingInv, [Next]_vars
  PROVE  [Fifo!Next]_(Fifo!vars)
  <1>0. /\ N \in Nat \ {0}
        /\ buf \in Buffers(Values \cup {Zero})
        /\ tail \in Nat
        /\ len \in 0 .. N /\ len \in Nat
    BY SizeAssumption DEF RingInv, TypeOK, Indices, Buffers
  <1>a. Len(contents) = len
    BY <1>0, StoredIsSeq DEF contents
  <1>b. len = 0 => contents = <<>>
    BY <1>0, StoredIsSeq, EmptySeq DEF contents
  <1>1. ASSUME NEW v \in Values, Push(v) PROVE Fifo!Next
    <2>1. Len(contents) < N
      BY <1>0, <1>a, <1>1 DEF Push, IsFull
    <2>2. contents' = Append(contents, v)
      BY <1>1, PushAppends
    <2>3. result' = Accepted
      BY <1>1 DEF Push
    <2> QED
      BY <2>1, <2>2, <2>3 DEF Fifo!Next, Fifo!Push
  <1>2. ASSUME NEW v \in Values, PushFull PROVE Fifo!Next
    <2>1. Len(contents) = N
      BY <1>0, <1>a, <1>2 DEF PushFull, IsFull
    <2>2. contents' = contents /\ result' = Refused
      BY <1>2, QueueStays DEF PushFull
    <2> QED
      BY <2>1, <2>2 DEF Fifo!Next, Fifo!Push
  <1>3. CASE Pop
    BY <1>3, PopTakesHead DEF Fifo!Next, Fifo!Pop
  <1>4. CASE NothingThere
    <2>1. contents = <<>> /\ contents' = contents /\ result' = None
      BY <1>4, <1>b, QueueStays DEF NothingThere, IsEmpty
    <2> QED
      BY <2>1 DEF Fifo!Next, Fifo!Pop
  <1>5. CASE Peek
    BY <1>5, PeekShowsHead, QueueStays DEF Fifo!Next, Fifo!Peek
  <1>6. CASE Clear
    <2>1. contents' = <<>>
      <3>1. contents' = Stored(buf, 0, 0)
        BY <1>6 DEF Clear, contents, Stored, Slot, Plus
      <3> QED
        BY <1>0, <3>1, StoredIsSeq, EmptySeq
    <2>2. UNCHANGED result
      BY <1>6 DEF Clear
    <2> QED
      BY <2>1, <2>2 DEF Fifo!Next, Fifo!Clear
  <1>7. CASE UNCHANGED vars
    BY <1>7, QueueStays DEF vars, Fifo!vars
  <1> QED
    BY <1>1, <1>2, <1>3, <1>4, <1>5, <1>6, <1>7 DEF Next

(* At first the buffer is empty, as the queue is.                           *)
LEMMA StartRefines ==
  ASSUME Init
  PROVE  Fifo!Init
  <1>1. contents = Stored(buf, 0, 0) /\ result = None
    BY DEF Init, NewRing, contents
  <1>2. buf \in Buffers(Values \cup {Zero})
    BY DEF Init, NewRing, Buffers
  <1> QED
    BY <1>1, <1>2, StoredIsSeq, EmptySeq DEF Fifo!Init

(* The ring buffer implements the bounded FIFO queue.                       *)
THEOREM RingBufferImplementsFifo == Spec => ImplementsFifo
  <1>1. Init => Fifo!Init
    BY StartRefines
  <1>2. RingInv /\ [Next]_vars => [Fifo!Next]_(Fifo!vars)
    BY StepRefines
  <1> QED
    BY <1>1, <1>2, RingInvInductive, PTL DEF Spec, ImplementsFifo, Fifo!Spec

-----------------------------------------------------------------------------
(* The channel implements the same queue for any number of contexts that    *)
(* send and receive, threads or handlers.  Whoever is in push or pop holds  *)
(* the spinlock, so that what it has tested is still so when it uses it;    *)
(* the queue changes at the update of len.                                  *)

Cells == Messages \cup {Zero}

ChTypeOK ==
  /\ buf \in Buffers(Cells)
  /\ head \in Indices /\ tail \in Indices /\ len \in 0 .. N
  /\ at \in [Contexts -> {"out", "check", "copy", "index", "count"}]
  /\ doing \in [Contexts -> {"push", "pop"}]
  /\ val \in [Contexts -> Cells]
  /\ seen \in [Contexts -> 0 .. N] /\ ok \in [Contexts -> BOOLEAN]
  /\ where \in [Contexts -> {"idle", "acquire", "inside"}]

(* The lock is taken by the one context that is inside, and only there the  *)
(* ring buffer is used.                                                     *)
HolderAlone ==
  /\ \A c \in Contexts : at[c] # "out" => where[c] = "inside"
  /\ \A c \in Contexts : where[c] = "inside" => locked = 1
  /\ \A c, d \in Contexts : where[c] = "inside" /\ where[d] = "inside" => c = d

Sends == \A c \in Contexts : doing[c] = "push" /\ where[c] # "idle" => val[c] \in Messages

Pushed(c) == doing[c] = "push" /\ at[c] = "count"
Popped(c) == doing[c] = "pop" /\ at[c] = "count"

(* The index of the oldest value that counts as stored while c is inside.   *)
First(c) == IF Popped(c) THEN Plus(tail, IndexLimit - 1) ELSE tail

(* How far the indices, what c has tested and what it has copied go         *)
(* together.                                                                *)
Operation(c) ==
  /\ head = Plus(First(c), IF Pushed(c) THEN len + 1 ELSE len)
  /\ at[c] \in {"copy", "index", "count"} =>
       ok[c] /\ seen[c] = len /\ IF doing[c] = "push" THEN len < N ELSE len > 0
  /\ at[c] \in {"index", "count"} =>
       val[c] = buf[Slot(Plus(First(c), IF doing[c] = "push" THEN len ELSE 0))]

ChInv ==
  /\ ChTypeOK /\ HolderAlone /\ Sends
  /\ \A c \in Contexts : where[c] = "inside" => Operation(c)
  /\ (\A c \in Contexts : where[c] # "inside") => head = Plus(tail, len)

LEMMA PlusZero ==
  ASSUME NEW i \in Indices
  PROVE  Plus(i, 0) = i
  <1>1. i \in Nat /\ i < IndexLimit /\ IndexLimit \in Nat \ {0}
    BY SizeAssumption DEF Indices
  <1> QED
    BY <1>1, ModOfSmall DEF Plus

(* One step on from all but one round is where it began.                    *)
LEMMA WholeRound ==
  ASSUME NEW i \in Indices
  PROVE  /\ Plus(i, IndexLimit - 1) \in Indices
         /\ Plus(Plus(i, IndexLimit - 1), 1) = i
         /\ Plus(Plus(i, 1), IndexLimit - 1) = i
  <1>1. i \in Nat /\ IndexLimit \in Nat \ {0} /\ IndexLimit - 1 \in Nat
    BY SizeAssumption DEF Indices
  <1>2. Plus(i, IndexLimit) = i
    <2>1. (IndexLimit * 1 + i) % IndexLimit = i % IndexLimit
      BY <1>1, ModOfMultiple
    <2>2. IndexLimit * 1 + i = i + IndexLimit /\ i + 0 = i
      BY <1>1
    <2>3. Plus(i, IndexLimit) = Plus(i, 0)
      BY <2>1, <2>2 DEF Plus
    <2> QED
      BY <2>3, PlusZero
  <1>3. (IndexLimit - 1) + 1 = IndexLimit /\ 1 + (IndexLimit - 1) = IndexLimit
    BY <1>1
  <1>4. /\ Plus(Plus(i, IndexLimit - 1), 1) = Plus(i, IndexLimit)
        /\ Plus(Plus(i, 1), IndexLimit - 1) = Plus(i, IndexLimit)
    <2>1. Plus(Plus(i, IndexLimit - 1), 1) = Plus(i, (IndexLimit - 1) + 1)
      BY <1>1, PlusPlus
    <2>2. Plus(Plus(i, 1), IndexLimit - 1) = Plus(i, 1 + (IndexLimit - 1))
      BY <1>1, PlusPlus
    <2> QED
      BY <1>3, <2>1, <2>2
  <1> QED
    BY <1>1, <1>2, <1>4, PlusIsIndex

(* With c inside, the queue begins where c has left it ...                  *)
LEMMA QueueOfHolder ==
  ASSUME ChInv, NEW c \in Contexts, where[c] = "inside"
  PROVE  queued = Stored(buf, First(c), len)
  <1>1. \A d \in Contexts : at[d] = "count" => d = c
    BY DEF ChInv, HolderAlone
  <1>2. (\E d \in Contexts : doing[d] = "pop" /\ at[d] = "count") <=> Popped(c)
    BY <1>1 DEF Popped
  <1> QED
    BY <1>2 DEF queued, First

(* ... and with nobody inside, at tail.                                     *)
LEMMA QueueOfNobody ==
  ASSUME ChInv, \A c \in Contexts : where[c] # "inside"
  PROVE  queued = Stored(buf, tail, len)
  <1>1. ~ \E d \in Contexts : doing[d] = "pop" /\ at[d] = "count"
    BY DEF ChInv, HolderAlone
  <1> QED
    BY <1>1 DEF queued

(* What is left to show of a step inside of the lock.                       *)
LEMMA HolderSteps ==
  ASSUME ChInv, NEW c \in Contexts, where[c] = "inside",
         UNCHANGED <<where, locked, doing>>, \A d \in Contexts \ {c} : at'[d] = at[d],
         ChTypeOK', doing[c] = "push" => UNCHANGED val,
         \A d \in Contexts \ {c} : val'[d] = val[d],
         Operation(c)'
  PROVE  ChInv' /\ queued' = Stored(buf', First(c)', len')
  <1>1. HolderAlone'
    BY DEF ChInv, HolderAlone
  <1>2. Sends'
    BY DEF ChInv, Sends
  <1>3. \A d \in Contexts : where'[d] = "inside" => Operation(d)'
    <2>1. \A d \in Contexts : where'[d] = "inside" => d = c
      BY DEF ChInv, HolderAlone
    <2> QED
      BY <2>1
  <1>4. ChInv'
    BY <1>1, <1>2, <1>3 DEF ChInv
  <1>5. \A d \in Contexts : at'[d] = "count" => d = c
    BY <1>1 DEF ChInv, HolderAlone
  <1>6. (\E d \in Contexts : doing'[d] = "pop" /\ at'[d] = "count") <=> Popped(c)'
    BY <1>5 DEF Popped
  <1>7. queued' = Stored(buf', First(c)', len')
    BY <1>6 DEF queued, Stored, First, Plus, Slot
  <1> QED
    BY <1>4, <1>7

(* What holds inside of the lock.                                           *)
LEMMA HolderKnows ==
  ASSUME ChInv, NEW c \in Contexts, where[c] = "inside"
  PROVE  /\ ChTypeOK /\ Operation(c)
         /\ doing[c] = "push" \/ doing[c] = "pop"
         /\ doing[c] = "push" => val[c] \in Messages
         /\ queued = Stored(buf, First(c), len)
         /\ First(c) \in Indices /\ First(c) \in Nat
         /\ N \in Nat \ {0} /\ len \in Nat /\ IndexLimit \in Nat \ {0}
  <1>1. ChTypeOK /\ Operation(c) /\ (doing[c] = "push" => val[c] \in Messages)
    BY DEF ChInv, Sends
  <1>2. doing[c] = "push" \/ doing[c] = "pop"
    BY <1>1 DEF ChTypeOK
  <1>3. First(c) \in Indices
    BY <1>1, WholeRound DEF First, ChTypeOK
  <1>4. First(c) \in Nat
    BY <1>3, SizeAssumption DEF Indices
  <1>5. N \in Nat \ {0} /\ len \in Nat /\ IndexLimit \in Nat \ {0}
    BY <1>1, SizeAssumption DEF ChTypeOK
  <1> QED
    BY <1>1, <1>2, <1>3, <1>4, <1>5, QueueOfHolder

QueueStep == [ChannelFifo!Next]_(ChannelFifo!vars)

(* is_full and is_empty: a refusal says the truth about the queue.          *)
LEMMA CheckSteps ==
  ASSUME ChInv, NEW c \in Contexts, where[c] = "inside", UNCHANGED <<where, locked>>,
         Check(c), answer' = IF at'[c] = "out" THEN Answer(c)' ELSE answer
  PROVE  ChInv' /\ QueueStep
  <1>1. /\ ChTypeOK /\ Operation(c)
        /\ doing[c] = "push" \/ doing[c] = "pop"
        /\ doing[c] = "push" => val[c] \in Messages
        /\ queued = Stored(buf, First(c), len) /\ First(c) \in Nat
        /\ N \in Nat \ {0} /\ len \in Nat
    BY HolderKnows
  <1> DEFINE goes == IF doing[c] = "push" THEN len < N ELSE len # 0
  <1>a. /\ goes \in BOOLEAN
        /\ doing[c] = "push" => (goes <=> len < N)
        /\ doing[c] = "pop" => (goes <=> len > 0)
    <2>1. CASE doing[c] = "push"
      BY <2>1
    <2>2. CASE doing[c] = "pop"
      <3>1. len # 0 <=> len > 0
        BY <1>1
      <3> QED
        BY <2>2, <3>1
    <2> QED
      BY <1>1, <2>1, <2>2
  <1>2. /\ at[c] = "check" /\ UNCHANGED <<buf, head, tail, len, doing, val>>
        /\ ok' = [ok EXCEPT ![c] = goes] /\ seen' = [seen EXCEPT ![c] = len]
        /\ at' = [at EXCEPT ![c] = IF goes THEN "copy" ELSE "out"]
    BY DEF Check, Goto
  <1> HIDE DEF goes
  <1>3. /\ ok'[c] = goes /\ seen'[c] = len
        /\ at'[c] = (IF goes THEN "copy" ELSE "out")
    BY <1>1, <1>2 DEF ChTypeOK
  <1>4. First(c)' = First(c)
    BY <1>2, <1>3 DEF First, Popped, Plus
  <1>5. ChTypeOK'
    <2>1. ok' \in [Contexts -> BOOLEAN]
      BY <1>1, <1>a, <1>2, Zenon DEF ChTypeOK
    <2>2. /\ at' \in [Contexts -> {"out", "check", "copy", "index", "count"}]
          /\ seen' \in [Contexts -> 0 .. N]
      BY <1>1, <1>2 DEF ChTypeOK
    <2> QED
      BY <1>1, <1>2, <2>1, <2>2 DEF ChTypeOK, Indices, Buffers
  <1>6. Operation(c)'
    <2>1. at[c]' \notin {"index", "count"} /\ ~Pushed(c) /\ ~Pushed(c)'
      BY <1>2, <1>3 DEF Pushed
    <2>2. head' = Plus(First(c)', len') /\ head = Plus(First(c), len)
      BY <1>1, <1>2, <1>4, <2>1 DEF Operation, Plus
    <2>3. at[c]' = "copy" => goes
      BY <1>3
    <2>4. at[c]' = "copy" =>
            ok[c]' /\ seen[c]' = len' /\ IF doing[c]' = "push" THEN len' < N ELSE len' > 0
      BY <1>1, <1>a, <1>2, <1>3, <2>3
    <2> QED
      BY <2>1, <2>2, <2>4 DEF Operation, Plus
  <1>7. ChInv' /\ queued' = queued
    <2>1. ChInv' /\ queued' = Stored(buf', First(c)', len')
      BY <1>2, <1>5, <1>6, HolderSteps DEF ChTypeOK
    <2> QED
      BY <1>1, <1>2, <1>4, <2>1
  <1>8. QueueStep
    <2>1. CASE goes
      BY <1>3, <1>7, <2>1 DEF QueueStep, ChannelFifo!vars
    <2>2. CASE ~goes /\ doing[c] = "push"
      <3>1. answer' = Refused
        BY <1>2, <1>3, <2>2 DEF Answer
      <3>2. len = N
        BY <1>1, <1>a, <2>2 DEF ChTypeOK
      <3>3. Len(queued) = N
        BY <1>1, <3>2, StoredIsSeq DEF ChTypeOK
      <3> QED
        BY <1>1, <1>7, <2>2, <3>1, <3>3 DEF QueueStep, ChannelFifo!Next, ChannelFifo!Push
    <2>3. CASE ~goes /\ doing[c] = "pop"
      <3>1. answer' = None
        BY <1>2, <1>3, <2>3 DEF Answer
      <3>2. len = 0
        BY <1>1, <1>a, <2>3
      <3>3. queued = <<>>
        BY <1>1, <3>2, StoredIsSeq, EmptySeq DEF ChTypeOK
      <3> QED
        BY <1>7, <3>1, <3>3 DEF QueueStep, ChannelFifo!Next, ChannelFifo!Pop
    <2> QED
      BY <1>1, <2>1, <2>2, <2>3
  <1> QED
    BY <1>7, <1>8

(* The slot that a push writes is none of those of the queue.               *)
LEMMA FreeSlot ==
  ASSUME NEW b \in Buffers(Cells), NEW t \in Nat, NEW l \in 0 .. N - 1, NEW v \in Cells
  PROVE  Stored([b EXCEPT ![Slot(Plus(t, l))] = v], t, l) = Stored(b, t, l)
  <1>1. N \in Nat \ {0} /\ l \in Nat /\ Plus(t, l) \in Nat
    BY SizeAssumption, PlusIsIndex
  <1>2. ASSUME NEW i \in 1 .. l
        PROVE  [b EXCEPT ![Slot(Plus(t, l))] = v][Slot(Plus(t, i - 1))]
                 = b[Slot(Plus(t, i - 1))]
    <2>1. i - 1 \in 0 .. N - 1 /\ i - 1 \in Nat /\ i - 1 # l
      BY <1>1
    <2>2. Slot(Plus(t, i - 1)) # Slot(Plus(t, l))
      BY <2>1, SlotsDiffer
    <2>3. Slot(Plus(t, i - 1)) \in 0 .. N - 1
      BY <2>1, PlusIsIndex, SlotInRange
    <2> QED
      BY <2>2, <2>3 DEF Buffers
  <1> QED
    BY <1>2 DEF Stored

(* The assignment to the slot, or from it.                                  *)
LEMMA CopySteps ==
  ASSUME ChInv, NEW c \in Contexts, where[c] = "inside", UNCHANGED <<where, locked>>,
         Copy(c), answer' = IF at'[c] = "out" THEN Answer(c)' ELSE answer
  PROVE  ChInv' /\ QueueStep
  <1>1. /\ ChTypeOK /\ Operation(c)
        /\ doing[c] = "push" \/ doing[c] = "pop"
        /\ doing[c] = "push" => val[c] \in Messages
        /\ queued = Stored(buf, First(c), len) /\ First(c) \in Nat
        /\ N \in Nat \ {0} /\ len \in Nat
    BY HolderKnows
  <1>2. /\ at[c] = "copy" /\ UNCHANGED <<head, tail, len, doing, seen, ok>>
        /\ at' = [at EXCEPT ![c] = "index"]
        /\ doing[c] = "push" => /\ buf' = [buf EXCEPT ![Slot(head)] = val[c]]
                                /\ val' = val
        /\ doing[c] = "pop" => /\ val' = [val EXCEPT ![c] = buf[Slot(tail)]]
                               /\ buf' = buf
    BY DEF Copy, Goto
  <1>3. at'[c] = "index" /\ \A d \in Contexts \ {c} : at'[d] = at[d]
    BY <1>1, <1>2 DEF ChTypeOK
  <1>4. /\ First(c) = tail /\ First(c)' = tail
        /\ head = Plus(tail, len) /\ tail = Plus(tail, 0)
        /\ ok[c] /\ seen[c] = len /\ IF doing[c] = "push" THEN len < N ELSE len > 0
    BY <1>1, <1>2, <1>3, PlusZero DEF First, Popped, Pushed, Operation, ChTypeOK
  <1>5. answer' = answer
    BY <1>3
  <1>6. Slot(head) \in 0 .. N - 1 /\ Slot(tail) \in 0 .. N - 1
    BY <1>1, SizeAssumption, SlotInRange DEF ChTypeOK, Indices
  <1>7. CASE doing[c] = "push"
    <2>1. /\ buf' = [buf EXCEPT ![Slot(Plus(tail, len))] = val[c]] /\ val' = val
          /\ val[c] \in Cells /\ len \in 0 .. N - 1 /\ tail \in Nat
      BY <1>1, <1>2, <1>4, <1>7 DEF Cells
    <2>2. ChTypeOK'
      BY <1>1, <1>2, <1>4, <1>6, <2>1 DEF ChTypeOK, Buffers, Indices
    <2>3. buf'[Slot(Plus(tail, len))] = val[c]
      BY <1>1, <1>4, <1>6, <2>1 DEF ChTypeOK, Buffers
    <2>4. Operation(c)'
      BY <1>2, <1>3, <1>4, <1>7, <2>1, <2>3 DEF Operation, Pushed, Plus, Slot
    <2>5. ChInv' /\ queued' = Stored(buf', First(c)', len')
      BY <1>2, <1>3, <2>1, <2>2, <2>4, HolderSteps
    <2>6. Stored(buf', tail, len) = Stored(buf, tail, len)
      BY <1>1, <2>1, FreeSlot DEF ChTypeOK
    <2>7. queued' = queued
      BY <1>1, <1>2, <1>4, <2>5, <2>6
    <2> QED
      BY <1>5, <2>5, <2>7 DEF QueueStep, ChannelFifo!vars
  <1>8. CASE doing[c] = "pop"
    <2>1. val' = [val EXCEPT ![c] = buf[Slot(tail)]] /\ buf' = buf
      BY <1>2, <1>8
    <2>2. ChTypeOK'
      BY <1>1, <1>2, <1>6, <2>1 DEF ChTypeOK, Buffers, Indices
    <2>3. val'[c] = buf[Slot(Plus(tail, 0))]
      BY <1>1, <1>4, <2>1 DEF ChTypeOK
    <2>4. Operation(c)'
      BY <1>2, <1>3, <1>4, <1>8, <2>1, <2>3 DEF Operation, Pushed, Plus, Slot
    <2>5. ChInv' /\ queued' = Stored(buf', First(c)', len')
      BY <1>1, <1>2, <1>3, <1>8, <2>1, <2>2, <2>4, HolderSteps DEF ChTypeOK
    <2>6. queued' = queued
      BY <1>1, <1>2, <1>4, <2>1, <2>5
    <2> QED
      BY <1>5, <2>5, <2>6 DEF QueueStep, ChannelFifo!vars
  <1> QED
    BY <1>1, <1>7, <1>8

(* The index moves before len does: the queue does not change yet.          *)
LEMMA AdvanceSteps ==
  ASSUME ChInv, NEW c \in Contexts, where[c] = "inside", UNCHANGED <<where, locked>>,
         Advance(c), answer' = IF at'[c] = "out" THEN Answer(c)' ELSE answer
  PROVE  ChInv' /\ QueueStep
  <1>1. /\ ChTypeOK /\ Operation(c)
        /\ doing[c] = "push" \/ doing[c] = "pop"
        /\ queued = Stored(buf, First(c), len) /\ First(c) \in Nat
        /\ N \in Nat \ {0} /\ len \in Nat
    BY HolderKnows
  <1>2. /\ at[c] = "index" /\ UNCHANGED <<buf, len, doing, val, seen, ok>>
        /\ at' = [at EXCEPT ![c] = "count"]
        /\ doing[c] = "push" => head' = Plus(head, 1) /\ tail' = tail
        /\ doing[c] = "pop" => tail' = Plus(tail, 1) /\ head' = head
    BY DEF Advance, Goto
  <1>3. at'[c] = "count" /\ \A d \in Contexts \ {c} : at'[d] = at[d]
    BY <1>1, <1>2 DEF ChTypeOK
  <1>4. First(c) = tail /\ head = Plus(tail, len) /\ tail \in Indices /\ head \in Indices
    BY <1>1, <1>2 DEF First, Popped, Pushed, Operation, ChTypeOK
  <1>5. First(c)' = First(c)
    <2>1. CASE doing[c] = "push"
      BY <1>2, <1>3, <1>4, <2>1 DEF First, Popped
    <2>2. CASE doing[c] = "pop"
      <3>1. Popped(c)' /\ tail' = Plus(tail, 1)
        BY <1>2, <1>3, <2>2 DEF Popped
      <3>2. First(c)' = Plus(Plus(tail, 1), IndexLimit - 1)
        BY <3>1 DEF First, Plus
      <3> QED
        BY <1>4, <3>2, WholeRound
    <2> QED
      BY <1>1, <2>1, <2>2
  <1>6. head' = Plus(First(c)', IF Pushed(c)' THEN len' + 1 ELSE len')
    <2>1. CASE doing[c] = "push"
      <3>1. Pushed(c)' /\ head' = Plus(Plus(tail, len), 1)
        BY <1>2, <1>3, <1>4, <2>1 DEF Pushed
      <3>2. Plus(Plus(tail, len), 1) = Plus(tail, len + 1)
        BY <1>1, <1>4, PlusPlus
      <3> QED
        BY <1>2, <1>4, <1>5, <3>1, <3>2
    <2>2. CASE doing[c] = "pop"
      <3>1. ~Pushed(c)' /\ head' = head
        BY <1>2, <2>2 DEF Pushed
      <3> QED
        BY <1>2, <1>4, <1>5, <3>1
    <2> QED
      BY <1>1, <2>1, <2>2
  <1>7. ChTypeOK'
    <2>1. head \in Nat /\ tail \in Nat
      BY <1>4, SizeAssumption DEF Indices
    <2>2. Plus(head, 1) \in Indices /\ Plus(tail, 1) \in Indices
      BY <2>1, PlusIsIndex
    <2>3. head' \in Indices /\ tail' \in Indices
      BY <1>1, <1>2, <1>4, <2>2
    <2> QED
      BY <1>1, <1>2, <2>3 DEF ChTypeOK, Indices, Buffers
  <1>8. Operation(c)'
    <2>1. val'[c] = buf'[Slot(Plus(First(c)', IF doing'[c] = "push" THEN len' ELSE 0))]
      BY <1>1, <1>2, <1>5 DEF Operation
    <2>2. ok'[c] /\ seen'[c] = len' /\ IF doing'[c] = "push" THEN len' < N ELSE len' > 0
      BY <1>1, <1>2 DEF Operation
    <2> QED
      BY <1>6, <2>1, <2>2 DEF Operation, Slot, Plus
  <1>9. ChInv' /\ queued' = Stored(buf', First(c)', len')
    BY <1>2, <1>3, <1>7, <1>8, HolderSteps
  <1>10. queued' = queued /\ answer' = answer
    BY <1>1, <1>2, <1>3, <1>5, <1>9
  <1> QED
    BY <1>9, <1>10 DEF QueueStep, ChannelFifo!vars

(* The update of len is the moment of the operation.                        *)
LEMMA CountSteps ==
  ASSUME ChInv, NEW c \in Contexts, where[c] = "inside", UNCHANGED <<where, locked>>,
         Count(c), answer' = IF at'[c] = "out" THEN Answer(c)' ELSE answer
  PROVE  ChInv' /\ QueueStep
  <1>1. /\ ChTypeOK /\ Operation(c)
        /\ doing[c] = "push" \/ doing[c] = "pop"
        /\ doing[c] = "push" => val[c] \in Messages
        /\ queued = Stored(buf, First(c), len)
        /\ First(c) \in Indices /\ First(c) \in Nat
        /\ N \in Nat \ {0} /\ len \in Nat
    BY HolderKnows
  <1>2. /\ at[c] = "count" /\ UNCHANGED <<buf, head, tail, doing, val, seen, ok>>
        /\ at' = [at EXCEPT ![c] = "out"]
        /\ seen[c] = len /\ ok[c]
        /\ doing[c] = "push" => len' = len + 1
        /\ doing[c] = "pop" => len' = len - 1
    BY <1>1 DEF Count, Goto, Operation
  <1>3. at'[c] = "out" /\ \A d \in Contexts \ {c} : at'[d] = at[d]
    BY <1>1, <1>2 DEF ChTypeOK
  <1>4. First(c)' = tail /\ ~Pushed(c)'
    BY <1>2, <1>3 DEF First, Popped, Pushed
  <1>5. answer' = Answer(c)'
    BY <1>3
  <1>6. ASSUME len' \in 0 .. N, head' = Plus(tail, len')
        PROVE  ChInv' /\ queued' = Stored(buf, tail, len')
    <2>1. ChTypeOK'
      BY <1>1, <1>2, <1>6 DEF ChTypeOK, Indices, Buffers
    <2>2. Operation(c)'
      BY <1>3, <1>4, <1>6 DEF Operation, Plus
    <2> QED
      BY <1>2, <1>3, <1>4, <2>1, <2>2, HolderSteps
  <1>7. CASE doing[c] = "push"
    <2>1. /\ First(c) = tail /\ head = Plus(tail, len + 1) /\ len < N
          /\ val[c] = buf[Slot(Plus(tail, len))]
      BY <1>1, <1>2, <1>7 DEF First, Popped, Pushed, Operation
    <2>2. len' \in 0 .. N /\ head' = Plus(tail, len')
      BY <1>1, <1>2, <1>7, <2>1
    <2>3. ChInv' /\ queued' = Stored(buf, tail, len + 1)
      BY <1>2, <1>6, <1>7, <2>2
    <2>4. Slot(Plus(tail, len)) \in 0 .. N - 1
      BY <1>1, <2>1, PlusIsIndex, SlotInRange
    <2>5. [buf EXCEPT ![Slot(Plus(tail, len))] = val[c]] = buf
      BY <1>1, <2>1, <2>4 DEF ChTypeOK, Buffers
    <2>6. Stored(buf, tail, len + 1) = Append(Stored(buf, tail, len), val[c])
      <3>1. buf \in Buffers(Cells) /\ val[c] \in Cells /\ tail \in Nat /\ len \in 0 .. N - 1
        BY <1>1, <2>1 DEF ChTypeOK
      <3>2. Stored([buf EXCEPT ![Slot(Plus(tail, len))] = val[c]], tail, len + 1)
              = Append(Stored(buf, tail, len), val[c])
        BY <3>1, WriteAppends
      <3> QED
        BY <2>5, <3>2
    <2>7. queued' = Append(queued, val[c])
      BY <1>1, <2>1, <2>3, <2>6
    <2>8. Len(queued) < N
      BY <1>1, <2>1, StoredIsSeq DEF ChTypeOK
    <2>9. answer' = Accepted
      BY <1>2, <1>5, <1>7 DEF Answer
    <2> QED
      BY <1>1, <1>7, <2>3, <2>7, <2>8, <2>9 DEF QueueStep, ChannelFifo!Next, ChannelFifo!Push
  <1>8. CASE doing[c] = "pop"
    <2>1. /\ First(c) = Plus(tail, IndexLimit - 1) /\ head = Plus(First(c), len) /\ len > 0
          /\ val[c] = buf[Slot(Plus(First(c), 0))]
      BY <1>1, <1>2, <1>8 DEF First, Popped, Pushed, Operation
    <2>2. Plus(First(c), 1) = tail /\ Plus(First(c), 0) = First(c)
      BY <1>1, <2>1, WholeRound, PlusZero DEF ChTypeOK
    <2>3. len - 1 \in Nat /\ 1 + (len - 1) = len /\ len - 1 \in 0 .. N
      BY <1>1, <2>1 DEF ChTypeOK
    <2>4. head = Plus(tail, len - 1)
      BY <1>1, <2>1, <2>2, <2>3, PlusPlus
    <2>5. ChInv' /\ queued' = Stored(buf, tail, len - 1)
      BY <1>2, <1>6, <1>8, <2>3, <2>4
    <2>6. /\ queued # <<>>
          /\ Head(queued) = val[c]
          /\ Tail(queued) = queued'
      <3>1. buf \in Buffers(Cells)
        BY <1>1 DEF ChTypeOK
      <3>2. /\ queued # <<>>
            /\ Head(queued) = buf[Slot(First(c))]
            /\ Tail(queued) = Stored(buf, Plus(First(c), 1), len - 1)
        BY <1>1, <2>1, <3>1, AdvanceDrops
      <3> QED
        BY <2>1, <2>2, <2>5, <3>2
    <2>7. answer' = val[c]
      BY <1>2, <1>5, <1>8 DEF Answer
    <2> QED
      BY <2>5, <2>6, <2>7 DEF QueueStep, ChannelFifo!Next, ChannelFifo!Pop
  <1> QED
    BY <1>1, <1>7, <1>8

(* Outside of the lock nothing of the ring buffer changes.                  *)
LEMMA CallSteps ==
  ASSUME ChInv, NEW c \in Contexts, NEW o \in {"push", "pop"}, NEW v \in Cells,
         o = "push" => v \in Messages, Call(c, o, v)
  PROVE  ChInv' /\ QueueStep
  <1>1. /\ where[c] = "idle" /\ where' = [where EXCEPT ![c] = "acquire"]
        /\ doing' = [doing EXCEPT ![c] = o] /\ val' = [val EXCEPT ![c] = v]
        /\ UNCHANGED <<buf, head, tail, len, at, seen, ok, locked, answer>>
    BY DEF Call
  <1>2. ChTypeOK /\ at[c] = "out"
    BY <1>1 DEF ChInv, HolderAlone
  <1>3. \A d \in Contexts : where'[d] = "inside" <=> where[d] = "inside"
    BY <1>1, <1>2 DEF ChTypeOK
  <1>4. ChTypeOK' /\ HolderAlone'
    BY <1>1, <1>2, <1>3 DEF ChInv, ChTypeOK, HolderAlone, Indices, Buffers
  <1>5. Sends'
    BY <1>1, <1>2 DEF ChInv, Sends, ChTypeOK
  <1>6. \A d \in Contexts \ {c} : doing'[d] = doing[d] /\ val'[d] = val[d]
    BY <1>1, <1>2 DEF ChTypeOK
  <1>7. ASSUME NEW d \in Contexts, where'[d] = "inside" PROVE Operation(d)'
    <2>1. d # c /\ Operation(d)
      BY <1>1, <1>3, <1>7 DEF ChInv
    <2> QED
      BY <1>1, <1>6, <2>1 DEF Operation, First, Pushed, Popped, Plus, Slot
  <1>8. ChInv'
    BY <1>1, <1>3, <1>4, <1>5, <1>7 DEF ChInv, Plus
  <1>9. \A d \in Contexts : doing'[d] = "pop" /\ at'[d] = "count"
                              <=> doing[d] = "pop" /\ at[d] = "count"
    BY <1>1, <1>2, <1>6
  <1>10. queued' = queued
    BY <1>1, <1>9 DEF queued, Stored, Plus, Slot
  <1> QED
    BY <1>1, <1>8, <1>10 DEF QueueStep, ChannelFifo!vars

(* The lock is free only when nobody is inside.                             *)
LEMMA AcquireSteps ==
  ASSUME ChInv, NEW c \in Contexts, Acquire(c)
  PROVE  ChInv' /\ QueueStep
  <1>1. /\ where[c] = "acquire" /\ locked = 0 /\ at[c] = "out"
        /\ locked' = 1 /\ where' = [where EXCEPT ![c] = "inside"]
        /\ at' = [at EXCEPT ![c] = "check"]
        /\ UNCHANGED <<buf, head, tail, len, seen, ok, answer>>
        /\ doing' = [doing EXCEPT ![c] = doing[c]] /\ val' = [val EXCEPT ![c] = val[c]]
    BY DEF Acquire, Enter, Goto
  <1>2. ChTypeOK /\ doing' = doing /\ val' = val
    BY <1>1 DEF ChInv, ChTypeOK
  <1>3. \A d \in Contexts : where[d] # "inside" /\ at[d] = "out"
    BY <1>1 DEF ChInv, HolderAlone
  <1>4. /\ where'[c] = "inside" /\ at'[c] = "check"
        /\ \A d \in Contexts \ {c} : where'[d] # "inside" /\ at'[d] = "out"
    BY <1>1, <1>2, <1>3 DEF ChTypeOK
  <1>5. ChTypeOK'
    BY <1>1, <1>2 DEF ChTypeOK, Indices, Buffers
  <1>6. HolderAlone'
    BY <1>1, <1>4 DEF HolderAlone
  <1>7. Sends'
    BY <1>1, <1>2 DEF ChInv, Sends, ChTypeOK
  <1>8. Operation(c)'
    <2>1. head = Plus(tail, len)
      BY <1>3 DEF ChInv
    <2> QED
      BY <1>1, <1>4, <2>1 DEF Operation, First, Pushed, Popped, Plus
  <1>9. ChInv'
    BY <1>4, <1>5, <1>6, <1>7, <1>8 DEF ChInv
  <1>10. queued' = queued
    <2>1. ~(\E d \in Contexts : doing[d] = "pop" /\ at[d] = "count")
      BY <1>3
    <2>2. ~(\E d \in Contexts : doing'[d] = "pop" /\ at'[d] = "count")
      BY <1>4
    <2> QED
      BY <1>1, <2>1, <2>2 DEF queued, Stored, Plus, Slot
  <1> QED
    BY <1>1, <1>9, <1>10 DEF QueueStep, ChannelFifo!vars

LEMMA ReleaseSteps ==
  ASSUME ChInv, NEW c \in Contexts, Release(c)
  PROVE  ChInv' /\ QueueStep
  <1>1. /\ where[c] = "inside" /\ at[c] = "out"
        /\ locked' = 0 /\ where' = [where EXCEPT ![c] = "idle"]
        /\ val' = [val EXCEPT ![c] = Zero] /\ seen' = [seen EXCEPT ![c] = 0]
        /\ ok' = [ok EXCEPT ![c] = FALSE]
        /\ UNCHANGED <<buf, head, tail, len, at, doing, answer>>
    BY DEF Release, Forget
  <1>2. ChTypeOK /\ Operation(c)
    BY <1>1 DEF ChInv
  <1>3. \A d \in Contexts : where'[d] # "inside" /\ at[d] = "out"
    BY <1>1, <1>2 DEF ChInv, HolderAlone, ChTypeOK
  <1>4. ChTypeOK'
    <2>1. ok' \in [Contexts -> BOOLEAN]
      BY <1>1, <1>2, Zenon DEF ChTypeOK
    <2>2. 0 \in 0 .. N /\ Zero \in Cells
      BY SizeAssumption DEF Cells
    <2> QED
      BY <1>1, <1>2, <2>1, <2>2 DEF ChTypeOK, Indices, Buffers
  <1>5. HolderAlone'
    BY <1>1, <1>3 DEF HolderAlone
  <1>6. Sends'
    BY <1>1, <1>2 DEF ChInv, Sends, ChTypeOK
  <1>7. head = Plus(tail, len)
    BY <1>1, <1>2 DEF Operation, First, Pushed, Popped
  <1>8. ChInv'
    BY <1>1, <1>3, <1>4, <1>5, <1>6, <1>7 DEF ChInv, Plus
  <1>9. queued' = queued
    BY <1>1 DEF queued, Stored, Plus, Slot
  <1> QED
    BY <1>1, <1>8, <1>9 DEF QueueStep, ChannelFifo!vars

LEMMA ChannelStarts ==
  ASSUME ChannelInit
  PROVE  ChInv /\ ChannelFifo!Init
  <1>1. /\ buf = [s \in 0 .. N - 1 |-> Zero] /\ head = 0 /\ tail = 0 /\ len = 0
        /\ at = [c \in Contexts |-> "out"] /\ doing = [c \in Contexts |-> "push"]
        /\ val = [c \in Contexts |-> Zero] /\ seen = [c \in Contexts |-> 0]
        /\ ok = [c \in Contexts |-> FALSE] /\ where = [c \in Contexts |-> "idle"]
        /\ answer = None
    BY DEF ChannelInit, RingInit, NewRing
  <1>2. 0 \in Indices /\ 0 \in 0 .. N
    BY SizeAssumption DEF Indices
  <1>3. ChTypeOK
    BY <1>1, <1>2 DEF ChTypeOK, Buffers, Cells
  <1>4. HolderAlone /\ Sends
    BY <1>1 DEF HolderAlone, Sends
  <1>5. head = Plus(tail, len)
    BY <1>1, <1>2, PlusZero
  <1>6. ChInv
    BY <1>1, <1>3, <1>4, <1>5 DEF ChInv
  <1>7. queued = Stored(buf, tail, len)
    BY <1>1, <1>6, QueueOfNobody
  <1>8. queued = <<>>
    BY <1>1, <1>3, <1>7, StoredIsSeq, EmptySeq DEF ChTypeOK
  <1> QED
    BY <1>1, <1>6, <1>8 DEF ChannelFifo!Init

LEMMA ChannelSteps ==
  ASSUME ChInv, [ChannelNext]_(channelVars)
  PROVE  ChInv' /\ QueueStep
  <1>1. CASE UNCHANGED channelVars
    <2>1. UNCHANGED <<buf, head, tail, len, at, doing, val, seen, ok, locked, where, answer>>
      BY <1>1 DEF channelVars, ringVars
    <2>2. ChInv'
      BY <2>1 DEF ChInv, ChTypeOK, HolderAlone, Sends, Operation, First, Pushed, Popped,
                  Plus, Slot, Indices, Buffers
    <2>3. queued' = queued
      BY <2>1 DEF queued, Stored, Plus, Slot
    <2> QED
      BY <2>1, <2>2, <2>3 DEF QueueStep, ChannelFifo!vars
  <1>2. CASE ChannelNext
    <2>1. PICK c \in Contexts :
            \/ \E v \in Messages : Call(c, "push", v)
            \/ Call(c, "pop", Zero)
            \/ Run(c)
      BY <1>2 DEF ChannelNext
    <2>2. CASE \E v \in Messages : Call(c, "push", v)
      BY <2>2, CallSteps DEF Cells
    <2>3. CASE Call(c, "pop", Zero)
      BY <2>3, CallSteps DEF Cells
    <2>4. CASE Acquire(c)
      BY <2>4, AcquireSteps
    <2>5. CASE Inside(c)
      BY <2>5, CheckSteps, CopySteps, AdvanceSteps, CountSteps DEF Inside, RingStep
    <2>6. CASE Release(c)
      BY <2>6, ReleaseSteps
    <2> QED
      BY <2>1, <2>2, <2>3, <2>4, <2>5, <2>6 DEF Run
  <1> QED
    BY <1>1, <1>2

(* In every state of a channel the lock has one holder at most, and what it *)
(* has tested and copied is still so.                                       *)
THEOREM ChannelInvariant == ChannelSpec => []ChInv
  <1>1. ChannelInit => ChInv
    BY ChannelStarts
  <1>2. ChInv /\ [ChannelNext]_(channelVars) => ChInv'
    BY ChannelSteps
  <1> QED
    BY <1>1, <1>2, PTL DEF ChannelSpec

(* A channel is one bounded FIFO queue for any number of contexts, any      *)
(* number of slots, and whether or not the updates of len are split.        *)
THEOREM ChannelImplementsFifo == ChannelSpec => ChannelIsFifo
  <1>1. ChannelInit => ChannelFifo!Init
    BY ChannelStarts
  <1>2. ChInv /\ [ChannelNext]_(channelVars) => [ChannelFifo!Next]_(ChannelFifo!vars)
    BY ChannelSteps DEF QueueStep
  <1> QED
    BY <1>1, <1>2, ChannelInvariant, PTL DEF ChannelSpec, ChannelIsFifo, ChannelFifo!Spec

-----------------------------------------------------------------------------
(* The keyboard driver: what the handler may do to the buffer between any   *)
(* two accesses of the thread.                                              *)

ThreadPlaces == {"idle", "peek", "look", "pop", "copy", "index", "count", "sleep", "hlt"}

KbTypeOK ==
  /\ TypeOK
  /\ latch \in ScanCodes \cup {None}
  /\ down \subseteq Keys
  /\ held \in [{"shift", "ctrl", "alt"} -> BOOLEAN]
  /\ pc \in ThreadPlaces
  /\ call \in {"poll", "getchar"}
  /\ ev \in Values \cup {Zero} /\ taken \in Values \cup {Zero}
  /\ loaded \in 0 .. N
  /\ missed \in Nat /\ overrun \in BOOLEAN

(* A press that has not been handled is of a key that is down, and a        *)
(* modifier that is held has a key that is down or whose release has not    *)
(* been handled.                                                            *)
ModifierInv ==
  /\ latch # None /\ latch.press => latch.key \in down
  /\ \A m \in DOMAIN held : held[m] =>
       \E k \in ModKeys : /\ ModifierOf[k] = m
                          /\ k \in down \/ latch = [key |-> k, press |-> FALSE]

(* Only the thread takes from len, so that what it has tested stays true; an*)
(* update of len loses increments, but no more than the handler has made.   *)
CountInv ==
  /\ head = Plus(first, len + missed)
  /\ pc = "look" => len > 0
  /\ pc = "pop" /\ call = "getchar" => len > 0
  /\ pc \in {"copy", "index", "count"} => 0 < loaded /\ loaded <= len

(* While no more events are outstanding than there are slots, the handler   *)
(* does not write the slot the thread is at.                                *)
OldestInv ==
  ~ overrun =>
    /\ len + missed <= N
    /\ pc \in {"index", "count"} => taken = buf[Slot(first)]
    /\ call = "getchar" /\ pc \in {"pop", "copy", "index", "count"} => ev = buf[Slot(first)]

KbInv == KbTypeOK /\ ModifierInv /\ CountInv /\ OldestInv

LEMMA ModifierNames ==
  ASSUME NEW k \in ModKeys
  PROVE  ModifierOf[k] \in {"shift", "ctrl", "alt"}
<1>1. k \in {"lshift", "rshift", "ctrl", "alt"}
  BY KeyboardAssumption DEF ModifierOf
<1>2. QED BY <1>1 DEF ModifierOf

LEMMA ReleaseIsScanCode ==
  ASSUME NEW k \in ModKeys
  PROVE  [key |-> k, press |-> FALSE] # None
<1>1. [key |-> k, press |-> FALSE] \in ScanCodes BY DEF ScanCodes, Keys
<1>2. QED BY <1>1, KeyboardAssumption

(* What the handler queues is an event.                                     *)
LEMMA EventOfType ==
  ASSUME KbTypeOK, latch # None, latch.key \notin ModKeys
  PROVE  EventOf(latch) \in Values
<1>1. latch \in [key : Keys, press : BOOLEAN] BY DEF KbTypeOK, ScanCodes
<1>2. latch.key \in Letters \cup Silent /\ latch.press \in BOOLEAN BY <1>1 DEF Keys
<1>3. (held["shift"] /\ latch.key \in Letters) \in BOOLEAN OBVIOUS
<1>4. QED BY <1>2, <1>3, KeyboardAssumption DEF EventOf, KeyEvents

(* An operation that leaves the buffer and the place in pop alone.          *)
LEMMA FirstStays ==
  ASSUME UNCHANGED <<buf, tail, len, missed>>, pc = "count" <=> pc' = "count"
  PROVE  /\ first' = first /\ outstanding' = outstanding
         /\ Slot(first)' = Slot(first)
<1>1. first' = first BY DEF first, Plus
<1>2. QED BY <1>1 DEF outstanding, Stored, Slot, Plus

LEMMA FirstIsIndex ==
  ASSUME KbTypeOK
  PROVE  first \in Indices /\ first \in Nat
<1>1. tail \in Indices BY DEF KbTypeOK, TypeOK
<1>2. Plus(tail, IndexLimit - 1) \in Indices BY <1>1, WholeRound
<1>3. QED BY <1>1, <1>2, SizeAssumption DEF first, Indices

LEMMA KbStarts ==
  ASSUME KbInit
  PROVE  KbInv
<1>1. TypeOK /\ head = Plus(tail, len) BY RingStarts DEF KbInit, RingInv, CountersAgree
<1>2. len = 0 /\ pc = "idle" /\ missed = 0 BY DEF KbInit, Init, NewRing
<1>3. KbTypeOK
  <2>1. held \in [{"shift", "ctrl", "alt"} -> BOOLEAN] BY DEF KbInit
  <2>2. loaded \in 0 .. N BY SizeAssumption DEF KbInit
  <2>3. QED BY <1>1, <2>1, <2>2 DEF KbInit, KbTypeOK, ThreadPlaces
<1>4. CountInv BY <1>1, <1>2 DEF CountInv, first
<1>5. OldestInv BY <1>2, SizeAssumption DEF OldestInv
<1>6. ModifierInv BY DEF KbInit, ModifierInv
<1>7. QED BY <1>3, <1>4, <1>5, <1>6 DEF KbInv

(* What the handler does when it stores an event.                           *)
LEMMA StoreKeepsInv ==
  ASSUME KbInv, QueueEvent, NEW e \in Values, Push(e),
         overrun' = (overrun \/ len + missed >= N)
  PROVE  /\ TypeOK' /\ CountInv' /\ OldestInv' /\ overrun' \in BOOLEAN
         /\ first' = first /\ (pc = "count" <=> pc' = "count")
         /\ ~ overrun' => len + missed \in 0 .. N - 1
<1>0. /\ N \in Nat \ {0} /\ len \in Nat /\ missed \in Nat /\ head \in Indices
      /\ tail \in Indices
      /\ len < N /\ len + missed \in Nat /\ TypeOK /\ overrun \in BOOLEAN
      /\ buf \in [0 .. N - 1 -> Values \cup {Zero}]
  BY SizeAssumption DEF KbInv, KbTypeOK, TypeOK, Push, IsFull
<1>1. /\ head' = Plus(head, 1) /\ len' = len + 1 /\ tail' = tail
      /\ buf' = [buf EXCEPT ![Slot(head)] = e] /\ result' = Accepted
  BY DEF Push
<1>2. /\ pc' = Woken /\ UNCHANGED <<call, ev, loaded, taken, missed>>
  BY DEF QueueEvent
<1>3. first' = first /\ (pc = "count" <=> pc' = "count") BY <1>1, <1>2 DEF first, Plus, Woken
<1>4. first \in Nat /\ first \in Indices /\ head \in Nat
  BY <1>0, FirstIsIndex, SizeAssumption DEF KbInv, Indices
<1>5. head = Plus(first, len + missed) BY DEF KbInv, CountInv
<1>6. TypeOK'
  <2>1. Plus(head, 1) \in Indices /\ Slot(head) \in 0 .. N - 1
    BY <1>4, PlusIsIndex, SlotInRange
  <2>2. QED BY <1>0, <1>1, <2>1 DEF TypeOK
<1>7. head' = Plus(first, len' + missed')
  <2>1. PICK l \in Nat : l = len + missed BY <1>0
  <2>2. Plus(Plus(first, l), 1) = Plus(first, l + 1) BY <1>4, PlusPlus
  <2>3. len' + missed' = l + 1 BY <1>0, <1>1, <1>2, <2>1
  <2>4. QED BY <1>1, <1>5, <2>1, <2>2, <2>3
<1>8. CountInv'
  <2>1. head' = Plus(first', len' + missed') BY <1>3, <1>7
  <2>2. (head = Plus(first, len + missed))' BY <2>1 DEF Plus
  <2>3. pc' # "peek" => pc' = pc BY <1>2 DEF Woken
  <2>4. (pc = "look" => len > 0)' /\ (pc = "pop" /\ call = "getchar" => len > 0)'
    BY <1>0, <1>1
  <2>5. (pc \in {"copy", "index", "count"} => 0 < loaded /\ loaded <= len)'
    <3>1. SUFFICES ASSUME pc' \in {"copy", "index", "count"}
                   PROVE  (0 < loaded /\ loaded <= len)'
      OBVIOUS
    <3>2. loaded \in Nat /\ 0 < loaded /\ loaded <= len
      BY <2>3, <3>1 DEF KbInv, CountInv, KbTypeOK
    <3>3. QED BY <1>0, <1>1, <1>2, <3>2
  <2>6. QED BY <2>2, <2>4, <2>5 DEF CountInv
<1>9. ~ overrun' => len + missed \in 0 .. N - 1
  <2>1. PICK l \in Nat : l = len + missed BY <1>0
  <2>2. l >= N => overrun' BY <2>1
  <2>3. ~ (l >= N) => l \in 0 .. N - 1 BY <1>0
  <2>4. QED BY <2>1, <2>2, <2>3
<1>10. OldestInv'
  <2> DEFINE AtPop == pc \in {"index", "count"} => taken = buf[Slot(first)]
             AtGet == call = "getchar" /\ pc \in {"pop", "copy", "index", "count"}
                        => ev = buf[Slot(first)]
  <2>1. SUFFICES ASSUME ~ overrun' PROVE (len + missed <= N)' /\ AtPop' /\ AtGet'
    BY DEF OldestInv
  <2>2. PICK l \in 0 .. N - 1 : l = len + missed BY <1>9, <2>1
  <2>3. (len + missed <= N)' BY <1>0, <1>1, <1>2, <2>2
  <2>4. 0 < l => buf'[Slot(first)] = buf[Slot(first)]
    <3>1. SUFFICES ASSUME 0 < l PROVE buf'[Slot(first)] = buf[Slot(first)] OBVIOUS
    <3>2. Slot(Plus(first, 0)) # Slot(Plus(first, l))
      BY <1>0, <1>4, <3>1, SlotsDiffer
    <3>3. Plus(first, 0) = first BY <1>4, PlusZero
    <3>4. Slot(first) \in 0 .. N - 1 BY <1>4, SlotInRange
    <3>5. QED BY <1>0, <1>1, <1>5, <2>2, <3>2, <3>3, <3>4
  <2>5. Slot(first)' = Slot(first) BY <1>3 DEF Slot
  <2>6. len > 0 => l > 0 BY <1>0, <2>2
  <2>7. pc' \in {"pop", "copy", "index", "count"} => pc' = pc BY <1>2 DEF Woken
  <2>8. pc \in {"index", "count"} => len > 0 BY <1>0 DEF KbInv, CountInv, KbTypeOK
  <2>9. call = "getchar" /\ pc \in {"pop", "copy", "index", "count"} => len > 0
    BY <1>0 DEF KbInv, CountInv, KbTypeOK
  <2>10. ~ overrun BY <2>1, <1>0
  <2>11. AtPop /\ AtGet
    BY <2>10 DEF KbInv, OldestInv
  <2>12. AtPop'
    BY <1>2, <2>4, <2>5, <2>6, <2>7, <2>8, <2>11
  <2>13. AtGet'
    BY <1>2, <2>4, <2>5, <2>6, <2>7, <2>9, <2>11
  <2>14. QED BY <2>3, <2>12, <2>13
<1>11. overrun' \in BOOLEAN BY <1>0
<1>12. QED BY <1>3, <1>6, <1>8, <1>9, <1>10, <1>11

(* The update of len at the end of pop: whatever it starts from, the event  *)
(* that is taken is the oldest one.                                         *)
LEMMA CountKeepsInv ==
  ASSUME KbInv, PopCount
  PROVE  /\ TypeOK' /\ CountInv' /\ OldestInv' /\ missed' \in Nat
         /\ len' + missed' = (len + missed) - 1 /\ len + missed > 0
         /\ first' = tail /\ Plus(first, 1) = tail
<1>0. /\ N \in Nat \ {0} /\ len \in 0 .. N /\ missed \in Nat /\ TypeOK
      /\ loaded \in Nat /\ 0 < loaded /\ loaded <= len /\ tail \in Indices /\ pc = "count"
  BY SizeAssumption DEF KbInv, KbTypeOK, TypeOK, CountInv, PopCount
<1>1. PICK old \in loaded .. len : len' = old - 1 /\ missed' = missed + (len - old)
  BY DEF PopCount
<1>2. /\ UNCHANGED <<buf, head, tail, result, call, ev, loaded, taken, overrun>>
      /\ pc' \in {"idle", "peek"}
  BY DEF PopCount, Return
<1>3. /\ len' \in 0 .. N /\ missed' \in Nat /\ len' + missed' = (len + missed) - 1
      /\ len + missed > 0 /\ len + missed \in Nat
  BY <1>0, <1>1
<1>4. TypeOK' BY <1>0, <1>2, <1>3 DEF TypeOK
<1>5. first = Plus(tail, IndexLimit - 1) /\ first' = tail BY <1>0, <1>2 DEF first
<1>6. Plus(first, 1) = tail BY <1>0, <1>5, WholeRound
<1>7. head' = Plus(tail, len' + missed')
  <2>1. PICK l \in Nat : l = (len + missed) - 1 BY <1>3
  <2>2. first \in Nat BY FirstIsIndex DEF KbInv
  <2>3. Plus(Plus(first, 1), l) = Plus(first, 1 + l) BY <2>1, <2>2, PlusPlus
  <2>4. head = Plus(first, len + missed) BY DEF KbInv, CountInv
  <2>5. 1 + l = len + missed BY <1>3, <2>1
  <2>6. QED BY <1>2, <1>3, <1>6, <2>1, <2>3, <2>4, <2>5
<1>8. CountInv'
  <2>1. (head = Plus(first, len + missed))' BY <1>5, <1>7 DEF Plus
  <2>2. QED BY <1>2, <2>1 DEF CountInv
<1>9. OldestInv'
  <2>1. PICK l \in Nat : l = len + missed BY <1>3
  <2>2. ~ overrun' => l <= N BY <1>2, <2>1 DEF KbInv, OldestInv
  <2>3. l <= N => l - 1 <= N BY <1>0
  <2>4. (~ overrun => len + missed <= N)' BY <1>3, <2>1, <2>2, <2>3
  <2>5. pc' \notin {"pop", "copy", "index", "count"} BY <1>2
  <2>6. QED BY <2>4, <2>5 DEF OldestInv
<1>10. QED BY <1>3, <1>4, <1>5, <1>6, <1>8, <1>9

(* Every other step of the thread, the keyboard, and the timer.             *)
LEMMA QuietKeepsInv ==
  ASSUME KbInv, KbNext, ~ QueueEvent, ~ PopCount
  PROVE  TypeOK' /\ CountInv' /\ OldestInv' /\ first' = first /\ outstanding' = outstanding
<1>0. /\ N \in Nat \ {0} /\ len \in 0 .. N /\ missed \in Nat /\ TypeOK
      /\ tail \in Indices /\ buf \in [0 .. N - 1 -> Values \cup {Zero}]
  BY SizeAssumption DEF KbInv, KbTypeOK, TypeOK
<1>1. CASE PopAdvance
  <2>1. /\ tail' = Plus(tail, 1) /\ pc = "index" /\ pc' = "count"
        /\ UNCHANGED <<buf, head, len, result, call, ev, loaded, taken, missed, overrun>>
    BY <1>1 DEF PopAdvance, history
  <2>2. tail' \in Indices /\ tail \in Nat
    BY <1>0, <2>1, PlusIsIndex, SizeAssumption DEF Indices
  <2>3. Plus(Plus(tail, 1), IndexLimit - 1) = tail BY <1>0, WholeRound
  <2>4. first' = first BY <2>1, <2>3 DEF first, Plus
  <2>5. Slot(first)' = Slot(first) BY <2>4 DEF Slot
  <2>6. outstanding' = outstanding BY <2>1, <2>4 DEF outstanding, Stored, Plus, Slot
  <2>7. TypeOK' BY <1>0, <2>1, <2>2 DEF TypeOK
  <2>8. Plus(first, len + missed)' = Plus(first, len + missed)
    BY <2>1, <2>4 DEF Plus
  <2>9. CountInv' BY <2>1, <2>8 DEF KbInv, CountInv
  <2>10. OldestInv' BY <2>1, <2>5 DEF KbInv, OldestInv
  <2>11. QED BY <2>4, <2>6, <2>7, <2>9, <2>10
<1>2. CASE UNCHANGED <<vars, missed, overrun>> /\ (pc = "count" <=> pc' = "count")
  <2>1. /\ first' = first /\ outstanding' = outstanding /\ Slot(first)' = Slot(first)
    BY <1>2, FirstStays DEF vars
  <2>2. TypeOK' BY <1>0, <1>2 DEF TypeOK, vars
  <2>3. (head = Plus(first, len + missed))' BY <1>2, <2>1 DEF vars, KbInv, CountInv, Plus
  <2>4. /\ head = Plus(first, len + missed) /\ (~ overrun => len + missed <= N)
        /\ pc = "count" => first = Plus(tail, IndexLimit - 1)
        /\ pc # "count" => first = tail
    BY DEF KbInv, CountInv, OldestInv, first
  <2>5. ASSUME PopCopy PROVE CountInv' /\ OldestInv'
    BY <1>0, <1>2, <2>1, <2>3, <2>4, <2>5 DEF PopCopy, KbInv, CountInv, OldestInv, vars
  <2>6. ASSUME PeekCopy PROVE CountInv' /\ OldestInv'
    BY <1>0, <1>2, <2>1, <2>3, <2>4, <2>6 DEF PeekCopy, KbInv, CountInv, OldestInv, vars
  <2>7. ASSUME PopTest PROVE CountInv' /\ OldestInv'
    <3>1. CountInv'
      BY <1>0, <1>2, <2>3, <2>7 DEF PopTest, Return, IsEmpty, KbInv, CountInv, vars
    <3>2. OldestInv'
      BY <1>0, <1>2, <2>1, <2>7 DEF PopTest, Return, IsEmpty, KbInv, OldestInv, vars
    <3>3. QED BY <3>1, <3>2
  <2>8. ASSUME PeekTest PROVE CountInv' /\ OldestInv'
    BY <1>0, <1>2, <2>1, <2>3, <2>8 DEF PeekTest, IsEmpty, KbInv, CountInv, OldestInv, vars
  <2>9. ASSUME UNCHANGED <<ev, loaded, taken>>, pc' \in {pc, "peek", "idle", "hlt", "pop"},
               pc' = "pop" => call' = "poll" \/ pc = "pop",
               call' = call \/ pc' \in {"pop", "peek"},
               pc' = pc => call' = call
        PROVE  CountInv' /\ OldestInv'
    <3>1. CountInv' BY <1>0, <1>2, <2>3, <2>9 DEF KbInv, CountInv, vars
    <3>2. OldestInv' BY <1>0, <1>2, <2>1, <2>9 DEF KbInv, OldestInv, vars
    <3>3. QED BY <3>1, <3>2
  <2>10. CountInv' /\ OldestInv'
    BY <1>1, <1>2, <2>5, <2>6, <2>7, <2>8, <2>9
       DEF KbNext, Interrupt, Reader, Type, TrackModifier, Tick, Poll, GetChar, Halt, PopAdvance,
           Woken, thread, history
  <2>11. QED BY <2>1, <2>2, <2>10
<1>3. \/ PopAdvance
      \/ UNCHANGED <<vars, missed, overrun>> /\ (pc = "count" <=> pc' = "count")
  BY DEF KbNext, Interrupt, Reader, Type, TrackModifier, Tick, Poll, GetChar, PeekTest, PeekCopy,
         PopTest, PopCopy, Halt, Woken, Return, thread, history
<1>4. QED BY <1>1, <1>2, <1>3

LEMMA KbTypeStep ==
  ASSUME KbInv, KbNext, TypeOK', missed' \in Nat, overrun' \in BOOLEAN
  PROVE  KbTypeOK'
<1>0. /\ buf[Slot(tail)] \in Values \cup {Zero} /\ len \in 0 .. N
  <2>1. tail \in Nat /\ buf \in [0 .. N - 1 -> Values \cup {Zero}] /\ len \in 0 .. N
    BY SizeAssumption DEF KbInv, KbTypeOK, TypeOK, Indices
  <2>2. QED BY <2>1, SlotInRange
<1>1. /\ latch' \in ScanCodes \cup {None} /\ down' \subseteq Keys
      /\ held' \in [{"shift", "ctrl", "alt"} -> BOOLEAN]
  BY ModifierNames
     DEF KbInv, KbTypeOK, KbNext, Type, Interrupt, TrackModifier, QueueEvent, Tick, Poll, GetChar,
         Reader, PeekTest, PeekCopy, PopTest, PopCopy, PopAdvance, PopCount, Halt, keyboard, ScanCodes
<1>2. pc' \in ThreadPlaces /\ call' \in {"poll", "getchar"}
  BY DEF KbInv, KbTypeOK, KbNext, Type, Interrupt, TrackModifier, QueueEvent, Tick, Poll, GetChar,
         Reader, PeekTest, PeekCopy, PopTest, PopCopy, PopAdvance, PopCount, Halt, Woken, Return,
         ThreadPlaces, thread
<1>3. ev' \in Values \cup {Zero} /\ taken' \in Values \cup {Zero} /\ loaded' \in 0 .. N
  BY <1>0
     DEF KbInv, KbTypeOK, KbNext, Type, Interrupt, TrackModifier, QueueEvent, Tick, Poll, GetChar,
         Reader, PeekTest, PeekCopy, PopTest, PopCopy, PopAdvance, PopCount, Halt, thread
<1>4. QED BY <1>1, <1>2, <1>3 DEF KbTypeOK

LEMMA KbModifierStep ==
  ASSUME KbInv, KbNext
  PROVE  ModifierInv'
<1>1. ASSUME NEW sc \in ScanCodes, Type(sc) PROVE ModifierInv'
  <2>1. /\ latch = None /\ latch' = sc /\ held' = held
        /\ down' = IF sc.press THEN down \cup {sc.key} ELSE down \ {sc.key}
    BY <1>1 DEF Type
  <2>2. sc.press \in BOOLEAN /\ (~ sc.press => sc = [key |-> sc.key, press |-> FALSE])
    BY DEF ScanCodes
  <2>3. ASSUME NEW m \in DOMAIN held', held'[m]
        PROVE  \E k \in ModKeys : /\ ModifierOf[k] = m
                                  /\ k \in down' \/ latch' = [key |-> k, press |-> FALSE]
    <3>1. PICK k \in ModKeys : /\ ModifierOf[k] = m
                               /\ k \in down \/ latch = [key |-> k, press |-> FALSE]
      BY <2>1, <2>3 DEF KbInv, ModifierInv
    <3>2. latch # [key |-> k, press |-> FALSE]
      BY <2>1, ReleaseIsScanCode
    <3>3. QED BY <2>1, <2>2, <3>1, <3>2
  <2>4. latch'.press => latch'.key \in down' BY <2>1
  <2>5. QED BY <2>3, <2>4 DEF ModifierInv
<1>2. CASE TrackModifier
  <2>1. /\ latch # None /\ latch.key \in ModKeys /\ latch' = None /\ down' = down
        /\ held' = [held EXCEPT ![ModifierOf[latch.key]] = latch.press]
    BY <1>2 DEF TrackModifier
  <2>2. ASSUME NEW m \in DOMAIN held', held'[m]
        PROVE  \E k \in ModKeys : ModifierOf[k] = m /\ k \in down
    <3>0. PICK g \in ModKeys : g = latch.key BY <2>1
    <3>1. CASE m = ModifierOf[g]
      <4>1. latch.press BY <2>1, <2>2, <3>0, <3>1, ModifierNames DEF KbInv, KbTypeOK
      <4>2. latch.key \in down BY <2>1, <4>1 DEF KbInv, ModifierInv
      <4>3. QED BY <3>0, <3>1, <4>2
    <3>2. CASE m # ModifierOf[g]
      <4>1. m \in DOMAIN held /\ held[m] BY <2>1, <2>2, <3>0, <3>2
      <4>2. PICK k \in ModKeys : /\ ModifierOf[k] = m
                                 /\ k \in down \/ latch = [key |-> k, press |-> FALSE]
        BY <4>1 DEF KbInv, ModifierInv
      <4>3. latch # [key |-> k, press |-> FALSE]
        <5>1. SUFFICES ASSUME latch = [key |-> k, press |-> FALSE] PROVE FALSE OBVIOUS
        <5>2. g = k BY <3>0, <5>1
        <5>3. QED BY <3>2, <4>2, <5>2
      <4>4. QED BY <4>2, <4>3
    <3>3. QED BY <3>1, <3>2
  <2>3. QED BY <2>1, <2>2 DEF ModifierInv
<1>3. CASE QueueEvent
  <2>1. /\ latch # None /\ latch.key \notin ModKeys /\ latch' = None
        /\ down' = down /\ held' = held
    BY <1>3 DEF QueueEvent
  <2>2. \A k \in ModKeys : latch # [key |-> k, press |-> FALSE] BY <2>1
  <2>3. QED BY <2>1, <2>2 DEF KbInv, ModifierInv
<1>4. CASE UNCHANGED <<latch, down, held>> BY <1>4 DEF KbInv, ModifierInv
<1>5. QED
  BY <1>1, <1>2, <1>3, <1>4
     DEF KbNext, Interrupt, Tick, Poll, GetChar, Reader, PeekTest, PeekCopy, PopTest, PopCopy,
         PopAdvance, PopCount, Halt, keyboard

LEMMA KbStepKeepsInv ==
  ASSUME KbInv, [KbNext]_<<vars, kbVars>>
  PROVE  KbInv'
<1>1. CASE UNCHANGED <<vars, kbVars>>
  <2>1. /\ first' = first /\ Slot(first)' = Slot(first)
    BY <1>1, FirstStays DEF vars, kbVars
  <2>2. KbTypeOK' BY <1>1 DEF KbInv, KbTypeOK, TypeOK, vars, kbVars
  <2>3. CountInv' BY <1>1, <2>1 DEF KbInv, CountInv, vars, kbVars, Plus
  <2>4. OldestInv' BY <1>1, <2>1 DEF KbInv, OldestInv, vars, kbVars
  <2>5. ModifierInv' BY <1>1 DEF KbInv, ModifierInv, kbVars
  <2>6. QED BY <2>2, <2>3, <2>4, <2>5 DEF KbInv
<1>2. CASE KbNext
  <2>1. TypeOK' /\ CountInv' /\ OldestInv' /\ missed' \in Nat /\ overrun' \in BOOLEAN
    <3>0. missed \in Nat /\ overrun \in BOOLEAN BY DEF KbInv, KbTypeOK
    <3>1. CASE QueueEvent
      <4>1. EventOf(latch) \in Values BY <3>1, EventOfType DEF QueueEvent, KbInv
      <4>2. missed' \in Nat BY <3>0, <3>1 DEF QueueEvent
      <4>3. CASE Push(EventOf(latch)) /\ overrun' = (overrun \/ len + missed >= N)
        BY <3>1, <4>1, <4>2, <4>3, StoreKeepsInv
      <4>4. CASE PushFull /\ UNCHANGED overrun
        <5>1. /\ UNCHANGED <<buf, head, tail, len, missed, overrun, call, ev, loaded, taken>>
              /\ result' = Refused /\ pc' \in {pc, "peek"}
              /\ (pc = "count" <=> pc' = "count")
          BY <3>1, <4>4 DEF QueueEvent, PushFull, Woken
        <5>2. first' = first /\ Slot(first)' = Slot(first) BY <5>1, FirstStays
        <5>3. TypeOK' BY <5>1 DEF KbInv, KbTypeOK, TypeOK
        <5>4. CountInv' BY <5>1, <5>2 DEF KbInv, CountInv, Plus
        <5>5. OldestInv' BY <5>1, <5>2 DEF KbInv, OldestInv
        <5>6. QED BY <3>0, <5>1, <5>3, <5>4, <5>5
      <4>5. QED BY <3>1, <4>3, <4>4 DEF QueueEvent
    <3>2. CASE PopCount
      <4>1. overrun' = overrun BY <3>2 DEF PopCount
      <4>2. QED BY <3>0, <3>2, <4>1, CountKeepsInv
    <3>3. CASE ~ QueueEvent /\ ~ PopCount
      <4>1. missed' = missed /\ overrun' = overrun
        BY <1>2, <3>3
           DEF KbNext, Interrupt, Reader, Type, TrackModifier, Tick, Poll, GetChar, PeekTest,
               PeekCopy, PopTest, PopCopy, PopAdvance, Halt, history
      <4>2. QED BY <1>2, <3>0, <3>3, <4>1, QuietKeepsInv
    <3>4. QED BY <3>1, <3>2, <3>3
  <2>2. KbTypeOK' BY <1>2, <2>1, KbTypeStep
  <2>3. ModifierInv' BY <1>2, KbModifierStep
  <2>4. QED BY <2>1, <2>2, <2>3 DEF KbInv
<1>3. QED BY <1>1, <1>2

(* The invariant holds in every state of the driver.                        *)
THEOREM KeyboardInvariant == KbSpec => []KbInv
<1>1. KbInit => KbInv BY KbStarts
<1>2. KbInv /\ [KbNext]_<<vars, kbVars>> => KbInv' BY KbStepKeepsInv
<1>3. QED BY <1>1, <1>2, PTL DEF KbSpec

(* What getchar pops is the event it has peeked at, although the handler may*)
(* run between any two accesses, unless the buffer was overrun.             *)
THEOREM GetCharPopsWhatItPeeked == KbSpec => []PopsWhatItPeeked
<1>1. KbInv => PopsWhatItPeeked BY DEF KbInv, OldestInv, PopsWhatItPeeked
<1>2. QED BY <1>1, KeyboardInvariant, PTL

(* When every scan code has been handled, a modifier that is held has a key *)
(* that is down, whatever was dropped because the buffer was full.          *)
THEOREM KeyboardNoStuckModifier == KbSpec => []NoStuckModifier
<1>1. KbInv => NoStuckModifier
  <2>1. SUFFICES ASSUME KbInv, latch = None, NEW m \in DOMAIN held, held[m]
                 PROVE  \E k \in down \cap ModKeys : ModifierOf[k] = m
    BY DEF NoStuckModifier
  <2>2. PICK k \in ModKeys : /\ ModifierOf[k] = m
                             /\ k \in down \/ latch = [key |-> k, press |-> FALSE]
    BY <2>1 DEF KbInv, ModifierInv
  <2>3. latch # [key |-> k, press |-> FALSE]
    BY <2>1, ReleaseIsScanCode
  <2>4. QED BY <2>2, <2>3
<1>2. QED BY <1>1, KeyboardInvariant, PTL

-----------------------------------------------------------------------------
(* The characters that are handed out are the ones that were queued, in     *)
(* their order.                                                             *)

(* As long as there is a slot for each of the events, they are all there.   *)
CharsInv ==
  /\ accepted \in Seq(KeyEvents) /\ read \in Seq(KeyEvents)
  /\ ~ overrun => /\ outstanding \in Seq(KeyEvents)
                  /\ accepted = read \o Only(outstanding, Chars)

LEMMA OutstandingIsSeq ==
  ASSUME KbInv
  PROVE  /\ buf \in Buffers(Values \cup {Zero}) /\ first \in Nat /\ first \in Indices
         /\ len + missed \in Nat
<1>1. buf \in Buffers(Values \cup {Zero}) /\ len \in Nat /\ missed \in Nat
  BY SizeAssumption DEF KbInv, KbTypeOK, TypeOK, Buffers
<1>2. QED BY <1>1, FirstIsIndex DEF KbInv

(* An event that is stored is the newest one there.                         *)
LEMMA StoredKeepsOrder ==
  ASSUME KbInv, CharsInv, QueueEvent, NEW e \in KeyEvents, Push(e),
         overrun' = (overrun \/ len + missed >= N),
         accepted' = AddChar(accepted, e), read' = read
  PROVE  CharsInv'
<1>0. accepted \in Seq(KeyEvents) /\ read \in Seq(KeyEvents) BY DEF CharsInv
<1>1. accepted' \in Seq(KeyEvents) BY <1>0 DEF AddChar
<1>2. ASSUME ~ overrun'
      PROVE  /\ outstanding' \in Seq(KeyEvents)
             /\ accepted' = read' \o Only(outstanding', Chars)
  <2>1. /\ first' = first /\ len + missed \in 0 .. N - 1
    BY <1>2, StoreKeepsInv, KeyboardAssumption
  <2>2. PICK l \in 0 .. N - 1 : l = len + missed BY <2>1
  <2>3. /\ buf \in Buffers(Values \cup {Zero}) /\ first \in Nat
        /\ head = Plus(first, l) /\ e \in Values \cup {Zero}
    BY <2>2, OutstandingIsSeq, KeyboardAssumption DEF KbInv, CountInv
  <2>4. Stored([buf EXCEPT ![Slot(Plus(first, l))] = e], first, l + 1)
          = Append(Stored(buf, first, l), e)
    BY <2>3, WriteAppends
  <2>5. l + 1 = len' + missed'
    <3>1. len \in Nat /\ missed \in Nat
      BY SizeAssumption DEF KbInv, KbTypeOK, TypeOK
    <3>2. len' = len + 1 /\ missed' = missed BY DEF Push, QueueEvent
    <3>3. QED BY <2>2, <3>1, <3>2
  <2>6. outstanding' = Stored(buf', first', len' + missed')
    BY DEF outstanding, Stored, Slot, Plus
  <2>7. outstanding' = Append(outstanding, e)
    <3>1. buf' = [buf EXCEPT ![Slot(head)] = e] BY DEF Push
    <3>2. outstanding = Stored(buf, first, l) BY <2>2 DEF outstanding
    <3>3. QED BY <2>1, <2>3, <2>4, <2>5, <2>6, <3>1, <3>2
  <2>8. outstanding \in Seq(KeyEvents) /\ accepted = read \o Only(outstanding, Chars)
    <3>1. ~ overrun BY <1>2 DEF KbInv, KbTypeOK
    <3>2. QED BY <3>1 DEF CharsInv
  <2>9. Only(outstanding', Chars)
          = IF e \in Chars THEN Append(Only(outstanding, Chars), e) ELSE Only(outstanding, Chars)
    BY <2>7, <2>8, OnlyOfAppend
  <2>10. Only(outstanding, Chars) \in Seq(KeyEvents) BY <2>8, OnlyIsSeq
  <2>11. accepted' = read' \o Only(outstanding', Chars)
    <3>1. CASE e \in Chars
      <4>1. PICK r \in Seq(KeyEvents) : r = read BY <1>0
      <4>2. PICK kept \in Seq(KeyEvents) : kept = Only(outstanding, Chars) BY <2>10
      <4>3. AppendsToSecond(r, kept, e) BY AppendOfConcat
      <4>4. Append(r \o kept, e) = r \o Append(kept, e) BY <4>3 DEF AppendsToSecond
      <4>5. accepted' = Append(accepted, e) BY <3>1 DEF AddChar
      <4>6. QED BY <2>8, <2>9, <3>1, <4>1, <4>2, <4>4, <4>5
    <3>2. CASE e \notin Chars
      <4>1. accepted' = accepted BY <3>2 DEF AddChar
      <4>2. QED BY <2>8, <2>9, <3>2, <4>1
    <3>3. QED BY <3>1, <3>2
  <2>12. outstanding' \in Seq(KeyEvents) BY <2>7, <2>8
  <2>13. QED BY <2>11, <2>12
<1>3. QED BY <1>0, <1>1, <1>2 DEF CharsInv

(* The event that poll or getchar hands out, or getchar discards, is the    *)
(* oldest one.                                                              *)
LEMMA TakenKeepsOrder ==
  ASSUME KbInv, CharsInv, PopCount
  PROVE  CharsInv'
<1>0. /\ accepted \in Seq(KeyEvents) /\ read \in Seq(KeyEvents)
      /\ accepted' = accepted /\ overrun' = overrun /\ buf' = buf /\ pc = "count"
  BY DEF CharsInv, PopCount
<1>1. PICK handed : /\ handed = IF call = "poll" THEN taken ELSE ev
                    /\ read' = AddChar(read, handed)
  BY DEF PopCount, Return
<1>2. read' \in Seq(KeyEvents)
  BY <1>0, <1>1 DEF AddChar, Chars
<1>3. ASSUME ~ overrun
      PROVE  /\ outstanding' \in Seq(KeyEvents)
             /\ accepted' = read' \o Only(outstanding', Chars)
  <2>1. /\ len' + missed' = (len + missed) - 1 /\ len + missed > 0
        /\ first' = tail /\ Plus(first, 1) = tail
    BY CountKeepsInv
  <2>2. PICK l \in Nat : l = len + missed BY OutstandingIsSeq
  <2>3. /\ Stored(buf, first, l) # <<>>
        /\ Head(Stored(buf, first, l)) = buf[Slot(first)]
        /\ Tail(Stored(buf, first, l)) = Stored(buf, Plus(first, 1), l - 1)
    BY <2>1, <2>2, OutstandingIsSeq, AdvanceDrops
  <2>4. outstanding = Stored(buf, first, l) BY <2>2 DEF outstanding
  <2>5. outstanding' = Stored(buf', first', len' + missed')
    BY DEF outstanding, Stored, Slot, Plus
  <2>6. /\ outstanding # <<>> /\ outstanding' = Tail(outstanding)
        /\ Head(outstanding) = buf[Slot(first)]
    BY <1>0, <2>1, <2>2, <2>3, <2>4, <2>5
  <2>7. handed = Head(outstanding)
    BY <1>0, <1>1, <1>3, <2>6 DEF KbInv, OldestInv, KbTypeOK
  <2>8. outstanding \in Seq(KeyEvents) /\ accepted = read \o Only(outstanding, Chars)
    BY <1>3 DEF CharsInv
  <2>9. PICK e \in KeyEvents : e = Head(outstanding) BY <2>6, <2>8
  <2>10. Only(outstanding, Chars)
           = IF e \in Chars THEN <<e>> \o Only(outstanding', Chars) ELSE Only(outstanding', Chars)
    BY <2>6, <2>8, <2>9, OnlyOfHead
  <2>11. outstanding' \in Seq(KeyEvents) /\ Only(outstanding', Chars) \in Seq(KeyEvents)
    <3>1. outstanding' \in Seq(KeyEvents) BY <2>6, <2>8
    <3>2. QED BY <3>1, OnlyIsSeq, Zenon
  <2>12. accepted' = read' \o Only(outstanding', Chars)
    <3>1. CASE e \in Chars
      <4>1. read \o (<<e>> \o Only(outstanding', Chars))
              = Append(read, e) \o Only(outstanding', Chars)
        BY <1>0, <2>11, ConcatOfHead
      <4>2. read' = Append(read, e) BY <1>1, <2>7, <2>9, <3>1 DEF AddChar
      <4>3. QED BY <1>0, <2>8, <2>10, <3>1, <4>1, <4>2
    <3>2. CASE e \notin Chars
      <4>1. read' = read BY <1>1, <2>7, <2>9, <3>2 DEF AddChar
      <4>2. QED BY <1>0, <2>8, <2>10, <3>2, <4>1
    <3>3. QED BY <3>1, <3>2
  <2>13. QED BY <2>11, <2>12
<1>4. QED BY <1>0, <1>2, <1>3 DEF CharsInv

LEMMA CharsStart ==
  ASSUME KbInit
  PROVE  CharsInv
<1>1. outstanding = <<>>
  <2>1. buf \in Buffers(Values \cup {Zero}) /\ first = 0 /\ len + missed = 0
    BY DEF KbInit, Init, NewRing, Buffers, first
  <2>2. outstanding = Stored(buf, 0, 0) BY <2>1 DEF outstanding
  <2>3. QED BY <2>1, <2>2, StoredIsSeq, EmptySeq
<1>2. <<>> \in Seq(KeyEvents) /\ Only(<<>>, Chars) = <<>>
  <2>1. <<>> \in Seq(KeyEvents) OBVIOUS
  <2>2. QED BY <2>1, OnlyIsSeq, Zenon
<1>3. QED BY <1>1, <1>2 DEF CharsInv, KbInit

LEMMA CharsStep ==
  ASSUME KbInv, CharsInv, [KbNext]_<<vars, kbVars>>
  PROVE  CharsInv'
<1>1. CASE UNCHANGED <<outstanding, accepted, read, overrun>> BY <1>1 DEF CharsInv
<1>2. CASE UNCHANGED <<vars, kbVars>>
  BY <1>1, <1>2, FirstStays DEF vars, kbVars
<1>3. CASE QueueEvent
  <2>1. PICK e \in KeyEvents : e = EventOf(latch)
    BY <1>3, EventOfType, KeyboardAssumption DEF QueueEvent, KbInv
  <2>2. CASE PushFull /\ UNCHANGED <<accepted, overrun>>
    <3>1. UNCHANGED <<buf, tail, len, missed, read>> /\ (pc = "count" <=> pc' = "count")
      BY <1>3, <2>2 DEF QueueEvent, PushFull, Woken
    <3>2. QED BY <1>1, <2>2, <3>1, FirstStays
  <2>3. CASE /\ Push(e) /\ accepted' = AddChar(accepted, e)
             /\ overrun' = (overrun \/ len + missed >= N)
    <3>1. read' = read BY <1>3 DEF QueueEvent
    <3>2. QED BY <1>3, <2>3, <3>1, StoredKeepsOrder
  <2>4. QED BY <1>3, <2>1, <2>2, <2>3 DEF QueueEvent
<1>4. CASE PopCount BY <1>4, TakenKeepsOrder
<1>5. CASE KbNext /\ ~ QueueEvent /\ ~ PopCount
  <2>1. outstanding' = outstanding BY <1>5, QuietKeepsInv
  <2>2. UNCHANGED <<accepted, overrun>>
    BY <1>5
       DEF KbNext, Interrupt, Reader, Type, TrackModifier, Tick, Poll, GetChar, PeekTest,
           PeekCopy, PopTest, PopCopy, PopAdvance, Halt, history
  <2>3. read' = read
    <3>1. CASE PopTest
      <4>1. CASE IsEmpty
        <5>1. call = "poll" BY <3>1, <4>1 DEF PopTest, IsEmpty, KbInv, KbTypeOK, CountInv
        <5>2. None \notin Chars BY KeyboardAssumption DEF Chars
        <5>3. QED BY <3>1, <4>1, <5>1, <5>2 DEF PopTest, Return, AddChar
      <4>2. QED BY <3>1, <4>1 DEF PopTest
    <3>2. QED
      BY <1>5, <3>1
         DEF KbNext, Interrupt, Reader, Type, TrackModifier, Tick, Poll, GetChar, PeekTest,
             PeekCopy, PopCopy, PopAdvance, Halt, history
  <2>4. QED BY <1>1, <2>1, <2>2, <2>3
<1>6. QED BY <1>2, <1>3, <1>4, <1>5

(* The characters queued are those handed out followed by those between tail*)
(* and head, whenever the handler runs, whatever increments of len get lost *)
(* and however often the indices wrap, as long as no more events are        *)
(* outstanding than there are slots.                                        *)
THEOREM KeyboardCharsInOrder == KbSpec => []CharsInOrder
<1>1. KbInit => KbInv /\ CharsInv BY CharsStart, KbStarts
<1>2. KbInv /\ CharsInv /\ [KbNext]_<<vars, kbVars>> => (KbInv /\ CharsInv)'
  BY CharsStep, KbStepKeepsInv
<1>3. CharsInv => CharsInOrder BY DEF CharsInv, CharsInOrder
<1>4. QED BY <1>1, <1>2, <1>3, PTL DEF KbSpec

=============================================================================
