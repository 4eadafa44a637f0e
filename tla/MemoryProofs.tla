----------------------------- MODULE MemoryProofs -----------------------------
(***************************************************************************)
(* Proofs about Memory, for every size of the region and of the slab, any  *)
(* requests with which no sum of the bump allocator wraps, and any number  *)
(* of indices of a page table.                                             *)
(*                                                                         *)
(* The bump allocator's pieces are in order of their addresses, whatever   *)
(* the rounding does.  The free list of the slab is exact.  The page tables*)
(* are a tree: no table is reached by two paths, so that a write for one   *)
(* address disturbs the walk of no other.  Together: each table and each   *)
(* live block is in a piece of the bump allocator, and no two share one    *)
(* but the blocks, which are apart inside theirs.                          *)
(***************************************************************************)
EXTENDS Memory, BasicLemmas, FiniteSetTheorems

-----------------------------------------------------------------------------
(* The bump allocator.                                                      *)

BumpTypeOK == cursor \in Base .. Limit /\ pieces \subseteq [lo : Nat, hi : Nat]

BumpInv == BumpTypeOK /\ PiecesDisjoint

(* Rounding up goes up, and by less than the alignment.                     *)
LEMMA AlignUpBounds ==
  ASSUME NEW a \in Nat, NEW align \in Nat \ {0}, a + align <= AddressLimit
  PROVE  AlignUp(a, align) \in a .. a + align - 1
<1>1. PICK x \in Nat : x = (a + align) - 1 OBVIOUS
<1>2. x < AddressLimit /\ AddressLimit \in Nat \ {0}
  BY <1>1, RegionAssumption
<1>3. x % AddressLimit = x BY <1>1, <1>2, ModOfSmall
<1>4. x % align \in 0 .. align - 1 BY <1>1, DivMod
<1>5. AlignUp(a, align) = x - (x % align) BY <1>1, <1>3 DEF AlignUp
<1>6. QED BY <1>1, <1>4, <1>5

(* What alloc hands out begins at the cursor or above it, and the cursor    *)
(* moves to its end: no sum of the test has wrapped.                        *)
LEMMA AllocAdvances ==
  ASSUME BumpInv, NEW size \in Nat, NEW align \in Nat \ {0}, NoWrap(size, align),
         BumpAlloc(size, align)
  PROVE  LET lo == AlignUp(cursor, align)
         IN  /\ lo \in cursor .. Limit
             /\ cursor' = lo + size /\ cursor' \in lo .. Limit
             /\ pieces' = pieces \cup {[lo |-> lo, hi |-> lo + size]}
<1> DEFINE lo == AlignUp(cursor, align)
<1>1. /\ Base \in Nat /\ Size \in Nat /\ AddressLimit \in Nat \ {0}
      /\ Limit \in Nat /\ Limit + size + align <= AddressLimit
      /\ cursor \in Nat /\ cursor <= Limit
  BY RegionAssumption DEF BumpInv, BumpTypeOK, Limit, NoWrap
<1>2. lo \in cursor .. cursor + align - 1 BY <1>1, AlignUpBounds
<1> HIDE DEF lo
<1>3. lo + size \in Nat /\ lo + size < AddressLimit BY <1>1, <1>2
<1>4. (lo + size) % AddressLimit = lo + size BY <1>1, <1>3, ModOfSmall
<1>5. cursor' = lo + size /\ lo + size <= Limit
  BY <1>4 DEF BumpAlloc, Fits, lo
<1>6. pieces' = pieces \cup {[lo |-> lo, hi |-> lo + size]}
  BY DEF BumpAlloc, lo
<1>7. QED BY <1>1, <1>2, <1>5, <1>6 DEF lo

LEMMA AllocKeepsBump ==
  ASSUME BumpInv, NEW size \in Nat, NEW align \in Nat \ {0}, NoWrap(size, align),
         BumpAlloc(size, align)
  PROVE  BumpInv'
<1> DEFINE lo == AlignUp(cursor, align)
           new == [lo |-> lo, hi |-> lo + size]
<1>1. /\ lo \in cursor .. Limit /\ cursor' = lo + size /\ cursor' \in lo .. Limit
      /\ pieces' = pieces \cup {new}
  BY AllocAdvances
<1>2. /\ Base \in Nat /\ Limit \in Nat /\ Size \in Nat /\ cursor \in Base .. Limit
      /\ pieces \subseteq [lo : Nat, hi : Nat]
      /\ \A p \in pieces : Base <= p.lo /\ p.lo <= p.hi /\ p.hi <= cursor
      /\ \A p, q \in pieces : p # q => p.hi <= q.lo \/ q.hi <= p.lo
  BY RegionAssumption DEF BumpInv, BumpTypeOK, PiecesDisjoint, Limit
<1> HIDE DEF lo
<1>3. new \in [lo : Nat, hi : Nat] /\ new.lo = lo /\ new.hi = lo + size
  BY <1>1, <1>2
<1> HIDE DEF new
<1>4. BumpTypeOK'
  BY <1>1, <1>2, <1>3 DEF BumpTypeOK, Limit
<1>5. \A p \in pieces' : Base <= p.lo /\ p.lo <= p.hi /\ p.hi <= cursor' /\ cursor' <= Limit
  BY <1>1, <1>2, <1>3
<1>6. \A p \in pieces : p.hi <= new.lo BY <1>1, <1>2, <1>3
<1>7. \A p, q \in pieces' : p # q => p.hi <= q.lo \/ q.hi <= p.lo
  BY <1>1, <1>2, <1>6
<1>8. QED BY <1>4, <1>5, <1>7 DEF BumpInv, PiecesDisjoint, Limit

-----------------------------------------------------------------------------
(* The slab allocator.                                                      *)

(* What the free list stores and where it ends.                             *)
SlabTypeOK ==
  /\ free_count \in 0 .. Total
  /\ free_list \in [Blocks -> Blocks]
  /\ live \subseteq Blocks

(* The inductive invariant.                                                 *)
SlabInv == SlabTypeOK /\ FreeListExact

LEMMA BlocksFinite == IsFiniteSet(Blocks)
  BY TotalAssumption, FS_Interval DEF Blocks

(* Different blocks occupy different memory, whatever the block size.       *)
LEMMA BlocksApart ==
  ASSUME NEW memory \in Nat, NEW size \in Nat, NEW i \in Blocks, NEW j \in Blocks, i < j
  PROVE  BlockAt(memory, size, i) + size <= BlockAt(memory, size, j)
<1>1. PICK k \in Nat : j = i + 1 + k
  <2>1. i \in Nat /\ j \in Nat BY TotalAssumption DEF Blocks
  <2>2. j = i + 1 + (j - i - 1) /\ j - i - 1 \in Nat BY <2>1
  <2>3. QED BY <2>2
<1>2. i \in Nat BY TotalAssumption DEF Blocks
<1>3. (i + 1 + k) * size = (i * size) + size + (k * size) /\ k * size \in Nat
  BY <1>1, <1>2
<1>4. QED BY <1>1, <1>2, <1>3 DEF BlockAt

(* A set of blocks is finite and has a cardinality.                         *)
LEMMA LiveFinite ==
  ASSUME SlabTypeOK
  PROVE  IsFiniteSet(live) /\ Cardinality(live) \in Nat
  BY BlocksFinite, FS_Subset, FS_CardinalityType DEF SlabTypeOK

(* alloc takes the last entry of the free list, which no other entry        *)
(* repeats.                                                                 *)
LEMMA AllocKeepsInv ==
  ASSUME SlabInv, SlabAlloc
  PROVE  SlabInv'
<1> DEFINE b == free_list[free_count - 1]
<1>1. /\ free_count \in 1 .. Total
      /\ free_count - 1 \in FreeEntries
      /\ b \in Blocks \ live
  BY TotalAssumption DEF SlabInv, SlabTypeOK, SlabAlloc, FreeListExact, FreeEntries
<1>2. /\ free_count' = free_count - 1
      /\ live' = live \cup {b}
      /\ free_list' = free_list
  BY DEF SlabAlloc
<1> HIDE DEF b
<1>3. SlabTypeOK'
  BY <1>1, <1>2, TotalAssumption DEF SlabInv, SlabTypeOK
<1>4. Cardinality(live') = Cardinality(live) + 1
  BY <1>1, <1>2, LiveFinite, FS_AddElement DEF SlabInv
<1>5. free_count' + Cardinality(live') = Total
  BY <1>1, <1>2, <1>4, LiveFinite, TotalAssumption DEF SlabInv, FreeListExact
<1>6. ASSUME NEW i \in FreeEntries'
      PROVE  i \in FreeEntries /\ free_list[i] # b
  <2>1. i \in FreeEntries /\ i # free_count - 1
    BY <1>1, <1>2, <1>6 DEF FreeEntries
  <2>2. QED BY <2>1, <1>1 DEF SlabInv, FreeListExact, b
<1>7. \A i \in FreeEntries' : free_list'[i] \in Blocks \ live'
  BY <1>2, <1>6 DEF SlabInv, FreeListExact
<1>8. \A i, j \in FreeEntries' : free_list'[i] = free_list'[j] => i = j
  BY <1>2, <1>6 DEF SlabInv, FreeListExact
<1>9. QED BY <1>3, <1>5, <1>7, <1>8 DEF SlabInv, FreeListExact

(* free writes behind the last entry, inside the list, and what it writes is*)
(* in no other entry.                                                       *)
LEMMA FreeKeepsInv ==
  ASSUME SlabInv, NEW b \in Blocks, SlabFree(b)
  PROVE  SlabInv'
<1>1. /\ b \in live
      /\ free_list' = [free_list EXCEPT ![free_count] = b]
      /\ free_count' = free_count + 1
      /\ live' = live \ {b}
  BY DEF SlabFree
<1>2. Cardinality(live') = Cardinality(live) - 1 /\ Cardinality(live') \in Nat
  <2>1. IsFiniteSet(live) BY LiveFinite DEF SlabInv
  <2>2. Cardinality(live \ {b}) = Cardinality(live) - 1
    BY <2>1, <1>1, FS_RemoveElement
  <2>3. IsFiniteSet(live \ {b}) BY <2>1, FS_RemoveElement
  <2>4. QED BY <2>2, <2>3, <1>1, FS_CardinalityType
<1>3. free_count < Total /\ free_count \in Blocks
  <2>1. free_count \in Nat /\ free_count + Cardinality(live) = Total
    BY TotalAssumption DEF SlabInv, SlabTypeOK, FreeListExact
  <2>2. Cardinality(live) \in Nat BY LiveFinite DEF SlabInv
  <2>3. Cardinality(live) >= 1 BY <1>2, <2>2
  <2>4. QED BY <2>1, <2>2, <2>3, TotalAssumption DEF Blocks
<1>4. SlabTypeOK'
  BY <1>1, <1>3, TotalAssumption DEF SlabInv, SlabTypeOK
<1>5. free_count' + Cardinality(live') = Total
  BY <1>1, <1>2, <1>3, LiveFinite, TotalAssumption DEF SlabInv, SlabTypeOK, FreeListExact
<1>6. FreeEntries' = FreeEntries \cup {free_count}
  BY <1>1 DEF SlabInv, SlabTypeOK, FreeEntries
<1>7. \A i \in FreeEntries : free_list'[i] = free_list[i]
  BY <1>1, <1>3 DEF SlabInv, SlabTypeOK, FreeEntries, Blocks
<1>8. free_list'[free_count] = b
  BY <1>1, <1>3 DEF SlabInv, SlabTypeOK
<1>9. \A i \in FreeEntries' : free_list'[i] \in Blocks \ live'
  BY <1>1, <1>6, <1>7, <1>8 DEF SlabInv, FreeListExact
<1>10. \A i \in FreeEntries : free_list[i] # b
  BY <1>1 DEF SlabInv, FreeListExact
<1>11. \A i, j \in FreeEntries' : free_list'[i] = free_list'[j] => i = j
  BY <1>6, <1>7, <1>8, <1>10 DEF SlabInv, FreeListExact
<1>12. QED BY <1>4, <1>5, <1>9, <1>11 DEF SlabInv, FreeListExact

LEMMA SlabStarts ==
  ASSUME SlabInit
  PROVE  SlabInv
<1>1. Cardinality(live) = 0 BY FS_EmptySet DEF SlabInit
<1>2. SlabTypeOK BY TotalAssumption DEF SlabInit, SlabTypeOK
<1>3. FreeListExact
  BY <1>1, TotalAssumption DEF SlabInit, FreeListExact, FreeEntries, Blocks
<1>4. QED BY <1>2, <1>3 DEF SlabInv

LEMMA NewSlabIsRight ==
  ASSUME SlabNew
  PROVE  SlabInv'
<1>1. Total \in Nat \ {0} /\ Blocks = 0 .. Total - 1 BY TotalAssumption DEF Blocks
<1>2. SlabTypeOK' BY <1>1 DEF SlabNew, SlabTypeOK
<1>3. Cardinality(live') = 0 BY FS_EmptySet DEF SlabNew
<1>4. FreeListExact' BY <1>1, <1>3 DEF SlabNew, FreeListExact, FreeEntries
<1>5. QED BY <1>2, <1>4 DEF SlabInv

LEMMA SlabStepKeepsInv ==
  ASSUME SlabInv, [SlabNext]_slabVars
  PROVE  SlabInv'
<1>1. CASE SlabAlloc BY <1>1, AllocKeepsInv
<1>2. CASE \E b \in Blocks : SlabFree(b) BY <1>2, FreeKeepsInv
<1>3. CASE SlabFails \/ UNCHANGED slabVars
  BY <1>3 DEF SlabInv, SlabTypeOK, FreeListExact, FreeEntries, SlabFails, slabVars
<1>4. QED BY <1>1, <1>2, <1>3 DEF SlabNext

(* The free list of a slab is exact: no block is in use twice, none is lost,*)
(* and the list never grows into the blocks behind it.                      *)
THEOREM SlabFreeListExact == SlabSpec => []FreeListExact
<1>1. SlabInit => SlabInv BY SlabStarts
<1>2. SlabInv /\ [SlabNext]_slabVars => SlabInv' BY SlabStepKeepsInv
<1>3. SlabInv => FreeListExact BY DEF SlabInv
<1>4. QED BY <1>1, <1>2, <1>3, PTL DEF SlabSpec

-----------------------------------------------------------------------------
(* The page tables.                                                         *)

Addresses == Indices \X Indices \X Indices \X Indices

Entry == [present : BOOLEAN, page : Frames \cup Nat, user : BOOLEAN]

VmmTypeOK ==
  /\ Root \in DOMAIN tables /\ 0 \notin DOMAIN tables
  /\ tables \in [DOMAIN tables -> [Indices -> Entry]]
  /\ mapped \in [VAddrs -> Entry]
  /\ job = NoJob \/ job \in [level : 1 .. 4, table : DOMAIN tables, v : VAddrs,
                             paddr : Frames, user : BOOLEAN]

(* The first k indices of two addresses are the same.                       *)
Agree(v, w, k) == \A i \in 1 .. k : v[i] = w[i]

(* Every walk stays inside the tables, two walks that come to the same table*)
(* have come there by the same path, and a present entry above the last     *)
(* level names a table.                                                     *)
IsTree ==
  /\ \A v \in Addresses, k \in 1 .. 4 : TableOf(v)[k] \in DOMAIN tables \cup {0}
  /\ \A v, w \in Addresses, j, k \in 1 .. 4 :
       TableOf(v)[j] # 0 /\ TableOf(v)[j] = TableOf(w)[k] => j = k /\ Agree(v, w, j - 1)
  /\ \A v \in Addresses, k \in 1 .. 3 : Walk(v, k).present => TableOf(v)[k + 1] # 0

(* A map_page under way is where the walk for its address leads.            *)
JobOnPath == job.level # 0 => job.table = TableOf(job.v)[job.level]

VmmInv == VmmTypeOK /\ IsTree /\ JobOnPath /\ TranslateExact

LEMMA WalkSteps ==
  ASSUME NEW v
  PROVE  /\ TableOf(v)[1] = Root
         /\ \A k \in 1 .. 3 : TableOf(v)[k + 1] = TableUnder(TableOf(v)[k], v[k])
BY DEF TableOf

LEMMA WalkStepsNext ==
  ASSUME NEW v
  PROVE  /\ TableOf(v)'[1] = Root
         /\ \A k \in 1 .. 3 : TableOf(v)'[k + 1] = TableUnder(TableOf(v)[k], v[k])'
BY DEF TableOf

(* What a write at level k for address x may change: the entry x[k] of the  *)
(* table there; tables may be added.                                        *)
WritesAt(x, k) ==
  /\ DOMAIN tables \subseteq DOMAIN tables'
  /\ \A p \in DOMAIN tables, i \in Indices :
       p # TableOf(x)[k] \/ i # x[k] => tables'[p][i] = tables[p][i]

(* Such a write changes no other walk, and no walk up to its level.         *)
LEMMA OtherWalksStay ==
  ASSUME VmmTypeOK, IsTree, NEW x \in Addresses, NEW k \in 1 .. 4, WritesAt(x, k),
         NEW w \in Addresses
  PROVE  \A j \in 1 .. 4 : j <= k \/ ~ Agree(w, x, k) => TableOf(w)'[j] = TableOf(w)[j]
<1> DEFINE Same(j) == j <= k \/ ~ Agree(w, x, k) => TableOf(w)'[j] = TableOf(w)[j]
<1>1. Same(1) BY WalkSteps, WalkStepsNext
<1>2. ASSUME NEW j \in 1 .. 3, Same(j) PROVE Same(j + 1)
  <2> SUFFICES ASSUME j + 1 <= k \/ ~ Agree(w, x, k)
               PROVE  TableOf(w)'[j + 1] = TableOf(w)[j + 1]
    OBVIOUS
  <2> DEFINE t == TableOf(w)[j]
  <2>1. TableOf(w)'[j] = t BY <1>2
  <2>2. /\ TableOf(w)[j + 1] = TableUnder(t, w[j])
        /\ TableOf(w)'[j + 1] = TableUnder(t, w[j])'
    <3>1. TableOf(w)'[j + 1] = TableUnder(TableOf(w)[j], w[j])' BY WalkStepsNext
    <3>2. TableUnder(TableOf(w)[j], w[j])' = TableUnder(t, w[j])'
      BY <2>1 DEF TableUnder
    <3>3. QED BY <3>1, <3>2, WalkSteps
  <2>3. CASE t = 0
    BY <2>1, <2>2, <2>3, WalkStepsNext DEF TableUnder
  <2>4. CASE t # 0
    <3>1. t \in DOMAIN tables /\ w[j] \in Indices
      BY <2>4 DEF IsTree, Addresses
    <3>2. t # TableOf(x)[k] \/ w[j] # x[k]
      <4>1. SUFFICES ASSUME t = TableOf(x)[k], w[j] = x[k] PROVE FALSE OBVIOUS
      <4>2. j = k /\ Agree(w, x, j - 1) BY <2>4, <4>1 DEF IsTree
      <4>3. Agree(w, x, k) BY <4>1, <4>2 DEF Agree
      <4>4. QED BY <4>2, <4>3
    <3>3. tables'[t][w[j]] = tables[t][w[j]] BY <3>1, <3>2 DEF WritesAt
    <3>4. QED BY <2>1, <2>2, <3>3, WalkStepsNext DEF TableUnder
  <2>5. QED BY <2>3, <2>4
<1>3. Same(2) BY <1>1, <1>2
<1>4. Same(3) BY <1>2, <1>3
<1>5. Same(4) BY <1>2, <1>4
<1>6. QED BY <1>1, <1>3, <1>4, <1>5

LEMMA AddressesInside ==
  ASSUME NEW v \in VAddrs
  PROVE  v \in Addresses /\ \A k \in 1 .. 4 : v[k] \in Indices
BY VmmAssumption DEF Addresses

(* Two addresses that agree in all indices are the same.                    *)
LEMMA AgreeEqual ==
  ASSUME NEW v \in Addresses, NEW w \in Addresses, Agree(v, w, 3), v[4] = w[4]
  PROVE  v = w
BY DEF Agree, Addresses

(* Addresses that agree up to a level have the same table there.            *)
LEMMA SameTable ==
  ASSUME NEW v, NEW w, NEW n \in 1 .. 3, Agree(v, w, n - 1)
  PROVE  TableOf(v)[n] = TableOf(w)[n]
<1>1. CASE n = 1 BY <1>1 DEF TableOf
<1>2. CASE n = 2 BY <1>2 DEF TableOf, Agree
<1>3. CASE n = 3
  <2>1. v[1] = w[1] /\ v[2] = w[2] BY <1>3 DEF Agree
  <2>2. QED BY <1>3, <2>1 DEF TableOf
<1>4. QED BY <1>1, <1>2, <1>3

(* Nothing is written: every walk and every mapping stays.                  *)
LEMMA NoWriteKeepsTree ==
  ASSUME VmmInv, UNCHANGED <<tables, mapped>>
  PROVE  /\ \A v : TableOf(v)' = TableOf(v)
         /\ IsTree' /\ TranslateExact'
<1>1. \A v : TableOf(v)' = TableOf(v) BY DEF TableOf, TableUnder
<1>2. IsTree' BY <1>1 DEF VmmInv, IsTree, Walk
<1>3. TranslateExact' BY <1>1 DEF VmmInv, TranslateExact, Walk
<1>4. QED BY <1>1, <1>2, <1>3

(* A write of a last entry is seen by the address it is for, and by no other*)
(* one, since its table is reached by one path only.                        *)
LEMMA LastWriteKeepsInv ==
  ASSUME VmmInv, NEW x \in VAddrs, NEW e \in Entry,
         TableOf(x)[4] # 0,
         tables' = [tables EXCEPT ![TableOf(x)[4]][x[4]] = e],
         mapped' = [mapped EXCEPT ![x] = e],
         job' = NoJob
  PROVE  VmmInv'
<1> DEFINE t == TableOf(x)[4]
<1>1. /\ x \in Addresses /\ x[4] \in Indices
      /\ t \in DOMAIN tables
      /\ tables \in [DOMAIN tables -> [Indices -> Entry]]
      /\ mapped \in [VAddrs -> Entry]
  BY AddressesInside DEF VmmInv, IsTree, VmmTypeOK
<1>2. /\ DOMAIN tables' = DOMAIN tables
      /\ tables'[t][x[4]] = e
      /\ \A p \in DOMAIN tables, i \in Indices :
           p # t \/ i # x[4] => tables'[p][i] = tables[p][i]
  BY <1>1
<1>3. \A w \in Addresses : \A j \in 1 .. 4 : TableOf(w)'[j] = TableOf(w)[j]
  <2>1. WritesAt(x, 4) BY <1>2 DEF WritesAt
  <2>2. QED BY <1>1, <2>1, OtherWalksStay DEF VmmInv
<1>4. VmmTypeOK'
  BY <1>1 DEF VmmInv, VmmTypeOK
<1>5. IsTree'
  <2>1. ASSUME NEW v \in Addresses, NEW k \in 1 .. 3 PROVE Walk(v, k)' = Walk(v, k)
    <3>1. TableOf(v)[k] # t /\ TableOf(v)[k] \in DOMAIN tables \cup {0} /\ v[k] \in Indices
      BY <1>1 DEF VmmInv, IsTree, Addresses
    <3>2. TableOf(v)'[k] = TableOf(v)[k] BY <1>3
    <3>3. QED BY <1>2, <3>1, <3>2 DEF Walk
  <2>2. \A v \in Addresses, k \in 1 .. 3 : Walk(v, k)'.present => TableOf(v)'[k + 1] # 0
    BY <1>3, <2>1 DEF VmmInv, IsTree
  <2>3. QED BY <1>2, <1>3, <2>2 DEF VmmInv, IsTree
<1>6. JobOnPath'
  BY DEF JobOnPath, NoJob
<1>7. ASSUME NEW w \in VAddrs PROVE Walk(w, 4)' = mapped'[w]
  <2>1. /\ w \in Addresses /\ w[4] \in Indices
        /\ TableOf(w)[4] \in DOMAIN tables \cup {0}
    BY AddressesInside DEF VmmInv, IsTree
  <2>2. TableOf(w)'[4] = TableOf(w)[4] BY <1>3, <2>1
  <2>3. Walk(w, 4) = mapped[w] BY DEF VmmInv, TranslateExact
  <2>4. CASE w = x
    BY <1>1, <1>2, <2>2, <2>4 DEF Walk
  <2>5. CASE w # x
    <3>1. mapped'[w] = mapped[w] BY <1>1, <2>5
    <3>2. TableOf(w)[4] = t /\ w[4] = x[4] => FALSE
      BY <1>1, <2>1, <2>5, AgreeEqual DEF VmmInv, IsTree
    <3>3. TableOf(w)[4] # 0 => tables'[TableOf(w)[4]][w[4]] = tables[TableOf(w)[4]][w[4]]
      BY <1>2, <2>1, <3>2
    <3>4. QED BY <2>2, <2>3, <3>1, <3>3 DEF Walk
  <2>6. QED BY <2>4, <2>5
<1>8. QED BY <1>4, <1>5, <1>6, <1>7 DEF VmmInv, TranslateExact

(* A new table is reached by the one path it is entered under, and leads    *)
(* nowhere.                                                                 *)
LEMMA AddTableKeepsInv ==
  ASSUME VmmInv, NEW page \in Nat, page # 0, page \notin DOMAIN tables, AddTable(page)
  PROVE  VmmInv'
<1>0. /\ job.level \in 1 .. 3
      /\ job \in [level : 1 .. 4, table : DOMAIN tables, v : VAddrs,
                  paddr : Frames, user : BOOLEAN]
      /\ job.table = TableOf(job.v)[job.level]
  BY DEF AddTable, VmmInv, VmmTypeOK, JobOnPath, NoJob
<1>1. PICK n \in 1 .. 3, x \in VAddrs, t \in DOMAIN tables, pte \in Entry :
        /\ n = job.level /\ x = job.v /\ t = job.table
        /\ pte = [present |-> TRUE, page |-> page, user |-> job.user]
  BY <1>0 DEF Entry
<1>2. /\ x \in Addresses /\ x[n] \in Indices
      /\ t # 0 /\ t = TableOf(x)[n]
      /\ tables \in [DOMAIN tables -> [Indices -> Entry]]
  BY <1>0, <1>1, AddressesInside DEF VmmInv, VmmTypeOK
<1>3. NewTable \in [Indices -> Entry] /\ \A i \in Indices : NewTable[i] = Absent
  BY DEF NewTable, Absent, Entry
<1>4. /\ DOMAIN tables' = DOMAIN tables \cup {page}
      /\ tables'[page] = NewTable
      /\ tables'[t] = [tables[t] EXCEPT ![x[n]] = pte]
      /\ \A p \in DOMAIN tables \ {t} : tables'[p] = tables[p]
  BY <1>1, <1>2 DEF AddTable
<1>5. tables' \in [DOMAIN tables' -> [Indices -> Entry]]
  <2>1. \A p \in DOMAIN tables' : tables'[p] \in [Indices -> Entry]
    BY <1>1, <1>2, <1>3, <1>4
  <2>2. tables' = [p \in DOMAIN tables' |-> tables'[p]]
    BY <1>4 DEF AddTable
  <2>3. QED BY <2>1, <2>2
<1>6. job' = [level |-> n + 1, table |-> page, v |-> x, paddr |-> job.paddr, user |-> job.user]
  BY <1>1 DEF AddTable, GoOnIn
<1>7. VmmTypeOK'
  <2>1. job' \in [level : 1 .. 4, table : DOMAIN tables', v : VAddrs,
                  paddr : Frames, user : BOOLEAN]
    BY <1>0, <1>1, <1>4, <1>6
  <2>2. mapped' = mapped /\ 0 \notin DOMAIN tables' /\ Root \in DOMAIN tables'
    BY <1>4 DEF AddTable, VmmInv, VmmTypeOK
  <2>3. QED BY <1>5, <2>1, <2>2 DEF VmmTypeOK, VmmInv
<1>8. \A w \in Addresses : \A j \in 1 .. 4 :
        j <= n \/ ~ Agree(w, x, n) => TableOf(w)'[j] = TableOf(w)[j]
  <2>1. WritesAt(x, n) BY <1>2, <1>4 DEF WritesAt
  <2>2. QED BY <1>1, <1>2, <2>1, OtherWalksStay DEF VmmInv
<1>9. ASSUME NEW w \in Addresses, Agree(w, x, n)
      PROVE  /\ \A j \in n + 1 .. 4 : TableOf(w)[j] = 0
             /\ TableOf(w)'[n + 1] = page
             /\ \A j \in n + 2 .. 4 : TableOf(w)'[j] = 0
  <2>1. TableOf(w)[n] = t /\ w[n] = x[n]
    <3>1. Agree(w, x, n - 1) /\ w[n] = x[n] BY <1>9 DEF Agree
    <3>2. QED BY <1>2, <3>1, SameTable
  <2>2. ~ tables[t][x[n]].present BY <1>1 DEF AddTable, Here
  <2>3. TableOf(w)[n + 1] = 0 BY <2>1, <2>2, WalkSteps DEF TableUnder
  <2>4. \A j \in 1 .. 3 : TableOf(w)[j] = 0 => TableOf(w)[j + 1] = 0
    BY WalkSteps DEF TableUnder
  <2>5. \A j \in n + 1 .. 4 : TableOf(w)[j] = 0 BY <2>3, <2>4
  <2>6. TableOf(w)'[n] = t BY <1>8, <2>1
  <2>7. tables'[t][x[n]] = pte BY <1>2, <1>4
  <2>8. TableOf(w)'[n + 1] = page
    BY <1>1, <1>2, <2>1, <2>6, <2>7, WalkStepsNext DEF TableUnder
  <2>9. n + 2 <= 4 => TableOf(w)'[n + 2] = 0
    <3>1. SUFFICES ASSUME n + 1 \in 1 .. 3 PROVE TableOf(w)'[n + 2] = 0 OBVIOUS
    <3>2. PICK k \in 1 .. 3 : k = n + 1 BY <3>1
    <3>3. w[k] \in Indices BY <3>2 DEF Addresses
    <3>4. TableOf(w)'[k + 1] = TableUnder(TableOf(w)[k], w[k])' BY WalkStepsNext
    <3>5. ~ tables'[page][w[k]].present BY <1>3, <1>4, <3>3 DEF Absent
    <3>6. QED BY <2>8, <3>2, <3>4, <3>5 DEF TableUnder
  <2>10. \A j \in 1 .. 3 : TableOf(w)'[j] = 0 => TableOf(w)'[j + 1] = 0
    BY WalkStepsNext DEF TableUnder
  <2>11. \A j \in n + 2 .. 4 : TableOf(w)'[j] = 0 BY <2>9, <2>10
  <2>12. QED BY <2>5, <2>8, <2>11
<1>10. ASSUME NEW w \in Addresses, NEW j \in 1 .. 4
       PROVE  \/ TableOf(w)'[j] = TableOf(w)[j]
              \/ TableOf(w)'[j] = page /\ j = n + 1 /\ Agree(w, x, n)
  BY <1>1, <1>8, <1>9
<1>11. \A w \in Addresses, j \in 1 .. 4 : TableOf(w)[j] \in DOMAIN tables \cup {0}
  BY DEF VmmInv, IsTree
<1>12. IsTree'
  <2>1. \A v \in Addresses, k \in 1 .. 4 : TableOf(v)'[k] \in DOMAIN tables' \cup {0}
    BY <1>4, <1>10, <1>11
  <2>2. ASSUME NEW v \in Addresses, NEW w \in Addresses, NEW j \in 1 .. 4, NEW k \in 1 .. 4,
               TableOf(v)'[j] # 0, TableOf(v)'[j] = TableOf(w)'[k]
        PROVE  j = k /\ Agree(v, w, j - 1)
    <3>1. CASE TableOf(v)'[j] = page
      <4>1. j = n + 1 /\ Agree(v, x, n) /\ k = n + 1 /\ Agree(w, x, n)
        BY <1>10, <1>11, <2>2, <3>1
      <4>2. QED BY <1>1, <4>1 DEF Agree
    <3>2. CASE TableOf(v)'[j] # page
      <4>1. TableOf(v)[j] = TableOf(v)'[j] /\ TableOf(w)[k] = TableOf(w)'[k]
        BY <1>10, <2>2, <3>2
      <4>2. QED BY <2>2, <4>1 DEF VmmInv, IsTree
    <3>3. QED BY <3>1, <3>2
  <2>3. ASSUME NEW v \in Addresses, NEW k \in 1 .. 3, Walk(v, k)'.present
        PROVE  TableOf(v)'[k + 1] # 0
    <3>1. v[k] \in Indices /\ TableOf(v)[k] \in DOMAIN tables \cup {0} BY <1>11 DEF Addresses
    <3>2. CASE TableOf(v)'[k] = page /\ k = n + 1
      BY <1>3, <1>4, <2>3, <3>1, <3>2 DEF Walk, Absent
    <3>3. CASE TableOf(v)'[k] = TableOf(v)[k] /\ TableOf(v)[k] = t /\ v[k] = x[k]
      <4>1. k = n /\ Agree(v, x, n - 1) BY <1>1, <1>2, <3>3 DEF VmmInv, IsTree
      <4>2. Agree(v, x, n) BY <1>1, <3>3, <4>1 DEF Agree
      <4>3. QED BY <1>9, <4>1, <4>2
    <3>4. CASE TableOf(v)'[k] = TableOf(v)[k] /\ (TableOf(v)[k] # t \/ v[k] # x[k])
      <4>1. TableOf(v)[k] # 0 => tables'[TableOf(v)[k]][v[k]] = tables[TableOf(v)[k]][v[k]]
        <5>1. CASE TableOf(v)[k] = t
          <6>1. v[k] # x[n]
            <7>1. SUFFICES ASSUME v[k] = x[n] PROVE FALSE OBVIOUS
            <7>2. k = n BY <1>1, <1>2, <5>1 DEF VmmInv, IsTree
            <7>3. QED BY <3>4, <5>1, <7>1, <7>2
          <6>2. QED BY <1>2, <1>4, <3>1, <5>1, <6>1
        <5>2. CASE TableOf(v)[k] # t BY <1>4, <3>1, <5>2
        <5>3. QED BY <5>1, <5>2
      <4>2. Walk(v, k)' = Walk(v, k) BY <3>4, <4>1 DEF Walk
      <4>3. TableOf(v)[k + 1] # 0 BY <2>3, <4>2 DEF VmmInv, IsTree
      <4>4. QED BY <1>1, <1>10, <4>3
    <3>5. QED BY <1>10, <3>2, <3>3, <3>4
  <2>4. QED BY <2>1, <2>2, <2>3 DEF IsTree
<1>13. JobOnPath'
  <2>1. Agree(x, x, n) BY DEF Agree
  <2>2. TableOf(x)'[n + 1] = page BY <1>2, <1>9, <2>1
  <2>3. job'.table = page /\ job'.level = n + 1 /\ job'.v = x BY <1>6
  <2>4. TableOf(job.v)' = TableOf(x)' BY <2>3 DEF TableOf, TableUnder
  <2>5. QED BY <2>2, <2>3, <2>4 DEF JobOnPath
<1>14. ASSUME NEW w \in VAddrs PROVE Walk(w, 4)' = mapped'[w]
  <2>1. w \in Addresses /\ w[4] \in Indices BY AddressesInside
  <2>2. Walk(w, 4) = mapped[w] /\ mapped' = mapped BY DEF VmmInv, TranslateExact, AddTable
  <2>3. CASE TableOf(w)'[4] = TableOf(w)[4]
    <3>1. TableOf(w)[4] # 0 =>
            tables'[TableOf(w)[4]][w[4]] = tables[TableOf(w)[4]][w[4]]
      <4>1. SUFFICES ASSUME TableOf(w)[4] # 0, TableOf(w)[4] = t PROVE FALSE
        BY <1>4, <1>11, <2>1
      <4>2. QED BY <1>1, <1>2, <2>1, <4>1 DEF VmmInv, IsTree
    <3>2. QED BY <2>2, <2>3, <3>1 DEF Walk
  <2>4. CASE TableOf(w)'[4] = page /\ 4 = n + 1 /\ Agree(w, x, n)
    <3>1. TableOf(w)[4] = 0 BY <1>9, <2>1, <2>4
    <3>2. Walk(w, 4)' = Absent BY <1>3, <1>4, <2>1, <2>4 DEF Walk
    <3>3. QED BY <2>2, <3>1, <3>2 DEF Walk
  <2>5. QED BY <1>10, <2>1, <2>3, <2>4
<1>15. QED BY <1>7, <1>12, <1>13, <1>14 DEF VmmInv, TranslateExact

(* At first there is the top-level table alone, and it is empty.            *)
LEMMA VmmStarts ==
  ASSUME VmmInit
  PROVE  VmmInv
<1>1. NewTable \in [Indices -> Entry] /\ \A i \in Indices : NewTable[i] = Absent
  BY DEF NewTable, Absent, Entry
<1>2. /\ DOMAIN tables = {Root} /\ tables[Root] = NewTable /\ tables \in [{Root} -> [Indices -> Entry]]
      /\ Root # 0
  BY <1>1, VmmAssumption DEF VmmInit
<1>3. VmmTypeOK
  BY <1>2 DEF VmmInit, VmmTypeOK, Absent, Entry
<1>4. ASSUME NEW v \in Addresses
      PROVE  TableOf(v)[1] = Root /\ \A k \in 1 .. 3 : TableOf(v)[k + 1] = 0
  <2>1. v[1] \in Indices BY DEF Addresses
  <2>2. ~ tables[Root][v[1]].present BY <1>1, <1>2, <2>1 DEF Absent
  <2>3. TableUnder(Root, v[1]) = 0 BY <2>2 DEF TableUnder
  <2>4. TableOf(v)[2] = 0 BY <2>3 DEF TableOf
  <2>5. \A k \in 1 .. 3 : TableOf(v)[k] = 0 => TableOf(v)[k + 1] = 0
    BY WalkSteps DEF TableUnder
  <2>6. QED BY <2>4, <2>5, WalkSteps
<1>5. \A v \in Addresses : ~ Walk(v, 1).present
  BY <1>1, <1>2, <1>4 DEF Walk, Absent, Addresses
<1>6. \A v \in Addresses, k \in 2 .. 4 : Walk(v, k) = Absent
  BY <1>4 DEF Walk
<1>7. IsTree
  <2>1. \A v \in Addresses, k \in 1 .. 4 : TableOf(v)[k] # 0 => k = 1 BY <1>4
  <2>2. \A v \in Addresses, k \in 1 .. 4 : TableOf(v)[k] \in {Root, 0} BY <1>4
  <2>3. \A v, w : Agree(v, w, 0) BY DEF Agree
  <2>4. \A v \in Addresses, k \in 1 .. 3 : ~ Walk(v, k).present
    BY <1>5, <1>6 DEF Absent
  <2>5. QED BY <1>2, <2>1, <2>2, <2>3, <2>4 DEF IsTree
<1>8. JobOnPath BY DEF VmmInit, JobOnPath, NoJob
<1>9. TranslateExact
  BY <1>6, AddressesInside DEF TranslateExact, VmmInit
<1>10. QED BY <1>3, <1>7, <1>8, <1>9 DEF VmmInv

(* The steps of map_page and unmap_page that take no page.                  *)
LEMMA VmmStepKeepsInv ==
  ASSUME VmmInv, VmmStep
  PROVE  VmmInv'
<1>1. ASSUME NEW v \in VAddrs, NEW f \in Frames, NEW u \in BOOLEAN, MapPage(v, f, u)
      PROVE  VmmInv'
  <2>1. IsTree' /\ TranslateExact' BY <1>1, NoWriteKeepsTree DEF MapPage
  <2>2. VmmTypeOK' BY <1>1 DEF VmmInv, VmmTypeOK, MapPage
  <2>3. JobOnPath' BY <1>1 DEF JobOnPath, MapPage, TableOf
  <2>4. QED BY <2>1, <2>2, <2>3 DEF VmmInv
<1>2. ASSUME Descend PROVE VmmInv'
  <2>1. /\ IsTree' /\ TranslateExact'
        /\ \A v : TableOf(v)' = TableOf(v)
    BY <1>2, NoWriteKeepsTree DEF Descend
  <2>2. /\ job.level \in 1 .. 3
        /\ job \in [level : 1 .. 4, table : DOMAIN tables, v : VAddrs,
                    paddr : Frames, user : BOOLEAN]
        /\ job.table = TableOf(job.v)[job.level]
    BY <1>2 DEF Descend, VmmInv, VmmTypeOK, JobOnPath, NoJob
  <2>3. PICK n \in 1 .. 3, x \in VAddrs : n = job.level /\ x = job.v BY <2>2
  <2>4. x \in Addresses /\ x[n] \in Indices BY <2>3, AddressesInside
  <2>5. job.table # 0 BY <2>2 DEF VmmInv, VmmTypeOK
  <2>6. TableOf(x)[n + 1] = Here.page /\ Walk(x, n) = Here
    BY <1>2, <2>2, <2>3, <2>5, WalkSteps DEF TableUnder, Descend, Here, Walk
  <2>7. TableOf(x)[n + 1] \in DOMAIN tables
    <3>1. TableOf(x)[n + 1] # 0 BY <1>2, <2>3, <2>4, <2>6 DEF VmmInv, IsTree, Descend
    <3>2. n + 1 \in 1 .. 4 BY <2>3
    <3>3. QED BY <2>4, <3>1, <3>2 DEF VmmInv, IsTree
  <2>8. job' = [level |-> n + 1, table |-> Here.page, v |-> x, paddr |-> job.paddr,
                user |-> job.user]
    BY <1>2, <2>3 DEF Descend, GoOnIn
  <2>9. VmmTypeOK'
    BY <1>2, <2>2, <2>6, <2>7, <2>8 DEF VmmInv, VmmTypeOK, Descend
  <2>10. JobOnPath'
    <3>1. TableOf(job.v)' = TableOf(x)' BY <2>8 DEF TableOf, TableUnder
    <3>2. TableOf(x)' = TableOf(x) BY <2>1
    <3>3. QED BY <2>6, <2>8, <3>1, <3>2 DEF JobOnPath
  <2>11. QED BY <2>1, <2>9, <2>10 DEF VmmInv
<1>3. ASSUME SetEntry PROVE VmmInv'
  <2>1. /\ job.level = 4
        /\ job \in [level : 1 .. 4, table : DOMAIN tables, v : VAddrs,
                    paddr : Frames, user : BOOLEAN]
        /\ job.table = TableOf(job.v)[4]
    BY <1>3 DEF SetEntry, VmmInv, VmmTypeOK, JobOnPath, NoJob
  <2>2. PICK x \in VAddrs, e \in Entry :
          x = job.v /\ e = [present |-> TRUE, page |-> job.paddr, user |-> job.user]
    BY <2>1 DEF Entry
  <2>3. /\ TableOf(x)[4] # 0
        /\ tables' = [tables EXCEPT ![TableOf(x)[4]][x[4]] = e]
        /\ mapped' = [mapped EXCEPT ![x] = e]
        /\ job' = NoJob
    BY <1>3, <2>1, <2>2 DEF SetEntry, VmmInv, VmmTypeOK
  <2>4. QED BY <2>3, LastWriteKeepsInv
<1>4. ASSUME NEW v \in VAddrs, UnmapPage(v) PROVE VmmInv'
  <2>1. CASE TableOf(v)[4] # 0
    <3>1. Absent \in Entry BY DEF Absent, Entry
    <3>2. job = NoJob /\ job' = NoJob
      BY <1>4 DEF UnmapPage, VmmInv, VmmTypeOK
    <3>3. QED BY <1>4, <2>1, <3>1, <3>2, LastWriteKeepsInv DEF UnmapPage
  <2>2. CASE TableOf(v)[4] = 0
    <3>1. mapped[v] = Absent BY <2>2 DEF VmmInv, TranslateExact, Walk
    <3>2. mapped' = mapped /\ tables' = tables /\ job' = job
      BY <1>4, <2>2, <3>1 DEF UnmapPage, VmmInv, VmmTypeOK
    <3>3. IsTree' /\ TranslateExact' BY <3>2, NoWriteKeepsTree
    <3>4. job' = NoJob BY <1>4, <3>2 DEF UnmapPage, VmmInv, VmmTypeOK
    <3>5. QED BY <3>2, <3>3, <3>4 DEF VmmInv, VmmTypeOK, JobOnPath, NoJob
  <2>3. QED BY <2>1, <2>2
<1>5. QED BY <1>1, <1>2, <1>3, <1>4 DEF VmmStep

(* alloc_page has none: the walk is given up.                               *)
LEMMA GiveUpKeepsInv ==
  ASSUME VmmInv, GiveUp
  PROVE  VmmInv'
<1>1. IsTree' /\ TranslateExact' BY NoWriteKeepsTree DEF GiveUp
<1>2. VmmTypeOK' /\ JobOnPath' BY DEF GiveUp, VmmInv, VmmTypeOK, JobOnPath, NoJob
<1>3. QED BY <1>1, <1>2 DEF VmmInv

LEMMA NoVmmStepKeepsInv ==
  ASSUME VmmInv, UNCHANGED vmmVars
  PROVE  VmmInv'
<1>1. IsTree' /\ TranslateExact' /\ \A v : TableOf(v)' = TableOf(v)
  BY NoWriteKeepsTree DEF vmmVars
<1>2. VmmTypeOK' BY DEF VmmInv, VmmTypeOK, vmmVars
<1>3. JobOnPath' BY DEF VmmInv, JobOnPath, vmmVars, TableOf, TableUnder
<1>4. QED BY <1>1, <1>2, <1>3 DEF VmmInv

-----------------------------------------------------------------------------
(* The users of the memory.                                                 *)

SlabPieces == IF slab = 0 THEN {} ELSE {[lo |-> slab, hi |-> slab + SlabSize]}

(* The slab and each page table but the first are pieces of their own that  *)
(* the bump allocator has handed out.                                       *)
UsersInv ==
  /\ slab \in Nat /\ (slab = 0 => live = {})
  /\ DOMAIN tables \ {Root} \subseteq Nat
  /\ TablePieces \cup SlabPieces \subseteq pieces
  /\ TablePieces \cap SlabPieces = {}

MemoryInv == BumpInv /\ SlabInv /\ VmmInv /\ UsersInv

LEMMA SizesInside ==
  /\ PageSize \in Nat \ {0} /\ WordSize \in Nat \ {0} /\ SlabSize \in Nat \ {0}
  /\ NoWrap(PageSize, PageSize) /\ NoWrap(SlabSize, WordSize)
  /\ Base \in Nat \ {0} /\ Size \in Nat /\ Limit \in Nat /\ BlockSize \in Nat
  /\ Root \notin Base .. Limit
<1>1. Base \in Nat \ {0} /\ Size \in Nat BY RegionAssumption
<1>2. QED BY <1>1, MemoryAssumption DEF Limit

(* A table on a piece that alloc has just handed out is no table yet, and   *)
(* its piece is not that of the slab.                                       *)
LEMMA NewPageIsFresh ==
  ASSUME MemoryInv, NEW page, page = AlignUp(cursor, PageSize),
         BumpAlloc(PageSize, PageSize)
  PROVE  /\ page \in Nat /\ page # 0 /\ page # Root /\ page \notin DOMAIN tables
         /\ pieces' = pieces \cup {[lo |-> page, hi |-> page + PageSize]}
         /\ [lo |-> page, hi |-> page + PageSize] \notin SlabPieces
<1>1. /\ page \in cursor .. Limit
      /\ pieces' = pieces \cup {[lo |-> page, hi |-> page + PageSize]}
  BY AllocAdvances, SizesInside DEF MemoryInv
<1>2. cursor \in Nat /\ cursor >= Base /\ cursor <= Limit
  BY SizesInside DEF MemoryInv, BumpInv, BumpTypeOK
<1>3. page \in Nat /\ page # 0 /\ page # Root
  BY <1>1, <1>2, SizesInside
<1>4. \A p \in pieces : p.hi <= cursor /\ p.lo \in Nat
  BY DEF MemoryInv, BumpInv, BumpTypeOK, PiecesDisjoint
<1>5. ASSUME page \in DOMAIN tables PROVE FALSE
  <2>1. [lo |-> page, hi |-> page + PageSize] \in TablePieces
    BY <1>3, <1>5 DEF TablePieces
  <2>2. page + PageSize <= cursor
    BY <2>1, <1>4 DEF MemoryInv, UsersInv
  <2>3. QED BY <1>1, <1>2, <1>3, <2>2, SizesInside
<1>6. ASSUME [lo |-> page, hi |-> page + PageSize] \in SlabPieces PROVE FALSE
  <2>1. page + PageSize <= cursor
    BY <1>4, <1>6 DEF MemoryInv, UsersInv
  <2>2. QED BY <1>1, <1>2, <1>3, <2>1, SizesInside
<1>7. QED BY <1>1, <1>3, <1>5, <1>6

LEMMA MemoryStarts ==
  ASSUME Init
  PROVE  MemoryInv
<1>1. BumpInv
  BY SizesInside DEF Init, BumpInit, BumpInv, BumpTypeOK, PiecesDisjoint, Limit
<1>2. UsersInv
  BY DEF Init, SlabInit, VmmInit, UsersInv, TablePieces, SlabPieces
<1>3. QED BY <1>1, <1>2, SlabStarts, VmmStarts DEF Init, MemoryInv

LEMMA MemoryStepKeepsInv ==
  ASSUME MemoryInv, [Next]_vars
  PROVE  MemoryInv'
<1>1. CASE Request
  <2>1. PICK r \in Requests : BumpAlloc(r.size, r.align) \/ BumpFails(r.size, r.align)
    BY <1>1 DEF Request
  <2>2. r.size \in Nat /\ r.align \in Nat \ {0} /\ NoWrap(r.size, r.align)
    BY RequestAssumption, RegionAssumption, MemoryAssumption
  <2>3. BumpInv'
    BY <2>1, <2>2, AllocKeepsBump DEF MemoryInv, BumpFails, bumpVars, BumpInv, BumpTypeOK, PiecesDisjoint
  <2>4. pieces \subseteq pieces' BY <2>1 DEF BumpAlloc, BumpFails, bumpVars
  <2>5. UsersInv'
    BY <1>1, <2>4 DEF Request, MemoryInv, UsersInv, slabVars, vmmVars, TablePieces, SlabPieces
  <2>6. SlabInv' /\ VmmInv'
    BY <1>1, SlabStepKeepsInv, NoVmmStepKeepsInv DEF Request, MemoryInv
  <2>7. QED BY <2>3, <2>5, <2>6 DEF MemoryInv
<1>2. CASE BuildSlab
  <2>1. /\ slab' \in cursor .. Limit
        /\ pieces' = pieces \cup {[lo |-> slab', hi |-> slab' + SlabSize]}
    BY <1>2, AllocAdvances, SizesInside DEF BuildSlab, MemoryInv
  <2>2. BumpInv' BY <1>2, AllocKeepsBump, SizesInside DEF BuildSlab, MemoryInv
  <2>3. cursor \in Nat /\ cursor >= Base BY SizesInside DEF MemoryInv, BumpInv, BumpTypeOK
  <2>4. slab' \in Nat /\ slab' # 0 BY <2>1, <2>3, SizesInside
  <2>5. \A p \in pieces : p.hi <= cursor
    BY DEF MemoryInv, BumpInv, PiecesDisjoint
  <2>6. [lo |-> slab', hi |-> slab' + SlabSize] \notin pieces
    BY <2>1, <2>3, <2>4, <2>5, SizesInside
  <2>7. SlabPieces' = {[lo |-> slab', hi |-> slab' + SlabSize]}
    BY <2>4 DEF SlabPieces
  <2>8. TablePieces' = TablePieces BY <1>2 DEF BuildSlab, vmmVars, TablePieces
  <2>9. UsersInv'
    BY <1>2, <2>1, <2>4, <2>6, <2>7, <2>8 DEF BuildSlab, MemoryInv, UsersInv, vmmVars
  <2>10. SlabInv' /\ VmmInv'
    BY <1>2, NewSlabIsRight, NoVmmStepKeepsInv DEF BuildSlab, MemoryInv
  <2>11. QED BY <2>2, <2>9, <2>10 DEF MemoryInv
<1>3. CASE UseSlab
  <2>1. SlabInv' /\ VmmInv'
    BY <1>3, SlabStepKeepsInv, NoVmmStepKeepsInv DEF UseSlab, MemoryInv
  <2>2. BumpInv'
    BY <1>3 DEF UseSlab, bumpVars, MemoryInv, BumpInv, BumpTypeOK, PiecesDisjoint
  <2>3. UsersInv'
    BY <1>3 DEF UseSlab, bumpVars, vmmVars, MemoryInv, UsersInv, TablePieces, SlabPieces
  <2>4. QED BY <2>1, <2>2, <2>3 DEF MemoryInv
<1>4. CASE NewTableStep
  <2>1. SlabInv' BY <1>4, SlabStepKeepsInv DEF NewTableStep, MemoryInv
  <2>2. CASE BumpAlloc(PageSize, PageSize) /\ AddTable(AlignUp(cursor, PageSize))
    <3>1. PICK page \in Nat : page = AlignUp(cursor, PageSize)
      <4>1. AlignUp(cursor, PageSize) \in cursor .. Limit
        BY <2>2, AllocAdvances, SizesInside DEF MemoryInv
      <4>2. cursor \in Nat BY SizesInside DEF MemoryInv, BumpInv, BumpTypeOK
      <4>3. QED BY <4>1, <4>2, SizesInside
    <3>2. /\ page # 0 /\ page # Root /\ page \notin DOMAIN tables
          /\ pieces' = pieces \cup {[lo |-> page, hi |-> page + PageSize]}
          /\ [lo |-> page, hi |-> page + PageSize] \notin SlabPieces
      BY <2>2, <3>1, NewPageIsFresh
    <3>3. AddTable(page) BY <2>2, <3>1
    <3>4. VmmInv' BY <3>2, <3>3, AddTableKeepsInv DEF MemoryInv
    <3>5. BumpInv' BY <2>2, AllocKeepsBump, SizesInside DEF MemoryInv
    <3>6. DOMAIN tables' = DOMAIN tables \cup {page} BY <3>3 DEF AddTable
    <3>7. TablePieces' = TablePieces \cup {[lo |-> page, hi |-> page + PageSize]}
      BY <3>2, <3>6 DEF TablePieces
    <3>8. slab' = slab /\ live' = live /\ SlabPieces' = SlabPieces
      BY <1>4 DEF NewTableStep, slabVars, SlabPieces
    <3>9. UsersInv'
      BY <3>1, <3>2, <3>6, <3>7, <3>8 DEF MemoryInv, UsersInv
    <3>10. QED BY <2>1, <3>4, <3>5, <3>9 DEF MemoryInv
  <2>3. CASE BumpFails(PageSize, PageSize) /\ GiveUp
    <3>1. VmmInv' BY <2>3, GiveUpKeepsInv DEF MemoryInv
    <3>2. BumpInv'
      BY <2>3 DEF BumpFails, bumpVars, MemoryInv, BumpInv, BumpTypeOK, PiecesDisjoint
    <3>3. UsersInv'
      BY <1>4, <2>3 DEF NewTableStep, slabVars, BumpFails, bumpVars, GiveUp, MemoryInv,
                        UsersInv, TablePieces, SlabPieces
    <3>4. QED BY <2>1, <3>1, <3>2, <3>3 DEF MemoryInv
  <2>4. QED BY <1>4, <2>2, <2>3 DEF NewTableStep
<1>5. CASE VmmStep
  <2>1. VmmInv' BY <1>5, VmmStepKeepsInv DEF MemoryInv
  <2>2. SlabInv' BY <1>5, SlabStepKeepsInv DEF VmmStep, MemoryInv
  <2>3. BumpInv'
    BY <1>5 DEF VmmStep, bumpVars, MemoryInv, BumpInv, BumpTypeOK, PiecesDisjoint
  <2>4. DOMAIN tables' = DOMAIN tables
    BY <1>5 DEF VmmStep, MapPage, Descend, SetEntry, UnmapPage
  <2>5. UsersInv'
    BY <1>5, <2>4 DEF VmmStep, bumpVars, slabVars, MemoryInv, UsersInv, TablePieces, SlabPieces
  <2>6. QED BY <2>1, <2>2, <2>3, <2>5 DEF MemoryInv
<1>6. CASE Reset
  <2>1. SlabInv' /\ VmmInv'
    BY <1>6, SlabStepKeepsInv, NoVmmStepKeepsInv DEF Reset, MemoryInv
  <2>2. BumpInv'
    BY <1>6, SizesInside DEF Reset, BumpReset, BumpInv, BumpTypeOK, PiecesDisjoint, Limit
  <2>3. UsersInv'
    BY <1>6 DEF Reset, slabVars, vmmVars, MemoryInv, UsersInv, TablePieces, SlabPieces
  <2>4. QED BY <2>1, <2>2, <2>3 DEF MemoryInv
<1>7. CASE UNCHANGED vars
  <2>1. SlabInv' /\ VmmInv'
    BY <1>7, SlabStepKeepsInv, NoVmmStepKeepsInv DEF vars, MemoryInv
  <2>2. BumpInv'
    BY <1>7 DEF vars, bumpVars, MemoryInv, BumpInv, BumpTypeOK, PiecesDisjoint
  <2>3. UsersInv'
    BY <1>7 DEF vars, bumpVars, slabVars, vmmVars, MemoryInv, UsersInv, TablePieces, SlabPieces
  <2>4. QED BY <2>1, <2>2, <2>3 DEF MemoryInv
<1>8. QED BY <1>1, <1>2, <1>3, <1>4, <1>5, <1>6, <1>7 DEF Next

(* The blocks of the slab are inside its piece.                             *)
LEMMA BlocksInside ==
  ASSUME NEW b \in Blocks, slab \in Nat
  PROVE  slab <= BlockPiece(b).lo /\ BlockPiece(b).hi <= slab + SlabSize
<1>1. PICK k \in Nat : Total = b + 1 + k
  <2>1. b \in Nat /\ Total \in Nat /\ Total = b + 1 + (Total - b - 1) /\ Total - b - 1 \in Nat
    BY TotalAssumption DEF Blocks
  <2>2. QED BY <2>1
<1>2. b \in Nat /\ BlockSize \in Nat /\ WordSize \in Nat /\ Total \in Nat
  BY TotalAssumption, SizesInside DEF Blocks
<1>3. Total * BlockSize = (b * BlockSize) + BlockSize + (k * BlockSize)
  BY <1>1, <1>2
<1>4. b * BlockSize \in Nat /\ k * BlockSize \in Nat /\ Total * WordSize \in Nat
  BY <1>1, <1>2
<1>5. QED BY <1>2, <1>3, <1>4 DEF BlockPiece, BlockAt, SlabSize

LEMMA InvKeepsUsersApart ==
  ASSUME MemoryInv
  PROVE  UsersApart
<1> DEFINE whole == [lo |-> slab, hi |-> slab + SlabSize]
<1>1. ASSUME NEW p \in LivePieces
      PROVE  whole \in SlabPieces /\ whole.lo <= p.lo /\ p.hi <= whole.hi
  <2>1. slab \in Nat /\ slab # 0 /\ live \subseteq Blocks
    BY <1>1 DEF LivePieces, MemoryInv, UsersInv, SlabInv, SlabTypeOK
  <2>2. QED BY <1>1, <2>1, BlocksInside DEF LivePieces, SlabPieces
<1>2. /\ TablePieces \cup SlabPieces \subseteq pieces
      /\ TablePieces \cap SlabPieces = {}
      /\ slab \in Nat /\ live \subseteq Blocks
  BY DEF MemoryInv, UsersInv, SlabInv, SlabTypeOK
<1>3. /\ \A p, q \in pieces : p # q => p.hi <= q.lo \/ q.hi <= p.lo
      /\ \A p \in pieces : p.lo \in Nat /\ p.hi \in Nat
  BY DEF MemoryInv, BumpInv, BumpTypeOK, PiecesDisjoint
<1>4. \A p \in LivePieces : p.lo \in Nat /\ p.hi \in Nat
  BY <1>2, TotalAssumption, SizesInside DEF LivePieces, BlockPiece, BlockAt, Blocks
<1> HIDE DEF whole
<1>5. ASSUME NEW p \in TablePieces \cup LivePieces
      PROVE  \E q \in pieces : q.lo <= p.lo /\ p.hi <= q.hi
  <2>1. CASE p \in TablePieces
    <3>1. p \in pieces /\ p.lo <= p.lo /\ p.hi <= p.hi BY <1>2, <1>3, <2>1
    <3>2. QED BY <3>1
  <2>2. CASE p \in LivePieces BY <1>1, <1>2, <2>2
  <2>3. QED BY <2>1, <2>2
<1>6. ASSUME NEW p \in TablePieces, NEW q \in LivePieces
      PROVE  p.hi <= q.lo \/ q.hi <= p.lo
  <2>1. whole \in SlabPieces /\ whole.lo <= q.lo /\ q.hi <= whole.hi BY <1>1
  <2>2. p # whole /\ p \in pieces /\ whole \in pieces BY <1>2, <2>1
  <2>3. p.hi <= whole.lo \/ whole.hi <= p.lo BY <1>3, <2>2
  <2>4. QED BY <1>3, <1>4, <2>1, <2>2, <2>3
<1>7. ASSUME NEW p \in LivePieces, NEW q \in LivePieces, p # q
      PROVE  p.hi <= q.lo \/ q.hi <= p.lo
  <2>1. PICK i \in Blocks, j \in Blocks : p = BlockPiece(i) /\ q = BlockPiece(j)
    BY <1>2 DEF LivePieces
  <2>2. PICK memory \in Nat : memory = slab + Total * WordSize
    BY <1>2, TotalAssumption, SizesInside
  <2>3. i < j \/ j < i
    BY <1>7, <2>1, TotalAssumption DEF Blocks
  <2>4. i < j => BlockAt(memory, BlockSize, i) + BlockSize <= BlockAt(memory, BlockSize, j)
    BY BlocksApart, SizesInside
  <2>5. j < i => BlockAt(memory, BlockSize, j) + BlockSize <= BlockAt(memory, BlockSize, i)
    BY BlocksApart, SizesInside
  <2>6. QED BY <2>1, <2>2, <2>3, <2>4, <2>5 DEF BlockPiece
<1>8. QED BY <1>2, <1>3, <1>5, <1>6, <1>7 DEF UsersApart

(* The parts hold together in every state of the kernel's memory.           *)
THEOREM MemoryInvariant == Spec => []MemoryInv
<1>1. Init => MemoryInv BY MemoryStarts
<1>2. MemoryInv /\ [Next]_vars => MemoryInv' BY MemoryStepKeepsInv
<1>3. QED BY <1>1, <1>2, PTL DEF Spec

(* What BumpAllocator::alloc hands out, in the size asked for, lies in its  *)
(* region and overlaps nothing handed out before, for all sizes and all     *)
(* alignments of powers of two for which its sums do not wrap               *)
(* (MemoryAssumption).                                                      *)
THEOREM MemoryPiecesDisjoint == Spec => []PiecesDisjoint
<1>1. MemoryInv => PiecesDisjoint BY DEF MemoryInv, BumpInv
<1>2. QED BY <1>1, MemoryInvariant, PTL

(* The free list is exact of each slab the kernel builds on such a piece and*)
(* gives up again with a reset, when none of its blocks is in use.          *)
THEOREM MemoryFreeListExact == Spec => []FreeListExact
<1>1. MemoryInv => FreeListExact BY DEF MemoryInv, SlabInv
<1>2. QED BY <1>1, MemoryInvariant, PTL

(* translate finds what map_page and unmap_page were told, for every        *)
(* address, also in the middle of a map_page and after one that failed.     *)
THEOREM MemoryTranslateExact == Spec => []TranslateExact
<1>1. MemoryInv => TranslateExact BY DEF MemoryInv, VmmInv
<1>2. QED BY <1>1, MemoryInvariant, PTL

(* No memory is used for two things: page tables and the blocks in use are  *)
(* apart from each other, inside pieces of the bump allocator.              *)
THEOREM MemoryUsersApart == Spec => []UsersApart
<1>1. MemoryInv => UsersApart BY InvKeepsUsersApart
<1>2. QED BY <1>1, MemoryInvariant, PTL

=============================================================================
