----------------------------- MODULE SlabAllocator -----------------------------
(***************************************************************************)
(* SlabAllocator of stdlib/mem/allocator.qp: Total blocks of the same size *)
(* after an array free_list, whose first free_count entries are the indices*)
(* of the free blocks.  Blocks are named by their index here; BlockAt is   *)
(* the conversion to an address.                                           *)
(***************************************************************************)
EXTENDS Naturals, FiniteSets

CONSTANT Total   (* total.                                                 *)

ASSUME TotalAssumption == Total \in Nat \ {0}

Blocks == 0 .. Total - 1

VARIABLES
  free_count, free_list,
  live       (* History: the blocks that alloc has returned and that have  *)
             (* not been freed since.                                      *)

slabVars == <<free_count, free_list, live>>

SlabInit ==
  /\ free_count = Total
  /\ free_list  = [i \in Blocks |-> i]
  /\ live = {}

(* SlabAllocator::new.                                                      *)
SlabNew ==
  /\ free_count' = Total
  /\ free_list'  = [i \in Blocks |-> i]
  /\ live' = {}

(* The address of a block, memory being the first byte after the free list. *)
BlockAt(memory, size, idx) == memory + idx * size

(* Mutant: the entry is read before the count goes down.                    *)
SlabAllocTooHigh ==
  /\ free_count > 0
  /\ free_count' = free_count - 1
  /\ live' = live \cup {free_list[free_count % Total]}
  /\ UNCHANGED free_list

(* alloc() with a block left.                                               *)
SlabAlloc ==
  /\ free_count > 0
  /\ free_count' = free_count - 1
  /\ live' = live \cup {free_list[free_count - 1]}
  /\ UNCHANGED free_list

(* alloc() with none: null.                                                 *)
SlabFails == free_count = 0 /\ UNCHANGED slabVars

(* free(p) for a block that has been handed out; the code does not check    *)
(* that, it is what its caller must see to.                                 *)
SlabFree(b) ==
  /\ b \in live
  /\ free_list' = [free_list EXCEPT ![free_count] = b]
  /\ free_count' = free_count + 1
  /\ live' = live \ {b}

SlabNext == SlabAlloc \/ SlabFails \/ \E b \in Blocks : SlabFree(b)

SlabSpec == SlabInit /\ [][SlabNext]_slabVars

-----------------------------------------------------------------------------

FreeEntries == 0 .. free_count - 1

(* The free list names each block that is not in use, and none twice: no    *)
(* block is handed out while it is in use, none gets lost, and free never   *)
(* writes past the end of the list into the first block.                    *)
FreeListExact ==
  /\ free_count + Cardinality(live) = Total
  /\ \A i \in FreeEntries : free_list[i] \in Blocks \ live
  /\ \A i, j \in FreeEntries : free_list[i] = free_list[j] => i = j

=============================================================================
