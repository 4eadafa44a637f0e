-------------------------------- MODULE Memory --------------------------------
(***************************************************************************)
(* The memory modules together, as a kernel puts them to use: a bump       *)
(* allocator owns the physical memory; a slab allocator is built on a piece*)
(* of it, and map_page takes the pages for its tables from it              *)
(* ("Caller must supply a bump allocator that returns zeroed physical      *)
(* pages", stdlib/mem/vmm.qp:70).                                          *)
(***************************************************************************)
EXTENDS BumpAllocator, SlabAllocator, Vmm

CONSTANTS
  PageSize,    (* 4096.                                                    *)
  WordSize,    (* 8, the size of an entry of the slab's free list.         *)
  BlockSize    (* block_size of the slab.                                  *)

SlabSize == Total * WordSize + Total * BlockSize

(* Nobody asks for so much that a sum of alloc wraps; and the top-level     *)
(* table is not in the region.                                              *)
ASSUME MemoryAssumption ==
  /\ {PageSize, WordSize, SlabSize} \subseteq Nat \ {0} /\ BlockSize \in Nat
  /\ PowerOfTwo(PageSize) /\ PowerOfTwo(WordSize)
  /\ NoWrap(PageSize, PageSize) /\ NoWrap(SlabSize, WordSize)
  /\ \A r \in Requests : NoWrap(r.size, r.align)
  /\ Root \notin Base .. Limit

VARIABLE slab  (* Where the slab is: the argument memory of new, or 0.     *)

vars == <<bumpVars, slabVars, vmmVars, slab>>

Init == BumpInit /\ SlabInit /\ VmmInit /\ slab = 0

(* Somebody asks the bump allocator for memory of their own.                *)
Request ==
  /\ \E r \in Requests : BumpAlloc(r.size, r.align) \/ BumpFails(r.size, r.align)
  /\ UNCHANGED <<slabVars, vmmVars, slab>>

(* SlabAllocator::new on a piece of the right size.                         *)
BuildSlab ==
  /\ slab = 0
  /\ BumpAlloc(SlabSize, WordSize)
  /\ slab' = AlignUp(cursor, WordSize)
  /\ SlabNew
  /\ UNCHANGED vmmVars

UseSlab ==
  /\ slab # 0
  /\ SlabNext
  /\ UNCHANGED <<bumpVars, vmmVars, slab>>

(* A step of map_page that needs a page, with alloc_page taking it from the *)
(* bump allocator.                                                          *)
NewTableStep ==
  /\ \/ BumpAlloc(PageSize, PageSize) /\ AddTable(AlignUp(cursor, PageSize))
     \/ BumpFails(PageSize, PageSize) /\ GiveUp
  /\ UNCHANGED <<slabVars, slab>>

VmmStep ==
  /\ \/ \E v \in VAddrs, f \in Frames, u \in BOOLEAN : MapPage(v, f, u)
     \/ Descend
     \/ SetEntry
     \/ \E v \in VAddrs : UnmapPage(v)
  /\ UNCHANGED <<bumpVars, slabVars, slab>>

(* reset(), which the kernel may call while nobody uses the memory.  The    *)
(* slab is given up with it.                                                *)
Reset ==
  /\ live = {}
  /\ DOMAIN tables = {Root}
  /\ job.level = 0
  /\ BumpReset
  /\ slab' = 0
  /\ UNCHANGED <<slabVars, vmmVars>>

Next == Request \/ BuildSlab \/ UseSlab \/ NewTableStep \/ VmmStep \/ Reset

Spec == Init /\ [][Next]_vars

-----------------------------------------------------------------------------

(* The block b of the slab.                                                 *)
BlockPiece(b) ==
  LET lo == BlockAt(slab + Total * WordSize, BlockSize, b)
  IN  [lo |-> lo, hi |-> lo + BlockSize]

TablePieces == {[lo |-> p, hi |-> p + PageSize] : p \in DOMAIN tables \ {Root}}
LivePieces  == {BlockPiece(b) : b \in live}

(* No memory is used for two things: page tables and the live blocks of the *)
(* slab are apart from each other, and inside pieces of the bump allocator. *)
UsersApart ==
  /\ \A p \in TablePieces \cup LivePieces :
       \E q \in pieces : q.lo <= p.lo /\ p.hi <= q.hi
  /\ \A p, q \in TablePieces \cup LivePieces : p # q => p.hi <= q.lo \/ q.hi <= p.lo

=============================================================================
