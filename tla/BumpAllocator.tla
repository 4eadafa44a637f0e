----------------------------- MODULE BumpAllocator -----------------------------
(***************************************************************************)
(* BumpAllocator of stdlib/mem/allocator.qp: a region of memory that is    *)
(* handed out from its lower end to its upper end.                         *)
(***************************************************************************)
EXTENDS Naturals

CONSTANTS
  Base,          (* base: the first address of the region, never 0 (null). *)
  Size,          (* The size of the region.                                *)
  AddressLimit,  (* The number of addresses, 2^64.                         *)
  Requests       (* The sizes and alignments that alloc is called with.    *)

Limit == Base + Size   (* limit.                                           *)

ASSUME RegionAssumption ==
  /\ Base \in Nat \ {0} /\ Size \in Nat \ {0}
  /\ AddressLimit \in Nat /\ Limit < AddressLimit

(* Alignments are powers of two; alloc does not check that.                 *)
PowerOfTwo(n) == \E k \in 0 .. n : n = 2 ^ k

ASSUME RequestAssumption ==
  /\ Requests \subseteq [size : 0 .. AddressLimit - 1, align : 1 .. AddressLimit - 1]
  /\ \A r \in Requests : PowerOfTwo(r.align)

(* The sums of alloc do not wrap, wherever in the region the cursor is.     *)
(* alloc does not check that either.                                        *)
NoWrap(size, align) == Limit + size + align <= AddressLimit

VARIABLES
  cursor,    (* cursor: the first address that has not been handed out.    *)
  pieces     (* History: what has been handed out since new or reset, as   *)
             (* records of the address returned and of the one that follows*)
             (* the size asked for.                                        *)

bumpVars == <<cursor, pieces>>

BumpInit == cursor = Base /\ pieces = {}

(* Mutant: the address is rounded down.                                     *)
AlignDown(a, align) == (a \div align) * align

(* (a + align - 1) & ~(align - 1): align - 1 are the bits below that of a   *)
(* power of two, and without them a number is less by its remainder.        *)
AlignUp(a, align) ==
  LET sum == ((a + align) - 1) % AddressLimit
  IN  sum - (sum % align)

(* Mutant: the end is not compared with the limit of the region.            *)
FitsAnywhere(size, align) == AlignUp(cursor, align) # 0

(* The test of alloc: there is room for size more at an aligned address.    *)
Fits(size, align) == (AlignUp(cursor, align) + size) % AddressLimit <= Limit

(* alloc(size, align) when there is room; it returns AlignUp(cursor, align).*)
BumpAlloc(size, align) ==
  /\ Fits(size, align)
  /\ cursor' = (AlignUp(cursor, align) + size) % AddressLimit
  /\ pieces' = pieces \cup {[lo |-> AlignUp(cursor, align),
                              hi |-> AlignUp(cursor, align) + size]}

(* alloc when there is none: null, and nothing changes.                     *)
BumpFails(size, align) == ~ Fits(size, align) /\ UNCHANGED bumpVars

(* reset(): everything handed out is given up.                              *)
BumpReset == cursor' = Base /\ pieces' = {}

-----------------------------------------------------------------------------

(* The bytes asked for lie inside the region, from base to limit, and       *)
(* overlap none that were handed out before.  The requests are those of     *)
(* Memory, whose sums do not wrap (MemoryAssumption): alloc does not check  *)
(* that, and grants a size near AddressLimit, outside of the region and     *)
(* with a cursor that goes back.                                            *)
PiecesDisjoint ==
  /\ \A p \in pieces : Base <= p.lo /\ p.lo <= p.hi /\ p.hi <= cursor /\ cursor <= Limit
  /\ \A p, q \in pieces : p # q => p.hi <= q.lo \/ q.hi <= p.lo

=============================================================================
