---------------------------------- MODULE Vmm ----------------------------------
(***************************************************************************)
(* The virtual memory manager, stdlib/mem/vmm.qp: map_page, unmap_page and *)
(* translate over four levels of page tables, in an address space used by  *)
(* one thread at a time.  map_page is a step for each level, because each  *)
(* level may need a page from alloc_page, which may have none left.        *)
(*                                                                         *)
(* A virtual address is the tuple of its four indices; the offset inside   *)
(* the page does not matter.  A physical address is that of a page, 0 none.*)
(***************************************************************************)
EXTENDS Naturals, Sequences

CONSTANTS
  Indices,   (* The values of an index, 0 .. 511.                          *)
  VAddrs,    (* The virtual addresses that are mapped.                     *)
  Frames,    (* The physical pages that they are mapped to.                *)
  Root       (* pml4_phys.                                                 *)

ASSUME VmmAssumption ==
  /\ VAddrs \subseteq Indices \X Indices \X Indices \X Indices
  /\ Root # 0

Absent   == [present |-> FALSE, page |-> 0, user |-> FALSE]
NewTable == [i \in Indices |-> Absent]   (* A zeroed page.                 *)

VARIABLES
  tables,    (* The page tables: physical address -> index -> entry.       *)
  job,       (* The map_page that is in progress: its arguments, the level *)
             (* and the table it has come to; level 0 when there is none.  *)
  mapped     (* History: what each address was last mapped to, or Absent   *)
             (* when it was never mapped or unmapped since.                *)

vmmVars == <<tables, job, mapped>>

NoJob == [level |-> 0]

VmmInit ==
  /\ tables = [p \in {Root} |-> NewTable]
  /\ job    = NoJob
  /\ mapped = [v \in VAddrs |-> Absent]

-----------------------------------------------------------------------------

(* map_page(vaddr, paddr, flags, alloc_page) begins; user is the PAGE_USER  *)
(* bit of flags.                                                            *)
MapPage(v, paddr, user) ==
  /\ job.level = 0
  /\ job' = [level |-> 1, table |-> Root, v |-> v, paddr |-> paddr, user |-> user]
  /\ UNCHANGED <<tables, mapped>>

Here == tables[job.table][job.v[job.level]]

(* The walk of map_page goes on in this table.                              *)
GoOnIn(page) ==
  job' = [level |-> job.level + 1, table |-> page,
          v |-> job.v, paddr |-> job.paddr, user |-> job.user]

(* The entry is there: on to the table it names.                            *)
Descend ==
  /\ job.level \in 1 .. 3
  /\ Here.present
  /\ GoOnIn(Here.page)
  /\ UNCHANGED <<tables, mapped>>

(* It is not: alloc_page has given page, which becomes the next table.      *)
AddTable(page) ==
  /\ job.level \in 1 .. 3
  /\ ~ Here.present
  /\ tables' = [p \in DOMAIN tables \cup {page} |->
                  IF p = page THEN NewTable
                  ELSE IF p = job.table
                  THEN [tables[p] EXCEPT ![job.v[job.level]] =
                          [present |-> TRUE, page |-> page, user |-> job.user]]
                  ELSE tables[p]]
  /\ GoOnIn(page)
  /\ UNCHANGED mapped

(* It is not, and alloc_page has returned 0: map_page returns false.        *)
GiveUp ==
  /\ job.level \in 1 .. 3
  /\ ~ Here.present
  /\ job' = NoJob
  /\ UNCHANGED <<tables, mapped>>

(* The last level: the final mapping, the TLB flush, and true.              *)
SetEntry ==
  /\ job.level = 4
  /\ LET pte == [present |-> TRUE, page |-> job.paddr, user |-> job.user]
     IN  /\ tables' = [tables EXCEPT ![job.table][job.v[4]] = pte]
         /\ mapped' = [mapped EXCEPT ![job.v] = pte]
  /\ job' = NoJob

(* The table that the entry i of table p names, 0 when there is none.       *)
TableUnder(p, i) == IF p # 0 /\ tables[p][i].present THEN tables[p][i].page ELSE 0

(* The table of each level for v, 0 when some table on the way is not there:*)
(* the walk that unmap_page and translate begin with.                       *)
TableOf(v) ==
  LET pdpt == TableUnder(Root, v[1])
      pd   == TableUnder(pdpt, v[2])
      pt   == TableUnder(pd, v[3])
  IN  <<Root, pdpt, pd, pt>>

(* The entry for v at level k, Absent when its table is not there.          *)
Walk(v, k) == IF TableOf(v)[k] = 0 THEN Absent ELSE tables[TableOf(v)[k]][v[k]]

(* translate(vaddr): the page, or the page of Absent for None.              *)
Translate(v) == Walk(v, 4).page

(* Mutant: unmap_page clears the entry that names the page table.           *)
UnmapTable(v) ==
  /\ job.level = 0
  /\ tables' = IF Walk(v, 3).present
               THEN [tables EXCEPT ![TableOf(v)[3]][v[3]] = Absent] ELSE tables
  /\ mapped' = [mapped EXCEPT ![v] = Absent]
  /\ UNCHANGED job

(* unmap_page(vaddr).                                                       *)
UnmapPage(v) ==
  /\ job.level = 0
  /\ tables' = IF TableOf(v)[4] # 0
               THEN [tables EXCEPT ![TableOf(v)[4]][v[4]] = Absent] ELSE tables
  /\ mapped' = [mapped EXCEPT ![v] = Absent]
  /\ UNCHANGED job

-----------------------------------------------------------------------------

(* The page tables always say what map_page and unmap_page were told, for   *)
(* every address and also in the middle of a map_page: mapping or unmapping *)
(* one address, with success or without, never changes another one.         *)
TranslateExact == \A v \in VAddrs : Walk(v, 4) = mapped[v]

=============================================================================
