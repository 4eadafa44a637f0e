------------------------------- MODULE MCFat32 --------------------------------
(* Fat32 for TLC: four clusters of two sectors, a directory in the first two*)
(* of them.  Chains end, run in a circle, into each other, into a cluster   *)
(* that is marked as free, or out of the volume.                            *)
EXTENDS Fat32

MCFile == Entry("file", 4, 20)
MCEmpty == Entry("file", 0, 0)
MCOther == Entry("other", 0, 0)
MCDirs ==
  {<<Entry("deleted", 5, 16), MCOther, Entry("end", 0, 0), MCFile>>,
   <<MCOther, MCOther, Entry("deleted", 5, 16), Entry("file", 4, 40)>>,
   <<MCOther, MCFile, MCFile, MCOther>>,
   <<MCEmpty, MCFile, MCOther, MCOther>>,
   <<MCOther, MCOther, MCOther, MCOther>>}

MCTables ==
  {<<FAT32_EOC, FAT32_EOC, a, b, c, d, 0, 0>> :
     a \in {0, 2, 3, FAT32_EOC}, b \in {2, 6, FatMask},
     c \in {4, 5, FAT32_EOC}, d \in {3, 7, FAT32_EOC}}

MCVolumes ==
  {[fat |-> [c \in 0 .. FatSectors * EntriesPerSec - 1 |->
               IF c < Len(t) THEN t[c + 1] ELSE 0],
    dir |-> [s \in Lba(2) .. LastSector |->
               IF s < Lba(4) THEN d[s - Lba(2) + 1] ELSE MCOther]] :
     t \in MCTables, d \in MCDirs}
=============================================================================
