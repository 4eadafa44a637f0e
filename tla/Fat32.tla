--------------------------------- MODULE Fat32 --------------------------------
(***************************************************************************)
(* fat32.qp: a volume is mounted, a file is looked up in its root directory *)
(* and read.  The volume is any: its table may be damaged, the drive may    *)
(* fail at any sector.                                                      *)
(*                                                                          *)
(* A directory has one entry in a sector; the name is part of its kind:     *)
(* "file" has the name that is looked for, "deleted" had it, "other" is also*)
(* an entry that belongs to a long name.                                    *)
(***************************************************************************)
EXTENDS Disk, FiniteSets

CONSTANTS
  FatStart,     (* Reserved sectors, before the first table.                *)
  FatSectors,   (* The size of a table.                                     *)
  NumFats,      (* How many tables there are; the first one is read.        *)
  BytesPerSec,
  SecPerClus,
  LastCluster,  (* The clusters are 2 to LastCluster.                       *)
  FAT32_EOC,    (* An entry from here on ends a chain.                      *)
  FatMask,      (* 0x0FFFFFFF, the largest value of an entry.               *)
  LbaLimit,     (* 2^28: the command takes 28 bits of the number of a sector*)
  BufLen,       (* The size of the caller's buffer.                         *)
  Volumes       (* fat, the table, and dir, the entry in each data sector.  *)

RootCluster == 2
DataStart == FatStart + NumFats * FatSectors
EntriesPerSec == BytesPerSec \div 4
ClusterBytes == BytesPerSec * SecPerClus

(* cluster_to_lba, and what is left of it in the command.                   *)
Lba(cluster) == (DataStart + cluster * SecPerClus - 2 * SecPerClus) % LbaLimit

(* The clusters of the volume fit into the buffers of 4096 bytes and onto   *)
(* the drive, the table into its sectors, and no entry of the table lies in *)
(* two of them.                                                             *)
ASSUME GeometryAssumption ==
  /\ {FatStart, FatSectors, NumFats, BytesPerSec, SecPerClus, EntriesPerSec} \subseteq Nat \ {0}
  /\ BytesPerSec % 4 = 0
  /\ ClusterBytes <= 4096
  /\ LastCluster \in Nat /\ LastCluster >= RootCluster
  /\ LastCluster < FatSectors * EntriesPerSec
  /\ DataStart + (LastCluster - 1) * SecPerClus - 1 <= LastSector
  /\ LbaLimit \in Nat /\ LastSector < LbaLimit
  /\ FAT32_EOC \in Nat /\ FAT32_EOC > LastCluster
  /\ FatMask \in Nat /\ FatMask >= FAT32_EOC
  /\ BufLen \in Nat

(* The clusters of the volume; an entry of the table, and one of the        *)
(* directory, may have any other value as well.                             *)
Clusters == 2 .. LastCluster
FatValues == 0 .. FatMask
Entry(kind, cluster, size) == [kind |-> kind, cluster |-> cluster, size |-> size]
NotFound == [cluster |-> 0, size |-> 0]

Entries == [kind : {"end", "deleted", "other", "file"}, cluster : Nat, size : Nat]

(* A volume has a table that fills its sectors, and a directory entry in    *)
(* every data sector.                                                       *)
ASSUME VolumesAssumption ==
  \A v \in Volumes :
    /\ v.fat \in [0 .. FatSectors * EntriesPerSec - 1 -> FatValues]
    /\ v.dir \in [Lba(2) .. LastSector -> Entries]

VARIABLES
  vol,       (* what is on the drive                                        *)
  valid,     (* Fat32Vol.valid                                              *)
  call,      (* the call under way, or the last one                         *)
  found      (* what lookup_root has returned                               *)

vars == <<diskVars, vol, valid, call, found>>

(* at: the loop is to read the cluster or its entry in the table.  copied:  *)
(* what was copied to the caller, a cluster at a time, and if it is sound:  *)
(* until then the drive was in time and the table could be read.  unheard: a*)
(* sector of the table could not be read; broken: one of a cluster could not*)
NewCall(op, cluster, total) ==
  [op |-> op, over |-> FALSE, at |-> "cluster", cluster |-> cluster, total |-> total,
   sofar |-> 0, copied |-> <<>>, unheard |-> FALSE, broken |-> FALSE]

Init ==
  /\ DiskInit
  /\ vol \in Volumes
  /\ valid = FALSE
  /\ call = [NewCall("none", 0, 0) EXCEPT !.over = TRUE]
  /\ found = NotFound

Idle == call.over
In(op) == call.op = op /\ ~call.over
Begin(op, cluster, total) ==
  /\ call' = NewCall(op, cluster, total)
  /\ doubtful' = FALSE

(* Return, with the fields of call that are to be set.                      *)
Done(c) == call' = [c EXCEPT !.over = TRUE]

IdentifyDisk == Idle /\ Identify /\ UNCHANGED <<vol, valid, call, found>>

(* mount.  Bound: the drive is ready and in time while it is mounted.       *)
Mount ==
  /\ Idle /\ ~valid /\ ~drive.busy
  /\ call' = NewCall("mount", 0, 0)
  /\ Read(0, 1)
  /\ UNCHANGED <<vol, valid, found>>

MountEnds ==
  /\ In("mount") /\ io.state \in {"ok", "failed"}
  /\ valid' = (valid \/ io.state = "ok")
  /\ Done(call)
  /\ io' = NoIo
  /\ UNCHANGED <<present, drive, lates, doubtful, vol, found>>

(* lookup_root                                                              *)
LookupRoot ==
  /\ Idle
  /\ Begin("lookup", RootCluster, 0)
  /\ UNCHANGED <<present, drive, io, lates, vol, valid, found>>

(* read_file, of what was found.                                            *)
ReadFile ==
  /\ Idle /\ call.op = "lookup"
  /\ Begin("read", found.cluster, IF found.size < BufLen THEN found.size ELSE BufLen)
  /\ UNCHANGED <<present, drive, io, lates, vol, valid, found>>

(* Mutant: the file is read to the end of its chain.                        *)
LoopsToTheEnd == call.op = "lookup" \/ call.cluster < FAT32_EOC

(* The condition of the loop; lookup_root leaves it in its body.            *)
Loops == call.op = "lookup" \/ (call.cluster < FAT32_EOC /\ call.sofar < call.total)

Walking == In("lookup") \/ In("read")

(* read_cluster                                                             *)
ReadCluster ==
  /\ Walking /\ call.at = "cluster" /\ io.state = "none" /\ Loops
  /\ IF valid THEN Read(Lba(call.cluster), SecPerClus)
     ELSE io' = [NoIo EXCEPT !.state = "failed"] /\ UNCHANGED <<present, drive, lates, doubtful>>
  /\ UNCHANGED <<vol, valid, call, found>>

ReadFileEnds ==
  /\ Walking /\ call.at = "cluster" /\ io.state = "none" /\ ~Loops
  /\ Done(call)
  /\ UNCHANGED <<diskVars, vol, valid, found>>

ClusterFails ==
  /\ Walking /\ call.at = "cluster" /\ io.state = "failed"
  /\ Done([call EXCEPT !.broken = TRUE])
  /\ found' = IF call.op = "lookup" THEN NotFound ELSE found
  /\ io' = NoIo
  /\ UNCHANGED <<present, drive, lates, doubtful, vol, valid>>

ClusterRead(op) == In(op) /\ call.at = "cluster" /\ io.state = "ok"

(* What a buffer holds when it is read as entries of a directory.           *)
AnyEntry == {Entry(k, LastCluster, ClusterBytes) : k \in {"end", "other", "file"}}
EntriesIn(buffer) ==
  {e \in [DOMAIN buffer -> AnyEntry \cup {vol.dir[s] : s \in DOMAIN vol.dir}] :
     \A i \in DOMAIN buffer :
        IF buffer[i] \in DOMAIN vol.dir THEN e[i] = vol.dir[buffer[i]] ELSE e[i] \in AnyEntry}

(* Mutant: the entries after the end mark are searched as well.             *)
DecidesBehindEnd(entry) == entry.kind = "file"

(* The loop over the entries ends at this one.                              *)
Decides(entry) == entry.kind \in {"end", "file"}

SearchCluster ==
  /\ ClusterRead("lookup")
  /\ \E e \in EntriesIn(io.buffer) :
       LET decides == {i \in DOMAIN e : Decides(e[i])}
           first   == CHOOSE i \in decides : \A j \in decides : i <= j
       IN  IF decides = {} THEN call' = [call EXCEPT !.at = "fat"] /\ UNCHANGED found
           ELSE /\ Done(call)
                /\ found' = IF e[first].kind = "end" THEN NotFound
                            ELSE [cluster |-> e[first].cluster, size |-> e[first].size]
  /\ io' = NoIo
  /\ UNCHANGED <<present, drive, lates, doubtful, vol, valid>>

CopyCluster ==
  /\ ClusterRead("read")
  /\ LET rest    == call.total - call.sofar
         to_copy == IF ClusterBytes < rest THEN ClusterBytes ELSE rest
         piece   == [from |-> io.buffer, bytes |-> to_copy, sound |-> ~doubtful /\ ~call.unheard]
     IN  call' = [call EXCEPT !.at = "fat", !.sofar = @ + to_copy,
                              !.copied = IF to_copy = 0 THEN @ ELSE Append(@, piece)]
  /\ io' = NoIo
  /\ UNCHANGED <<present, drive, lates, doubtful, vol, valid, found>>

(* Mutant: the table is taken to have one sector.                           *)
FatSectorFirst(cluster) == FatStart

(* fat_next: the sector, and the entry in it.                               *)
FatSector(cluster) == FatStart + (cluster * 4) \div BytesPerSec
FatEntry(cluster) == ((cluster * 4) % BytesPerSec) \div 4

FatNext ==
  /\ Walking /\ call.at = "fat" /\ io.state = "none"
  /\ Read(FatSector(call.cluster), 1)
  /\ UNCHANGED <<vol, valid, call, found>>

(* What the entry is read as; a sector that was not read is zero.           *)
NextIn ==
  LET source == io.buffer[1]
  IN  IF io.state = "failed" THEN {0}
      ELSE IF source \in FatStart .. FatStart + FatSectors - 1
      THEN {vol.fat[(source - FatStart) * EntriesPerSec + FatEntry(call.cluster)]}
      ELSE FatValues

FollowChain ==
  /\ Walking /\ call.at = "fat" /\ io.state \in {"ok", "failed"}
  /\ \E next \in NextIn :
       LET c == [call EXCEPT !.at = "cluster", !.cluster = next,
                             !.unheard = @ \/ io.state = "failed"]
       IN  IF call.op = "lookup" /\ next >= FAT32_EOC
           THEN Done(c) /\ found' = NotFound
           ELSE call' = c /\ UNCHANGED found
  /\ io' = NoIo
  /\ UNCHANGED <<present, drive, lates, doubtful, vol, valid>>

Transfer ==
  /\ Deliver \/ (Late /\ ~In("mount")) \/ Fault
  /\ UNCHANGED <<vol, valid, call, found>>

Step ==
  \/ MountEnds \/ ReadCluster \/ ReadFileEnds \/ ClusterFails \/ SearchCluster
  \/ CopyCluster \/ FatNext \/ FollowChain \/ Transfer

Next == IdentifyDisk \/ Mount \/ LookupRoot \/ ReadFile \/ Step

(* The driver goes on.                                                      *)
Spec == Init /\ [][Next]_vars /\ WF_vars(Step)

-----------------------------------------------------------------------------
(* The n-th cluster after this one by a table.  A number that is no cluster *)
(* of the volume, be it an end mark or not, has none after it.              *)
Links(fat, cluster) ==
  LET Nth[n \in Nat] ==
        IF n = 0 THEN cluster
        ELSE LET last == Nth[n - 1]
             IN  IF last \in Clusters THEN fat[last] ELSE last
  IN  Nth

Chain(cluster) == Links(vol.fat, cluster)

(* A chain ends at an end mark.                                             *)
Ends(cluster) == \E n \in 0 .. LastCluster : Chain(cluster)[n] >= FAT32_EOC

(* The sectors of a cluster on the drive.                                   *)
SectorsOf(cluster) == [i \in 1 .. SecPerClus |-> DataStart + (cluster - 2) * SecPerClus + i - 1]

(* What read_file hands out are the first bytes of the file, cluster by     *)
(* cluster along its chain, and not more than was asked for; it stops early *)
(* only where the chain stops or at a sector it could not read.  Nothing is *)
(* said of what it copies after the drive was late or the table could not be*)
(* read, and after the chain has left the volume.  Hazard: the entry of a   *)
(* cluster is in one of many sectors of the table, and the last cluster is  *)
(* copied in part.                                                          *)
FileDataOnly ==
  call.op = "read" =>
    LET chain == Chain(found.cluster)
        n     == Len(call.copied)
    IN  /\ call.sofar <= call.total
        /\ call.sofar < call.total => call.sofar = n * ClusterBytes
        /\ \A i \in 1 .. n :
             /\ i < n => call.copied[i].bytes = ClusterBytes
             /\ call.copied[i].sound /\ chain[i - 1] \in Clusters =>
                  call.copied[i].from = SectorsOf(chain[i - 1])
        /\ call.over /\ call.sofar < call.total /\ ~doubtful /\ ~call.unheard =>
             call.broken \/ chain[n] \notin Clusters

(* The entries of the root directory: the j-th of its k-th cluster.         *)
RootEntry(k, j) == vol.dir[SectorsOf(Chain(RootCluster)[k])[j]]
Places == {p \in (0 .. LastCluster) \X (1 .. SecPerClus) :
             Chain(RootCluster)[p[1]] \in Clusters}
Before(p, q) == p[1] < q[1] \/ (p[1] = q[1] /\ p[2] < q[2])

(* The first entry of the name that no end mark precedes.                   *)
IsFirst(p) ==
  /\ RootEntry(p[1], p[2]).kind = "file"
  /\ \A q \in Places : Before(q, p) => RootEntry(q[1], q[2]).kind \notin {"end", "file"}

(* The chain of the directory leaves the volume, and no entry before that   *)
(* ends the search.                                                         *)
Strays ==
  /\ \E n \in 0 .. LastCluster :
       Chain(RootCluster)[n] < FAT32_EOC /\ Chain(RootCluster)[n] \notin Clusters
  /\ \A p \in Places : RootEntry(p[1], p[2]).kind \notin {"end", "file"}

(* lookup_root finds the first entry of the name, whatever cluster of the   *)
(* directory it is in, and says that there is none only if there is none or *)
(* a cluster could not be read.  Nothing is said of a call in which the     *)
(* drive was late or the table could not be read, and of a search that has  *)
(* left the volume.  Hazard: entries that were deleted, and old ones that   *)
(* stand behind the end mark.                                               *)
FoundIsThere ==
  call.op = "lookup" /\ call.over /\ ~doubtful /\ ~call.unheard =>
    \/ found = NotFound /\ (call.broken \/ ~ \E p \in Places : IsFirst(p))
    \/ \E p \in Places :
         /\ IsFirst(p)
         /\ found.cluster = RootEntry(p[1], p[2]).cluster
         /\ found.size = RootEntry(p[1], p[2]).size
    \/ Strays

(* read_file returns, whatever the table and the drive do, also when the    *)
(* chain of the file runs in a circle; lookup_root returns if the chain of  *)
(* the directory ends and the drive is in time and the table can be read.   *)
(* Hazard: of the two conditions of the loop of read_file a circular chain  *)
(* meets only the one on the bytes.                                         *)
CallsReturn ==
  (~Idle /\ (call.op = "lookup" => Ends(RootCluster)))
    ~> (Idle \/ (call.op = "lookup" /\ (doubtful \/ call.unheard)))
=============================================================================
