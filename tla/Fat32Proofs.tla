----------------------------- MODULE Fat32Proofs ------------------------------
(***************************************************************************)
(* Proofs about the FAT32 volume on its drive, for any geometry, any table *)
(* and directory on the volume, and any number of faults and late answers  *)
(* of the drive.                                                           *)
(***************************************************************************)
EXTENDS Fat32, BasicLemmas, FiniteSetTheorems

-----------------------------------------------------------------------------
(* Numbers of clusters, sectors and entries.                                *)

LEMMA Geometry ==
  /\ FatStart \in Nat \ {0} /\ FatSectors \in Nat \ {0} /\ NumFats \in Nat \ {0}
  /\ BytesPerSec \in Nat \ {0} /\ SecPerClus \in Nat \ {0} /\ EntriesPerSec \in Nat \ {0}
  /\ DataStart \in Nat /\ LbaLimit \in Nat \ {0} /\ LastSector \in Nat /\ LastSector < LbaLimit
  /\ ClusterBytes \in Nat \ {0}
  /\ LastCluster \in Nat /\ LastCluster >= 2 /\ FAT32_EOC \in Nat /\ FAT32_EOC > LastCluster
  /\ FatMask \in Nat
  /\ LastCluster < FatSectors * EntriesPerSec
  /\ BytesPerSec = 4 * EntriesPerSec
  <1>1. /\ FatStart \in Nat \ {0} /\ FatSectors \in Nat \ {0} /\ NumFats \in Nat \ {0}
        /\ BytesPerSec \in Nat \ {0} /\ SecPerClus \in Nat \ {0} /\ EntriesPerSec \in Nat \ {0}
        /\ LastCluster \in Nat /\ LastCluster >= 2 /\ FAT32_EOC \in Nat /\ FAT32_EOC > LastCluster
        /\ LastCluster < FatSectors * EntriesPerSec
        /\ BytesPerSec % 4 = 0 /\ FatMask \in Nat
        /\ LbaLimit \in Nat \ {0} /\ LastSector \in Nat /\ LastSector < LbaLimit
    BY GeometryAssumption, DiskAssumption DEF RootCluster
  <1>2. NumFats * FatSectors \in Nat /\ BytesPerSec * SecPerClus \in Nat \ {0}
    BY <1>1
  <1>3. BytesPerSec = 4 * (BytesPerSec \div 4)
    BY <1>1
  <1> QED
    BY <1>1, <1>2, <1>3 DEF DataStart, ClusterBytes, EntriesPerSec

(* The entry of a cluster is in the sector, at the place, where fat_next    *)
(* looks for it.                                                            *)
LEMMA EntryOfCluster ==
  ASSUME NEW cluster \in Clusters
  PROVE  /\ FatSector(cluster) \in FatStart .. FatStart + FatSectors - 1
         /\ (FatSector(cluster) - FatStart) * EntriesPerSec + FatEntry(cluster) = cluster
  <1> DEFINE E == EntriesPerSec
             q == cluster \div E
             r == cluster % E
  <1>0. /\ cluster \in Nat /\ cluster <= LastCluster /\ E \in Nat \ {0}
        /\ FatStart \in Nat /\ FatSectors \in Nat /\ cluster < FatSectors * E
        /\ BytesPerSec = 4 * E
    BY Geometry DEF Clusters
  <1> HIDE DEF E
  <1>1. q \in Nat /\ r \in 0 .. E - 1 /\ cluster = E * q + r
    BY <1>0, DivMod
  <1> HIDE DEF q, r
  <1>2. (cluster * 4) \div BytesPerSec = q /\ (cluster * 4) % BytesPerSec = 4 * r
    <2> DEFINE n == 4 * E
               s == 4 * r
    <2>1. n \in Nat \ {0} /\ s \in 0 .. n - 1
      BY <1>0, <1>1
    <2>2. cluster * 4 = n * q + s
      <3>1. n * q = 4 * (E * q)
        BY <1>0, <1>1
      <3> QED
        BY <1>0, <1>1, <3>1
    <2> HIDE DEF n, s
    <2>3. (n * q + s) \div n = q /\ (n * q + s) % n = s
      BY <1>1, <2>1, DivModOfSum
    <2>4. BytesPerSec = n
      BY <1>0 DEF n
    <2> QED
      BY <2>2, <2>3, <2>4 DEF s
  <1>3. (4 * r) \div 4 = r
    BY <1>1
  <1>4. FatSector(cluster) = FatStart + q /\ FatEntry(cluster) = r
    BY <1>2, <1>3 DEF FatSector, FatEntry
  <1>5. q * E = E * q
    BY <1>0, <1>1
  <1>6. q < FatSectors
    <2> SUFFICES ASSUME q >= FatSectors PROVE FALSE
      BY <1>0, <1>1
    <2>1. E * q >= E * FatSectors
      <3>1. q - FatSectors \in Nat
        BY <1>0, <1>1
      <3>2. E * (q - FatSectors) >= 0
        BY <1>0, <3>1
      <3>3. E * (q - FatSectors) = E * q - E * FatSectors
        BY <1>0, <1>1
      <3> QED
        BY <1>0, <1>1, <3>2, <3>3
    <2>2. E * FatSectors = FatSectors * E
      BY <1>0
    <2> QED
      BY <1>0, <1>1, <2>1, <2>2
  <1>7. (FatStart + q) - FatStart = q
    BY <1>0, <1>1
  <1> QED
    BY <1>0, <1>1, <1>4, <1>5, <1>6, <1>7 DEF E

(* The sector and the entry that fat_next looks for, of any number.         *)
LEMMA EntryOfNumber ==
  ASSUME NEW cluster \in Nat
  PROVE  FatSector(cluster) \in Nat /\ FatEntry(cluster) \in 0 .. EntriesPerSec - 1
  <1> DEFINE E == EntriesPerSec
             x == cluster * 4
             y == x % BytesPerSec
  <1>1. /\ x \in Nat /\ BytesPerSec \in Nat \ {0} /\ BytesPerSec = 4 * E
        /\ E \in Nat \ {0} /\ FatStart \in Nat
    BY Geometry
  <1>2. FatSector(cluster) = FatStart + x \div BytesPerSec /\ FatEntry(cluster) = y \div 4
    BY DEF FatSector, FatEntry
  <1> HIDE DEF x
  <1>3. x \div BytesPerSec \in Nat /\ y \in 0 .. BytesPerSec - 1
    BY <1>1, DivMod
  <1> HIDE DEF y, E
  <1>4. y \div 4 \in 0 .. E - 1
    BY <1>1, <1>3
  <1> QED
    BY <1>1, <1>2, <1>3, <1>4 DEF E

(* The first sector of a cluster, and all of them.  28 bits are enough for  *)
(* those of the volume.                                                     *)
LEMMA LbaNatural ==
  ASSUME NEW cluster \in Nat
  PROVE  Lba(cluster) \in Nat
  <1>1. PICK x \in Int : x = DataStart + cluster * SecPerClus - 2 * SecPerClus
    BY Geometry
  <1>2. x % LbaLimit \in Nat
    BY Geometry
  <1> QED
    BY <1>1, <1>2 DEF Lba

LEMMA SectorsOfCluster ==
  ASSUME NEW cluster \in Clusters
  PROVE  /\ SectorsOf(cluster) \in Seq(Int) /\ Len(SectorsOf(cluster)) = SecPerClus
         /\ \A i \in 1 .. SecPerClus : SectorsOf(cluster)[i] = Lba(cluster) + i - 1
         /\ \A i \in 1 .. SecPerClus : SectorsOf(cluster)[i] \in Lba(2) .. LastSector
  <1> DEFINE K == SecPerClus
             C == cluster * K
  <1>0. /\ cluster \in Nat /\ cluster >= 2 /\ cluster <= LastCluster
        /\ K \in Nat \ {0} /\ DataStart \in Nat /\ LbaLimit \in Nat \ {0}
        /\ LastCluster \in Nat /\ LastSector \in Nat /\ LastSector < LbaLimit
        /\ DataStart + (LastCluster - 1) * K - 1 <= LastSector
    BY Geometry, GeometryAssumption DEF Clusters
  <1>1. /\ SectorsOf(cluster) = [i \in 1 .. K |-> DataStart + (cluster - 2) * K + i - 1]
        /\ Lba(cluster) = (DataStart + C - 2 * K) % LbaLimit
        /\ Lba(2) = (DataStart + 2 * K - 2 * K) % LbaLimit
    BY DEF SectorsOf, Lba
  <1> HIDE DEF K
  <1>2. /\ C \in Nat /\ (cluster - 2) * K = C - 2 * K /\ (cluster - 2) * K >= 0
        /\ (LastCluster - 1) * K \in Nat
        /\ (LastCluster - 1) * K - C + K >= 0
    <2>1. LastCluster - cluster \in Nat /\ cluster - 2 \in Nat
      BY <1>0
    <2>2. (LastCluster - cluster) * K >= 0 /\ (cluster - 2) * K >= 0
      BY <1>0, <2>1
    <2>3. (LastCluster - cluster) * K = (LastCluster - 1) * K - C + K
      BY <1>0
    <2>4. C \in Nat /\ (cluster - 2) * K = C - 2 * K /\ (LastCluster - 1) * K \in Nat
      BY <1>0
    <2> QED
      BY <2>2, <2>3, <2>4
  <1> HIDE DEF C
  <1>3. PICK x \in Nat : x = DataStart + C - 2 * K /\ x >= DataStart /\ x + K - 1 <= LastSector
    <2>1. PICK last \in Nat : last = (LastCluster - 1) * K
      BY <1>2
    <2> QED
      BY <1>0, <1>2, <2>1
  <1>4. Lba(cluster) = x /\ Lba(2) = DataStart
    <2>1. x < LbaLimit /\ DataStart < LbaLimit /\ DataStart + 2 * K - 2 * K = DataStart
      BY <1>0, <1>3
    <2>2. \A n \in Nat : n < LbaLimit => n % LbaLimit = n
      BY <1>0
    <2> QED
      BY <1>0, <1>1, <1>3, <2>1, <2>2
  <1>5. \A i \in 1 .. K : SectorsOf(cluster)[i] = x + i - 1
    BY <1>0, <1>1, <1>2, <1>3
  <1>6. SectorsOf(cluster) \in Seq(Int) /\ Len(SectorsOf(cluster)) = K
    BY <1>0, <1>1, <1>2
  <1>7. \A i \in 1 .. K : x + i - 1 \in DataStart .. LastSector
    BY <1>0, <1>3
  <1> QED
    BY <1>4, <1>5, <1>6, <1>7 DEF K

-----------------------------------------------------------------------------
(* Chains of a table.                                                       *)

Tables == [0 .. FatSectors * EntriesPerSec - 1 -> FatValues]

LEMMA NumbersAreNatural ==
  /\ FatValues \subseteq Nat /\ 0 \in FatValues
  /\ Clusters \subseteq Nat /\ {2, LastCluster} \subseteq Clusters
  /\ \A c \in Clusters : c < FAT32_EOC
  BY Geometry DEF Clusters, FatValues

LEMMA EntriesOfTable ==
  ASSUME NEW fat \in Tables, NEW cluster \in Clusters
  PROVE  fat[cluster] \in FatValues
  <1>1. cluster \in Nat /\ cluster < FatSectors * EntriesPerSec /\ FatSectors * EntriesPerSec \in Nat
    BY Geometry DEF Clusters
  <1>2. cluster \in 0 .. FatSectors * EntriesPerSec - 1
    BY <1>1
  <1> QED
    BY <1>2 DEF Tables

(* What the definition of a chain denotes.                                  *)
LEMMA LinksSteps ==
  ASSUME NEW fat \in Tables, NEW cluster \in Nat
  PROVE  LET chain == Links(fat, cluster)
         IN  /\ chain \in [Nat -> Nat]
             /\ chain[0] = cluster
             /\ \A n \in Nat : chain[n + 1] = IF chain[n] \in Clusters THEN fat[chain[n]]
                                              ELSE chain[n]
  <1> DEFINE h == [c \in Nat |-> IF c \in Clusters THEN fat[c] ELSE c]
             Nth(f) == [n \in Nat |-> IF n = 0 THEN cluster
                                      ELSE IF f[n - 1] \in Clusters THEN fat[f[n - 1]]
                                           ELSE f[n - 1]]
  <1>1. h \in Maps(Nat)
    BY EntriesOfTable, NumbersAreNatural DEF Maps
  <1>2. \A c \in Nat : h[c] = IF c \in Clusters THEN fat[c] ELSE c
    OBVIOUS
  <1> HIDE DEF h
  <1>3. PICK f \in [Nat -> Nat] : f[0] = cluster /\ \A n \in Nat : f[n + 1] = h[f[n]]
    <2> DEFINE S == Nat
               x == cluster
    <2>1. x \in S /\ h \in Maps(S)
      BY <1>1
    <2> HIDE DEF S, x
    <2>2. \E f \in [Nat -> S] : f[0] = x /\ \A n \in Nat : f[n + 1] = h[f[n]]
      BY <2>1, RecursionOnNat
    <2> QED
      BY <2>2 DEF S, x
  <1>4. f = Nth(f)
    <2>1. \A n \in Nat : f[n] = Nth(f)[n]
      <3> SUFFICES ASSUME NEW n \in Nat PROVE f[n] = Nth(f)[n]
        OBVIOUS
      <3>1. CASE n = 0
        BY <1>3, <3>1
      <3>2. CASE n # 0
        <4>1. n - 1 \in Nat /\ (n - 1) + 1 = n
          BY <3>2
        <4>2. f[n] = h[f[n - 1]] /\ f[n - 1] \in Nat
          BY <1>3, <4>1
        <4> QED
          BY <1>2, <3>2, <4>2
      <3> QED
        BY <3>1, <3>2
    <2>2. Nth(f) = [n \in Nat |-> Nth(f)[n]] /\ f = [n \in Nat |-> f[n]]
      OBVIOUS
    <2> HIDE DEF Nth
    <2> QED
      BY <2>1, <2>2
  <1> DEFINE k == CHOOSE g : g = Nth(g)
  <1>5. k = Nth(k)
    <2> HIDE DEF Nth
    <2> QED
      BY <1>4
  <1>6. Links(fat, cluster) = k
    BY DEF Links
  <1> HIDE DEF k
  <1>7. k[0] = cluster
    BY <1>5
  <1>8. ASSUME NEW n \in Nat
        PROVE  k[n + 1] = IF k[n] \in Clusters THEN fat[k[n]] ELSE k[n]
    <2>1. n + 1 \in Nat /\ n + 1 # 0 /\ (n + 1) - 1 = n
      OBVIOUS
    <2>2. k[n + 1] = Nth(k)[n + 1]
      BY <1>5
    <2> QED
      BY <2>1, <2>2
  <1>9. ASSUME NEW n \in Nat
        PROVE  k[n] \in Nat
    <2> DEFINE P == {i \in 0 .. n : k[i] \in Nat}
    <2>1. 0 \in P
      BY <1>7
    <2>2. ASSUME NEW i \in 0 .. n - 1, i \in P
          PROVE  i + 1 \in P
      <3>1. i \in Nat /\ i + 1 \in 0 .. n
        OBVIOUS
      <3>2. k[i + 1] \in Nat
        BY <1>8, <2>2, <3>1, EntriesOfTable, NumbersAreNatural
      <3> QED
        BY <3>1, <3>2
    <2> HIDE DEF P
    <2>3. 0 .. n \subseteq P
      BY <2>1, <2>2, BoundedInduction
    <2>4. n \in P
      BY <2>3
    <2> QED
      BY <2>4 DEF P
  <1>10. k \in [Nat -> Nat]
    <2>1. k = [n \in Nat |-> k[n]]
      BY <1>5
    <2> QED
      BY <1>9, <2>1
  <1> QED
    BY <1>6, <1>7, <1>8, <1>10

(* A chain that has left the clusters of the volume stays where it is.      *)
LEMMA LinksEnd ==
  ASSUME NEW fat \in Tables, NEW cluster \in Nat, NEW k \in Nat,
         Links(fat, cluster)[k] \notin Clusters, NEW n \in Nat, k <= n
  PROVE  Links(fat, cluster)[n] = Links(fat, cluster)[k]
  <1> DEFINE chain == Links(fat, cluster)
             last  == chain[k]
             P == {i \in 0 .. n - k : chain[k + i] = last}
  <1>0. \A i \in Nat : chain[i] \notin Clusters => chain[i + 1] = chain[i]
    <2>1. \A i \in Nat : chain[i + 1] = IF chain[i] \in Clusters THEN fat[chain[i]] ELSE chain[i]
      BY LinksSteps
    <2> HIDE DEF chain
    <2> QED
      BY <2>1
  <1>1. last \notin Clusters /\ chain[k] = last
    OBVIOUS
  <1> HIDE DEF chain, last
  <1>2. 0 \in P
    BY <1>1
  <1>3. ASSUME NEW i \in 0 .. (n - k) - 1, i \in P
        PROVE  i + 1 \in P
    <2>1. k + i \in Nat /\ (k + i) + 1 = k + (i + 1) /\ i + 1 \in 0 .. n - k
      OBVIOUS
    <2> QED
      BY <1>0, <1>1, <1>3, <2>1
  <1>4. n - k \in P
    <2>1. n - k \in Nat /\ n - k \in 0 .. n - k
      OBVIOUS
    <2> HIDE DEF P
    <2> QED
      BY <1>2, <1>3, <2>1, BoundedInduction
  <1>5. k + (n - k) = n
    OBVIOUS
  <1> QED
    BY <1>4, <1>5 DEF chain, last

(* Clusters that are all different are fewer than LastCluster.              *)
LEMMA FewDifferent ==
  ASSUME NEW f, NEW k \in Nat, \A i \in 0 .. k : f[i] \in Clusters,
         \A i, j \in 0 .. k : i # j => f[i] # f[j]
  PROVE  k < LastCluster
  <1> SUFFICES ASSUME k >= LastCluster PROVE FALSE
    BY Geometry
  <1>0. LastCluster \in Nat /\ LastCluster >= 2
    BY Geometry
  <1>1. /\ IsFiniteSet(0 .. k) /\ Cardinality(0 .. k) = k + 1
        /\ IsFiniteSet(Clusters) /\ Cardinality(Clusters) = LastCluster - 1
    BY <1>0, FS_Interval, SMTT(30) DEF Clusters
  <1> DEFINE g == [i \in 0 .. k |-> f[i]]
  <1>2. g \in [0 .. k -> Clusters]
    OBVIOUS
  <1>3. \A i, j \in 0 .. k : i # j => g[i] # g[j]
    OBVIOUS
  <1> HIDE DEF g
  <1>4. LastCluster - 1 < k + 1
    BY <1>0
  <1>5. \E i, j \in 0 .. k : i # j /\ g[i] = g[j]
    BY <1>1, <1>2, <1>4, FS_PigeonHole
  <1> QED
    BY <1>3, <1>5

-----------------------------------------------------------------------------
(* Types.  The invariant has four parts; this is the first one.             *)

Buffers == Seq(Int)
Drives == [next : Int, left : Nat, busy : BOOLEAN]
Pieces == [from : Buffers, bytes : Nat, sound : BOOLEAN]
Copies == Seq(Pieces)
Dirs == [Lba(2) .. LastSector -> Entries]

TypeOK ==
  /\ present \in BOOLEAN /\ doubtful \in BOOLEAN /\ lates \in Nat
  /\ drive \in Drives
  /\ io \in [state : {"none", "reading", "ok", "failed"}, left : Nat, buffer : Buffers]
  /\ vol \in Volumes /\ vol.fat \in Tables /\ vol.dir \in Dirs
  /\ valid \in BOOLEAN
  /\ call \in [op : {"none", "mount", "lookup", "read"}, over : BOOLEAN, at : {"cluster", "fat"},
                cluster : Nat, total : Nat, sofar : Nat, copied : Copies,
                unheard : BOOLEAN, broken : BOOLEAN]
  /\ found \in [cluster : Nat, size : Nat]

(* How many sectors the driver reads at this place in its loop, and where   *)
(* they are.                                                                *)
Count == IF call.at = "cluster" THEN SecPerClus ELSE 1
Target == IF call.at = "cluster" THEN Lba(call.cluster) ELSE FatSector(call.cluster)

(* A drive that keeps time delivers the sectors the driver wants.           *)
Delivered ==
  /\ io.left + Len(io.buffer) = Count
  /\ \A i \in 1 .. Len(io.buffer) : io.buffer[i] = Target + i - 1
  /\ io.state = "ok" => io.left = 0
  /\ io.state = "reading" => drive.left = io.left /\ drive.next = Target + Len(io.buffer)

IoInv ==
  /\ call.over => io.state = "none"
  /\ io.state = "reading" => io.left > 0
  /\ In("read") /\ call.at = "cluster" /\ io.state # "none" => Loops
  /\ Walking /\ ~doubtful /\ io.state \in {"reading", "ok"} => Delivered

LEMMA VolumeTypes ==
  ASSUME NEW v \in Volumes
  PROVE  v.fat \in Tables /\ v.dir \in Dirs
  BY VolumesAssumption DEF Tables, Dirs

(* What the driver takes the entry of a cluster for is a possible entry.    *)
LEMMA NextInType ==
  ASSUME TypeOK
  PROVE  NextIn \subseteq FatValues
  <1> DEFINE source == io.buffer[1]
             index  == (source - FatStart) * EntriesPerSec + FatEntry(call.cluster)
  <1>1. ASSUME source \in FatStart .. FatStart + FatSectors - 1
        PROVE  vol.fat[index] \in FatValues
    <2> DEFINE E == EntriesPerSec
               d == source - FatStart
               r == FatEntry(call.cluster)
               c == call.cluster
    <2>0. E \in Nat \ {0} /\ FatSectors \in Nat \ {0} /\ FatStart \in Nat /\ c \in Nat
      BY Geometry DEF TypeOK
    <2>1. d \in 0 .. FatSectors - 1
      BY <1>1, <2>0
    <2>2. r \in 0 .. E - 1
      BY <2>0, EntryOfNumber
    <2>3. index = d * E + r
      OBVIOUS
    <2> HIDE DEF index, d, r, E
    <2>4. d * E >= 0 /\ d * E <= (FatSectors - 1) * E /\ (FatSectors - 1) * E = FatSectors * E - E
      <3>1. (FatSectors - 1) - d \in Nat
        BY <2>0, <2>1
      <3>2. ((FatSectors - 1) - d) * E >= 0
        BY <2>0, <3>1
      <3>3. ((FatSectors - 1) - d) * E = (FatSectors - 1) * E - d * E
        BY <2>0, <2>1
      <3>4. d * E \in Nat /\ (FatSectors - 1) * E \in Nat
        BY <2>0, <2>1
      <3> QED
        BY <2>0, <3>2, <3>3, <3>4
    <2>5. FatSectors * E \in Nat /\ d * E \in Int
      BY <2>0, <2>1
    <2>6. index \in 0 .. FatSectors * E - 1
      BY <2>0, <2>1, <2>2, <2>3, <2>4, <2>5
    <2>7. vol.fat \in [0 .. FatSectors * E - 1 -> FatValues]
      BY DEF TypeOK, Tables, E
    <2> QED
      BY <2>6, <2>7
  <1>2. 0 \in FatValues
    BY NumbersAreNatural
  <1> HIDE DEF index
  <1>3. NextIn = IF io.state = "failed" THEN {0}
                 ELSE IF source \in FatStart .. FatStart + FatSectors - 1
                 THEN {vol.fat[index]} ELSE FatValues
    BY DEF NextIn, index
  <1> HIDE DEF source
  <1> QED
    BY <1>1, <1>2, <1>3

(* ... and if a drive in time has delivered it, it is the entry.            *)
LEMMA NextInTable ==
  ASSUME TypeOK, IoInv, Walking, ~doubtful, call.at = "fat", io.state = "ok",
         call.cluster \in Clusters
  PROVE  NextIn = {vol.fat[call.cluster]}
  <1>1. call.cluster \in Clusters
    OBVIOUS
  <1>2. io.buffer \in Seq(Int) /\ Len(io.buffer) = 1 /\ io.buffer[1] = FatSector(call.cluster) + 1 - 1
    <2>1. Delivered
      BY DEF IoInv
    <2>2. io.left = 0 /\ Count = 1 /\ Target = FatSector(call.cluster)
      BY <2>1 DEF Delivered, Count, Target
    <2>3. io.buffer \in Seq(Int)
      BY DEF TypeOK, Buffers
    <2>4. Len(io.buffer) = 1
      BY <2>1, <2>2, <2>3 DEF Delivered
    <2> QED
      BY <2>1, <2>2, <2>3, <2>4 DEF Delivered
  <1>3. /\ FatSector(call.cluster) \in FatStart .. FatStart + FatSectors - 1
        /\ (FatSector(call.cluster) - FatStart) * EntriesPerSec + FatEntry(call.cluster) = call.cluster
    BY <1>1, EntryOfCluster
  <1>4. FatSector(call.cluster) \in Int
    BY <1>3, Geometry
  <1>5. io.buffer[1] = FatSector(call.cluster)
    BY <1>2, <1>4
  <1> QED
    BY <1>3, <1>5 DEF NextIn

(* What a buffer holds are entries of a directory.                          *)
LEMMA EntriesInType ==
  ASSUME vol.dir \in Dirs, NEW buffer \in Buffers, NEW e \in EntriesIn(buffer),
         NEW i \in DOMAIN e
  PROVE  /\ DOMAIN e = DOMAIN buffer /\ DOMAIN e = 1 .. Len(buffer)
         /\ e[i] \in Entries
         /\ buffer[i] \in Lba(2) .. LastSector => e[i] = vol.dir[buffer[i]]
  <1>1. AnyEntry \subseteq Entries
    BY NumbersAreNatural, Geometry DEF AnyEntry, Entry, Entries
  <1>2. DOMAIN vol.dir = Lba(2) .. LastSector /\ \A s \in DOMAIN vol.dir : vol.dir[s] \in Entries
    BY DEF Dirs
  <1>3. /\ e \in [DOMAIN buffer -> AnyEntry \cup {vol.dir[s] : s \in DOMAIN vol.dir}]
        /\ \A j \in DOMAIN buffer :
             IF buffer[j] \in DOMAIN vol.dir THEN e[j] = vol.dir[buffer[j]] ELSE e[j] \in AnyEntry
    BY DEF EntriesIn
  <1>4. DOMAIN e = DOMAIN buffer /\ DOMAIN buffer = 1 .. Len(buffer)
    BY <1>3 DEF Buffers
  <1> QED
    BY <1>1, <1>2, <1>3, <1>4

LEMMA TypeStarts ==
  ASSUME Init
  PROVE  TypeOK /\ IoInv
  <1>1. <<>> \in Buffers /\ <<>> \in Copies
    BY DEF Buffers, Copies
  <1>2. vol.fat \in Tables /\ vol.dir \in Dirs
    BY VolumeTypes DEF Init
  <1>3. TypeOK
    <2>1. /\ present = FALSE /\ lates = 0 /\ doubtful = FALSE /\ valid = FALSE /\ vol \in Volumes
          /\ drive = [next |-> 0, left |-> 0, busy |-> FALSE]
          /\ io = [state |-> "none", left |-> 0, buffer |-> <<>>]
          /\ found = [cluster |-> 0, size |-> 0]
      BY DEF Init, DiskInit, NoIo, NotFound
    <2>2. call = [op |-> "none", over |-> TRUE, at |-> "cluster", cluster |-> 0, total |-> 0,
                  sofar |-> 0, copied |-> <<>>, unheard |-> FALSE, broken |-> FALSE]
      BY DEF Init, NewCall
    <2>3. drive \in Drives
      BY <2>1 DEF Drives
    <2> QED
      BY <1>1, <1>2, <2>1, <2>2, <2>3 DEF TypeOK
  <1>4. IoInv
    BY DEF Init, DiskInit, NoIo, NewCall, IoInv, In, Walking
  <1> QED
    BY <1>3, <1>4

LEMMA EmptiedDrive ==
  ASSUME NEW d \in Drives
  PROVE  Emptied(d) \in Drives
  <1>1. d.next + 1 \in Int /\ (d.left > 0 => d.left - 1 \in Nat)
    BY DEF Drives
  <1> QED
    BY <1>1 DEF Emptied, Drives

(* read_sectors keeps the types of the driver.                              *)
LEMMA ReadTypes ==
  ASSUME TypeOK, NEW lba \in Nat, NEW count \in Nat, Read(lba, count)
  PROVE  /\ present' \in BOOLEAN /\ doubtful' \in BOOLEAN /\ lates' \in Nat
         /\ drive' \in Drives
         /\ io' \in [state : {"none", "reading", "ok", "failed"}, left : Nat, buffer : Buffers]
  <1>1. <<>> \in Buffers
    BY DEF Buffers
  <1>2. doubtful' \in BOOLEAN
    BY DEF Read, TypeOK, Drives
  <1>3. drive' \in Drives
    <2>1. Commanded(lba, count, TRUE) \in Drives /\ Commanded(lba, count, FALSE) \in Drives
      BY DEF Commanded, TypeOK, Drives
    <2>2. drive.busy \in BOOLEAN /\ drive \in Drives
      BY DEF TypeOK, Drives
    <2> HIDE DEF Drives
    <2> QED
      BY <2>1, <2>2 DEF Read
  <1>4. io' \in [state : {"none", "reading", "ok", "failed"}, left : Nat, buffer : Buffers]
    <2>1. present \in BOOLEAN
      BY DEF TypeOK
    <2>2. CASE ~present
      BY <1>1, <2>2 DEF Read
    <2>3. CASE present /\ count = 0
      BY <1>1, <2>3 DEF Read
    <2>4. CASE present /\ count > 0
      BY <1>1, <2>4 DEF Read
    <2> QED
      BY <2>1, <2>2, <2>3, <2>4
  <1> QED
    BY <1>2, <1>3, <1>4 DEF Read, TypeOK

(* So does a round of its loop.                                             *)
LEMMA TransferTypes ==
  ASSUME TypeOK, IoInv, Transfer
  PROVE  TypeOK'
  <1>1. \A x \in Int : Append(io.buffer, x) \in Buffers
    BY DEF TypeOK, Buffers
  <1>2. drive.next \in Int /\ Junk \in Int
    BY DEF TypeOK, Junk, Drives
  <1>3. io.state = "reading" => io.left - 1 \in Nat
    BY DEF TypeOK, IoInv
  <1>4. ASSUME NEW x \in Int, Reading, Put(x)
        PROVE  io' \in [state : {"none", "reading", "ok", "failed"}, left : Nat, buffer : Buffers]
    <2>1. io.left - 1 \in Nat /\ Append(io.buffer, x) \in Buffers
      BY <1>1, <1>3, <1>4 DEF Reading
    <2> HIDE DEF Buffers
    <2> QED
      BY <1>4, <2>1 DEF Put
  <1>5. CASE Deliver
    <2>1. io' \in [state : {"none", "reading", "ok", "failed"}, left : Nat, buffer : Buffers]
      <3>1. CASE drive.left > 0
        BY <1>2, <1>4, <1>5, <3>1 DEF Deliver
      <3>2. CASE ~ (drive.left > 0)
        BY <1>2, <1>4, <1>5, <3>2 DEF Deliver
      <3> QED
        BY <3>1, <3>2
    <2>2. drive' \in Drives
      <3>1. drive \in Drives
        BY DEF TypeOK
      <3> QED
        BY <1>5, <3>1, EmptiedDrive DEF Deliver
    <2> QED
      BY <1>5, <2>1, <2>2 DEF Deliver, Transfer, TypeOK
  <1>7. CASE Late
    <2>1. io' \in [state : {"none", "reading", "ok", "failed"}, left : Nat, buffer : Buffers]
      BY <1>2, <1>4, <1>7 DEF Late
    <2>2. drive' \in Drives
      <3>1. drive' = [drive EXCEPT !.busy = TRUE]
        BY <1>7 DEF Late
      <3>2. drive \in Drives
        BY DEF TypeOK
      <3> QED
        BY <3>1, <3>2 DEF Drives
    <2> QED
      BY <1>7, <2>1, <2>2 DEF Late, Transfer, TypeOK
  <1>6. CASE Fault
    BY <1>6 DEF Fault, Reading, Transfer, TypeOK, Drives
  <1> QED
    BY <1>5, <1>6, <1>7 DEF Transfer

LEMMA StepTypes ==
  ASSUME TypeOK, IoInv, [Next]_vars
  PROVE  TypeOK'
  <1> DEFINE Ios == [state : {"none", "reading", "ok", "failed"}, left : Nat, buffer : Buffers]
             Calls == [op : {"none", "mount", "lookup", "read"}, over : BOOLEAN,
                       at : {"cluster", "fat"}, cluster : Nat, total : Nat, sofar : Nat,
                       copied : Copies, unheard : BOOLEAN, broken : BOOLEAN]
             Founds == [cluster : Nat, size : Nat]
  <1>1. call \in Calls /\ io \in Ios /\ found \in Founds
    BY DEF TypeOK
  <1>2. NoIo \in Ios /\ [NoIo EXCEPT !.state = "failed"] \in Ios
    <2>1. <<>> \in Buffers
      BY DEF Buffers
    <2> QED
      BY <2>1 DEF NoIo
  <1>3. NotFound \in Founds
    BY DEF NotFound
  <1>4. ASSUME NEW op \in {"mount", "lookup", "read"}, NEW c \in Nat, NEW t \in Nat
        PROVE  NewCall(op, c, t) \in Calls
    BY DEF NewCall, Copies
  <1>5. ASSUME NEW c \in Calls
        PROVE  [c EXCEPT !.over = TRUE] \in Calls
    OBVIOUS
  <1>6. RootCluster \in Nat
    BY DEF RootCluster
  <1> HIDE DEF Calls, Founds
  <1>7. CASE IdentifyDisk
    <2>1. PICK busy \in {drive.busy, FALSE} :
            LET asked == Commanded(Junk, 1, busy)
            IN  \/ /\ drive' \in {drive, [asked EXCEPT !.left = 0, !.busy = FALSE]}
                   /\ UNCHANGED <<present, lates>>
                \/ drive' = Emptied(asked) /\ present' = TRUE /\ UNCHANGED lates
                \/ /\ lates < MaxLate
                   /\ lates' = lates + 1
                   /\ drive' = [asked EXCEPT !.busy = TRUE]
                   /\ present' = TRUE
      BY <1>7 DEF IdentifyDisk, Identify
    <2>2. UNCHANGED <<io, doubtful, vol, valid, call, found>>
      BY <1>7 DEF IdentifyDisk, Identify
    <2>3. PICK asked \in Drives : asked = Commanded(Junk, 1, busy)
      <3>1. Junk \in Int /\ 1 \in Nat /\ drive \in Drives
        BY DEF Junk, TypeOK
      <3>2. Commanded(Junk, 1, busy) \in Drives
        BY <3>1 DEF Commanded, Drives
      <3> QED
        BY <3>2
    <2>4. /\ [asked EXCEPT !.left = 0, !.busy = FALSE] \in Drives
          /\ [asked EXCEPT !.busy = TRUE] \in Drives
      BY DEF Drives
    <2>5. drive \in Drives /\ Emptied(asked) \in Drives /\ lates \in Nat /\ present \in BOOLEAN
      <3>1. Emptied(asked) \in Drives
        BY <2>3, EmptiedDrive
      <3>2. drive \in Drives /\ lates \in Nat /\ present \in BOOLEAN
        BY DEF TypeOK
      <3> QED
        BY <3>1, <3>2
    <2>6. /\ drive' \in {drive, [asked EXCEPT !.left = 0, !.busy = FALSE], Emptied(asked),
                         [asked EXCEPT !.busy = TRUE]}
          /\ present' \in {present, TRUE}
          /\ lates' \in {lates, lates + 1}
      BY <2>1, <2>3
    <2>7. lates + 1 \in Nat
      BY <2>5
    <2>8. drive' \in Drives /\ lates' \in Nat /\ present' \in BOOLEAN
      BY <2>4, <2>5, <2>6, <2>7
    <2> QED
      BY <2>2, <2>8 DEF TypeOK
  <1>8. CASE Mount
    <2>1. call' \in Calls
      BY <1>4, <1>6, <1>8 DEF Mount
    <2>2. Read(0, 1) /\ UNCHANGED <<vol, valid, found>>
      BY <1>8 DEF Mount
    <2> HIDE DEF Ios
    <2> QED
      BY <2>1, <2>2, ReadTypes DEF TypeOK, Calls
  <1>9. CASE LookupRoot
    <2>1. call' \in Calls
      BY <1>4, <1>6, <1>9 DEF LookupRoot, Begin
    <2> QED
      BY <1>9, <2>1 DEF LookupRoot, Begin, TypeOK, Calls
  <1>10. CASE ReadFile
    <2>1. (IF found.size < BufLen THEN found.size ELSE BufLen) \in Nat /\ found.cluster \in Nat
      BY <1>1, GeometryAssumption DEF Founds
    <2>2. call' \in Calls
      BY <1>4, <1>10, <2>1 DEF ReadFile, Begin
    <2> QED
      BY <1>10, <2>2 DEF ReadFile, Begin, TypeOK, Calls
  <1>11. CASE MountEnds
    <2>1. call' \in Calls /\ io' \in Ios
      BY <1>1, <1>2, <1>5, <1>11 DEF MountEnds, Done
    <2>2. valid' \in BOOLEAN
      BY <1>11 DEF MountEnds, TypeOK
    <2> QED
      BY <1>11, <2>1, <2>2 DEF MountEnds, TypeOK, Calls
  <1>12. CASE ReadCluster
    <2>1. CASE valid
      <3>1. Lba(call.cluster) \in Nat /\ SecPerClus \in Nat
        BY <1>1, LbaNatural, Geometry DEF Calls
      <3>2. Read(Lba(call.cluster), SecPerClus) /\ UNCHANGED <<vol, valid, call, found>>
        BY <1>12, <2>1 DEF ReadCluster
      <3> QED
        BY <3>1, <3>2, ReadTypes DEF TypeOK
    <2>2. CASE ~valid
      <3>1. io' \in Ios
        BY <1>2, <1>12, <2>2 DEF ReadCluster
      <3> QED
        BY <1>12, <2>2, <3>1 DEF ReadCluster, TypeOK
    <2> QED
      BY <2>1, <2>2
  <1>13. CASE ReadFileEnds
    <2>1. call' \in Calls
      BY <1>1, <1>5, <1>13 DEF ReadFileEnds, Done
    <2> QED
      BY <1>13, <2>1 DEF ReadFileEnds, diskVars, TypeOK, Calls
  <1>14. CASE ClusterFails
    <2>1. [call EXCEPT !.broken = TRUE] \in Calls
      BY <1>1 DEF Calls
    <2>2. call' \in Calls /\ io' \in Ios /\ found' \in Founds
      BY <1>1, <1>2, <1>3, <1>5, <1>14, <2>1 DEF ClusterFails, Done
    <2> QED
      BY <1>14, <2>2 DEF ClusterFails, TypeOK, Calls, Founds
  <1>15. CASE SearchCluster
    <2>1. PICK e \in EntriesIn(io.buffer) :
            LET decides == {i \in DOMAIN e : Decides(e[i])}
                first   == CHOOSE i \in decides : \A j \in decides : i <= j
            IN  IF decides = {} THEN call' = [call EXCEPT !.at = "fat"] /\ UNCHANGED found
                ELSE /\ Done(call)
                     /\ found' = IF e[first].kind = "end" THEN NotFound
                                 ELSE [cluster |-> e[first].cluster, size |-> e[first].size]
      BY <1>15 DEF SearchCluster
    <2> DEFINE decides == {i \in DOMAIN e : Decides(e[i])}
               first   == CHOOSE i \in decides : \A j \in decides : i <= j
    <2>2. call' \in Calls /\ found' \in Founds
      <3>1. CASE decides = {}
        <4>1. call' = [call EXCEPT !.at = "fat"] /\ found' = found
          BY <2>1, <3>1
        <4> QED
          BY <1>1, <4>1 DEF Calls
      <3>2. CASE decides # {}
        <4>1. first \in decides
          <5>1. decides \subseteq Nat
            BY <1>1, EntriesInType DEF TypeOK
          <5>2. \E i \in decides : \A j \in decides : i <= j
            <6> HIDE DEF decides
            <6> QED
              BY <3>2, <5>1, LeastElement
          <5> HIDE DEF decides
          <5> QED
            BY <5>2
        <4>2. first \in DOMAIN e
          BY <4>1
        <4> HIDE DEF first
        <4>3. e[first] \in Entries
          BY <1>1, <4>2, EntriesInType DEF TypeOK
        <4>4. Done(call) /\ found' = IF e[first].kind = "end" THEN NotFound
                                     ELSE [cluster |-> e[first].cluster, size |-> e[first].size]
          BY <2>1, <3>2 DEF first
        <4>5. found' \in Founds
          BY <1>3, <4>3, <4>4 DEF Entries, Founds
        <4> QED
          BY <1>1, <1>5, <4>4, <4>5 DEF Done
      <3> QED
        BY <3>1, <3>2
    <2>3. io' \in Ios
      BY <1>2, <1>15 DEF SearchCluster
    <2> QED
      BY <1>15, <2>2, <2>3 DEF SearchCluster, TypeOK, Calls, Founds
  <1>16. CASE CopyCluster
    <2> DEFINE rest    == call.total - call.sofar
               to_copy == IF ClusterBytes < rest THEN ClusterBytes ELSE rest
               piece   == [from |-> io.buffer, bytes |-> to_copy,
                           sound |-> ~doubtful /\ ~call.unheard]
    <2>1. call.sofar < call.total
      <3>1. In("read") /\ call.at = "cluster" /\ io.state # "none"
        BY <1>16 DEF CopyCluster, ClusterRead
      <3> QED
        BY <3>1 DEF IoInv, Loops, In
    <2>2. to_copy \in Nat \ {0} /\ call.sofar + to_copy \in Nat
      BY <1>1, <2>1, Geometry DEF Calls
    <2>3. Append(call.copied, piece) \in Copies
      <3>1. piece \in Pieces
        BY <1>1, <2>2 DEF Pieces, TypeOK
      <3> HIDE DEF piece
      <3> QED
        BY <1>1, <3>1 DEF Calls, Copies
    <2>4. call' = [call EXCEPT !.at = "fat", !.sofar = @ + to_copy,
                               !.copied = IF to_copy = 0 THEN @ ELSE Append(@, piece)]
      BY <1>16 DEF CopyCluster
    <2> HIDE DEF to_copy, piece
    <2>5. call' \in Calls
      BY <1>1, <2>2, <2>3, <2>4 DEF Calls
    <2>6. io' \in Ios
      BY <1>2, <1>16 DEF CopyCluster
    <2> QED
      BY <1>16, <2>5, <2>6 DEF CopyCluster, TypeOK, Calls
  <1>17. CASE FatNext
    <2>2. FatSector(call.cluster) \in Nat
      BY <1>1, EntryOfNumber DEF Calls
    <2>3. Read(FatSector(call.cluster), 1) /\ UNCHANGED <<vol, valid, call, found>>
      BY <1>17 DEF FatNext
    <2> QED
      BY <2>2, <2>3, ReadTypes DEF TypeOK
  <1>18. CASE FollowChain
    <2>2. PICK next \in NextIn :
            LET c == [call EXCEPT !.at = "cluster", !.cluster = next,
                                  !.unheard = @ \/ io.state = "failed"]
            IN  IF call.op = "lookup" /\ next >= FAT32_EOC
                THEN Done(c) /\ found' = NotFound
                ELSE call' = c /\ UNCHANGED found
      BY <1>18 DEF FollowChain
    <2> DEFINE c == [call EXCEPT !.at = "cluster", !.cluster = next,
                                 !.unheard = @ \/ io.state = "failed"]
    <2>3. c \in Calls
      <3>1. next \in Nat
        BY <2>2, NextInType, NumbersAreNatural
      <3>2. (call.unheard \/ io.state = "failed") \in BOOLEAN
        BY <1>1 DEF Calls
      <3> QED
        BY <1>1, <3>1, <3>2 DEF Calls
    <2>4. \/ call' = [c EXCEPT !.over = TRUE] /\ found' = NotFound
          \/ call' = c /\ found' = found
      BY <2>2 DEF Done
    <2> HIDE DEF c
    <2>5. call' \in Calls /\ found' \in Founds
      BY <1>1, <1>3, <1>5, <2>3, <2>4
    <2>6. io' \in Ios
      BY <1>2, <1>18 DEF FollowChain
    <2> QED
      BY <1>18, <2>5, <2>6 DEF FollowChain, TypeOK, Calls, Founds
  <1>19. CASE Transfer
    BY <1>19, TransferTypes
  <1>20. CASE UNCHANGED vars
    BY <1>20 DEF vars, diskVars, TypeOK
  <1> QED
    BY <1>7, <1>8, <1>9, <1>10, <1>11, <1>12, <1>13, <1>14, <1>15, <1>16, <1>17, <1>18, <1>19,
       <1>20 DEF Next, Step

(* A command the drive has got in time is the one the driver waits for.     *)
LEMMA ReadDelivers ==
  ASSUME TypeOK, Read(Target, Count), call' = call, ~doubtful', io'.state \in {"reading", "ok"},
         Target \in Nat
  PROVE  Delivered' /\ io'.left > 0
  <1>1. Count \in Nat \ {0} /\ Count' = Count /\ Target' = Target
    BY Geometry DEF Count, Target
  <1>2. present
    <2>1. present \in BOOLEAN
      BY DEF TypeOK
    <2> QED
      BY <2>1 DEF Read
  <1>3. /\ io' = [state |-> "reading", left |-> Count, buffer |-> <<>>]
        /\ drive' = [next |-> Target, left |-> Count, busy |-> FALSE]
    <2>1. ~ (Count = 0) /\ Count > 0
      BY <1>1
    <2> HIDE DEF Count, Target
    <2>2. io' = [state |-> "reading", left |-> Count, buffer |-> <<>>]
      BY <1>2, <2>1 DEF Read
    <2>3. PICK busy \in {drive.busy, FALSE} :
            drive' = Commanded(Target, Count, busy) /\ doubtful' = (doubtful \/ busy)
      BY <1>2, <2>1 DEF Read
    <2>4. ~busy
      BY <2>3
    <2> QED
      BY <2>2, <2>3, <2>4 DEF Commanded
  <1> QED
    BY <1>1, <1>3 DEF Delivered

(* A round of read_sectors leaves the rest of the driver as it is.          *)
LEMMA TransferIo ==
  ASSUME TypeOK, IoInv, Transfer
  PROVE  IoInv'
  <1>0. call' = call /\ Count' = Count /\ Target' = Target /\ Reading
    BY DEF Transfer, Deliver, Late, Fault, Count, Target
  <1>1. io \in [state : {"none", "reading", "ok", "failed"}, left : Nat, buffer : Buffers]
    BY DEF TypeOK
  <1>2. io.state = "reading" /\ io.left > 0 /\ ~call.over
    BY <1>0 DEF IoInv, Reading
  <1>3. Loops' = Loops /\ Walking' = Walking /\ In("read")' = In("read") /\ In("lookup")' = In("lookup")
    BY <1>0 DEF Loops, Walking, In
  <1>4. ASSUME NEW x \in Int, Put(x)
        PROVE  /\ io'.left = io.left - 1 /\ io'.state \in {"ok", "reading"}
               /\ io'.state = "ok" <=> io.left = 1
               /\ io'.buffer = Append(io.buffer, x)
    BY <1>1, <1>4 DEF Put
  <1>5. io'.state = "reading" => io'.left > 0
    <2>1. CASE Deliver \/ Late
      <3>1. \E x \in Int : Put(x)
        <4>1. Junk \in Int /\ drive.next \in Int
          BY DEF Junk, TypeOK, Drives
        <4> QED
          BY <2>1, <4>1 DEF Deliver, Late
      <3> QED
        BY <1>1, <1>2, <1>4, <3>1
    <2>2. CASE Fault
      BY <1>1, <2>2 DEF Fault
    <2> QED
      BY <2>1, <2>2 DEF Transfer
  <1>6. ASSUME Walking, ~doubtful', io'.state \in {"reading", "ok"}
        PROVE  Delivered'
    <2>1. ~ Late
      BY <1>6 DEF Late
    <2>2. ~ Fault
      BY <1>1, <1>6 DEF Fault
    <2>3. Deliver /\ ~doubtful
      BY <1>6, <2>1, <2>2 DEF Transfer, Deliver
    <2>4. Delivered
      BY <1>2, <1>6, <2>3 DEF IoInv
    <2>5. /\ drive.left = io.left /\ drive.next = Target + Len(io.buffer)
          /\ drive.left > 0 /\ drive.next \in Int
      BY <1>2, <2>4 DEF Delivered, TypeOK, Drives
    <2>6. Put(drive.next) /\ drive' = [next |-> drive.next + 1, left |-> drive.left - 1, busy |-> FALSE]
      BY <2>3, <2>5 DEF Deliver, Emptied
    <2>7. /\ io'.left = io.left - 1
          /\ io'.state = "ok" <=> io.left = 1
          /\ io'.buffer = Append(io.buffer, drive.next)
      BY <1>4, <2>5, <2>6
    <2>8. io.buffer \in Seq(Int) /\ Len(io.buffer) \in Nat /\ io.left \in Nat
      BY <1>1 DEF Buffers
    <2>9. Len(io'.buffer) = Len(io.buffer) + 1
      BY <2>5, <2>7, <2>8
    <2>10. Target \in Int
      <3>1. Target \in Nat
        <4>1. call.cluster \in Nat /\ call.at \in {"cluster", "fat"}
          BY DEF TypeOK
        <4> QED
          BY <4>1, LbaNatural, EntryOfNumber DEF Target
      <3> QED
        BY <3>1
    <2>11. \A i \in 1 .. Len(io'.buffer) : io'.buffer[i] = Target + i - 1
      <3> SUFFICES ASSUME NEW i \in 1 .. Len(io.buffer) + 1
                   PROVE  io'.buffer[i] = Target + i - 1
        BY <2>9
      <3>1. CASE i = Len(io.buffer) + 1
        BY <2>5, <2>7, <2>8, <2>10, <3>1
      <3>2. CASE i \in 1 .. Len(io.buffer)
        BY <2>4, <2>5, <2>7, <2>8, <3>2 DEF Delivered
      <3> QED
        BY <2>8, <3>1, <3>2
    <2>12. io'.left + Len(io'.buffer) = Count
      <3>1. io.left + Len(io.buffer) = Count
        BY <2>4 DEF Delivered
      <3>2. io'.left = io.left - 1
        BY <2>7
      <3>3. (io.left - 1) + (Len(io.buffer) + 1) = io.left + Len(io.buffer)
        BY <2>8
      <3> QED
        BY <2>9, <3>1, <3>2, <3>3
    <2>13. io'.state = "ok" => io'.left = 0
      BY <2>7
    <2>14. drive'.left = io'.left /\ drive'.next = Target + Len(io'.buffer)
      BY <2>5, <2>6, <2>7, <2>8, <2>9, <2>10
    <2> QED
      BY <1>0, <2>11, <2>12, <2>13, <2>14 DEF Delivered
  <1>7. io'.state # "none"
    <2>1. CASE Deliver \/ Late
      BY <2>1 DEF Deliver, Late, Put
    <2>2. CASE Fault
      BY <1>1, <2>2 DEF Fault
    <2> QED
      BY <2>1, <2>2 DEF Transfer
  <1> QED
    <2>1. /\ (call.over => io.state = "none")'
          /\ (io.state = "reading" => io.left > 0)'
      BY <1>0, <1>2, <1>5
    <2>2. (In("read") /\ call.at = "cluster" /\ io.state # "none" => Loops)'
      BY <1>0, <1>2, <1>3 DEF IoInv
    <2>3. (Walking /\ ~doubtful /\ io.state \in {"reading", "ok"} => Delivered)'
      BY <1>3, <1>6
    <2> QED
      BY <2>1, <2>2, <2>3 DEF IoInv

LEMMA StepIo ==
  ASSUME TypeOK, IoInv, [Next]_vars
  PROVE  IoInv'
  <1>1. /\ call.op \in {"none", "mount", "lookup", "read"} /\ call.over \in BOOLEAN
        /\ call.at \in {"cluster", "fat"} /\ call.cluster \in Nat
    BY DEF TypeOK
  <1>2. NoIo.state = "none"
    BY DEF NoIo
  <1>3. ASSUME call'.over, io'.state = "none"
        PROVE  IoInv'
    BY <1>3 DEF IoInv, In, Walking
  <1>4. ASSUME ~call'.over, io'.state = "none", call'.op \in {"lookup", "read"}
        PROVE  IoInv'
    BY <1>4 DEF IoInv, In, Walking
  <1>5. ASSUME NEW op, NEW c, NEW t
        PROVE  /\ NewCall(op, c, t).op = op /\ ~NewCall(op, c, t).over
               /\ NewCall(op, c, t).cluster = c /\ NewCall(op, c, t).at = "cluster"
    BY DEF NewCall
  <1>7. CASE IdentifyDisk
    <2>1. call'.over /\ UNCHANGED <<io, call>> /\ call.over
      BY <1>7 DEF IdentifyDisk, Identify, Idle
    <2>2. io'.state = "none"
      BY <2>1 DEF IoInv
    <2> QED
      BY <1>3, <2>1, <2>2
  <1>8. CASE Mount
    <2>1. call'.op = "mount" /\ ~call'.over
      BY <1>5, <1>8 DEF Mount
    <2>2. io'.left = 1
      BY <1>8 DEF Mount, Read
    <2> QED
      BY <2>1, <2>2 DEF IoInv, In, Walking
  <1>9. CASE LookupRoot
    <2>1. call' = NewCall("lookup", RootCluster, 0) /\ io'.state = "none"
      BY <1>9 DEF LookupRoot, Begin, Idle, IoInv
    <2> QED
      BY <1>4, <1>5, <2>1
  <1>10. CASE ReadFile
    <2>1. /\ call' = NewCall("read", found.cluster, IF found.size < BufLen THEN found.size ELSE BufLen)
          /\ io'.state = "none"
      BY <1>10 DEF ReadFile, Begin, Idle, IoInv
    <2> QED
      BY <1>4, <1>5, <2>1
  <1>11. CASE MountEnds
    BY <1>1, <1>2, <1>3, <1>11 DEF MountEnds, Done, TypeOK
  <1>12. CASE ReadCluster
    <2>1. /\ Walking /\ call.at = "cluster" /\ io.state = "none" /\ Loops /\ call' = call
          /\ ~call.over
      BY <1>12 DEF ReadCluster, Walking, In
    <2>2. Walking' = Walking /\ Loops' = Loops /\ In("lookup")' = In("lookup")
      BY <2>1 DEF Walking, Loops, In
    <2>3. CASE valid
      <3>1. Read(Target, Count) /\ Target \in Nat
        BY <1>1, <1>12, <2>1, <2>3, LbaNatural DEF ReadCluster, Target, Count
      <3>2. io'.state \in {"reading", "ok"} /\ ~doubtful' => Delivered'
        BY <2>1, <3>1, ReadDelivers
      <3>3. io'.left > 0
        BY <2>1, <3>1, Geometry DEF Read, Count
      <3> QED
        BY <2>1, <2>2, <3>2, <3>3 DEF IoInv
    <2>4. CASE ~valid
      <3>1. io'.state = "failed"
        BY <1>12, <2>4 DEF ReadCluster, NoIo
      <3> QED
        BY <2>1, <2>2, <3>1 DEF IoInv
    <2> QED
      BY <2>3, <2>4
  <1>13. CASE ReadFileEnds
    <2>1. call'.over /\ io'.state = "none"
      BY <1>13 DEF ReadFileEnds, Done, diskVars, TypeOK
    <2> QED
      BY <1>3, <2>1
  <1>14. CASE ClusterFails
    <2>1. call'.over /\ io'.state = "none"
      BY <1>2, <1>14 DEF ClusterFails, Done, TypeOK
    <2> QED
      BY <1>3, <2>1
  <1>15. CASE SearchCluster
    <2>1. In("lookup") /\ io'.state = "none"
      BY <1>2, <1>15 DEF SearchCluster, ClusterRead
    <2>2. call' = [call EXCEPT !.at = "fat"] \/ call' = [call EXCEPT !.over = TRUE]
      BY <1>15 DEF SearchCluster, Done
    <2>3. CASE call' = [call EXCEPT !.at = "fat"]
      <3>1. ~call'.over /\ call'.op = "lookup"
        BY <2>1, <2>3 DEF In, TypeOK
      <3> QED
        BY <1>4, <2>1, <3>1
    <2>4. CASE call' = [call EXCEPT !.over = TRUE]
      <3>1. call'.over
        BY <2>4 DEF TypeOK
      <3> QED
        BY <1>3, <2>1, <3>1
    <2> QED
      BY <2>2, <2>3, <2>4
  <1>16. CASE CopyCluster
    <2>1. In("read") /\ call.at = "cluster" /\ io.state = "ok" /\ io'.state = "none"
      BY <1>2, <1>16 DEF CopyCluster, ClusterRead
    <2>3. ~call'.over /\ call'.op = "read"
      BY <1>16, <2>1 DEF CopyCluster, In, TypeOK
    <2> QED
      BY <1>4, <2>1, <2>3
  <1>17. CASE FatNext
    <2>1. Walking /\ call.at = "fat" /\ call' = call /\ ~call.over
      BY <1>17 DEF FatNext, Walking, In
    <2>2. Walking' = Walking /\ In("lookup")' = In("lookup")
      BY <2>1 DEF Walking, In
    <2>3. Read(Target, Count) /\ Target \in Nat
      BY <1>1, <1>17, <2>1, EntryOfNumber DEF FatNext, Target, Count
    <2>4. io'.state \in {"reading", "ok"} /\ ~doubtful' => Delivered'
      BY <2>1, <2>3, ReadDelivers
    <2>5. io'.left > 0
      BY <2>1, <2>3 DEF Read, Count
    <2> QED
      BY <2>1, <2>2, <2>4, <2>5 DEF IoInv
  <1>18. CASE FollowChain
    <2>1. Walking /\ io'.state = "none"
      BY <1>2, <1>18 DEF FollowChain
    <2>2. PICK next \in NextIn :
            LET c == [call EXCEPT !.at = "cluster", !.cluster = next,
                                  !.unheard = @ \/ io.state = "failed"]
            IN  IF call.op = "lookup" /\ next >= FAT32_EOC
                THEN Done(c) /\ found' = NotFound
                ELSE call' = c /\ UNCHANGED found
      BY <1>18 DEF FollowChain
    <2> DEFINE c == [call EXCEPT !.at = "cluster", !.cluster = next,
                                 !.unheard = @ \/ io.state = "failed"]
    <2>4. c.op = call.op /\ c.at = "cluster" /\ c.cluster = next /\ c.over = call.over
          /\ [c EXCEPT !.over = TRUE].over
      BY DEF TypeOK
    <2>5. call.op \in {"lookup", "read"} /\ ~call.over
      BY <2>1 DEF Walking, In
    <2> HIDE DEF c
    <2>6. CASE call.op = "lookup" /\ next >= FAT32_EOC
      <3>1. call' = [c EXCEPT !.over = TRUE]
        BY <2>2, <2>6 DEF Done, c
      <3> QED
        BY <1>3, <2>1, <2>4, <3>1
    <2>7. CASE ~ (call.op = "lookup" /\ next >= FAT32_EOC)
      <3>1. call' = c
        BY <2>2, <2>7 DEF c
      <3> QED
        BY <1>4, <2>1, <2>4, <2>5, <3>1
    <2> QED
      BY <2>6, <2>7
  <1>19. CASE Transfer
    BY <1>19, TransferIo
  <1>20. CASE UNCHANGED vars
    BY <1>20 DEF vars, diskVars, IoInv, In, Walking, Loops, Delivered, Count, Target
  <1> QED
    BY <1>7, <1>8, <1>9, <1>10, <1>11, <1>12, <1>13, <1>14, <1>15, <1>16, <1>17, <1>18, <1>19,
       <1>20 DEF Next, Step

-----------------------------------------------------------------------------
(* read_file hands out the file.  The third part of the invariant has what  *)
(* was copied, and the place in the loop.  While there is more to read, all *)
(* that was copied were whole clusters; and as long as the drive is in time *)
(* and the table can be read, the cluster to read is the one after as many  *)
(* clusters of the chain as were copied, unless the chain has left the      *)
(* volume.                                                                  *)

Handed(chain, n) ==
  /\ call.sofar <= call.total
  /\ call.sofar < call.total => call.sofar = n * ClusterBytes
  /\ \A i \in 1 .. n :
       /\ i < n \/ call.sofar < call.total => call.copied[i].bytes = ClusterBytes
       /\ call.copied[i].sound /\ chain[i - 1] \in Clusters =>
            call.copied[i].from = SectorsOf(chain[i - 1])
  /\ ~call.over /\ call.at = "fat" => n >= 1

OnChain(chain, n) ==
  /\ ~call.over /\ call.at = "cluster" /\ chain[n] \in Clusters => call.cluster = chain[n]
  /\ ~call.over /\ call.at = "fat" /\ chain[n - 1] \in Clusters => call.cluster = chain[n - 1]
  /\ call.over /\ call.sofar < call.total => call.broken \/ chain[n] \notin Clusters

FileInv ==
  call.op = "read" =>
    /\ Handed(Chain(found.cluster), Len(call.copied))
    /\ ~doubtful /\ ~call.unheard => OnChain(Chain(found.cluster), Len(call.copied))

(* A cluster that was read in time is in the buffer.                        *)
LEMMA ClusterInBuffer ==
  ASSUME TypeOK, IoInv, Walking, ~doubtful, call.at = "cluster", io.state = "ok",
         call.cluster \in Clusters
  PROVE  io.buffer = SectorsOf(call.cluster)
  <1>1. /\ io.buffer \in Seq(Int) /\ Len(io.buffer) = SecPerClus
        /\ \A i \in 1 .. SecPerClus : io.buffer[i] = Lba(call.cluster) + i - 1
    <2>1. Delivered
      BY DEF IoInv
    <2>2. Count = SecPerClus /\ Target = Lba(call.cluster) /\ SecPerClus \in Nat
      BY Geometry DEF Count, Target
    <2>3. io.left = 0
      BY <2>1 DEF Delivered
    <2>4. io.buffer \in Seq(Int)
      BY DEF TypeOK, Buffers
    <2>5. Len(io.buffer) = SecPerClus
      <3>1. io.left + Len(io.buffer) = Count
        BY <2>1 DEF Delivered
      <3> QED
        BY <2>2, <2>3, <2>4, <3>1
    <2> QED
      BY <2>1, <2>2, <2>4, <2>5 DEF Delivered
  <1>2. /\ SectorsOf(call.cluster) \in Seq(Int) /\ Len(SectorsOf(call.cluster)) = SecPerClus
        /\ \A i \in 1 .. SecPerClus : SectorsOf(call.cluster)[i] = Lba(call.cluster) + i - 1
    BY SectorsOfCluster
  <1> DEFINE t == SectorsOf(call.cluster)
  <1> HIDE DEF t
  <1>3. t \in Seq(Int) /\ Len(t) = Len(io.buffer) /\ \A i \in 1 .. Len(t) : io.buffer[i] = t[i]
    BY <1>1, <1>2 DEF t
  <1>4. io.buffer = t
    BY <1>1, <1>3, SeqEqual
  <1> QED
    BY <1>4 DEF t

LEMMA StepFile ==
  ASSUME TypeOK, IoInv, FileInv, [Next]_vars
  PROVE  FileInv'
  <1> SUFFICES ASSUME (call.op = "read")'
               PROVE  FileInv'
    BY DEF FileInv
  <1>1. /\ call.op \in {"none", "mount", "lookup", "read"} /\ call.over \in BOOLEAN
        /\ call.at \in {"cluster", "fat"} /\ call.cluster \in Nat
        /\ call.copied \in Seq(Pieces)
        /\ call.sofar \in Nat /\ call.total \in Nat
        /\ found.cluster \in Nat /\ found.size \in Nat /\ vol.fat \in Tables
    BY DEF TypeOK, Copies
  <1> DEFINE chain == Chain(found.cluster)
             n     == Len(call.copied)
  <1>2. /\ chain[0] = found.cluster /\ n \in Nat
        /\ \A k \in Nat : chain[k + 1] = IF chain[k] \in Clusters THEN vol.fat[chain[k]]
                                         ELSE chain[k]
    <2>1. n \in Nat
      BY <1>1
    <2>2. /\ chain[0] = found.cluster
          /\ \A k \in Nat : chain[k + 1] = IF chain[k] \in Clusters THEN vol.fat[chain[k]]
                                           ELSE chain[k]
      BY <1>1, LinksSteps, ZenonT(30) DEF Chain
    <2> HIDE DEF chain
    <2> QED
      BY <2>1, <2>2
  <1>3. ASSUME UNCHANGED <<call, found, vol>>, doubtful => doubtful'
        PROVE  FileInv'
    <2>1. call.op = "read" /\ chain' = chain /\ n' = n
      BY <1>3 DEF Chain
    <2>2. Handed(chain, n) /\ (~doubtful /\ ~call.unheard => OnChain(chain, n))
      BY <2>1 DEF FileInv
    <2> HIDE DEF chain, n
    <2>3. Handed(chain, n)' /\ (~doubtful' /\ ~call'.unheard => OnChain(chain, n)')
      BY <1>3, <2>1, <2>2 DEF Handed, OnChain
    <2> QED
      BY <2>1, <2>3 DEF FileInv, chain, n
  <1>4. ASSUME call.op = "read"
        PROVE  Handed(chain, n) /\ (~doubtful /\ ~call.unheard => OnChain(chain, n))
    BY <1>4 DEF FileInv
  <1>7. CASE IdentifyDisk
    BY <1>3, <1>7 DEF IdentifyDisk, Identify
  <1>8. CASE Mount
    BY <1>8 DEF Mount, NewCall
  <1>9. CASE LookupRoot
    BY <1>9 DEF LookupRoot, Begin, NewCall
  <1>10. CASE ReadFile
    <2>1. UNCHANGED <<vol, found>> /\ call'.cluster = found.cluster /\ call'.copied = <<>>
          /\ call'.sofar = 0 /\ ~call'.over /\ call'.at = "cluster"
          /\ call'.total = IF found.size < BufLen THEN found.size ELSE BufLen
      BY <1>10 DEF ReadFile, Begin, NewCall
    <2>2. call'.total \in Nat
      BY <1>1, <2>1, GeometryAssumption
    <2>3. ClusterBytes \in Nat
      BY Geometry
    <2> HIDE DEF chain
    <2>4. Chain(found.cluster)' = chain
      BY <2>1 DEF Chain, chain
    <2>5. Len(call'.copied) = 0 /\ 0 * ClusterBytes = 0
      BY <2>1, <2>3
    <2>6. call'.sofar <= call'.total
      BY <2>1, <2>2
    <2>7. Handed(chain, 0)'
      BY <2>1, <2>5, <2>6 DEF Handed
    <2>8. OnChain(chain, 0)'
      BY <1>2, <2>1, <2>4 DEF OnChain, chain
    <2> QED
      BY <2>4, <2>5, <2>7, <2>8 DEF FileInv, chain
  <1>11. CASE MountEnds
    BY <1>11 DEF MountEnds, In, Done, TypeOK
  <1>12. CASE ReadCluster
    <2>1. UNCHANGED <<call, found, vol>> /\ (doubtful => doubtful')
      BY <1>12 DEF ReadCluster, Read
    <2> QED
      BY <1>3, <2>1
  <1>13. CASE ReadFileEnds
    <2>1. /\ call' = [call EXCEPT !.over = TRUE] /\ UNCHANGED <<doubtful, found, vol>>
          /\ call.at = "cluster" /\ ~call.over
          /\ call.op = "lookup" \/ ~ (call.cluster < FAT32_EOC /\ call.sofar < call.total)
      BY <1>13 DEF ReadFileEnds, Done, Walking, Loops, In, diskVars
    <2>2. /\ call'.op = call.op /\ call'.unheard = call.unheard /\ call'.over
          /\ call'.copied = call.copied /\ call'.sofar = call.sofar /\ call'.total = call.total
          /\ call.op = "read"
      BY <2>1 DEF TypeOK
    <2>3. chain' = chain /\ n' = n
      BY <2>1, <2>2 DEF Chain
    <2> HIDE DEF chain, n
    <2>4. Handed(chain, n)'
      BY <1>4, <2>2, <2>3 DEF Handed
    <2>5. ASSUME ~doubtful', ~call'.unheard
          PROVE  OnChain(chain, n)'
      <3>1. OnChain(chain, n)
        BY <1>4, <2>1, <2>2, <2>5
      <3>2. call.sofar < call.total => chain[n] \notin Clusters
        <4> SUFFICES ASSUME call.sofar < call.total, chain[n] \in Clusters PROVE FALSE
          OBVIOUS
        <4>1. call.cluster = chain[n]
          BY <2>1, <3>1 DEF OnChain
        <4>2. call.cluster < FAT32_EOC
          BY <4>1, NumbersAreNatural
        <4> QED
          BY <2>1, <2>2, <4>2
      <3> QED
        BY <2>2, <2>3, <3>2 DEF OnChain
    <2> QED
      BY <2>3, <2>4, <2>5 DEF FileInv, chain, n
  <1>14. CASE ClusterFails
    <2>1. /\ call' = [[call EXCEPT !.broken = TRUE] EXCEPT !.over = TRUE] /\ UNCHANGED <<doubtful, vol>>
          /\ found' = IF call.op = "lookup" THEN NotFound ELSE found
      BY <1>14 DEF ClusterFails, Done
    <2>2. /\ call'.op = call.op /\ call'.over /\ call'.broken
          /\ call'.copied = call.copied /\ call'.sofar = call.sofar /\ call'.total = call.total
      BY <2>1 DEF TypeOK
    <2>3. call.op = "read" /\ found' = found
      BY <2>1, <2>2
    <2>4. chain' = chain /\ n' = n
      BY <2>1, <2>2, <2>3 DEF Chain
    <2> HIDE DEF chain, n
    <2>5. Handed(chain, n)'
      BY <1>4, <2>2, <2>3, <2>4 DEF Handed
    <2>6. OnChain(chain, n)'
      BY <2>2 DEF OnChain
    <2> QED
      BY <2>4, <2>5, <2>6 DEF FileInv, chain, n
  <1>15. CASE SearchCluster
    <2>1. call.op = "lookup"
      BY <1>15 DEF SearchCluster, ClusterRead, In
    <2>2. call' = [call EXCEPT !.at = "fat"] \/ call' = [call EXCEPT !.over = TRUE]
      BY <1>15 DEF SearchCluster, Done
    <2> QED
      BY <2>1, <2>2 DEF TypeOK
  <1>16. CASE CopyCluster
    <2> DEFINE rest    == call.total - call.sofar
               to_copy == IF ClusterBytes < rest THEN ClusterBytes ELSE rest
               piece   == [from |-> io.buffer, bytes |-> to_copy,
                           sound |-> ~doubtful /\ ~call.unheard]
    <2>1. /\ In("read") /\ call.at = "cluster" /\ io.state = "ok" /\ Walking
          /\ UNCHANGED <<doubtful, vol, found>>
      BY <1>16 DEF CopyCluster, ClusterRead, Walking
    <2>2. call.sofar < call.total
      BY <2>1 DEF IoInv, Loops, In
    <2>3. to_copy \in Nat \ {0} /\ to_copy <= rest /\ ClusterBytes \in Nat \ {0}
          /\ (to_copy < rest => to_copy = ClusterBytes)
      BY <1>1, <2>2, Geometry
    <2>4. call' = [call EXCEPT !.at = "fat", !.sofar = @ + to_copy,
                               !.copied = IF to_copy = 0 THEN @ ELSE Append(@, piece)]
      BY <1>16 DEF CopyCluster
    <2> HIDE DEF to_copy
    <2>5. /\ call'.op = call.op /\ call'.unheard = call.unheard /\ call'.over = call.over
          /\ call'.at = "fat" /\ call'.cluster = call.cluster /\ call'.total = call.total
          /\ call'.sofar = call.sofar + to_copy
          /\ call'.copied = Append(call.copied, piece)
      BY <2>3, <2>4 DEF TypeOK
    <2>6. call.op = "read" /\ ~call.over
      BY <2>1 DEF In
    <2>7. Chain(found.cluster)' = chain
      BY <2>1 DEF Chain
    <2>8. /\ call.sofar = n * ClusterBytes
          /\ \A i \in 1 .. n :
               /\ call.copied[i].bytes = ClusterBytes
               /\ call.copied[i].sound /\ chain[i - 1] \in Clusters =>
                    call.copied[i].from = SectorsOf(chain[i - 1])
      BY <1>4, <2>2, <2>6 DEF Handed
    <2>9. ASSUME ~doubtful, ~call.unheard, chain[n] \in Clusters
          PROVE  call.cluster = chain[n] /\ piece.from = SectorsOf(chain[n])
      <3>1. call.cluster = chain[n]
        BY <1>4, <2>1, <2>6, <2>9 DEF OnChain
      <3>2. io.buffer = SectorsOf(call.cluster)
        BY <2>1, <2>9, <3>1, ClusterInBuffer
      <3> QED
        BY <3>1, <3>2
    <2>10. /\ piece \in Pieces /\ piece.bytes = to_copy
           /\ piece.sound => ~doubtful /\ ~call.unheard
      BY <2>3 DEF TypeOK, Pieces
    <2> DEFINE copied == call'.copied
    <2>11. /\ Len(copied) = n + 1 /\ copied[n + 1] = piece
           /\ \A i \in 1 .. n : copied[i] = call.copied[i]
      <3> HIDE DEF piece
      <3> QED
        BY <1>1, <2>5, <2>10
    <2> HIDE DEF chain, piece, copied
    <2>12. \A i \in 1 .. n + 1 :
             /\ i < n + 1 \/ call'.sofar < call'.total => copied[i].bytes = ClusterBytes
             /\ copied[i].sound /\ chain[i - 1] \in Clusters =>
                  copied[i].from = SectorsOf(chain[i - 1])
      <3> SUFFICES ASSUME NEW i \in 1 .. n + 1
                   PROVE  /\ i < n + 1 \/ call'.sofar < call'.total => copied[i].bytes = ClusterBytes
                          /\ copied[i].sound /\ chain[i - 1] \in Clusters =>
                               copied[i].from = SectorsOf(chain[i - 1])
        OBVIOUS
      <3>1. CASE i \in 1 .. n
        <4>1. copied[i] = call.copied[i]
          BY <2>11, <3>1
        <4> QED
          BY <2>8, <3>1, <4>1
      <3>2. CASE i = n + 1
        <4>1. (n + 1) - 1 = n
          BY <1>2
        <4>2. call'.sofar < call'.total => to_copy = ClusterBytes
          BY <1>1, <2>3, <2>5
        <4>3. copied[i] = piece
          BY <2>11, <3>2
        <4>4. ~ (i < n + 1)
          BY <1>2, <3>2
        <4>5. copied[i].sound /\ chain[i - 1] \in Clusters =>
                copied[i].from = SectorsOf(chain[i - 1])
          BY <2>9, <2>10, <3>2, <4>1, <4>3
        <4> QED
          BY <2>10, <4>2, <4>3, <4>4, <4>5
      <3>3. i \in 1 .. n \/ i = n + 1
        <4> HIDE DEF n
        <4> QED
          BY <1>2
      <3> QED
        BY <3>1, <3>2, <3>3
    <2>13. call'.sofar <= call'.total
      BY <1>1, <2>3, <2>5
    <2>14. call'.sofar < call'.total => call'.sofar = (n + 1) * ClusterBytes
      <3>1. (n + 1) * ClusterBytes = n * ClusterBytes + ClusterBytes
        <4> HIDE DEF n
        <4> QED
          BY <1>2, <2>3
      <3>2. call'.sofar < call'.total => to_copy = ClusterBytes
        BY <1>1, <2>3, <2>5
      <3> QED
        BY <2>5, <2>8, <3>1, <3>2
    <2>15. (n + 1) - 1 = n /\ n + 1 >= 1
      BY <1>2
    <2> DEFINE m == n + 1
    <2>16. n' = m
      BY <2>11 DEF copied
    <2> HIDE DEF n, m
    <2>17. Handed(chain, n)'
      BY <2>7, <2>12, <2>13, <2>14, <2>15, <2>16 DEF Handed, copied, m, chain
    <2>18. ASSUME ~doubtful', ~call'.unheard
           PROVE  OnChain(chain, n)'
      <3>1. chain[m - 1] \in Clusters => call.cluster = chain[m - 1]
        BY <2>1, <2>5, <2>9, <2>15, <2>18 DEF m
      <3> QED
        BY <2>5, <2>6, <2>7, <2>16, <3>1 DEF OnChain, chain
    <2> QED
      BY <2>17, <2>18 DEF FileInv, chain, n
  <1>17. CASE FatNext
    <2>1. UNCHANGED <<call, found, vol>> /\ (doubtful => doubtful')
      BY <1>17 DEF FatNext, Read
    <2> QED
      BY <1>3, <2>1
  <1>18. CASE FollowChain
    <2>1. PICK next \in NextIn :
            LET c == [call EXCEPT !.at = "cluster", !.cluster = next,
                                  !.unheard = @ \/ io.state = "failed"]
            IN  IF call.op = "lookup" /\ next >= FAT32_EOC
                THEN Done(c) /\ found' = NotFound
                ELSE call' = c /\ UNCHANGED found
      BY <1>18 DEF FollowChain
    <2> DEFINE c == [call EXCEPT !.at = "cluster", !.cluster = next,
                                 !.unheard = @ \/ io.state = "failed"]
    <2>2. /\ c.op = call.op /\ c.at = "cluster" /\ c.cluster = next /\ c.over = call.over
          /\ c.copied = call.copied /\ c.sofar = call.sofar /\ c.total = call.total
          /\ c.unheard = (call.unheard \/ io.state = "failed")
          /\ [c EXCEPT !.over = TRUE].op = call.op
      BY DEF TypeOK
    <2>3. call.op = "read" /\ call' = c /\ found' = found
      <3> HIDE DEF c
      <3>1. CASE call.op = "lookup" /\ next >= FAT32_EOC
        <4>1. call' = [c EXCEPT !.over = TRUE]
          BY <2>1, <3>1 DEF Done, c
        <4> QED
          BY <2>2, <3>1, <4>1
      <3>2. CASE ~ (call.op = "lookup" /\ next >= FAT32_EOC)
        <4>1. call' = c /\ found' = found
          BY <2>1, <3>2 DEF c
        <4> QED
          BY <2>2, <4>1
      <3> QED
        BY <3>1, <3>2
    <2> HIDE DEF c
    <2>4. /\ Walking /\ call.at = "fat" /\ io.state \in {"ok", "failed"} /\ ~call.over
          /\ UNCHANGED <<doubtful, vol>>
      BY <1>18 DEF FollowChain, Walking, In
    <2>5. chain' = chain /\ n' = n
      BY <2>2, <2>3, <2>4 DEF Chain
    <2>6. Handed(chain, n)
      BY <1>4, <2>3
    <2>7. ASSUME ~doubtful', ~call'.unheard, chain[n] \in Clusters
          PROVE  next = chain[n]
      <3>1. ~doubtful /\ ~call.unheard /\ io.state = "ok"
        BY <2>2, <2>3, <2>4, <2>7
      <3>2. n >= 1 /\ n - 1 \in Nat /\ (n - 1) + 1 = n
        BY <1>2, <2>4, <2>6 DEF Handed
      <3>3. chain[n] = IF chain[n - 1] \in Clusters THEN vol.fat[chain[n - 1]] ELSE chain[n - 1]
        <4> HIDE DEF chain, n
        <4> QED
          BY <1>2, <3>2
      <3>4. chain[n - 1] \in Clusters /\ chain[n] = vol.fat[chain[n - 1]]
        BY <2>7, <3>3
      <3>5. call.cluster = chain[n - 1]
        BY <1>4, <2>3, <2>4, <3>1, <3>4 DEF OnChain
      <3>6. next = vol.fat[call.cluster]
        BY <2>1, <2>4, <3>1, <3>4, <3>5, NextInTable
      <3> QED
        BY <3>4, <3>5, <3>6
    <2> HIDE DEF chain, n
    <2>8. Handed(chain, n)'
      BY <2>2, <2>3, <2>5, <2>6 DEF Handed
    <2>9. ASSUME ~doubtful', ~call'.unheard
          PROVE  OnChain(chain, n)'
      BY <2>2, <2>3, <2>4, <2>5, <2>7, <2>9 DEF OnChain
    <2> QED
      BY <2>5, <2>8, <2>9 DEF FileInv, chain, n
  <1>19. CASE Transfer
    <2>1. UNCHANGED <<call, found, vol>> /\ (doubtful => doubtful')
      BY <1>19 DEF Transfer, Deliver, Late, Fault
    <2> QED
      BY <1>3, <2>1
  <1>20. CASE UNCHANGED vars
    <2>1. UNCHANGED <<call, found, vol>> /\ (doubtful => doubtful')
      BY <1>20 DEF vars, diskVars
    <2> QED
      BY <1>3, <2>1
  <1> QED
    BY <1>7, <1>8, <1>9, <1>10, <1>11, <1>12, <1>13, <1>14, <1>15, <1>16, <1>17, <1>18, <1>19,
       <1>20 DEF Next, Step

(* read_file hands out the first bytes of the file, cluster by cluster along*)
(* its chain, never more than was asked for, and stops early only where the *)
(* chain leaves the volume or at a sector that could not be read.  The table*)
(* is any; the chain may run in a circle or join that of another file.  What*)
(* is copied once the drive was late, a sector of the table could not be    *)
(* read or the chain has left the volume is whole clusters, and no more is  *)
(* said of it.                                                              *)
THEOREM ReadsFileData == Spec => []FileDataOnly
  <1>1. ASSUME Init
        PROVE  TypeOK /\ IoInv /\ FileInv
    <2>1. call.op = "none"
      BY <1>1 DEF Init, NewCall
    <2> QED
      BY <1>1, <2>1, TypeStarts DEF FileInv
  <1>2. ASSUME TypeOK, IoInv, FileInv, [Next]_vars
        PROVE  (TypeOK /\ IoInv /\ FileInv)'
    BY <1>2, StepTypes, StepIo, StepFile
  <1>3. ASSUME TypeOK, FileInv
        PROVE  FileDataOnly
    <2> SUFFICES ASSUME call.op = "read"
                 PROVE  FileDataOnly
      BY DEF FileDataOnly
    <2>1. /\ Handed(Chain(found.cluster), Len(call.copied))
          /\ ~doubtful /\ ~call.unheard => OnChain(Chain(found.cluster), Len(call.copied))
      BY <1>3 DEF FileInv
    <2> QED
      BY <2>1 DEF Handed, OnChain, FileDataOnly
  <1> QED
    BY <1>1, <1>2, <1>3, PTL DEF Spec

-----------------------------------------------------------------------------
(* lookup_root answers for the directory.  The fourth part of the invariant *)
(* follows the search along the chain of the root directory: the clusters   *)
(* so far are different, and no entry of theirs has decided.  A chain that  *)
(* runs in a circle is no exception: the search goes on in it, and what it  *)
(* reads again does not decide the second time either.  If the chain leaves *)
(* the volume and nothing before that decides, nothing is said.             *)

Root == Chain(RootCluster)
Passed(c) == \A j \in 1 .. SecPerClus : ~Decides(vol.dir[SectorsOf(c)[j]])

Reached(k) ==
  /\ Root[k] = call.cluster
  /\ \A i, j \in 0 .. k : i # j => Root[i] # Root[j]
  /\ \A i \in 0 .. k : Root[i] \in Clusters /\ (i < k \/ call.at = "fat" => Passed(Root[i]))

Answer ==
  \/ call.broken /\ found = NotFound
  \/ /\ found = NotFound
     /\ ~ \E p \in Places : IsFirst(p)
  \/ \E p \in Places :
       /\ IsFirst(p)
       /\ found.cluster = RootEntry(p[1], p[2]).cluster
       /\ found.size = RootEntry(p[1], p[2]).size

Looking == call.op = "lookup" /\ ~doubtful /\ ~call.unheard

LookupInv ==
  Looking /\ ~Strays => /\ call.over => Answer
                        /\ ~call.over => \E k \in Nat : Reached(k)

LEMMA RootSteps ==
  ASSUME TypeOK
  PROVE  /\ Root[0] = 2 /\ 2 \in Clusters
         /\ \A k \in Nat : Root[k] \in Nat
         /\ \A k \in Nat : Root[k] \in Clusters => Root[k + 1] = vol.fat[Root[k]]
         /\ \A k, n \in Nat : k <= n /\ Root[k] \notin Clusters => Root[n] = Root[k]
  <1>1. vol.fat \in Tables /\ RootCluster \in Nat /\ RootCluster = 2 /\ 2 \in Clusters
    BY NumbersAreNatural DEF TypeOK, RootCluster
  <1>2. Root = Links(vol.fat, RootCluster)
    BY DEF Root, Chain
  <1>3. Root[0] = RootCluster /\ \A k \in Nat : Root[k] \in Nat
    <2>1. Root \in [Nat -> Nat] /\ Root[0] = RootCluster
      BY <1>1, <1>2, LinksSteps, ZenonT(30)
    <2> QED
      BY <2>1
  <1>4. \A k \in Nat : Root[k + 1] = IF Root[k] \in Clusters THEN vol.fat[Root[k]] ELSE Root[k]
    BY <1>1, LinksSteps, ZenonT(30) DEF Root, Chain
  <1>5. \A k, n \in Nat : k <= n /\ Root[k] \notin Clusters => Root[n] = Root[k]
    BY <1>1, <1>2, LinksEnd
  <1> QED
    BY <1>1, <1>3, <1>4, <1>5

(* If the chain has left the volume behind clusters that did not decide, no *)
(* entry of the directory decides.                                          *)
LEMMA NoneDecides ==
  ASSUME TypeOK, NEW k \in Nat, Root[k + 1] \notin Clusters, \A i \in 0 .. k : Passed(Root[i]),
         NEW p \in Places
  PROVE  RootEntry(p[1], p[2]).kind \notin {"end", "file"}
  <1>1. /\ p[1] \in Nat /\ p[2] \in 1 .. SecPerClus /\ Root[p[1]] \in Clusters
    BY DEF Places, Root
  <1>2. p[1] \in 0 .. k
    <2>1. ~ (k + 1 <= p[1])
      <3> SUFFICES ASSUME k + 1 <= p[1] PROVE FALSE
        OBVIOUS
      <3>1. Root[p[1]] = Root[k + 1]
        BY <1>1, RootSteps
      <3> QED
        BY <1>1, <3>1
    <2> QED
      BY <1>1, <2>1
  <1>3. ~Decides(RootEntry(p[1], p[2]))
    BY <1>1, <1>2 DEF Passed, RootEntry, Root
  <1> QED
    BY <1>3 DEF Decides

(* The first entry that decides, decides.                                   *)
LEMMA FirstDecides ==
  ASSUME TypeOK, NEW k \in Nat, k < LastCluster, Root[k] \in Clusters,
         \A i \in 0 .. k : i < k => Passed(Root[i]),
         NEW j \in 1 .. SecPerClus, Decides(RootEntry(k, j)),
         \A i \in 1 .. SecPerClus : i < j => ~Decides(RootEntry(k, i))
  PROVE  /\ <<k, j>> \in Places
         /\ RootEntry(k, j).kind = "file" => IsFirst(<<k, j>>)
         /\ RootEntry(k, j).kind = "end" => ~ \E p \in Places : IsFirst(p)
  <1> DEFINE o == <<k, j>>
  <1>0. LastCluster \in Nat /\ SecPerClus \in Nat
    BY Geometry
  <1>1. o \in Places /\ o[1] = k /\ o[2] = j
    BY <1>0 DEF Places, Root
  <1>2. ASSUME NEW q \in Places
        PROVE  q[1] \in Nat /\ q[2] \in 1 .. SecPerClus /\ q = <<q[1], q[2]>>
    BY <1>0 DEF Places
  <1>3. ASSUME NEW q \in Places, Before(q, o)
        PROVE  ~Decides(RootEntry(q[1], q[2]))
    <2>1. CASE q[1] < k
      <3>1. q[1] \in 0 .. k
        BY <1>2, <2>1
      <3> QED
        BY <1>2, <2>1, <3>1 DEF Passed, RootEntry, Root
    <2>2. CASE q[1] = k /\ q[2] < j
      BY <1>2, <2>2
    <2> QED
      BY <1>1, <1>3, <2>1, <2>2 DEF Before
  <1> HIDE DEF o
  <1>4. ASSUME RootEntry(k, j).kind = "file"
        PROVE  IsFirst(o)
    BY <1>1, <1>3, <1>4 DEF IsFirst, Decides
  <1>5. ASSUME RootEntry(k, j).kind = "end", NEW p \in Places, IsFirst(p)
        PROVE  FALSE
    <2>1. RootEntry(p[1], p[2]).kind = "file" /\ ~Before(o, p)
      BY <1>1, <1>5 DEF IsFirst
    <2>2. Before(p, o) \/ (p[1] = k /\ p[2] = j)
      BY <1>1, <1>2, <2>1 DEF Before
    <2>3. CASE Before(p, o)
      BY <1>3, <2>1, <2>3 DEF Decides
    <2>4. CASE p[1] = k /\ p[2] = j
      BY <1>5, <2>1, <2>4
    <2> QED
      BY <2>2, <2>3, <2>4
  <1> QED
    BY <1>1, <1>4, <1>5 DEF o

(* A cluster of entries that was read in time is searched as it stands.     *)
LEMMA EntriesOfCluster ==
  ASSUME TypeOK, IoInv, ClusterRead("lookup"), ~doubtful, call.cluster \in Clusters,
         NEW e \in EntriesIn(io.buffer)
  PROVE  /\ DOMAIN e = 1 .. SecPerClus
         /\ \A i \in 1 .. SecPerClus : e[i] = vol.dir[SectorsOf(call.cluster)[i]]
  <1>1. io.buffer = SectorsOf(call.cluster)
    BY ClusterInBuffer DEF ClusterRead, Walking
  <1>3. Len(io.buffer) = SecPerClus /\ \A i \in 1 .. SecPerClus : io.buffer[i] \in Lba(2) .. LastSector
    BY <1>1, SectorsOfCluster
  <1>4. io.buffer \in Buffers /\ vol.dir \in Dirs
    BY DEF TypeOK
  <1>5. DOMAIN e = 1 .. SecPerClus
    <2>1. DOMAIN e = DOMAIN io.buffer
      BY DEF EntriesIn
    <2>2. DOMAIN io.buffer = 1 .. Len(io.buffer)
      BY <1>4 DEF Buffers
    <2> QED
      BY <1>3, <2>1, <2>2
  <1>6. \A i \in 1 .. SecPerClus : e[i] = vol.dir[io.buffer[i]]
    BY <1>3, <1>4, <1>5, EntriesInType
  <1> QED
    BY <1>1, <1>5, <1>6

LEMMA StepLookup ==
  ASSUME TypeOK, IoInv, LookupInv, [Next]_vars
  PROVE  LookupInv'
  <1> SUFFICES ASSUME Looking', ~Strays'
               PROVE  LookupInv'
    BY DEF LookupInv
  <1>0. Looking' => call'.op = "lookup" /\ ~doubtful' /\ ~call'.unheard
    BY DEF Looking
  <1>1. vol' = vol
    BY DEF Next, Step, vars, IdentifyDisk, Mount, LookupRoot, ReadFile, MountEnds, ReadCluster,
           ReadFileEnds, ClusterFails, SearchCluster, CopyCluster, FatNext, FollowChain, Transfer
  <1>2. /\ Root' = Root /\ ~Strays
        /\ \A c : Passed(c)' = Passed(c)
    BY <1>1 DEF Root, Chain, Passed, Strays, Places, RootEntry
  <1>3. ASSUME UNCHANGED <<call, found>>, doubtful => doubtful'
        PROVE  LookupInv'
    <2>1. Looking
      BY <1>0, <1>2, <1>3 DEF Looking
    <2>2. Answer' = Answer
      BY <1>1, <1>3 DEF Answer, Places, IsFirst, RootEntry, Chain
    <2>3. \A k \in Nat : Reached(k)' = Reached(k)
      BY <1>2, <1>3 DEF Reached
    <2> QED
      BY <1>2, <1>3, <2>1, <2>2, <2>3 DEF LookupInv
  <1>4. ASSUME call'.over, Answer'
        PROVE  LookupInv'
    BY <1>4 DEF LookupInv
  <1>5. ASSUME ~call'.over, NEW k \in Nat, Reached(k)'
        PROVE  LookupInv'
    BY <1>5 DEF LookupInv
  <1>7. CASE IdentifyDisk
    BY <1>0, <1>3, <1>7 DEF IdentifyDisk, Identify
  <1>8. CASE Mount
    BY <1>0, <1>8 DEF Mount, NewCall
  <1>9. CASE LookupRoot
    <2>1. ~call'.over /\ call'.cluster = 2 /\ call'.at = "cluster"
      BY <1>9 DEF LookupRoot, Begin, NewCall, RootCluster
    <2>2. Root[0] = 2 /\ 2 \in Clusters
      BY RootSteps
    <2>3. Reached(0)'
      BY <1>2, <2>1, <2>2 DEF Reached
    <2> QED
      BY <1>5, <2>1, <2>3
  <1>10. CASE ReadFile
    BY <1>0, <1>10 DEF ReadFile, Begin, NewCall
  <1>11. CASE MountEnds
    <2>1. call.op = "mount" /\ call' = [call EXCEPT !.over = TRUE]
      BY <1>11 DEF MountEnds, In, Done
    <2> QED
      BY <1>0, <2>1 DEF TypeOK
  <1>12. CASE ReadCluster
    <2>1. UNCHANGED <<call, found>> /\ (doubtful => doubtful')
      BY <1>0, <1>12 DEF ReadCluster, Read
    <2> QED
      BY <1>3, <2>1
  <1>13. CASE ReadFileEnds
    <2>1. call.op # "lookup" /\ call' = [call EXCEPT !.over = TRUE]
      BY <1>13 DEF ReadFileEnds, Done, Loops
    <2> QED
      BY <1>0, <2>1 DEF TypeOK
  <1>14. CASE ClusterFails
    <2>1. call' = [[call EXCEPT !.broken = TRUE] EXCEPT !.over = TRUE]
      BY <1>14 DEF ClusterFails, Done
    <2>2. call'.op = call.op /\ call'.over /\ call'.broken
      BY <2>1 DEF TypeOK
    <2>3. found' = NotFound
      BY <1>0, <1>14, <2>2 DEF ClusterFails
    <2>4. Answer'
      BY <2>2, <2>3 DEF Answer, NotFound
    <2> QED
      BY <1>4, <2>2, <2>4
  <1>15. CASE SearchCluster
    <2>1. ClusterRead("lookup") /\ In("lookup") /\ call.at = "cluster" /\ ~call.over
      BY <1>15 DEF SearchCluster, ClusterRead, In
    <2>2. PICK e \in EntriesIn(io.buffer) :
            LET decides == {i \in DOMAIN e : Decides(e[i])}
                first   == CHOOSE i \in decides : \A j \in decides : i <= j
            IN  IF decides = {} THEN call' = [call EXCEPT !.at = "fat"] /\ UNCHANGED found
                ELSE /\ Done(call)
                     /\ found' = IF e[first].kind = "end" THEN NotFound
                                 ELSE [cluster |-> e[first].cluster, size |-> e[first].size]
      BY <1>15 DEF SearchCluster
    <2> DEFINE decides == {i \in DOMAIN e : Decides(e[i])}
               first   == CHOOSE i \in decides : \A j \in decides : i <= j
    <2>3. /\ decides = {} => call' = [call EXCEPT !.at = "fat"] /\ found' = found
          /\ decides # {} => /\ call' = [call EXCEPT !.over = TRUE]
                             /\ found' = IF e[first].kind = "end" THEN NotFound
                                         ELSE [cluster |-> e[first].cluster, size |-> e[first].size]
      BY <2>2 DEF Done
    <2>4. Looking
      <3>1. call'.unheard = call.unheard
        BY <2>3 DEF TypeOK
      <3>2. doubtful' = doubtful
        BY <1>15 DEF SearchCluster
      <3> QED
        BY <1>0, <1>2, <2>1, <3>1, <3>2 DEF Looking, In
    <2>5. PICK k \in Nat : Reached(k)
      BY <1>2, <2>1, <2>4 DEF LookupInv
    <2>6. /\ Root[k] = call.cluster /\ Root[k] \in Clusters
          /\ \A i, j \in 0 .. k : i # j => Root[i] # Root[j]
          /\ \A i \in 0 .. k : Root[i] \in Clusters /\ (i < k => Passed(Root[i]))
      BY <2>5 DEF Reached
    <2>7. k < LastCluster
      BY <2>6, FewDifferent
    <2>8. DOMAIN e = 1 .. SecPerClus /\ \A i \in 1 .. SecPerClus : e[i] = RootEntry(k, i)
      BY <2>1, <2>4, <2>6, EntriesOfCluster DEF RootEntry, Root, Looking
    <2>9. CASE decides = {}
      <3>1. Passed(Root[k])
        BY <2>8, <2>9 DEF Passed, RootEntry, Root
      <3>2. ~call'.over /\ call'.cluster = call.cluster
        BY <2>1, <2>3, <2>9 DEF TypeOK
      <3>3. \A i \in 0 .. k : Root[i] \in Clusters /\ Passed(Root[i])
        BY <2>6, <3>1
      <3>4. Reached(k)'
        BY <1>2, <2>6, <3>2, <3>3 DEF Reached
      <3> QED
        BY <1>5, <3>2, <3>4
    <2>10. CASE decides # {}
      <3>1. first \in decides /\ \A i \in decides : first <= i
        <4>1. decides \subseteq Nat
          BY <2>8, Geometry
        <4> HIDE DEF decides
        <4>2. \E i \in decides : \A j \in decides : i <= j
          BY <2>10, <4>1, LeastElement
        <4> QED
          BY <4>2
      <3> HIDE DEF first
      <3>2. first \in 1 .. SecPerClus /\ Decides(RootEntry(k, first))
        BY <2>8, <3>1
      <3>3. \A i \in 1 .. SecPerClus : i < first => ~Decides(RootEntry(k, i))
        <4> SUFFICES ASSUME NEW i \in 1 .. SecPerClus, i < first, Decides(RootEntry(k, i))
                     PROVE  FALSE
          OBVIOUS
        <4>1. i \in decides
          BY <2>8
        <4>2. first <= i /\ first \in Nat /\ i \in Nat
          BY <3>1, <3>2, <4>1, Geometry
        <4> QED
          BY <4>2
      <3>4. /\ <<k, first>> \in Places
            /\ RootEntry(k, first).kind = "file" => IsFirst(<<k, first>>)
            /\ RootEntry(k, first).kind = "end" => ~ \E p \in Places : IsFirst(p)
        BY <2>6, <2>7, <3>2, <3>3, FirstDecides
      <3>5. call'.over
        BY <2>3, <2>10 DEF TypeOK
      <3>6. /\ found' = IF RootEntry(k, first).kind = "end" THEN NotFound
                        ELSE [cluster |-> RootEntry(k, first).cluster,
                              size |-> RootEntry(k, first).size]
        BY <2>3, <2>8, <2>10, <3>2
      <3>7. Places' = Places /\ \A p : IsFirst(p)' = IsFirst(p)
            /\ \A i, j : RootEntry(i, j)' = RootEntry(i, j)
        BY <1>1 DEF Places, IsFirst, RootEntry, Chain
      <3>8. CASE RootEntry(k, first).kind = "end"
        <4>1. Answer'
          BY <3>4, <3>6, <3>7, <3>8 DEF Answer, NotFound
        <4> QED
          BY <1>4, <3>5, <4>1
      <3>9. CASE RootEntry(k, first).kind # "end"
        <4>1. RootEntry(k, first).kind = "file"
          BY <3>2, <3>9 DEF Decides
        <4> DEFINE p == <<k, first>>
        <4>2. p \in Places /\ IsFirst(p) /\ p[1] = k /\ p[2] = first
          BY <3>4, <4>1
        <4>3. /\ found'.cluster = RootEntry(p[1], p[2]).cluster
              /\ found'.size = RootEntry(p[1], p[2]).size
          BY <3>6, <3>9
        <4> HIDE DEF p
        <4>4. Answer'
          BY <3>7, <4>2, <4>3 DEF Answer
        <4> QED
          BY <1>4, <3>5, <4>4
      <3> QED
        BY <3>8, <3>9
    <2> QED
      BY <2>9, <2>10
  <1>16. CASE CopyCluster
    <2>1. call.op = "read"
      BY <1>16 DEF CopyCluster, ClusterRead, In
    <2>2. call'.op = call.op
      BY <1>16 DEF CopyCluster, TypeOK
    <2> QED
      BY <1>0, <2>1, <2>2
  <1>17. CASE FatNext
    <2>1. UNCHANGED <<call, found>> /\ (doubtful => doubtful')
      BY <1>0, <1>17 DEF FatNext, Read
    <2> QED
      BY <1>3, <2>1
  <1>18. CASE FollowChain
    <2>1. PICK next \in NextIn :
            LET c == [call EXCEPT !.at = "cluster", !.cluster = next,
                                  !.unheard = @ \/ io.state = "failed"]
            IN  IF call.op = "lookup" /\ next >= FAT32_EOC
                THEN Done(c) /\ found' = NotFound
                ELSE call' = c /\ UNCHANGED found
      BY <1>18 DEF FollowChain
    <2> DEFINE c == [call EXCEPT !.at = "cluster", !.cluster = next,
                                 !.unheard = @ \/ io.state = "failed"]
    <2>2. /\ c.op = call.op /\ c.at = "cluster" /\ c.cluster = next /\ c.over = call.over
          /\ c.unheard = (call.unheard \/ io.state = "failed")
          /\ [c EXCEPT !.over = TRUE].op = call.op
          /\ [c EXCEPT !.over = TRUE].over
          /\ [c EXCEPT !.over = TRUE].unheard = c.unheard
      BY DEF TypeOK
    <2>3. /\ Walking /\ call.at = "fat" /\ io.state \in {"ok", "failed"} /\ ~call.over
          /\ doubtful' = doubtful
      BY <1>18 DEF FollowChain, Walking, In
    <2>4. \/ next >= FAT32_EOC /\ call' = [c EXCEPT !.over = TRUE] /\ found' = NotFound
          \/ ~ (call.op = "lookup" /\ next >= FAT32_EOC) /\ call' = c
      BY <2>1 DEF Done
    <2> HIDE DEF c
    <2>5. call.op = "lookup" /\ ~doubtful /\ ~call.unheard /\ io.state = "ok"
      BY <1>0, <2>2, <2>3, <2>4
    <2>6. Looking
      BY <1>2, <2>5 DEF Looking
    <2>7. PICK k \in Nat : Reached(k)
      BY <1>2, <2>3, <2>6 DEF LookupInv
    <2>8. /\ Root[k] = call.cluster
          /\ \A i, j \in 0 .. k : i # j => Root[i] # Root[j]
          /\ \A i \in 0 .. k : Root[i] \in Clusters /\ Passed(Root[i])
      BY <2>3, <2>7 DEF Reached
    <2>9. k < LastCluster
      BY <2>8, FewDifferent
    <2>10. next = Root[k + 1]
      <3>1. next = vol.fat[call.cluster]
        BY <2>1, <2>3, <2>5, <2>8, NextInTable
      <3> QED
        BY <2>8, <3>1, RootSteps
    <2>11. CASE next \notin Clusters
      <3>1. \A p \in Places : RootEntry(p[1], p[2]).kind \notin {"end", "file"}
        BY <2>8, <2>10, <2>11, NoneDecides
      <3>2. next >= FAT32_EOC
        <4> SUFFICES ASSUME ~ (next >= FAT32_EOC) PROVE FALSE
          OBVIOUS
        <4>1. k + 1 \in 0 .. LastCluster
          BY <2>9, Geometry
        <4>2. next \in Nat
          BY <2>10, RootSteps
        <4>3. Root[k + 1] < FAT32_EOC /\ Root[k + 1] \notin Clusters
          BY <2>10, <2>11, <4>2, Geometry
        <4> QED
          BY <1>2, <3>1, <4>1, <4>3 DEF Strays, Root
      <3>3. call'.over /\ found' = NotFound
        BY <2>2, <2>4, <2>5, <3>2
      <3>4. ~ \E p \in Places : IsFirst(p)
        BY <3>1 DEF IsFirst
      <3>5. Places' = Places /\ \A p : IsFirst(p)' = IsFirst(p)
        BY <1>1 DEF Places, IsFirst, RootEntry, Chain
      <3>6. Answer'
        BY <3>3, <3>4, <3>5 DEF Answer, NotFound
      <3> QED
        BY <1>4, <3>3, <3>6
    <2>12. CASE next \in Clusters
      <3>1. call' = c /\ ~call'.over /\ call'.cluster = next /\ call'.at = "cluster"
        <4>1. ~ (next >= FAT32_EOC)
          BY <2>12, NumbersAreNatural, Geometry
        <4> QED
          BY <2>2, <2>3, <2>4, <4>1
      <3>2. next \in Clusters
        BY <2>12
      <3>3. CASE \E j \in 0 .. k : Root[j] = next
        <4>1. PICK j \in 0 .. k : Root[j] = next
          BY <3>3
        <4>2. j \in Nat /\ \A i \in 0 .. j : i \in 0 .. k
          OBVIOUS
        <4>3. Reached(j)'
          BY <1>2, <2>8, <3>1, <4>1, <4>2 DEF Reached
        <4> QED
          BY <1>5, <3>1, <4>2, <4>3
      <3>4. CASE \A j \in 0 .. k : Root[j] # next
        <4>1. k + 1 \in Nat /\ \A i \in 0 .. k + 1 : i \in 0 .. k \/ i = k + 1
          OBVIOUS
        <4>2. \A i, j \in 0 .. k + 1 : i # j => Root[i] # Root[j]
          BY <2>8, <2>10, <3>4, <4>1
        <4>3. \A i \in 0 .. k + 1 : Root[i] \in Clusters /\ (i < k + 1 => Passed(Root[i]))
          BY <2>8, <2>10, <3>2, <4>1
        <4>4. Reached(k + 1)'
          BY <1>2, <2>10, <3>1, <4>2, <4>3 DEF Reached
        <4> QED
          BY <1>5, <3>1, <4>1, <4>4
      <3> QED
        BY <3>3, <3>4
    <2> QED
      BY <2>11, <2>12
  <1>19. CASE Transfer
    <2>1. UNCHANGED <<call, found>> /\ (doubtful => doubtful')
      BY <1>0, <1>19 DEF Transfer, Deliver, Late, Fault
    <2> QED
      BY <1>3, <2>1
  <1>20. CASE UNCHANGED vars
    <2>1. UNCHANGED <<call, found>> /\ (doubtful => doubtful')
      BY <1>0, <1>20 DEF vars, diskVars
    <2> QED
      BY <1>3, <2>1
  <1> QED
    BY <1>7, <1>8, <1>9, <1>10, <1>11, <1>12, <1>13, <1>14, <1>15, <1>16, <1>17, <1>18, <1>19,
       <1>20 DEF Next, Step

(* lookup_root finds the entry of the name in whatever cluster it is, the   *)
(* first one that no end mark precedes, and says that there is none only if *)
(* there is none or a cluster could not be read; it does not invent one.    *)
(* Nothing is said of a call in which the drive was late or a sector of the *)
(* table could not be read, and of one that follows the chain out of the    *)
(* volume.                                                                  *)
THEOREM LookupFindsEntry == Spec => []FoundIsThere
  <1>1. ASSUME Init
        PROVE  TypeOK /\ IoInv /\ LookupInv
    <2>1. call.op = "none"
      BY <1>1 DEF Init, NewCall
    <2> QED
      BY <1>1, <2>1, TypeStarts DEF LookupInv, Looking
  <1>2. ASSUME TypeOK, IoInv, LookupInv, [Next]_vars
        PROVE  (TypeOK /\ IoInv /\ LookupInv)'
    BY <1>2, StepTypes, StepIo, StepLookup
  <1>3. ASSUME LookupInv
        PROVE  FoundIsThere
    BY <1>3 DEF LookupInv, Looking, Answer, FoundIsThere
  <1> QED
    BY <1>1, <1>2, <1>3, PTL DEF Spec
=============================================================================
