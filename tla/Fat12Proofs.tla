----------------------------- MODULE Fat12Proofs -----------------------------
(***************************************************************************)
(* What holds of the FAT12 driver on every volume, for every caller and    *)
(* whatever reads fail.                                                    *)
(***************************************************************************)
EXTENDS Fat12Properties, SequenceTheorems, TLAPS, NaturalsInduction, WellFoundedInduction

USE DEF Handle, Files, ROOT_DIRECTORY_HANDLE, NoSector, NoHandle

(***************************************************************************)
(* Arithmetic.                                                             *)
(***************************************************************************)
LEMMA DivMod ==
  ASSUME NEW x \in Nat, NEW d \in Nat \ {0}
  PROVE  /\ x \div d \in Nat
         /\ x % d \in 0 .. d - 1
         /\ x = d * (x \div d) + (x % d)
PROOF
  OBVIOUS

LEMMA TimesMonotone ==
  ASSUME NEW a \in Nat, NEW b \in Nat, NEW d \in Nat, a <= b
  PROVE  a * d \in Nat /\ b * d \in Nat /\ a * d <= b * d
PROOF
  OBVIOUS

(* A quotient stays below q when the dividend stays below q * d.           *)
LEMMA QuotientBound ==
  ASSUME NEW x \in Nat, NEW q \in Nat, NEW d \in Nat \ {0}, x < q * d
  PROVE  x \div d \in 0 .. q - 1
PROOF
<1>1. x \div d \in Nat /\ x = d * (x \div d) + (x % d) /\ x % d \in 0 .. d - 1
  BY DivMod
<1>2. ASSUME q <= x \div d PROVE FALSE
  <2>1. q * d <= (x \div d) * d
    BY <1>1, <1>2, TimesMonotone
  <2> QED
    BY <2>1, <1>1
<1> QED
  BY <1>1, <1>2

(* Offset o of sector s of a region of q sectors lies in the region.       *)
LEMMA OffsetInRegion ==
  ASSUME NEW s \in Nat, NEW q \in Nat, s < q, NEW d \in Nat \ {0}, NEW o \in 0 .. d - 1
  PROVE  s * d + o \in 0 .. (q * d) - 1
PROOF
<1>1. (s + 1) * d <= q * d /\ (s + 1) * d \in Nat /\ q * d \in Nat
  BY TimesMonotone
<1>2. (s + 1) * d = s * d + d
  OBVIOUS
<1>3. s * d \in Nat
  BY TimesMonotone
<1> QED
  BY <1>1, <1>2, <1>3

LEMMA Geometry ==
  /\ SECTOR_SIZE \in Nat \ {0} /\ ENTRY_SIZE \in Nat \ {0}
  /\ WORD \in Nat /\ WORD > 8192
  /\ SectorsPerFat \in Nat \ {0} /\ SectorsPerCluster \in Nat \ {0}
  /\ TotalSectors \in Nat /\ FAT_CACHE_SIZE \in Nat \ {0}
  /\ RootLba \in Nat /\ RootSize \in Nat /\ RootSectors \in Nat /\ DataLba \in Nat
  /\ ClusterSize \in Nat \ {0}
  /\ EntriesPerSector \in Nat /\ EntriesPerSector * ENTRY_SIZE = SECTOR_SIZE
PROOF
<1> USE GeometryAssumption, DriverAssumption
<1>1. SectorsPerFat * FatCount \in Nat /\ RootSize \in Nat
  BY DEF RootSize
<1>2. RootLba \in Nat
  BY <1>1 DEF RootLba
<1>3. RootSectors \in Nat /\ DataLba \in Nat
  BY <1>1, <1>2 DEF RootSectors, DataLba
<1>4. ClusterSize \in Nat \ {0}
  BY DEF ClusterSize
<1>5. EntriesPerSector \in Nat /\ EntriesPerSector * ENTRY_SIZE = SECTOR_SIZE
  BY DivMod DEF EntriesPerSector
<1> QED
  BY <1>1, <1>2, <1>3, <1>4, <1>5

LEMMA SectorPositive == SECTOR_SIZE \in Nat \ {0} /\ FAT_CACHE_SIZE \in Nat
PROOF
  BY Geometry

LEMMA LbaOfCluster ==
  ASSUME NEW c \in Nat
  PROVE  ClusterToLba(c) \in Nat
PROOF
<1>1. DataLba + (c - 2) * SectorsPerCluster \in Int
  BY Geometry
<1> QED
  BY <1>1, Geometry DEF ClusterToLba

(***************************************************************************)
(* Types of the volume's functions.                                        *)
(***************************************************************************)
LEMMA FatEntryType ==
  ASSUME NEW c \in Nat
  PROVE  FatEntry(c) \in Nat
PROOF
<1>1. CASE \E f \in DOMAIN Chain : \E i \in DOMAIN Chain[f] : Chain[f][i] = c
  <2> DEFINE f == CHOOSE g \in DOMAIN Chain : \E i \in DOMAIN Chain[g] : Chain[g][i] = c
             i == CHOOSE j \in DOMAIN Chain[f] : Chain[f][j] = c
  <2>1. f \in DOMAIN Chain /\ \E j \in DOMAIN Chain[f] : Chain[f][j] = c
    BY <1>1
  <2>2. i \in DOMAIN Chain[f]
    BY <2>1
  <2>3. Chain[f] \in Seq(DataCluster)
    BY <2>1, ChainAssumption
  <2>4. FatEntry(c) = IF i = Len(Chain[f]) THEN FatEnd ELSE Chain[f][i + 1]
    BY <1>1 DEF FatEntry
  <2> HIDE DEF f, i
  <2>5. DOMAIN Chain[f] = 1 .. Len(Chain[f]) /\ Len(Chain[f]) \in Nat
    BY <2>3
  <2>6. i # Len(Chain[f]) => i + 1 \in 1 .. Len(Chain[f])
    BY <2>2, <2>5
  <2>7. \A j \in 1 .. Len(Chain[f]) : Chain[f][j] \in DataCluster
    BY <2>3, ElementOfSeq
  <2>8. ASSUME i # Len(Chain[f]) PROVE Chain[f][i + 1] \in Nat
    <3>1. Chain[f][i + 1] \in DataCluster
      BY <2>6, <2>7, <2>8
    <3>2. \A x \in DataCluster : x \in Nat
      BY DEF DataCluster
    <3> QED
      BY <3>1, <3>2
  <2> QED
    BY <2>4, <2>8 DEF FatEnd
<1>2. CASE ~ \E f \in DOMAIN Chain : \E i \in DOMAIN Chain[f] : Chain[f][i] = c
  <2>1. FatEntry(c) = IF c = 0 THEN 4080 ELSE IF c = 1 THEN FatEnd ELSE 0
    BY <1>2 DEF FatEntry
  <2> QED
    BY <2>1 DEF FatEnd
<1> QED
  BY <1>1, <1>2

LEMMA FatByteType ==
  ASSUME NEW b \in 0 .. (SectorsPerFat * SECTOR_SIZE) - 1
  PROVE  FatByte[b] \in Nat
PROOF
<1> DEFINE even == FatEntry(2 * (b \div 3))
           odd  == FatEntry(2 * (b \div 3) + 1)
<1>1. SectorsPerFat * SECTOR_SIZE \in Nat
  BY Geometry, TimesMonotone
<1>2. b \in Nat /\ 2 * (b \div 3) \in Nat /\ 2 * (b \div 3) + 1 \in Nat
  BY <1>1
<1>3. even \in Nat /\ odd \in Nat
  BY <1>2, FatEntryType
<1>4. FatByte[b] = CASE b % 3 = 0 -> even % 256
                     [] b % 3 = 1 -> (even \div 256) + 16 * (odd % 16)
                     [] b % 3 = 2 -> odd \div 16
  BY DEF FatByte
<1> HIDE DEF even, odd
<1>5. b % 3 = 0 \/ b % 3 = 1 \/ b % 3 = 2
  BY <1>2
<1>6. even % 256 \in Nat /\ even \div 256 \in Nat /\ odd % 16 \in Nat /\ odd \div 16 \in Nat
  BY <1>3
<1>7. (even \div 256) + 16 * (odd % 16) \in Nat
  BY <1>6
<1> QED
  BY <1>4, <1>5, <1>6, <1>7

LEMMA FatSectorByteType ==
  ASSUME NEW s \in Nat, NEW o \in 0 .. SECTOR_SIZE - 1
  PROVE  FatSectorByte(s, o) \in Nat
PROOF
<1> DEFINE t == s % SectorsPerFat
<1>1. t \in Nat /\ t < SectorsPerFat
  BY Geometry
<1>2. t * SECTOR_SIZE + o \in 0 .. (SectorsPerFat * SECTOR_SIZE) - 1
  BY <1>1, Geometry, OffsetInRegion
<1>3. FatByte[t * SECTOR_SIZE + o] \in Nat
  BY <1>2, FatByteType
<1> QED
  BY <1>3 DEF FatSectorByte

LEMMA EntryAtType ==
  ASSUME NEW entries \in Seq(EntryType), NEW k \in Int
  PROVE  EntryAt(entries, k) \in EntryType
PROOF
<1>1. EndEntry \in EntryType
  BY DEF EndEntry, EntryType
<1>2. k \in DOMAIN entries => entries[k] \in EntryType
  OBVIOUS
<1> QED
  BY <1>1, <1>2 DEF EntryAt

LEMMA DirSlotType ==
  ASSUME NEW lba \in 0 .. TotalSectors - 1, NEW k \in 0 .. EntriesPerSector - 1
  PROVE  DirSlot[lba][k] \in EntryType
PROOF
<1>1. DirSlot[lba][k] =
        IF lba < RootLba THEN JunkEntry
        ELSE IF lba < DataLba THEN EntryAt(RootDir, (lba - RootLba) * EntriesPerSector + k + 1)
        ELSE IF Owner(lba) = {} THEN EndEntry
        ELSE DataEntry(CHOOSE o \in Owner(lba) : TRUE, k)
  BY DEF DirSlot
<1>2. JunkEntry \in EntryType /\ EndEntry \in EntryType
  BY DEF JunkEntry, EndEntry, EntryType
<1>3. lba \in Int /\ k \in Int
  BY Geometry
<1>4. EntryAt(RootDir, (lba - RootLba) * EntriesPerSector + k + 1) \in EntryType
  <2>1. (lba - RootLba) * EntriesPerSector + k + 1 \in Int
    BY <1>3, Geometry
  <2> QED
    BY <2>1, EntryAtType, EntryAssumption
<1>5. ASSUME Owner(lba) # {}
      PROVE  DataEntry(CHOOSE o \in Owner(lba) : TRUE, k) \in EntryType
  <2> DEFINE o == CHOOSE x \in Owner(lba) : TRUE
  <2>1. o \in Owner(lba)
    BY <1>5
  <2>2. o[2] \in 0 .. TotalSectors
    BY <2>1 DEF Owner
  <2> HIDE DEF o
  <2>3. o[2] * EntriesPerSector + k + 1 \in Int
    BY <2>2, <1>3, Geometry
  <2>4. o[1] \in DOMAIN Dirs => EntryAt(Dirs[o[1]], o[2] * EntriesPerSector + k + 1) \in EntryType
    BY <2>3, EntryAtType, EntryAssumption
  <2>5. DataEntry(o, k) \in EntryType
    BY <2>4, <1>2 DEF DataEntry
  <2> QED
    BY <2>5 DEF o
<1> QED
  BY <1>1, <1>2, <1>4, <1>5

(***************************************************************************)
(* Types of the cache and of one loop iteration.                           *)
(***************************************************************************)
CacheType == [0 .. FAT_CACHE_SIZE - 1 -> Nat \cup {NoSector}]

LEMMA CacheByteType ==
  ASSUME NEW c \in CacheType, NEW pos \in Nat, NEW i \in Nat
  PROVE  CacheByte(c, pos, i) \in Nat
PROOF
<1>1. i \div SECTOR_SIZE \in Nat /\ i % SECTOR_SIZE \in 0 .. SECTOR_SIZE - 1
  BY DivMod, SectorPositive
<1>2. pos % 256 \in Nat
  OBVIOUS
<1>3. ASSUME i < FAT_CACHE_SIZE * SECTOR_SIZE
      PROVE  c[i \div SECTOR_SIZE] \in Nat \cup {NoSector}
  <2>1. i \div SECTOR_SIZE \in 0 .. FAT_CACHE_SIZE - 1
    BY <1>3, QuotientBound, SectorPositive
  <2> QED
    BY <2>1 DEF CacheType
<1>4. ASSUME i < FAT_CACHE_SIZE * SECTOR_SIZE, c[i \div SECTOR_SIZE] # NoSector
      PROVE  FatSectorByte(c[i \div SECTOR_SIZE], i % SECTOR_SIZE) \in Nat
  BY <1>1, <1>3, <1>4, FatSectorByteType
<1> QED
  BY <1>2, <1>4 DEF CacheByte

LEMMA DecodedType ==
  ASSUME NEW c \in CacheType, NEW pos \in Nat, NEW cluster \in Nat,
         pos <= FatSector(cluster)
  PROVE  Decoded(c, pos, cluster) \in Nat
PROOF
<1> DEFINE i == FatIndex(cluster) - pos * SECTOR_SIZE
           pair == CacheByte(c, pos, i) + 256 * CacheByte(c, pos, i + 1)
<1>1. FatIndex(cluster) \in Nat
  BY DEF FatIndex
<1>2. i \in Nat
  <2> DEFINE s == FatIndex(cluster) \div SECTOR_SIZE
             r == FatIndex(cluster) % SECTOR_SIZE
  <2>1. s \in Nat /\ r \in 0 .. SECTOR_SIZE - 1 /\ FatIndex(cluster) = SECTOR_SIZE * s + r
    BY <1>1, DivMod, SectorPositive
  <2>2. pos <= s
    BY DEF FatSector
  <2> HIDE DEF s, r
  <2>3. pos * SECTOR_SIZE <= s * SECTOR_SIZE /\ pos * SECTOR_SIZE \in Nat /\ s * SECTOR_SIZE \in Nat
    BY <2>1, <2>2, TimesMonotone, SectorPositive
  <2> QED
    BY <2>1, <2>3, <1>1, SectorPositive
<1>3. pair \in Nat
  <2>1. i + 1 \in Nat
    BY <1>2
  <2>2. CacheByte(c, pos, i) \in Nat /\ CacheByte(c, pos, i + 1) \in Nat
    BY <1>2, <2>1, CacheByteType
  <2> QED
    BY <2>2
<1>4. Decoded(c, pos, cluster) =
        Widened(IF cluster % 2 = 0 THEN pair % 4096 ELSE pair \div 16)
  BY DEF Decoded
<1> HIDE DEF pair
<1>5. (IF cluster % 2 = 0 THEN pair % 4096 ELSE pair \div 16) \in Nat
  BY <1>3
<1> QED
  BY <1>4, <1>5, Geometry DEF Widened
(* What a step of the driver may assume of the FAT cache, and of what      *)
(* NextCluster finds out.                                                  *)
CacheOK == cachePos \in Nat /\ cache \in CacheType /\ fatFaults \in 0 .. MaxFatFaults

LookOK(l) ==
  /\ l.next \in Nat /\ l.pos \in Nat /\ l.cache \in CacheType
  /\ l.faults \in 0 .. MaxFatFaults

LEMMA LookupType ==
  ASSUME CacheOK, NEW cluster \in Nat, NEW l \in NextCluster(cluster)
  PROVE  LookOK(l)
PROOF
<1>1. FatIndex(cluster) \in Nat
  BY DEF FatIndex
<1>2. FatSector(cluster) \in Nat
  BY <1>1, DivMod, SectorPositive DEF FatSector
<1>3. CASE CacheHit(cluster)
  <2>1. l = [next |-> Decoded(cache, cachePos, cluster),
             pos |-> cachePos, cache |-> cache, faults |-> fatFaults]
    BY <1>3 DEF NextCluster
  <2>2. cachePos <= FatSector(cluster)
    BY <1>3, <1>2 DEF CacheHit, CacheOK
  <2>3. Decoded(cache, cachePos, cluster) \in Nat
    BY <2>2, DecodedType DEF CacheOK
  <2> QED
    BY <2>1, <2>3 DEF LookOK, CacheOK
<1>4. CASE ~CacheHit(cluster)
  <2> DEFINE s == FatSector(cluster)
  <2>1. PICK k \in FillOutcomes(s) :
          l = [next |-> Decoded(Filled(s, k), s, cluster), pos |-> s, cache |-> Filled(s, k),
               faults |-> IF k < OnDrive(s) THEN fatFaults + 1 ELSE fatFaults]
    BY <1>4 DEF NextCluster
  <2>2. OnDrive(s) \in Nat
    BY <1>2, GeometryAssumption, DriverAssumption DEF OnDrive
  <2>3. k \in Nat /\ (k < OnDrive(s) => fatFaults < MaxFatFaults)
    BY <2>2 DEF FillOutcomes
  <2>4. Filled(s, k) \in CacheType
    BY <1>2, <2>3 DEF Filled, CacheOK, CacheType
  <2>5. Decoded(Filled(s, k), s, cluster) \in Nat
    BY <1>2, <2>4, DecodedType
  <2>6. (IF k < OnDrive(s) THEN fatFaults + 1 ELSE fatFaults) \in 0 .. MaxFatFaults
    BY <2>3, DriverAssumption DEF CacheOK
  <2> QED
    BY <1>2, <2>1, <2>4, <2>5, <2>6 DEF LookOK
<1> QED
  BY <1>3, <1>4

LEMMA NoLookupType ==
  ASSUME CacheOK, NEW cluster \in Nat, NEW l \in NoLookup(cluster)
  PROVE  LookOK(l)
PROOF
  BY DEF CacheOK, LookOK, NoLookup

LEMMA TakeType ==
  ASSUME NEW fd \in AnyFile, NEW n \in Nat
  PROVE  /\ InBuffer(fd) \in 1 .. SECTOR_SIZE
         /\ Take(fd, n) \in 0 .. n
PROOF
<1>1. fd.position \in Nat
  BY DEF AnyFile
<1>2. fd.position % SECTOR_SIZE \in 0 .. SECTOR_SIZE - 1
  BY <1>1, DivMod, SectorPositive
<1>3. InBuffer(fd) \in 1 .. SECTOR_SIZE
  BY <1>2, SectorPositive DEF InBuffer
<1>4. Take(fd, n) \in 0 .. n
  BY <1>3, SectorPositive DEF Take
<1> QED
  BY <1>3, <1>4

LEMMA NextSectorsType ==
  ASSUME CacheOK, NEW fd \in AnyFile, NEW s \in NextSectors(fd)
  PROVE  /\ LookOK(s.look) /\ s.fd \in AnyFile
         /\ s.fd.opened = fd.opened /\ s.fd.buffer = fd.buffer
PROOF
<1> DEFINE last == fd.sector + 1 >= SectorsPerCluster
<1>1. PICK l \in IF last THEN NextCluster(fd.cluster) ELSE NoLookup(fd.cluster) :
        s = [look |-> l,
             fd   |-> [fd EXCEPT !.cluster = l.next, !.sector = IF last THEN 0 ELSE @ + 1]]
  BY DEF NextSectors
<1>2. fd.cluster \in Nat /\ fd.sector \in 0 .. SectorsPerCluster - 1
  BY DEF AnyFile
<1>3. LookOK(l)
  BY <1>1, <1>2, LookupType, NoLookupType
<1>4. (IF last THEN 0 ELSE fd.sector + 1) \in 0 .. SectorsPerCluster - 1
  BY <1>2, Geometry
<1>5. l.next \in Nat
  BY <1>3 DEF LookOK
<1> HIDE DEF last
<1>6. s.fd = [fd EXCEPT !.cluster = l.next, !.sector = IF last THEN 0 ELSE fd.sector + 1]
  BY <1>1
<1>7. s.fd \in AnyFile /\ s.fd.opened = fd.opened /\ s.fd.buffer = fd.buffer
  BY <1>4, <1>5, <1>6 DEF AnyFile
<1> QED
  BY <1>1, <1>3, <1>7

LEMMA LbaOfSector ==
  ASSUME NEW fd \in AnyFile
  PROVE  ClusterToLba(fd.cluster) + fd.sector \in Nat
PROOF
<1>1. fd.cluster \in Nat /\ fd.sector \in 0 .. SectorsPerCluster - 1
  BY DEF AnyFile
<1>2. fd.sector \in Nat
  BY <1>1, Geometry
<1> QED
  BY <1>1, <1>2, LbaOfCluster

LEMMA ReadOutcomesType ==
  ASSUME NEW lba \in Nat, NEW ok \in ReadOutcomes(lba), sectorFaults \in Nat
  PROVE  /\ ok \in BOOLEAN
         /\ ok => lba \in 0 .. TotalSectors - 1
         /\ ~ok /\ lba < TotalSectors => sectorFaults < MaxSectorFaults
PROOF
<1>1. ok = TRUE \/ ok = FALSE
  BY DEF ReadOutcomes
<1>2. ASSUME ok = TRUE PROVE lba < TotalSectors
  BY <1>2 DEF ReadOutcomes
<1>3. ASSUME ok = FALSE, lba < TotalSectors PROVE sectorFaults < MaxSectorFaults
  BY <1>3 DEF ReadOutcomes
<1>4. lba < TotalSectors => lba \in 0 .. TotalSectors - 1
  BY Geometry
<1> QED
  BY <1>1, <1>2, <1>3, <1>4, Zenon

(* A failing read is counted once, within the bound.                       *)
LEMMA FaultCounted ==
  ASSUME NEW lba \in Nat, NEW ok,
         ok = TRUE \/ ok \in ReadOutcomes(lba),
         sectorFaults \in 0 .. MaxSectorFaults, CountSectorFault(lba, ok)
  PROVE  sectorFaults' \in 0 .. MaxSectorFaults
PROOF
<1>1. MaxSectorFaults \in Nat /\ sectorFaults \in Nat
  BY DriverAssumption
<1>2. CASE ok = TRUE \/ lba >= TotalSectors
  BY <1>2 DEF CountSectorFault
<1>3. CASE ~(ok = TRUE \/ lba >= TotalSectors)
  <2>1. ok = FALSE /\ lba < TotalSectors
    BY <1>1, <1>3, ReadOutcomesType, Geometry
  <2>2. sectorFaults < MaxSectorFaults
    BY <1>1, <1>3, <2>1, ReadOutcomesType
  <2>3. sectorFaults' = sectorFaults + 1
    BY <2>1, Geometry DEF CountSectorFault
  <2> QED
    BY <1>1, <2>2, <2>3
<1> QED
  BY <1>2, <1>3

(* What one iteration of read()'s loop leaves.                             *)
IterationOK(fd, it) ==
  /\ LookOK(it.look)
  /\ it.fd \in AnyFile /\ it.fd.opened = fd.opened
  /\ it.fd.buffer = fd.buffer \/ it.fd.buffer \in 0 .. TotalSectors - 1
  /\ it.lba \in Nat
  /\ it.ok = TRUE \/ it.ok \in ReadOutcomes(it.lba)

LEMMA IterationType ==
  ASSUME CacheOK, sectorFaults \in Nat,
         NEW fd \in AnyFile, NEW n \in Nat, NEW it \in Iterations(fd, n)
  PROVE  IterationOK(fd, it)
PROOF
<1> DEFINE moved == [fd EXCEPT !.position = @ + Take(fd, n)]
           lba(f) == ClusterToLba(f.cluster) + f.sector
           ended(s) == s.fd.cluster >= EndOfChain
<1>1. Take(fd, n) \in Nat
  BY TakeType
<1>2. moved \in AnyFile /\ moved.opened = fd.opened /\ moved.buffer = fd.buffer
      /\ moved.position \in Nat
  BY <1>1 DEF AnyFile
<1>3. CASE Take(fd, n) < InBuffer(fd)
  <2>1. PICK l \in NoLookup(fd.cluster) :
          it = [fd |-> moved, look |-> l, lba |-> 0, ok |-> TRUE, stop |-> FALSE]
    BY <1>3 DEF Iterations
  <2>2. LookOK(l)
    <3>1. fd.cluster \in Nat
      BY DEF AnyFile
    <3> QED
      BY <3>1, NoLookupType
  <2> HIDE DEF moved
  <2> QED
    BY <2>1, <2>2, <1>2 DEF IterationOK
<1>4. CASE ~(Take(fd, n) < InBuffer(fd))
  <2>1. \/ \E s \in NextSectors(moved) :
             it = [fd |-> [s.fd EXCEPT !.size = moved.position], look |-> s.look,
                   lba |-> 0, ok |-> TRUE, stop |-> TRUE]
        \/ \E s \in NextSectors(moved) : \E ok \in ReadOutcomes(lba(s.fd)) :
             it = [fd |-> [s.fd EXCEPT !.buffer = IF ok THEN lba(s.fd) ELSE @],
                   look |-> s.look, lba |-> lba(s.fd), ok |-> ok, stop |-> ~ok]
    BY <1>4 DEF Iterations
  <2> HIDE DEF moved
  <2>2. ASSUME NEW s \in NextSectors(moved),
               it = [fd |-> [s.fd EXCEPT !.size = moved.position], look |-> s.look,
                     lba |-> 0, ok |-> TRUE, stop |-> TRUE]
        PROVE  IterationOK(fd, it)
    <3>1. LookOK(s.look) /\ s.fd \in AnyFile /\ s.fd.opened = fd.opened /\ s.fd.buffer = fd.buffer
      BY <1>2, NextSectorsType
    <3>2. it.fd \in AnyFile /\ it.fd.opened = fd.opened /\ it.fd.buffer = fd.buffer
      BY <1>2, <2>2, <3>1 DEF AnyFile
    <3> QED
      BY <2>2, <3>1, <3>2 DEF IterationOK
  <2>3. ASSUME NEW s \in NextSectors(moved), NEW ok \in ReadOutcomes(lba(s.fd)),
               it = [fd |-> [s.fd EXCEPT !.buffer = IF ok THEN lba(s.fd) ELSE @],
                     look |-> s.look, lba |-> lba(s.fd), ok |-> ok, stop |-> ~ok]
        PROVE  IterationOK(fd, it)
    <3>1. LookOK(s.look) /\ s.fd \in AnyFile /\ s.fd.opened = fd.opened /\ s.fd.buffer = fd.buffer
      BY <1>2, NextSectorsType
    <3>2. lba(s.fd) \in Nat
      BY <3>1, LbaOfSector
    <3> HIDE DEF lba
    <3>3. ok \in BOOLEAN /\ (ok => lba(s.fd) \in 0 .. TotalSectors - 1)
      BY <3>2, ReadOutcomesType
    <3>4. it.fd = [s.fd EXCEPT !.buffer = IF ok THEN lba(s.fd) ELSE s.fd.buffer]
      BY <2>3
    <3>5. (IF ok THEN lba(s.fd) ELSE s.fd.buffer) \in Nat \cup {NoSector}
      BY <3>1, <3>2 DEF AnyFile
    <3>6. it.fd \in AnyFile /\ it.fd.opened = fd.opened
      BY <3>1, <3>4, <3>5 DEF AnyFile
    <3>7. it.fd.buffer = fd.buffer \/ it.fd.buffer \in 0 .. TotalSectors - 1
      BY <3>1, <3>3, <3>4 DEF AnyFile
    <3>8. it.look = s.look /\ it.lba = lba(s.fd) /\ it.ok = ok
      BY <2>3
    <3> QED
      BY <3>1, <3>2, <3>6, <3>7, <3>8 DEF IterationOK
  <2> QED
    BY <2>1, <2>2, <2>3
<1> QED
  BY <1>3, <1>4

(***************************************************************************)
(* The type invariant, one lemma per kind of step.                         *)
(***************************************************************************)
LEMMA FrameFields ==
  ASSUME NEW f \in AnyFrame
  PROVE  /\ f.op = "scan" => /\ f.dir \in Files /\ f.path \in Seq(Names)
                             /\ f.rest \in Seq(Names) /\ f.rest # << >>
         /\ f.op = "entry" => /\ f.entry \in EntryType /\ f.path \in Seq(Names)
                              /\ f.rest \in Seq(Names)
         /\ f.op = "read" => f \in [op : {"read"}, handle : Files, start : Nat, want : Nat,
                                    left : Nat, got : Seq(Int \X Int)]
         /\ f.op = "seek" => f \in [op : {"seek"}, handle : Files, start : Nat, to : Nat,
                                    cluster : Nat, offset : Nat]
PROOF
  BY DEF AnyFrame

LEMMA PlainFrames ==
  {[op |-> "unmounted"], [op |-> "failed"], Idle} \subseteq AnyFrame
PROOF
  BY DEF AnyFrame, Idle

LEMMA TypeOKFacts ==
  ASSUME TypeOK
  PROVE  /\ CacheOK /\ sectorFaults \in Nat /\ sectorFaults \in 0 .. MaxSectorFaults
         /\ \A h \in Files : fds[h] \in AnyFile
PROOF
  BY DriverAssumption DEF TypeOK, CacheOK, CacheType

LEMMA RememberType ==
  ASSUME NEW l, LookOK(l), Remember(l)
  PROVE  /\ cachePos' \in Nat /\ cache' \in [0 .. FAT_CACHE_SIZE - 1 -> Nat \cup {NoSector}]
         /\ fatFaults' \in 0 .. MaxFatFaults
PROOF
  BY DEF LookOK, Remember, CacheType

(* What the type invariant says of the handles.                            *)
FilesOK(f) ==
  /\ f \in [Files -> AnyFile]
  /\ \A h \in Files : f[h].opened => f[h].buffer \in 0 .. TotalSectors - 1

LEMMA FilesUpdate ==
  ASSUME NEW f, FilesOK(f), NEW h \in Files, NEW fd \in AnyFile,
         fd.opened => fd.buffer \in 0 .. TotalSectors - 1
  PROVE  FilesOK([f EXCEPT ![h] = fd])
PROOF
  BY DEF FilesOK

LEMMA IterationFile ==
  ASSUME NEW f, FilesOK(f), NEW h \in Files, NEW it, IterationOK(f[h], it)
  PROVE  FilesOK([f EXCEPT ![h] = it.fd])
PROOF
<1>1. it.fd \in AnyFile /\ (it.fd.opened => it.fd.buffer \in 0 .. TotalSectors - 1)
  BY DEF FilesOK, IterationOK
<1> QED
  BY <1>1, FilesUpdate

LEMMA ClosedFile ==
  ASSUME NEW h \in Files, NEW fd \in AnyFile
  PROVE  /\ Closed(h, fd) \in AnyFile
         /\ Closed(h, fd).buffer = fd.buffer
         /\ Closed(h, fd).opened => fd.opened
PROOF
  BY DEF Closed, AnyFile

LEMMA InitType ==
  ASSUME Init
  PROVE  TypeOK
PROOF
<1>1. ZeroFile \in AnyFile /\ ~ZeroFile.opened
  BY Geometry DEF ZeroFile, AnyFile
<1>2. fds \in [Files -> AnyFile] /\ \A h \in Files : ~fds[h].opened
  BY <1>1 DEF Init
<1>3. cache \in [0 .. FAT_CACHE_SIZE - 1 -> Nat \cup {NoSector}]
  BY DEF Init
<1>4. frame \in AnyFrame
  BY PlainFrames DEF Init
<1>5. sectorFaults \in 0 .. MaxSectorFaults /\ fatFaults \in 0 .. MaxFatFaults
  BY DriverAssumption DEF Init
<1> QED
  BY <1>2, <1>3, <1>4, <1>5 DEF Init, TypeOK

LEMMA MountType ==
  ASSUME TypeOK, Mount
  PROVE  TypeOK'
PROOF
<1>1. PICK boot \in ReadOutcomes(0), root \in ReadOutcomes(RootLba) :
        LET mounted == boot /\ root IN
        /\ CountSectorFault(IF boot THEN RootLba ELSE 0, mounted)
        /\ cachePos' = IF boot THEN WORD - 1 ELSE cachePos
        /\ frame' = IF mounted THEN Idle ELSE [op |-> "failed"]
        /\ fds' = IF mounted
                  THEN [fds EXCEPT ![ROOT_DIRECTORY_HANDLE] =
                          [opened |-> TRUE, isDir |-> TRUE, size |-> RootSize, position |-> 0,
                           first |-> RootLba, cluster |-> RootLba, sector |-> 0,
                           buffer |-> RootLba]]
                  ELSE fds
  BY DEF Mount
<1> DEFINE lba == IF boot THEN RootLba ELSE 0
           mounted == boot /\ root
           rootFile == [opened |-> TRUE, isDir |-> TRUE, size |-> RootSize, position |-> 0,
                        first |-> RootLba, cluster |-> RootLba, sector |-> 0,
                        buffer |-> RootLba]
<1>2. boot \in BOOLEAN /\ root \in BOOLEAN /\ (root => RootLba \in 0 .. TotalSectors - 1)
  BY TypeOKFacts, ReadOutcomesType, Geometry
<1>3. sectorFaults' \in 0 .. MaxSectorFaults
  <2>1. lba \in Nat
    BY Geometry
  <2>2. mounted = TRUE \/ mounted \in ReadOutcomes(lba)
    BY <1>1, <1>2, Zenon
  <2>3. CountSectorFault(lba, mounted)
    BY <1>1
  <2> QED
    BY <2>1, <2>2, <2>3, TypeOKFacts, FaultCounted
<1>4. frame' \in AnyFrame
  BY <1>1, PlainFrames
<1>5. cachePos' \in Nat
  BY <1>1, Geometry, TypeOKFacts DEF CacheOK
<1>6. FilesOK(fds)'
  <2>1. FilesOK(fds)
    BY DEF TypeOK, FilesOK
  <2>2. CASE mounted
    <3>1. rootFile \in AnyFile
      BY Geometry DEF AnyFile
    <3>2. FilesOK([fds EXCEPT ![ROOT_DIRECTORY_HANDLE] = rootFile])
      BY <1>2, <2>1, <2>2, <3>1, FilesUpdate
    <3> QED
      BY <1>1, <2>2, <3>2
  <2>3. CASE ~mounted
    BY <1>1, <2>1, <2>3
  <2> QED
    BY <2>2, <2>3
<1> QED
  BY <1>3, <1>4, <1>5, <1>6 DEF TypeOK, FilesOK, Mount

LEMMA OpenType ==
  ASSUME TypeOK, NEW path \in Paths, Open(path)
  PROVE  TypeOK'
PROOF
<1>1. path \in Seq(Names)
  BY DriverAssumption
<1>2. frame' \in AnyFrame
  <2>1. CASE path = << >>
    BY <2>1, PlainFrames DEF Open, Return
  <2>2. CASE path # << >>
    <3>1. frame' = [op |-> "scan", dir |-> ROOT_DIRECTORY_HANDLE, path |-> path, rest |-> path]
      BY <2>2 DEF Open, Begin
    <3> QED
      BY <1>1, <2>2, <3>1 DEF AnyFrame
  <2> QED
    BY <2>1, <2>2
<1>3. held' \subseteq Files
  BY DEF Open, TypeOK
<1> QED
  BY <1>2, <1>3 DEF TypeOK, Open

LEMMA ReturnType == ASSUME NEW r, Return(r) PROVE frame' \in AnyFrame
PROOF
  BY PlainFrames DEF Return

(* A file that delivers something is open.                                 *)
LEMMA ReadableType ==
  ASSUME NEW fd \in AnyFile, NEW n \in Nat
  PROVE  /\ Readable(fd, n) \in 0 .. n
         /\ Readable(fd, n) # 0 => fd.opened
PROOF
<1>1. fd.size \in Nat /\ fd.position \in Nat /\ fd.opened \in BOOLEAN /\ fd.isDir \in BOOLEAN
  BY DEF AnyFile
<1>2. (fd.size - fd.position) % WORD \in Nat
  BY <1>1, Geometry
<1> DEFINE left == (fd.size - fd.position) % WORD
<1>3. \/ Readable(fd, n) = 0
      \/ Readable(fd, n) = n
      \/ Readable(fd, n) = left /\ ~(n < left)
  BY <1>1 DEF Readable
<1>4. ~fd.opened => Readable(fd, n) = 0
  BY DEF Readable
<1> HIDE DEF left
<1>5. left \in Nat
  BY <1>2 DEF left
<1>6. Readable(fd, n) \in 0 .. n
  BY <1>3, <1>5
<1> QED
  BY <1>4, <1>6

(* The directory entry ReadEntry takes from a buffer.                      *)
LEMMA ScannedEntry ==
  ASSUME NEW fd \in AnyFile, fd.buffer \in 0 .. TotalSectors - 1
  PROVE  DirSlot[fd.buffer][(fd.position % SECTOR_SIZE) \div ENTRY_SIZE] \in EntryType
PROOF
<1> DEFINE o == fd.position % SECTOR_SIZE
<1>1. fd.position \in Nat
  BY DEF AnyFile
<1>2. o \in 0 .. SECTOR_SIZE - 1
  BY <1>1, DivMod, SectorPositive
<1>3. EntriesPerSector \in Nat /\ ENTRY_SIZE \in Nat \ {0} /\ EntriesPerSector * ENTRY_SIZE = SECTOR_SIZE
  BY Geometry
<1> HIDE DEF o
<1>4. o \in Nat /\ o < EntriesPerSector * ENTRY_SIZE
  BY <1>2, <1>3, SectorPositive
<1>5. o \div ENTRY_SIZE \in 0 .. EntriesPerSector - 1
  BY <1>3, <1>4, QuotientBound
<1> QED
  BY <1>5, DirSlotType DEF o

LEMMA ScanEntryType ==
  ASSUME TypeOK, ScanEntry
  PROVE  TypeOK'
PROOF
<1> DEFINE h == frame.dir
           fd == fds[h]
           entry == DirSlot[fd.buffer][(fd.position % SECTOR_SIZE) \div ENTRY_SIZE]
<1>1. /\ h \in Files /\ frame.path \in Seq(Names)
      /\ frame.rest \in Seq(Names) /\ frame.rest # << >>
  BY FrameFields DEF ScanEntry, TypeOK
<1>2. FilesOK(fds) /\ fd \in AnyFile
  BY <1>1 DEF TypeOK, FilesOK
<1>3. CASE Readable(fd, ENTRY_SIZE) < ENTRY_SIZE
  <2>1. /\ fds' = [fds EXCEPT ![h] = Closed(h, fd)]
        /\ Return(Opened(frame.path, NoHandle))
        /\ UNCHANGED <<cachePos, cache, sectorFaults, fatFaults, held>>
    BY <1>3 DEF ScanEntry
  <2>2. FilesOK([fds EXCEPT ![h] = Closed(h, fd)])
    <3>1. Closed(h, fd) \in AnyFile
          /\ (Closed(h, fd).opened => Closed(h, fd).buffer \in 0 .. TotalSectors - 1)
      BY <1>1, <1>2, ClosedFile DEF FilesOK
    <3> QED
      BY <1>1, <1>2, <3>1, FilesUpdate
  <2>3. frame' \in AnyFrame
    BY <2>1, ReturnType
  <2> QED
    BY <2>1, <2>2, <2>3 DEF TypeOK, FilesOK
<1>4. CASE ~(Readable(fd, ENTRY_SIZE) < ENTRY_SIZE)
  <2>1. PICK it \in Iterations(fd, ENTRY_SIZE) :
          /\ Remember(it.look)
          /\ CountSectorFault(it.lba, it.ok)
          /\ \/ /\ fds' = [fds EXCEPT ![h] = Closed(h, it.fd)]
                /\ frame' = [op |-> "entry", entry |-> entry,
                            path |-> frame.path, rest |-> Tail(frame.rest)]
             \/ /\ fds' = [fds EXCEPT ![h] = Closed(h, it.fd)]
                /\ Return(Opened(frame.path, NoHandle))
             \/ /\ fds' = [fds EXCEPT ![h] = it.fd]
                /\ UNCHANGED frame
    BY <1>4 DEF ScanEntry
  <2>2. ENTRY_SIZE \in Nat /\ ENTRY_SIZE # 0
    BY Geometry
  <2>3. fd.opened
    BY <1>2, <1>4, <2>2, ReadableType
  <2>4. IterationOK(fd, it)
    BY <1>2, <2>2, TypeOKFacts, IterationType
  <2>5. it.fd \in AnyFile /\ (it.fd.opened => it.fd.buffer \in 0 .. TotalSectors - 1)
    BY <1>1, <1>2, <2>4 DEF IterationOK, FilesOK
  <2>6. FilesOK([fds EXCEPT ![h] = it.fd])
    BY <1>1, <1>2, <2>5, FilesUpdate
  <2>7. FilesOK([fds EXCEPT ![h] = Closed(h, it.fd)])
    <3>1. Closed(h, it.fd) \in AnyFile
          /\ (Closed(h, it.fd).opened => Closed(h, it.fd).buffer \in 0 .. TotalSectors - 1)
      BY <1>1, <2>5, ClosedFile
    <3> QED
      BY <1>1, <1>2, <3>1, FilesUpdate
  <2>8. entry \in EntryType
    BY <1>1, <1>2, <2>3, ScannedEntry DEF FilesOK
  <2>9. Tail(frame.rest) \in Seq(Names)
    BY <1>1
  <2>10. [op |-> "entry", entry |-> entry, path |-> frame.path, rest |-> Tail(frame.rest)] \in AnyFrame
    BY <1>1, <2>8, <2>9 DEF AnyFrame
  <2>11. frame' \in AnyFrame
    BY <2>1, <2>10, ReturnType DEF TypeOK
  <2>12. FilesOK(fds')
    BY <2>1, <2>6, <2>7
  <2>13. sectorFaults' \in 0 .. MaxSectorFaults
    BY <2>1, <2>4, TypeOKFacts, FaultCounted DEF IterationOK
  <2>14. /\ cachePos' \in Nat /\ cache' \in [0 .. FAT_CACHE_SIZE - 1 -> Nat \cup {NoSector}]
         /\ fatFaults' \in 0 .. MaxFatFaults
    BY <2>1, <2>4, RememberType DEF IterationOK
  <2>15. held' \subseteq Files
    BY DEF ScanEntry, TypeOK
  <2> QED
    BY <2>11, <2>12, <2>13, <2>14, <2>15 DEF TypeOK, FilesOK
<1> QED
  BY <1>3, <1>4

(* open() resumed with a handle or with none.                              *)
LEMMA ResumeType ==
  ASSUME TypeOK, frame.op = "entry", NEW h \in Handle \cup {NoHandle}, Resume(h)
  PROVE  frame' \in AnyFrame /\ held' \subseteq Files
PROOF
<1>1. frame.path \in Seq(Names) /\ frame.rest \in Seq(Names)
  BY FrameFields DEF TypeOK
<1>2. CASE frame.rest = << >>
  BY <1>2, ReturnType DEF Resume, TypeOK
<1>3. CASE frame.rest # << >>
  <2>1. held' \subseteq Files
    BY <1>3 DEF Resume, TypeOK
  <2>2. CASE SlotOf(h) \notin Handle
    BY <1>3, <2>1, <2>2, ReturnType DEF Resume
  <2>3. CASE SlotOf(h) \in Handle
    <3>1. frame' = [op |-> "scan", dir |-> SlotOf(h), path |-> frame.path, rest |-> frame.rest]
      BY <1>3, <2>3 DEF Resume
    <3>2. frame' \in AnyFrame
      BY <1>1, <1>3, <2>3, <3>1 DEF AnyFrame
    <3> QED
      BY <2>1, <3>2
  <2> QED
    BY <2>2, <2>3
<1> QED
  BY <1>2, <1>3

LEMMA EntryFileType ==
  ASSUME NEW entry \in EntryType, NEW isOpen \in BOOLEAN, NEW buffer \in Nat \cup {NoSector}
  PROVE  /\ EntryFile(entry, isOpen, buffer) \in AnyFile
         /\ EntryFile(entry, isOpen, buffer).opened = isOpen
         /\ EntryFile(entry, isOpen, buffer).buffer = buffer
PROOF
<1>1. 0 \in 0 .. SectorsPerCluster - 1
  BY Geometry
<1>2. EntryFile(entry, isOpen, buffer) \in AnyFile
  BY <1>1 DEF EntryFile, EntryType, AnyFile
<1> QED
  BY <1>2 DEF EntryFile

LEMMA OpenEntryType ==
  ASSUME TypeOK, OpenEntry
  PROVE  TypeOK'
PROOF
<1>1. frame.op = "entry" /\ frame.entry \in EntryType
  BY FrameFields DEF OpenEntry, TypeOK
<1>2. FilesOK(fds)
  BY DEF TypeOK, FilesOK
<1>3. LowestFree \subseteq Handle
  BY DEF LowestFree, FreeHandles
<1>4. \A h \in Files : fds[h].buffer \in Nat \cup {NoSector}
  BY <1>2 DEF FilesOK, AnyFile
<1>5. SUFFICES FilesOK(fds') /\ frame' \in AnyFrame /\ held' \subseteq Files
                /\ sectorFaults' \in 0 .. MaxSectorFaults
  BY DEF TypeOK, FilesOK, OpenEntry
<1>6. CASE Return(Opened(frame.path, NoHandle)) /\ UNCHANGED <<fds, held, sectorFaults>>
  BY <1>2, <1>6, ReturnType DEF TypeOK
<1>7. CASE Resume(NoHandle) /\ UNCHANGED <<fds, sectorFaults>>
  BY <1>1, <1>2, <1>7, ResumeType DEF TypeOK
<1>8. ASSUME NEW h \in LowestFree,
             fds' = [fds EXCEPT ![h] = EntryFile(frame.entry, FALSE, @.buffer)],
             Resume(NoHandle), UNCHANGED sectorFaults
      PROVE  FilesOK(fds') /\ frame' \in AnyFrame /\ held' \subseteq Files
                /\ sectorFaults' \in 0 .. MaxSectorFaults
  <2> DEFINE fd == EntryFile(frame.entry, FALSE, fds[h].buffer)
  <2>1. h \in Files /\ fd \in AnyFile /\ ~fd.opened
    BY <1>1, <1>3, <1>4, EntryFileType
  <2> HIDE DEF fd
  <2>2. FilesOK([fds EXCEPT ![h] = fd])
    BY <1>2, <2>1, FilesUpdate
  <2>3. fds' = [fds EXCEPT ![h] = fd]
    BY <1>8 DEF fd
  <2> QED
    BY <1>1, <1>8, <2>2, <2>3, ResumeType DEF TypeOK
<1>9. ASSUME NEW h \in LowestFree, LoadEntry(h, frame.entry)
      PROVE  FilesOK(fds') /\ frame' \in AnyFrame /\ held' \subseteq Files
                /\ sectorFaults' \in 0 .. MaxSectorFaults
  <2> DEFINE lba == ClusterToLba(frame.entry.cluster)
  <2>1. PICK ok \in ReadOutcomes(lba) :
          /\ fds' = [fds EXCEPT ![h] = EntryFile(frame.entry, ok, IF ok THEN lba ELSE fds[h].buffer)]
          /\ Resume(IF ok THEN h ELSE NoHandle)
          /\ CountSectorFault(lba, ok)
    BY <1>9 DEF LoadEntry
  <2>2. lba \in Nat
    <3>1. frame.entry.cluster \in Nat
      BY <1>1 DEF EntryType
    <3> QED
      BY <3>1, LbaOfCluster
  <2> HIDE DEF lba
  <2>3. ok \in BOOLEAN /\ (ok => lba \in 0 .. TotalSectors - 1)
    BY <2>2, TypeOKFacts, ReadOutcomesType
  <2>4. h \in Files
    BY <1>3
  <2> DEFINE buffer == IF ok THEN lba ELSE fds[h].buffer
             fd == EntryFile(frame.entry, ok, buffer)
  <2>5. buffer \in Nat \cup {NoSector} /\ (ok => buffer \in 0 .. TotalSectors - 1)
    BY <1>4, <2>2, <2>3, <2>4
  <2>6. fds' = [fds EXCEPT ![h] = fd]
    BY <2>1
  <2> HIDE DEF buffer
  <2>7. fd \in AnyFile /\ fd.opened = ok /\ fd.buffer = buffer
    BY <1>1, <2>3, <2>5, EntryFileType
  <2> HIDE DEF fd
  <2>8. FilesOK(fds')
    BY <1>2, <2>4, <2>5, <2>6, <2>7, FilesUpdate
  <2>9. frame' \in AnyFrame /\ held' \subseteq Files
    BY <1>1, <1>3, <2>1, ResumeType
  <2>10. sectorFaults' \in 0 .. MaxSectorFaults
    BY <2>1, <2>2, TypeOKFacts, FaultCounted
  <2> QED
    BY <2>8, <2>9, <2>10
<1> QED
  BY <1>6, <1>7, <1>8, <1>9 DEF OpenEntry

LEMMA ReadCallType ==
  ASSUME TypeOK, NEW h \in held, NEW n \in ReadSizes, Read(h, n)
  PROVE  TypeOK'
PROOF
<1>1. h \in Files /\ n \in Nat /\ fds[h] \in AnyFile
  BY DriverAssumption DEF TypeOK
<1>2. fds[h].position \in Nat /\ Readable(fds[h], n) \in Nat
  BY <1>1, ReadableType DEF AnyFile
<1>3. frame' \in AnyFrame
  <2>1. << >> \in Seq(Int \X Int)
    OBVIOUS
  <2> QED
    BY <1>1, <1>2, <2>1 DEF Read, Begin, AnyFrame
<1> QED
  BY <1>3 DEF TypeOK, Read

LEMMA CopiedType ==
  ASSUME NEW fd \in AnyFile, NEW n \in Nat
  PROVE  Copied(fd, n) \in Seq(Int \X Int)
PROOF
<1>1. fd.buffer \in Int /\ fd.position % SECTOR_SIZE \in Int
  <2>1. fd.position \in Nat /\ fd.buffer \in Nat \cup {NoSector}
    BY DEF AnyFile
  <2> QED
    BY <2>1, DivMod, SectorPositive
<1>2. Take(fd, n) \in Nat
  BY TakeType
<1>3. \A i \in 1 .. Take(fd, n) :
        <<fd.buffer, (fd.position % SECTOR_SIZE) + i - 1>> \in Int \X Int
  BY <1>1
<1>4. Copied(fd, n) \in [1 .. Take(fd, n) -> Int \X Int]
  BY <1>3 DEF Copied
<1> QED
  BY <1>2, <1>4, SeqDef

LEMMA ReadStepType ==
  ASSUME TypeOK, ReadStep
  PROVE  TypeOK'
PROOF
<1> DEFINE h == frame.handle
           fd == fds[h]
           got == frame.got \o Copied(fd, frame.left)
<1>1. frame \in [op : {"read"}, handle : Files, start : Nat, want : Nat, left : Nat,
                 got : Seq(Int \X Int)]
  BY FrameFields DEF TypeOK, ReadStep
<1>2. h \in Files /\ frame.left \in Nat
  BY <1>1
<1>3. FilesOK(fds) /\ fd \in AnyFile
  BY <1>2 DEF TypeOK, FilesOK
<1>4. PICK it \in Iterations(fd, frame.left) :
        /\ fds' = [fds EXCEPT ![h] = it.fd]
        /\ Remember(it.look)
        /\ CountSectorFault(it.lba, it.ok)
        /\ frame' = [frame EXCEPT !.got = got,
                       !.left = IF it.stop THEN 0 ELSE @ - Take(fd, @)]
  BY DEF ReadStep
<1>5. IterationOK(fd, it)
  BY <1>2, <1>3, TypeOKFacts, IterationType
<1>6. FilesOK(fds')
  BY <1>2, <1>3, <1>4, <1>5, IterationFile
<1>7. frame' \in AnyFrame
  <2>1. Take(fd, frame.left) \in 0 .. frame.left
    BY <1>2, <1>3, TakeType
  <2>2. Copied(fd, frame.left) \in Seq(Int \X Int)
    BY <1>2, <1>3, CopiedType
  <2>3. got \in Seq(Int \X Int)
    BY <1>1, <2>2, ConcatProperties
  <2> DEFINE left == IF it.stop THEN 0 ELSE frame.left - Take(fd, frame.left)
  <2>4. left \in Nat
    BY <1>2, <2>1
  <2>5. frame' = [frame EXCEPT !.got = got, !.left = left]
    BY <1>4
  <2> HIDE DEF got, left
  <2> QED
    BY <1>1, <2>3, <2>4, <2>5 DEF AnyFrame
<1>8. sectorFaults' \in 0 .. MaxSectorFaults
  BY <1>4, <1>5, TypeOKFacts, FaultCounted DEF IterationOK
<1>9. /\ cachePos' \in Nat /\ cache' \in [0 .. FAT_CACHE_SIZE - 1 -> Nat \cup {NoSector}]
      /\ fatFaults' \in 0 .. MaxFatFaults
  BY <1>4, <1>5, RememberType DEF IterationOK
<1>10. held' \subseteq Files
  BY DEF ReadStep, TypeOK
<1> QED
  BY <1>6, <1>7, <1>8, <1>9, <1>10 DEF TypeOK, FilesOK

LEMMA ReadReturnType ==
  ASSUME TypeOK, ReadReturn
  PROVE  TypeOK'
PROOF
<1>1. frame' \in AnyFrame
  BY PlainFrames DEF ReadReturn, Return
<1> QED
  BY <1>1 DEF TypeOK, ReadReturn

LEMMA SeekCallType ==
  ASSUME TypeOK, NEW h \in held, NEW p \in SeekTargets, Seek(h, p)
  PROVE  TypeOK'
PROOF
<1>1. h \in Files /\ p \in Nat /\ fds[h] \in AnyFile /\ FilesOK(fds)
  BY DriverAssumption DEF TypeOK, FilesOK
<1>2. fds[h].position \in Nat /\ fds[h].first \in Nat
  BY <1>1 DEF AnyFile
<1>3. CASE Return(Sought(h, p, FALSE)) /\ UNCHANGED fds
  BY <1>3, ReturnType DEF TypeOK, Seek
<1>4. CASE /\ fds' = [fds EXCEPT ![h].position = p]
           /\ Begin([op |-> "seek", handle |-> h, start |-> fds[h].position,
                     to |-> p, cluster |-> fds[h].first, offset |-> p])
  <2>1. frame' \in AnyFrame
    BY <1>1, <1>2, <1>4 DEF Begin, AnyFrame
  <2> DEFINE fd == [fds[h] EXCEPT !.position = p]
  <2>2. fd \in AnyFile /\ fd.opened = fds[h].opened /\ fd.buffer = fds[h].buffer
    BY <1>1 DEF AnyFile
  <2>3. fds' = [fds EXCEPT ![h] = fd]
    BY <1>4
  <2> HIDE DEF fd
  <2>4. FilesOK(fds')
    <3>1. fd.opened => fd.buffer \in 0 .. TotalSectors - 1
      BY <1>1, <2>2 DEF FilesOK
    <3> QED
      BY <1>1, <2>2, <2>3, <3>1, FilesUpdate
  <2> QED
    BY <2>1, <2>4 DEF TypeOK, FilesOK, Seek
<1> QED
  BY <1>3, <1>4 DEF Seek

LEMMA SeekStepType ==
  ASSUME TypeOK, SeekStep
  PROVE  TypeOK'
PROOF
<1>1. frame \in [op : {"seek"}, handle : Files, start : Nat, to : Nat, cluster : Nat, offset : Nat]
  BY FrameFields DEF TypeOK, SeekStep
<1>2. PICK l \in NextCluster(frame.cluster) :
        /\ Remember(l)
        /\ \/ Return(Sought(frame.handle, frame.to, FALSE))
           \/ frame' = [frame EXCEPT !.cluster = l.next, !.offset = @ - ClusterSize]
  BY DEF SeekStep
<1>3. LookOK(l)
  BY <1>1, TypeOKFacts, LookupType
<1>4. l.next \in Nat
  BY <1>3 DEF LookOK
<1>5. frame.offset - ClusterSize \in Nat
  BY <1>1, Geometry DEF SeekStep
<1>6. frame' \in AnyFrame
  <2>1. CASE Return(Sought(frame.handle, frame.to, FALSE))
    BY <2>1, ReturnType
  <2>2. CASE frame' = [frame EXCEPT !.cluster = l.next, !.offset = @ - ClusterSize]
    BY <1>1, <1>4, <1>5, <2>2 DEF AnyFrame
  <2> QED
    BY <1>2, <2>1, <2>2
<1>7. /\ cachePos' \in Nat /\ cache' \in [0 .. FAT_CACHE_SIZE - 1 -> Nat \cup {NoSector}]
      /\ fatFaults' \in 0 .. MaxFatFaults
  BY <1>2, <1>3, RememberType
<1> QED
  BY <1>6, <1>7 DEF TypeOK, SeekStep

LEMMA SeekLoadType ==
  ASSUME TypeOK, SeekLoad
  PROVE  TypeOK'
PROOF
<1> DEFINE h == frame.handle
           sector == frame.offset \div SECTOR_SIZE
           lba == ClusterToLba(frame.cluster) + sector
<1>1. frame \in [op : {"seek"}, handle : Files, start : Nat, to : Nat, cluster : Nat, offset : Nat]
  BY FrameFields DEF TypeOK, SeekLoad
<1>2. h \in Files /\ FilesOK(fds) /\ fds[h] \in AnyFile
  BY <1>1 DEF TypeOK, FilesOK
<1>3. sector \in 0 .. SectorsPerCluster - 1
  <2>1. frame.offset < SectorsPerCluster * SECTOR_SIZE /\ frame.offset \in Nat
    BY <1>1 DEF SeekLoad, ClusterSize
  <2>2. SectorsPerCluster \in Nat
    BY Geometry
  <2> QED
    BY <2>1, <2>2, SectorPositive, QuotientBound
<1>4. lba \in Nat
  <2>1. ClusterToLba(frame.cluster) \in Nat
    BY <1>1, LbaOfCluster
  <2>2. sector \in Nat
    BY <1>3, Geometry
  <2> HIDE DEF sector
  <2> QED
    BY <2>1, <2>2
<1>5. PICK ok \in ReadOutcomes(lba) :
        /\ fds' = [fds EXCEPT ![h].cluster = frame.cluster,
                             ![h].sector = sector,
                             ![h].buffer = IF ok THEN lba ELSE @]
        /\ CountSectorFault(lba, ok)
        /\ Return(Sought(h, frame.to, ok))
  BY DEF SeekLoad
<1> HIDE DEF lba, sector
<1>6. ok \in BOOLEAN /\ (ok => lba \in 0 .. TotalSectors - 1)
  BY <1>4, TypeOKFacts, ReadOutcomesType
<1> DEFINE buffer == IF ok THEN lba ELSE fds[h].buffer
           fd == [fds[h] EXCEPT !.cluster = frame.cluster, !.sector = sector, !.buffer = buffer]
<1>7. fds' = [fds EXCEPT ![h] = fd]
  BY <1>1, <1>2, <1>5 DEF FilesOK, AnyFile
<1>8. buffer \in Nat \cup {NoSector}
  BY <1>2, <1>4 DEF AnyFile
<1>9. fds[h].opened => buffer \in 0 .. TotalSectors - 1
  BY <1>2, <1>6 DEF FilesOK
<1> HIDE DEF buffer
<1>10. fd \in AnyFile /\ fd.opened = fds[h].opened /\ fd.buffer = buffer
  BY <1>1, <1>2, <1>3, <1>8 DEF AnyFile
<1> HIDE DEF fd
<1>11. FilesOK(fds')
  BY <1>2, <1>7, <1>9, <1>10, FilesUpdate
<1>12. sectorFaults' \in 0 .. MaxSectorFaults
  BY <1>4, <1>5, TypeOKFacts, FaultCounted
<1>13. frame' \in AnyFrame
  BY <1>5, ReturnType
<1> QED
  BY <1>11, <1>12, <1>13 DEF TypeOK, FilesOK, SeekLoad

LEMMA CloseType ==
  ASSUME TypeOK, NEW h \in held, Close(h)
  PROVE  TypeOK'
PROOF
<1>1. h \in Files /\ FilesOK(fds) /\ fds[h] \in AnyFile
  BY DEF TypeOK, FilesOK
<1>2. Closed(h, fds[h]) \in AnyFile
      /\ (Closed(h, fds[h]).opened => Closed(h, fds[h]).buffer \in 0 .. TotalSectors - 1)
  BY <1>1, ClosedFile DEF FilesOK
<1>3. FilesOK([fds EXCEPT ![h] = Closed(h, fds[h])])
  BY <1>1, <1>2, FilesUpdate
<1> QED
  BY <1>3 DEF TypeOK, FilesOK, Close

LEMMA TypeStep ==
  ASSUME TypeOK, [Next]_vars
  PROVE  TypeOK'
PROOF
<1>1. CASE Mount
  BY <1>1, MountType
<1>2. CASE ScanEntry
  BY <1>2, ScanEntryType
<1>3. CASE OpenEntry
  BY <1>3, OpenEntryType
<1>4. CASE ReadStep
  BY <1>4, ReadStepType
<1>5. CASE ReadReturn
  BY <1>5, ReadReturnType
<1>6. CASE SeekStep
  BY <1>6, SeekStepType
<1>7. CASE SeekLoad
  BY <1>7, SeekLoadType
<1>8. ASSUME NEW path \in Paths, Open(path) PROVE TypeOK'
  BY <1>8, OpenType
<1>9. ASSUME NEW h \in held, NEW n \in ReadSizes, Read(h, n) PROVE TypeOK'
  BY <1>9, ReadCallType
<1>10. ASSUME NEW h \in held, NEW p \in SeekTargets, Seek(h, p) PROVE TypeOK'
  BY <1>10, SeekCallType
<1>11. ASSUME NEW h \in held, Close(h) PROVE TypeOK'
  BY <1>11, CloseType
<1>12. CASE UNCHANGED vars
  BY <1>12 DEF vars, TypeOK
<1> QED
  BY <1>1, <1>2, <1>3, <1>4, <1>5, <1>6, <1>7, <1>8, <1>9, <1>10, <1>11, <1>12
     DEF Next, Step, Caller

(* On every volume, for every caller and whatever reads fail, the driver   *)
(* keeps its fields in range: the sector within a cluster, the handles it  *)
(* gives out, and the buffer of an open handle, which holds a sector the   *)
(* drive has, so that a directory scan never looks outside the disk.       *)
THEOREM DriverTypeOK == Spec => []TypeOK
PROOF
<1>1. Init => TypeOK
  BY InitType
<1>2. TypeOK /\ [Next]_vars => TypeOK'
  BY TypeStep
<1> QED
  BY <1>1, <1>2, PTL DEF Spec

(***************************************************************************)
(* Handles are accounted for.  During a call the directory being scanned   *)
(* is open too, and the caller does not hold it: open() closes it before   *)
(* the next one takes its slot, so the walk never needs more than one.     *)
(***************************************************************************)
Scanning(h) == frame.op = "scan" /\ frame.dir = h

HandlesInv ==
  \A h \in Handle :
    /\ fds[h].opened <=> h \in held \/ Scanning(h)
    /\ Scanning(h) => h \notin held

LEMMA NotRoot == \A h \in Handle : h # ROOT_DIRECTORY_HANDLE /\ h \in Files
PROOF
  BY DriverAssumption

LEMMA HandlesInit ==
  ASSUME Init
  PROVE  HandlesInv
PROOF
  BY DEF Init, ZeroFile, HandlesInv, Scanning

(* Steps that open, close and give out nothing.                            *)
LEMMA HandlesKept ==
  ASSUME HandlesInv, held' = held,
         \A h \in Handle : fds'[h].opened = fds[h].opened,
         \A h \in Handle : Scanning(h)' <=> Scanning(h)
  PROVE  HandlesInv'
PROOF
  BY DEF HandlesInv

(* The call ends or leaves a directory whose slot it has closed.           *)
LEMMA ScanEnds ==
  ASSUME HandlesInv, frame.op = "scan", frame'.op # "scan", held' = held,
         \A h \in Handle : fds'[h].opened = (fds[h].opened /\ h # frame.dir)
  PROVE  HandlesInv'
PROOF
  BY DEF HandlesInv, Scanning

LEMMA MountHandles ==
  ASSUME TypeOK, HandlesInv, Mount
  PROVE  HandlesInv'
PROOF
<1>1. \/ fds' = fds
      \/ \E f : fds' = [fds EXCEPT ![ROOT_DIRECTORY_HANDLE] = f]
  BY DEF Mount
<1>2. \A h \in Handle : fds'[h] = fds[h]
  BY <1>1, NotRoot DEF TypeOK
<1>3. frame.op # "scan" /\ frame'.op # "scan" /\ held' = held
  BY DEF Mount, Idle
<1> QED
  BY <1>2, <1>3, HandlesKept DEF Scanning

LEMMA OpenHandles ==
  ASSUME HandlesInv, NEW path \in Paths, Open(path)
  PROVE  HandlesInv'
PROOF
<1>1. fds' = fds /\ frame.op = "idle"
  BY DEF Open
<1>2. \A h \in Handle : h \in held' <=> h \in held
  BY NotRoot DEF Open
<1>3. frame'.op = "scan" => frame'.dir = ROOT_DIRECTORY_HANDLE
  BY DEF Open, Return, Begin, Idle
<1>4. \A h \in Handle : ~Scanning(h)' /\ ~Scanning(h)
  BY <1>1, <1>3, NotRoot DEF Scanning
<1> QED
  BY <1>1, <1>2, <1>4 DEF HandlesInv

LEMMA ScanEntryHandles ==
  ASSUME TypeOK, HandlesInv, ScanEntry
  PROVE  HandlesInv'
PROOF
<1> DEFINE h == frame.dir
           fd == fds[h]
<1>1. h \in Files /\ frame.op = "scan"
  BY FrameFields DEF ScanEntry, TypeOK
<1>2. fds \in [Files -> AnyFile] /\ fd \in AnyFile /\ held' = held
  BY <1>1 DEF TypeOK, ScanEntry
<1>3. ASSUME NEW f \in AnyFile, f.opened = fd.opened,
             fds' = [fds EXCEPT ![h] = Closed(h, f)], frame'.op # "scan"
      PROVE  HandlesInv'
  <2>1. \A g \in Handle : fds'[g].opened = (fds[g].opened /\ g # h)
    <3> TAKE g \in Handle
    <3>1. CASE g = h
      <4>1. fds'[g] = [f EXCEPT !.opened = FALSE]
        BY <1>1, <1>2, <1>3, <3>1, NotRoot DEF Closed
      <4> QED
        BY <3>1, <4>1 DEF AnyFile
    <3>2. CASE g # h
      <4>1. fds'[g] = fds[g] /\ fds[g].opened \in BOOLEAN
        BY <1>2, <1>3, <3>2 DEF AnyFile
      <4> QED
        BY <3>2, <4>1
    <3> QED
      BY <3>1, <3>2
  <2> QED
    BY <1>1, <1>2, <1>3, <2>1, ScanEnds
<1>4. CASE Readable(fd, ENTRY_SIZE) < ENTRY_SIZE
  <2>1. fds' = [fds EXCEPT ![h] = Closed(h, fd)] /\ frame' = Idle
    BY <1>4 DEF ScanEntry, Return
  <2> QED
    BY <1>2, <1>3, <2>1 DEF Idle
<1>5. CASE ~(Readable(fd, ENTRY_SIZE) < ENTRY_SIZE)
  <2>1. PICK it \in Iterations(fd, ENTRY_SIZE) :
          \/ fds' = [fds EXCEPT ![h] = Closed(h, it.fd)] /\ frame'.op = "entry"
          \/ fds' = [fds EXCEPT ![h] = Closed(h, it.fd)] /\ frame' = Idle
          \/ fds' = [fds EXCEPT ![h] = it.fd] /\ frame' = frame
    BY <1>5 DEF ScanEntry, Return
  <2>2. it.fd \in AnyFile /\ it.fd.opened = fd.opened
    <3>1. ENTRY_SIZE \in Nat
      BY Geometry
    <3> QED
      BY <1>2, <3>1, TypeOKFacts, IterationType DEF IterationOK
  <2>3. CASE fds' = [fds EXCEPT ![h] = Closed(h, it.fd)] /\ (frame'.op = "entry" \/ frame' = Idle)
    <3>1. frame'.op # "scan"
      BY <2>3 DEF Idle
    <3>2. fds' = [fds EXCEPT ![h] = Closed(h, it.fd)]
      BY <2>3
    <3> QED
      BY <1>3, <2>2, <3>1, <3>2
  <2>4. CASE fds' = [fds EXCEPT ![h] = it.fd] /\ frame' = frame
    <3>1. \A g \in Handle : fds'[g].opened = fds[g].opened
      BY <1>1, <1>2, <2>2, <2>4
    <3>2. \A g \in Handle : Scanning(g)' <=> Scanning(g)
      BY <2>4 DEF Scanning
    <3> QED
      BY <1>2, <3>1, <3>2, HandlesKept
  <2> QED
    BY <2>1, <2>3, <2>4
<1> QED
  BY <1>4, <1>5

(* open() ends where a null File* names no file.                           *)
LEMMA EndsWithNone ==
  ASSUME NullNamesNone, Resume(NoHandle)
  PROVE  frame' = Idle /\ reply' = Opened(frame.path, NoHandle) /\ held' = held
PROOF
<1>1. SlotOf(NoHandle) \notin Handle
  BY DEF SlotOf, NullNamesNone
<1> QED
  BY <1>1 DEF Resume, Return

(* The slot of a File* that is none.                                       *)
LEMMA NotNull ==
  ASSUME NEW h \in Handle
  PROVE  SlotOf(h) = h /\ h # NoHandle
PROOF
  BY DriverAssumption DEF SlotOf, Handle, NoHandle

(* open() goes on without a handle: nothing is given out.                  *)
LEMMA ResumeNone ==
  ASSUME NullNamesNone, HandlesInv, frame.op = "entry", Resume(NoHandle),
         \A h \in Handle : fds'[h].opened = fds[h].opened
  PROVE  HandlesInv'
PROOF
<1>1. held' = held /\ frame'.op # "scan"
  BY EndsWithNone DEF Idle
<1> QED
  BY <1>1, HandlesKept DEF Scanning

(* open() goes on with a handle that was free.                             *)
LEMMA ResumeWith ==
  ASSUME HandlesInv, frame.op = "entry", NEW h \in Handle, ~fds[h].opened, Resume(h),
         \A g \in Handle : fds'[g].opened = (fds[g].opened \/ g = h)
  PROVE  HandlesInv'
PROOF
<1>1. h \notin held /\ \A g \in Handle : ~Scanning(g)
  BY DEF HandlesInv, Scanning
<1>2. CASE frame.rest = << >>
  <2>1. held' = held \cup {h} /\ frame' = Idle
    BY <1>2, NotNull DEF Resume, Return
  <2> QED
    BY <1>1, <2>1 DEF HandlesInv, Scanning, Idle
<1>3. CASE frame.rest # << >>
  <2>1. held' = held /\ frame'.op = "scan" /\ frame'.dir = h
    BY <1>3, NotNull DEF Resume
  <2> QED
    BY <1>1, <2>1 DEF HandlesInv, Scanning
<1> QED
  BY <1>2, <1>3

LEMMA OpenEntryHandles ==
  ASSUME NullNamesNone, TypeOK, HandlesInv, OpenEntry
  PROVE  HandlesInv'
PROOF
<1>1. frame.op = "entry" /\ frame.entry \in EntryType
  BY FrameFields DEF OpenEntry, TypeOK
<1>2. fds \in [Files -> AnyFile]
  BY DEF TypeOK
<1>3. \A h \in LowestFree : h \in Handle /\ ~fds[h].opened
  BY DEF LowestFree, FreeHandles
<1>4. CASE Return(Opened(frame.path, NoHandle)) /\ UNCHANGED <<fds, held>>
  BY <1>1, <1>4, HandlesKept DEF Return, Idle, Scanning
<1>5. CASE Resume(NoHandle) /\ UNCHANGED fds
  BY <1>1, <1>5, ResumeNone
<1>6. ASSUME NEW h \in LowestFree,
             fds' = [fds EXCEPT ![h] = EntryFile(frame.entry, FALSE, @.buffer)],
             Resume(NoHandle)
      PROVE  HandlesInv'
  <2>1. ASSUME NEW g \in Handle PROVE fds'[g].opened = fds[g].opened
    <3>1. CASE g = h
      <4>1. fds[g].opened = FALSE
        BY <1>2, <1>3, <3>1, NotRoot DEF AnyFile
      <4>2. fds'[g].opened = FALSE
        BY <1>2, <1>6, <3>1, NotRoot DEF EntryFile
      <4> QED
        BY <4>1, <4>2
    <3>2. CASE g # h
      BY <1>2, <1>6, <3>2, NotRoot
    <3> QED
      BY <3>1, <3>2
  <2> QED
    BY <1>1, <1>6, <2>1, ResumeNone
<1>7. ASSUME NEW h \in LowestFree, LoadEntry(h, frame.entry)
      PROVE  HandlesInv'
  <2> DEFINE lba == ClusterToLba(frame.entry.cluster)
  <2>1. PICK ok \in ReadOutcomes(lba) :
          /\ fds' = [fds EXCEPT ![h] = EntryFile(frame.entry, ok, IF ok THEN lba ELSE fds[h].buffer)]
          /\ Resume(IF ok THEN h ELSE NoHandle)
    BY <1>7 DEF LoadEntry
  <2>2. ok = TRUE \/ ok = FALSE
    BY DEF ReadOutcomes
  <2> HIDE DEF lba
  <2>3. fds'[h].opened = ok
    BY <1>2, <1>3, <2>1, NotRoot DEF EntryFile
  <2>4. \A g \in Handle : g # h => fds'[g] = fds[g]
    BY <1>2, <2>1, NotRoot
  <2>5. \A g \in Handle : fds[g].opened \in BOOLEAN
    BY <1>2, NotRoot DEF AnyFile
  <2>6. CASE ok = TRUE
    <3>1. \A g \in Handle : fds'[g].opened = (fds[g].opened \/ g = h)
      BY <2>3, <2>4, <2>5, <2>6
    <3>2. Resume(h)
      BY <2>1, <2>6
    <3> QED
      BY <1>1, <1>3, <1>7, <3>1, <3>2, ResumeWith
  <2>7. CASE ok = FALSE
    <3>1. \A g \in Handle : fds'[g].opened = fds[g].opened
      BY <1>3, <2>3, <2>4, <2>5, <2>7
    <3>2. Resume(NoHandle)
      BY <2>1, <2>7
    <3> QED
      BY <1>1, <3>1, <3>2, ResumeNone
  <2> QED
    BY <2>2, <2>6, <2>7
<1> QED
  BY <1>4, <1>5, <1>6, <1>7 DEF OpenEntry

(* read() and seek() neither open nor close.                               *)
LEMMA TransferHandles ==
  ASSUME TypeOK, HandlesInv, ReadStep \/ ReadReturn \/ SeekStep \/ SeekLoad
  PROVE  HandlesInv'
PROOF
<1>1. held' = held
  BY DEF ReadStep, ReadReturn, SeekStep, SeekLoad
<1>2. fds \in [Files -> AnyFile]
  BY DEF TypeOK
<1>3. frame.op # "scan"
  BY DEF ReadStep, ReadReturn, SeekStep, SeekLoad
<1>4. frame'.op # "scan"
  <2>1. CASE ReadReturn \/ SeekLoad
    <3>1. frame' = Idle
      BY <2>1 DEF ReadReturn, SeekLoad, Return
    <3> QED
      BY <3>1 DEF Idle
  <2>2. CASE ReadStep
    <3>1. PICK got, left : frame' = [frame EXCEPT !.got = got, !.left = left]
      BY <2>2 DEF ReadStep
    <3>2. frame \in [op : {"read"}, handle : Files, start : Nat, want : Nat, left : Nat,
                     got : Seq(Int \X Int)]
      BY <2>2, FrameFields DEF TypeOK, ReadStep
    <3> QED
      BY <3>1, <3>2
  <2>3. CASE SeekStep
    <3>1. \/ frame' = Idle
          \/ \E c, o : frame' = [frame EXCEPT !.cluster = c, !.offset = o]
      BY <2>3 DEF SeekStep, Return
    <3>2. frame \in [op : {"seek"}, handle : Files, start : Nat, to : Nat, cluster : Nat,
                     offset : Nat]
      BY <2>3, FrameFields DEF TypeOK, SeekStep
    <3>3. CASE frame' = Idle
      BY <3>3 DEF Idle
    <3>4. ASSUME NEW c, NEW o, frame' = [frame EXCEPT !.cluster = c, !.offset = o]
          PROVE  frame'.op # "scan"
      BY <3>2, <3>4
    <3> QED
      BY <3>1, <3>3, <3>4
  <2> QED
    BY <2>1, <2>2, <2>3
<1>5. \A g \in Handle : fds'[g].opened = fds[g].opened
  <2>1. CASE ReadReturn \/ SeekStep
    BY <2>1 DEF ReadReturn, SeekStep
  <2>2. CASE ReadStep
    <3>1. frame.handle \in Files /\ frame.left \in Nat
      BY <2>2, FrameFields DEF TypeOK, ReadStep
    <3>2. PICK it \in Iterations(fds[frame.handle], frame.left) :
            fds' = [fds EXCEPT ![frame.handle] = it.fd]
      BY <2>2 DEF ReadStep
    <3>3. it.fd.opened = fds[frame.handle].opened
      BY <1>2, <3>1, TypeOKFacts, IterationType DEF IterationOK
    <3> QED
      BY <1>2, <3>1, <3>2, <3>3, NotRoot
  <2>3. CASE SeekLoad
    <3>1. frame.handle \in Files
      BY <2>3, FrameFields DEF TypeOK, SeekLoad
    <3>2. PICK s, b : fds' = [fds EXCEPT ![frame.handle].cluster = frame.cluster,
                                       ![frame.handle].sector = s,
                                       ![frame.handle].buffer = b]
      BY <2>3 DEF SeekLoad
    <3>3. fds'[frame.handle].opened = fds[frame.handle].opened
      BY <1>2, <3>1, <3>2 DEF AnyFile
    <3>4. \A g \in Files : g # frame.handle => fds'[g] = fds[g]
      BY <1>2, <3>2
    <3> QED
      BY <3>3, <3>4, NotRoot
  <2> QED
    BY <2>1, <2>2, <2>3
<1>6. \A g \in Handle : Scanning(g)' <=> Scanning(g)
  BY <1>3, <1>4 DEF Scanning
<1> QED
  BY <1>1, <1>5, <1>6, HandlesKept

LEMMA CallHandles ==
  ASSUME TypeOK, HandlesInv, NEW h \in held,
         (\E n \in ReadSizes : Read(h, n)) \/ (\E p \in SeekTargets : Seek(h, p))
  PROVE  HandlesInv'
PROOF
<1>1. held' = held /\ frame.op = "idle"
  BY DEF Read, Seek
<1>2. frame'.op # "scan"
  <2>1. ASSUME NEW n \in ReadSizes, Read(h, n) PROVE frame'.op = "read"
    BY <2>1 DEF Read, Begin
  <2>2. ASSUME NEW p \in SeekTargets, Seek(h, p) PROVE frame'.op \in {"idle", "seek"}
    <3>1. CASE Return(Sought(h, p, FALSE))
      BY <3>1 DEF Return, Idle
    <3>2. CASE Begin([op |-> "seek", handle |-> h, start |-> fds[h].position,
                      to |-> p, cluster |-> fds[h].first, offset |-> p])
      BY <3>2 DEF Begin
    <3> QED
      BY <2>2, <3>1, <3>2 DEF Seek
  <2> QED
    BY <2>1, <2>2
<1>3. fds' = fds \/ \E p : fds' = [fds EXCEPT ![h].position = p]
  BY DEF Read, Seek
<1>4. fds \in [Files -> AnyFile] /\ h \in Files
  BY DEF TypeOK
<1>5. \A g \in Handle : fds'[g].opened = fds[g].opened
  BY <1>3, <1>4, NotRoot DEF AnyFile
<1>6. \A g \in Handle : Scanning(g)' <=> Scanning(g)
  BY <1>1, <1>2 DEF Scanning
<1> QED
  BY <1>1, <1>5, <1>6, HandlesKept

LEMMA CloseHandles ==
  ASSUME TypeOK, HandlesInv, NEW h \in held, Close(h)
  PROVE  HandlesInv'
PROOF
<1>1. fds \in [Files -> AnyFile] /\ h \in Files
  BY DEF TypeOK
<1>2. held' = held \ {h} /\ frame' = frame /\ frame.op = "idle"
  BY DEF Close
<1>3. fds' = [fds EXCEPT ![h] = Closed(h, fds[h])]
  BY DEF Close
<1>4. \A g \in Handle : g # h => fds'[g] = fds[g]
  BY <1>1, <1>3, NotRoot
<1>5. h \in Handle => ~fds'[h].opened
  BY <1>1, <1>3, NotRoot DEF Closed, AnyFile
<1> QED
  BY <1>2, <1>4, <1>5 DEF HandlesInv, Scanning

LEMMA HandlesStep ==
  ASSUME NullNamesNone, TypeOK, HandlesInv, [Next]_vars
  PROVE  HandlesInv'
PROOF
<1>1. CASE Mount
  BY <1>1, MountHandles
<1>2. CASE ScanEntry
  BY <1>2, ScanEntryHandles
<1>3. CASE OpenEntry
  BY <1>3, OpenEntryHandles
<1>4. CASE ReadStep \/ ReadReturn \/ SeekStep \/ SeekLoad
  BY <1>4, TransferHandles
<1>5. ASSUME NEW path \in Paths, Open(path) PROVE HandlesInv'
  BY <1>5, OpenHandles
<1>6. ASSUME NEW h \in held,
             (\E n \in ReadSizes : Read(h, n)) \/ (\E p \in SeekTargets : Seek(h, p))
      PROVE  HandlesInv'
  BY <1>6, CallHandles
<1>7. ASSUME NEW h \in held, Close(h) PROVE HandlesInv'
  BY <1>7, CloseHandles
<1>8. CASE UNCHANGED vars
  BY <1>8 DEF vars, HandlesInv, Scanning
<1> QED
  BY <1>1, <1>2, <1>3, <1>4, <1>5, <1>6, <1>7, <1>8 DEF Next, Step, Caller

(* Where the byte at address 0 is not the handle of a file, no open, found *)
(* or not, on any volume and whatever reads fail, leaks a slot of          *)
(* OpenedFiles or gives out one that is in use: between calls the handles  *)
(* marked open are exactly those the caller holds.                         *)
THEOREM HandlesNeverLeak ==
  ASSUME NullNamesNone
  PROVE  Spec => []HandlesAccounted
PROOF
<1>1. Init => TypeOK /\ HandlesInv
  BY InitType, HandlesInit
<1>2. TypeOK /\ HandlesInv /\ [Next]_vars => (TypeOK /\ HandlesInv)'
  BY TypeStep, HandlesStep
<1>3. HandlesInv => HandlesAccounted
  BY DEF HandlesInv, HandlesAccounted, Between, Scanning
<1> QED
  BY <1>1, <1>2, <1>3, PTL DEF Spec


TwelveBits == 0 .. 4095

(***************************************************************************)
(* Chains.                                                                 *)
(***************************************************************************)
LEMMA ChainFacts ==
  ASSUME NEW c \in DOMAIN Chain
  PROVE  /\ Len(Chain[c]) \in Nat \ {0} /\ DOMAIN Chain[c] = 1 .. Len(Chain[c])
         /\ Chain[c][1] = c /\ c \in Nat
         /\ \A i \in 1 .. Len(Chain[c]) :
              /\ Chain[c][i] \in DataCluster /\ Chain[c][i] \in Nat
              /\ Chain[c][i] \in Clusters
PROOF
<1>1. Chain[c] \in Seq(DataCluster) /\ Chain[c] # << >> /\ Chain[c][1] = c
  BY ChainAssumption
<1>2. Len(Chain[c]) \in Nat \ {0} /\ DOMAIN Chain[c] = 1 .. Len(Chain[c])
  BY <1>1
<1>3. \A i \in 1 .. Len(Chain[c]) : Chain[c][i] \in DataCluster
  BY <1>1, ElementOfSeq
<1>4. \A i \in 1 .. Len(Chain[c]) : Chain[c][i] \in Clusters
  BY <1>2 DEF Clusters
<1> QED
  <2>1. 1 \in 1 .. Len(Chain[c])
    BY <1>2
  <2>2. \A x \in DataCluster : x \in Nat
    BY DEF DataCluster
  <2> QED
    BY <1>1, <1>2, <1>3, <1>4, <2>1, <2>2

(* An entry has twelve bits.                                               *)
LEMMA FatEntryRange ==
  ASSUME NEW c \in Nat
  PROVE  FatEntry(c) \in TwelveBits
PROOF
<1>1. CASE \E f \in DOMAIN Chain : \E i \in DOMAIN Chain[f] : Chain[f][i] = c
  <2> DEFINE f == CHOOSE g \in DOMAIN Chain : \E i \in DOMAIN Chain[g] : Chain[g][i] = c
             i == CHOOSE j \in DOMAIN Chain[f] : Chain[f][j] = c
  <2>1. f \in DOMAIN Chain /\ \E j \in DOMAIN Chain[f] : Chain[f][j] = c
    BY <1>1
  <2>2. i \in DOMAIN Chain[f]
    BY <2>1
  <2>3. FatEntry(c) = IF i = Len(Chain[f]) THEN FatEnd ELSE Chain[f][i + 1]
    BY <1>1 DEF FatEntry
  <2> HIDE DEF f, i
  <2>4. i # Len(Chain[f]) => i + 1 \in 1 .. Len(Chain[f])
    BY <2>1, <2>2, ChainFacts
  <2>5. \A j \in 1 .. Len(Chain[f]) : Chain[f][j] \in DataCluster
    BY <2>1, ChainFacts, Zenon
  <2>6. i # Len(Chain[f]) => Chain[f][i + 1] \in DataCluster
    BY <2>4, <2>5, Zenon
  <2>7. \A x \in DataCluster : x \in TwelveBits
    BY DEF DataCluster, TwelveBits
  <2>8. FatEnd \in TwelveBits
    BY DEF FatEnd, TwelveBits
  <2> QED
    BY <2>3, <2>6, <2>7, <2>8, Zenon
<1>2. CASE ~ \E f \in DOMAIN Chain : \E i \in DOMAIN Chain[f] : Chain[f][i] = c
  <2>1. FatEntry(c) = IF c = 0 THEN 4080 ELSE IF c = 1 THEN FatEnd ELSE 0
    BY <1>2 DEF FatEntry
  <2> QED
    BY <2>1 DEF FatEnd, TwelveBits
<1> QED
  BY <1>1, <1>2

(* The table links the clusters of a chain.                                *)
LEMMA FatEntryOnChain ==
  ASSUME ChainsApart, NEW c \in DOMAIN Chain, NEW i \in 1 .. Len(Chain[c])
  PROVE  FatEntry(Chain[c][i]) = IF i = Len(Chain[c]) THEN FatEnd ELSE Chain[c][i + 1]
PROOF
<1> DEFINE k == Chain[c][i]
           f == CHOOSE g \in DOMAIN Chain : \E j \in DOMAIN Chain[g] : Chain[g][j] = k
           n == CHOOSE j \in DOMAIN Chain[f] : Chain[f][j] = k
<1>1. i \in DOMAIN Chain[c]
  BY ChainFacts
<1>2. \E g \in DOMAIN Chain : \E j \in DOMAIN Chain[g] : Chain[g][j] = k
  BY <1>1
<1>3. FatEntry(k) = IF n = Len(Chain[f]) THEN FatEnd ELSE Chain[f][n + 1]
  BY <1>2 DEF FatEntry
<1>4. f \in DOMAIN Chain /\ \E j \in DOMAIN Chain[f] : Chain[f][j] = k
  BY <1>2
<1>5. n \in DOMAIN Chain[f] /\ Chain[f][n] = k
  BY <1>4
<1> HIDE DEF f, n
<1>6. f = c /\ n = i
  BY <1>1, <1>4, <1>5 DEF ChainsApart
<1> QED
  BY <1>3, <1>6

(***************************************************************************)
(* Decoding an entry.                                                      *)
(***************************************************************************)
LEMMA EvenEntry ==
  ASSUME NEW even \in TwelveBits, NEW odd \in TwelveBits
  PROVE  ((even % 256) + 256 * ((even \div 256) + 16 * (odd % 16))) % 4096 = even
PROOF
<1> USE DEF TwelveBits
<1>1. even % 256 \in 0 .. 255 /\ even \div 256 \in 0 .. 15
      /\ even = 256 * (even \div 256) + (even % 256)
  OBVIOUS
<1>2. odd % 16 \in 0 .. 15
  OBVIOUS
<1> QED
  BY <1>1, <1>2

LEMMA OddEntry ==
  ASSUME NEW even \in TwelveBits, NEW odd \in TwelveBits
  PROVE  (((even \div 256) + 16 * (odd % 16)) + 256 * (odd \div 16)) \div 16 = odd
PROOF
<1> USE DEF TwelveBits
<1>1. even \div 256 \in 0 .. 15
  OBVIOUS
<1>2. odd % 16 \in 0 .. 15 /\ odd \div 16 \in Nat /\ odd = 16 * (odd \div 16) + (odd % 16)
  OBVIOUS
<1> QED
  BY <1>1, <1>2

LEMMA PairDecodes ==
  ASSUME NEW k \in Nat, FatIndex(k) + 1 < SectorsPerFat * SECTOR_SIZE
  PROVE  LET pair == FatByte[FatIndex(k)] + 256 * FatByte[FatIndex(k) + 1]
         IN  (IF k % 2 = 0 THEN pair % 4096 ELSE pair \div 16) = FatEntry(k)
PROOF
<1> DEFINE m == k \div 2
           b == FatIndex(k)
           even == FatEntry(2 * m)
           odd  == FatEntry(2 * m + 1)
<1>1. m \in Nat /\ (k = 2 * m \/ k = 2 * m + 1) /\ (k % 2 = 0 <=> k = 2 * m)
  OBVIOUS
<1>2. SectorsPerFat * SECTOR_SIZE \in Nat
  BY Geometry, TimesMonotone
<1>3. b \in Nat /\ b \in 0 .. (SectorsPerFat * SECTOR_SIZE) - 1
      /\ b + 1 \in 0 .. (SectorsPerFat * SECTOR_SIZE) - 1
  BY <1>2 DEF FatIndex
<1>4. even \in TwelveBits /\ odd \in TwelveBits
  <2>1. 2 * m \in Nat /\ 2 * m + 1 \in Nat
    BY <1>1
  <2>2. \A x \in Nat : FatEntry(x) \in TwelveBits
    BY FatEntryRange
  <2> HIDE DEF m
  <2> QED
    BY <2>1, <2>2, Zenon
<1>5. ASSUME NEW x \in 0 .. (SectorsPerFat * SECTOR_SIZE) - 1, x \div 3 = m
      PROVE  FatByte[x] = CASE x % 3 = 0 -> even % 256
                            [] x % 3 = 1 -> (even \div 256) + 16 * (odd % 16)
                            [] x % 3 = 2 -> odd \div 16
  BY <1>5 DEF FatByte
<1>6. CASE k = 2 * m
  <2>1. b = 3 * m
    BY <1>1, <1>6 DEF FatIndex
  <2>2. b \div 3 = m /\ b % 3 = 0 /\ (b + 1) \div 3 = m /\ (b + 1) % 3 = 1
    BY <1>1, <2>1
  <2> HIDE DEF b, even, odd, m
  <2>3. FatByte[b] = even % 256
    BY <1>3, <1>5, <2>2
  <2>4. FatByte[b + 1] = (even \div 256) + 16 * (odd % 16)
    BY <1>3, <1>5, <2>2
  <2>5. (FatByte[b] + 256 * FatByte[b + 1]) % 4096 = even
    <3>1. ((even % 256) + 256 * ((even \div 256) + 16 * (odd % 16))) % 4096 = even
      BY <1>4, EvenEntry
    <3> DEFINE x == FatByte[b] + 256 * FatByte[b + 1]
               y == (even % 256) + 256 * ((even \div 256) + 16 * (odd % 16))
    <3>2. x = y
      BY <2>3, <2>4
    <3>3. y % 4096 = even
      BY <3>1
    <3> HIDE DEF x, y
    <3>4. x % 4096 = even
      BY <3>2, <3>3
    <3> QED
      BY <3>4 DEF x
  <2> QED
    BY <1>1, <1>6, <2>5 DEF b, even
<1>7. CASE k = 2 * m + 1
  <2>1. b = 3 * m + 1
    BY <1>1, <1>7 DEF FatIndex
  <2>2. b \div 3 = m /\ b % 3 = 1 /\ (b + 1) \div 3 = m /\ (b + 1) % 3 = 2
    BY <1>1, <2>1
  <2> HIDE DEF b, even, odd, m
  <2>3. FatByte[b] = (even \div 256) + 16 * (odd % 16)
    BY <1>3, <1>5, <2>2
  <2>4. FatByte[b + 1] = odd \div 16
    BY <1>3, <1>5, <2>2
  <2>5. (FatByte[b] + 256 * FatByte[b + 1]) \div 16 = odd
    <3>1. (((even \div 256) + 16 * (odd % 16)) + 256 * (odd \div 16)) \div 16 = odd
      BY <1>4, OddEntry
    <3> QED
      BY <2>3, <2>4, <3>1, Zenon
  <2>6. k # 2 * m
    BY <1>1, <1>7
  <2> QED
    BY <1>1, <1>7, <2>5, <2>6 DEF b, odd
<1> QED
  BY <1>1, <1>6, <1>7

(* What the cache holds of the table, and where it may begin.              *)
Whole(c, pos) ==
  /\ \A i \in 0 .. FAT_CACHE_SIZE - 1 : pos + i < SectorsPerFat => c[i] = pos + i
  /\ pos = WORD - 1 \/ \E k \in Clusters : pos = FatSector(k)

LEMMA DivUnique ==
  ASSUME NEW d \in Nat \ {0}, NEW q \in Nat, NEW r \in 0 .. d - 1
  PROVE  (q * d + r) \div d = q /\ (q * d + r) % d = r
PROOF
<1>1. q * d + r \in Nat
  BY TimesMonotone
<1> DEFINE x == q * d + r
           y == x \div d
           z == x % d
<1>2. y \in Nat /\ z \in 0 .. d - 1 /\ x = d * y + z
  BY <1>1, DivMod
<1> HIDE DEF y, z
<1>3. ASSUME q < y PROVE FALSE
  <2>1. (q + 1) * d <= y * d
    BY <1>2, <1>3, TimesMonotone
  <2>2. (q + 1) * d = q * d + d
    OBVIOUS
  <2>3. q * d \in Nat /\ y * d \in Nat /\ d * y = y * d
    BY <1>2
  <2> QED
    BY <1>2, <2>1, <2>2, <2>3 
<1>4. ASSUME y < q PROVE FALSE
  <2>1. (y + 1) * d <= q * d
    BY <1>2, <1>4, TimesMonotone
  <2>2. (y + 1) * d = y * d + d
    BY <1>2
  <2>3. q * d \in Nat /\ y * d \in Nat /\ d * y = y * d
    BY <1>2
  <2> QED
    BY <1>2, <2>1, <2>2, <2>3 
<1>5. y = q
  BY <1>2, <1>3, <1>4
<1>6. z = r
  <2>1. d * y = q * d
    BY <1>5
  <2>2. q * d \in Nat
    BY TimesMonotone
  <2> QED
    BY <1>2, <2>1, <2>2
<1> QED
  BY <1>5, <1>6 DEF y, z

(* A byte of the table that is in the cache is read as it is.              *)
LEMMA CachedByte ==
  ASSUME NEW c, NEW pos \in Nat, Whole(c, pos),
         NEW b \in Nat, b < SectorsPerFat * SECTOR_SIZE,
         pos <= b \div SECTOR_SIZE, b \div SECTOR_SIZE < pos + FAT_CACHE_SIZE
  PROVE  CacheByte(c, pos, b - pos * SECTOR_SIZE) = FatByte[b]
PROOF
<1> DEFINE s == b \div SECTOR_SIZE
           r == b % SECTOR_SIZE
           q == s - pos
           i == b - pos * SECTOR_SIZE
<1>1. s \in Nat /\ r \in 0 .. SECTOR_SIZE - 1 /\ b = SECTOR_SIZE * s + r
  BY DivMod, SectorPositive
<1>2. s < SectorsPerFat
  BY QuotientBound, Geometry
<1>3. pos <= s /\ s < pos + FAT_CACHE_SIZE
  OBVIOUS
<1> HIDE DEF s, r
<1>4. q \in Nat /\ q \in 0 .. FAT_CACHE_SIZE - 1 /\ q < FAT_CACHE_SIZE /\ s = pos + q
  BY <1>1, <1>3, SectorPositive
<1>5. i = q * SECTOR_SIZE + r
  <2>1. SECTOR_SIZE * s = pos * SECTOR_SIZE + q * SECTOR_SIZE
    BY <1>4, SectorPositive
  <2>2. pos * SECTOR_SIZE \in Nat /\ q * SECTOR_SIZE \in Nat
    BY <1>4, SectorPositive, TimesMonotone
  <2> HIDE DEF q
  <2> QED
    BY <1>1, <2>1, <2>2
<1> HIDE DEF q
<1>6. i \in 0 .. (FAT_CACHE_SIZE * SECTOR_SIZE) - 1
  <2>1. q * SECTOR_SIZE + r \in 0 .. (FAT_CACHE_SIZE * SECTOR_SIZE) - 1
    BY <1>1, <1>4, OffsetInRegion, SectorPositive
  <2> QED
    BY <1>5, <2>1
<1>7. i \div SECTOR_SIZE = q /\ i % SECTOR_SIZE = r
  <2>1. (q * SECTOR_SIZE + r) \div SECTOR_SIZE = q /\ (q * SECTOR_SIZE + r) % SECTOR_SIZE = r
    BY <1>1, <1>4, DivUnique, SectorPositive
  <2> QED
    BY <1>5, <2>1
<1>8. FAT_CACHE_SIZE * SECTOR_SIZE \in Nat
  BY TimesMonotone, SectorPositive
<1>9. c[q] = s /\ s # NoSector
  BY <1>1, <1>2, <1>4 DEF Whole
<1>10. CacheByte(c, pos, i) = FatSectorByte(s, r)
  <2> HIDE DEF i
  <2> QED
    BY <1>6, <1>7, <1>8, <1>9 DEF CacheByte
<1>11. s \in 0 .. (SectorsPerFat * FatCount) - 1
  <2>1. SectorsPerFat * 1 <= SectorsPerFat * FatCount /\ SectorsPerFat * FatCount \in Nat
    BY GeometryAssumption
  <2> QED
    BY <1>1, <1>2, <2>1, Geometry
<1>12. s % SectorsPerFat = s
  BY <1>1, <1>2, Geometry
<1>13. FatSectorByte(s, r) = FatByte[(s * SECTOR_SIZE) + r]
  BY <1>11, <1>12 DEF FatSectorByte
<1>14. (s * SECTOR_SIZE) + r = b
  BY <1>1, SectorPositive
<1> QED
  BY <1>10, <1>13, <1>14

LEMMA IndexType ==
  ASSUME NEW k \in Nat
  PROVE  FatIndex(k) \in Nat /\ FatSector(k) \in Nat
PROOF
<1>1. FatIndex(k) \in Nat
  BY DEF FatIndex
<1> QED
  BY <1>1, DivMod, SectorPositive DEF FatSector

(* A quotient of the next number, and its remainder.                       *)
LEMMA NextDivMod ==
  ASSUME NEW b \in Nat, NEW d \in Nat \ {0}
  PROVE  IF b % d = d - 1
         THEN (b + 1) \div d = (b \div d) + 1 /\ (b + 1) % d = 0
         ELSE (b + 1) \div d = b \div d /\ (b + 1) % d = (b % d) + 1
PROOF
<1> DEFINE s == b \div d
           r == b % d
<1>1. s \in Nat /\ r \in 0 .. d - 1 /\ b = d * s + r
  BY DivMod
<1> HIDE DEF s, r
<1>2. CASE r = d - 1
  <2>1. b + 1 = (s + 1) * d + 0
    BY <1>1, <1>2
  <2>2. ((s + 1) * d + 0) \div d = s + 1 /\ ((s + 1) * d + 0) % d = 0
    <3>1. s + 1 \in Nat /\ 0 \in 0 .. d - 1
      BY <1>1
    <3> QED
      BY <3>1, DivUnique
  <2> QED
    BY <1>2, <2>1, <2>2 DEF s, r
<1>3. CASE r # d - 1
  <2>1. b + 1 = s * d + (r + 1) /\ r + 1 \in 0 .. d - 1
    BY <1>1, <1>3
  <2>2. (s * d + (r + 1)) \div d = s /\ (s * d + (r + 1)) % d = r + 1
    BY <1>1, <2>1, DivUnique
  <2> QED
    BY <1>3, <2>1, <2>2 DEF s, r
<1> QED
  BY <1>2, <1>3

LEMMA DecodedRight ==
  ASSUME NEW c, NEW pos \in Nat, Whole(c, pos),
         NEW k \in Nat, FatIndex(k) + 1 < SectorsPerFat * SECTOR_SIZE,
         pos <= FatSector(k), FatSector(k) < pos + FAT_CACHE_SIZE,
         Straddles(k) => FatSector(k) + 1 < pos + FAT_CACHE_SIZE
  PROVE  Decoded(c, pos, k) = Widened(FatEntry(k))
PROOF
<1> DEFINE b == FatIndex(k)
           i == b - pos * SECTOR_SIZE
           pair == CacheByte(c, pos, i) + 256 * CacheByte(c, pos, i + 1)
<1>1. b \in Nat /\ FatSector(k) \in Nat /\ FatSector(k) = b \div SECTOR_SIZE
  BY IndexType DEF FatSector
<1>2. SectorsPerFat * SECTOR_SIZE \in Nat /\ pos * SECTOR_SIZE \in Nat
  BY Geometry, TimesMonotone
<1>3. CacheByte(c, pos, i) = FatByte[b]
  BY <1>1, <1>2, CachedByte
<1>4. CacheByte(c, pos, (b + 1) - pos * SECTOR_SIZE) = FatByte[b + 1]
  <2>1. \/ (b + 1) \div SECTOR_SIZE = FatSector(k)
        \/ Straddles(k) /\ (b + 1) \div SECTOR_SIZE = FatSector(k) + 1
    BY <1>1, NextDivMod, SectorPositive DEF Straddles
  <2>2. pos <= (b + 1) \div SECTOR_SIZE /\ (b + 1) \div SECTOR_SIZE < pos + FAT_CACHE_SIZE
    BY <1>1, <2>1, SectorPositive
  <2>3. b + 1 \in Nat /\ b + 1 < SectorsPerFat * SECTOR_SIZE
    BY <1>1
  <2> HIDE DEF b
  <2> QED
    BY <2>2, <2>3, CachedByte
<1>5. (b + 1) - pos * SECTOR_SIZE = i + 1
  BY <1>1, <1>2
<1>6. pair = FatByte[b] + 256 * FatByte[b + 1]
  BY <1>3, <1>4, <1>5
<1>7. (IF k % 2 = 0 THEN pair % 4096 ELSE pair \div 16) = FatEntry(k)
  BY <1>6, PairDecodes
<1> QED
  BY <1>7 DEF Decoded

LEMMA WidenedLink ==
  /\ \A x \in DataCluster : Widened(x) = x /\ ~(x >= EndOfChain)
  /\ Widened(FatEnd) >= EndOfChain /\ Widened(FatEnd) \in Nat
PROOF
  BY Geometry DEF Widened, FatEnd, DataCluster, EndOfChain

(* On a chain, NextCluster finds the next cluster or the end.              *)
LEMMA LookupOnChain ==
  ASSUME SoundVolume, NoFillFails, CacheOK, Whole(cache, cachePos),
         NEW c \in DOMAIN Chain, NEW i \in 1 .. Len(Chain[c]),
         NEW l \in NextCluster(Chain[c][i])
  PROVE  /\ Whole(l.cache, l.pos)
         /\ IF i = Len(Chain[c]) THEN l.next >= EndOfChain
            ELSE l.next = Chain[c][i + 1] /\ ~(l.next >= EndOfChain)
PROOF
<1> DEFINE k == Chain[c][i]
           s == FatSector(k)
<1>1. k \in Nat /\ k \in Clusters /\ s \in Nat
  BY ChainFacts, IndexType
<1>2. FatIndex(k) + 1 < SectorsPerFat * SECTOR_SIZE /\ FatIndex(k) \in Nat
  BY <1>1, IndexType DEF SoundVolume, OnVolume
<1>3. s < SectorsPerFat
  <2>1. FatIndex(k) < SectorsPerFat * SECTOR_SIZE
    BY <1>2, Geometry, TimesMonotone
  <2>2. SectorsPerFat \in Nat /\ SECTOR_SIZE \in Nat \ {0}
    BY Geometry
  <2>3. FatIndex(k) \div SECTOR_SIZE \in 0 .. SectorsPerFat - 1
    BY <1>2, <2>1, <2>2, QuotientBound
  <2> QED
    BY <1>1, <2>2, <2>3 DEF FatSector
<1>4. SectorsPerFat < WORD - 1
  <2>1. SectorsPerFat * 1 <= SectorsPerFat * SECTOR_SIZE
    BY GeometryAssumption
  <2> QED
    BY <2>1, GeometryAssumption
<1>5. \A j \in Clusters : Straddles(k) => s + 1 # FatSector(j) + FAT_CACHE_SIZE
  BY <1>1 DEF SoundVolume, NoEntryAcrossTheEnd
<1>6. IF i = Len(Chain[c]) THEN Widened(FatEntry(k)) >= EndOfChain
      ELSE Widened(FatEntry(k)) = Chain[c][i + 1] /\ ~(Widened(FatEntry(k)) >= EndOfChain)
  <2>1. FatEntry(k) = IF i = Len(Chain[c]) THEN FatEnd ELSE Chain[c][i + 1]
    BY FatEntryOnChain DEF SoundVolume
  <2>2. i # Len(Chain[c]) => Chain[c][i + 1] \in DataCluster
    <3>1. i # Len(Chain[c]) => i + 1 \in 1 .. Len(Chain[c])
      BY ChainFacts
    <3> QED
      BY <3>1, ChainFacts
  <2> HIDE DEF k
  <2> QED
    BY <2>1, <2>2, WidenedLink
<1> HIDE DEF k, s
<1>7. CASE CacheHit(k)
  <2>1. l = [next |-> Decoded(cache, cachePos, k),
             pos |-> cachePos, cache |-> cache, faults |-> fatFaults]
    BY <1>7 DEF NextCluster, k
  <2>2. cachePos \in Nat /\ cachePos <= s /\ s < (cachePos + FAT_CACHE_SIZE) % WORD
    BY <1>7, <1>1 DEF CacheHit, CacheOK, s
  <2>3. (cachePos + FAT_CACHE_SIZE) % WORD <= cachePos + FAT_CACHE_SIZE
    BY <2>2, Geometry
  <2>4. s < cachePos + FAT_CACHE_SIZE
    BY <1>1, <2>2, <2>3, Geometry
  <2>5. \E j \in Clusters : cachePos = FatSector(j)
    BY <1>1, <1>3, <1>4, <2>2, Geometry DEF Whole
  <2>6. Straddles(k) => s + 1 < cachePos + FAT_CACHE_SIZE
    BY <1>1, <1>5, <2>2, <2>4, <2>5, SectorPositive
  <2>7. Decoded(cache, cachePos, k) = Widened(FatEntry(k))
    BY <1>1, <1>2, <2>2, <2>4, <2>6, DecodedRight DEF s
  <2> QED
    BY <1>6, <2>1, <2>7 DEF k
<1>8. CASE ~CacheHit(k)
  <2>1. PICK n \in FillOutcomes(s) :
          l = [next |-> Decoded(Filled(s, n), s, k), pos |-> s, cache |-> Filled(s, n),
               faults |-> IF n < OnDrive(s) THEN fatFaults + 1 ELSE fatFaults]
    BY <1>8 DEF NextCluster, k, s
  <2>2. n = OnDrive(s)
    <3>1. ~(fatFaults < MaxFatFaults)
      BY DEF NoFillFails, CacheOK
    <3> QED
      BY <3>1 DEF FillOutcomes
  <2>3. Whole(Filled(s, n), s)
    <3>1. ASSUME NEW j \in 0 .. FAT_CACHE_SIZE - 1, s + j < SectorsPerFat
          PROVE  Filled(s, n)[j] = s + j
      <4>1. ReservedSectors + (s + j) < TotalSectors
        <5>1. SectorsPerFat * 1 <= SectorsPerFat * FatCount /\ SectorsPerFat * FatCount \in Nat
          BY GeometryAssumption
        <5>2. RootLba <= TotalSectors
          BY Geometry DEF SoundVolume, OnVolume, DataLba
        <5> QED
          BY <1>1, <3>1, <5>1, <5>2, GeometryAssumption DEF RootLba
      <4>2. j < n
        BY <1>1, <2>2, <4>1, Geometry, GeometryAssumption DEF OnDrive
      <4> QED
        BY <4>2 DEF Filled
    <3> QED
      BY <1>1, <3>1 DEF Whole, s
  <2>4. Straddles(k) => s + 1 < s + FAT_CACHE_SIZE
    BY <1>1, <1>5, SectorPositive, Geometry DEF s
  <2>5. Decoded(Filled(s, n), s, k) = Widened(FatEntry(k))
    <3>1. s <= s /\ s < s + FAT_CACHE_SIZE
      BY <1>1, Geometry
    <3> QED
      BY <1>1, <1>2, <2>3, <2>4, <3>1, DecodedRight DEF s
  <2> QED
    BY <1>6, <2>1, <2>3, <2>5 DEF k
<1> QED
  BY <1>7, <1>8

(***************************************************************************)
(* Positions in a file and the sectors they lie in.                        *)
(***************************************************************************)
Capacity(c) == SectorCount(c) * SECTOR_SIZE

Tracked(fd) ==
  LET k == fd.position \div SECTOR_SIZE
  IN  /\ fd.cluster = Chain[fd.first][k \div SectorsPerCluster + 1]
      /\ fd.sector = k % SectorsPerCluster

LEMMA SectorCountType ==
  ASSUME NEW c \in DOMAIN Chain
  PROVE  SectorCount(c) \in Nat \ {0} /\ Capacity(c) \in Nat \ {0}
PROOF
<1>1. Len(Chain[c]) \in Nat \ {0} /\ SectorsPerCluster \in Nat \ {0} /\ SECTOR_SIZE \in Nat \ {0}
  BY ChainFacts, Geometry
<1>2. SectorCount(c) \in Nat \ {0}
  BY <1>1 DEF SectorCount
<1> QED
  BY <1>1, <1>2 DEF Capacity

(* The sector a position lies in, its cluster and its place there.         *)
LEMMA SectorInChain ==
  ASSUME NEW c \in DOMAIN Chain, NEW k \in Nat, k < SectorCount(c)
  PROVE  /\ k \div SectorsPerCluster \in Nat
         /\ k \div SectorsPerCluster + 1 \in 1 .. Len(Chain[c])
         /\ k % SectorsPerCluster \in 0 .. SectorsPerCluster - 1
         /\ SectorLba(c, k) \in Sectors(c)
PROOF
<1>1. Len(Chain[c]) \in Nat /\ SectorsPerCluster \in Nat \ {0}
  BY ChainFacts, Geometry
<1>2. k \div SectorsPerCluster \in 0 .. Len(Chain[c]) - 1
  BY <1>1, QuotientBound DEF SectorCount
<1>3. k % SectorsPerCluster \in 0 .. SectorsPerCluster - 1
  BY <1>1, DivMod
<1>4. k \in 0 .. SectorCount(c) - 1
  BY SectorCountType
<1> QED
  BY <1>1, <1>2, <1>3, <1>4 DEF Sectors

LEMMA PositionInFile ==
  ASSUME NEW c \in DOMAIN Chain, NEW p \in Nat, p < Capacity(c)
  PROVE  p \div SECTOR_SIZE \in Nat /\ p \div SECTOR_SIZE < SectorCount(c)
PROOF
<1>1. p \div SECTOR_SIZE \in 0 .. SectorCount(c) - 1
  BY SectorCountType, SectorPositive, QuotientBound DEF Capacity
<1> QED
  BY <1>1, SectorCountType

(* The sector after another one: in the same cluster, first in the next,   *)
(* or past the end.                                                        *)
LEMMA SectorAfter ==
  ASSUME NEW c \in DOMAIN Chain, NEW k \in Nat, k < SectorCount(c)
  PROVE  LET j == k \div SectorsPerCluster
             r == k % SectorsPerCluster
         IN  /\ r + 1 < SectorsPerCluster =>
                  /\ k + 1 < SectorCount(c)
                  /\ (k + 1) \div SectorsPerCluster = j /\ (k + 1) % SectorsPerCluster = r + 1
             /\ r + 1 >= SectorsPerCluster /\ j + 1 < Len(Chain[c]) =>
                  /\ k + 1 < SectorCount(c)
                  /\ (k + 1) \div SectorsPerCluster = j + 1 /\ (k + 1) % SectorsPerCluster = 0
             /\ r + 1 >= SectorsPerCluster /\ j + 1 = Len(Chain[c]) => k + 1 = SectorCount(c)
PROOF
<1> DEFINE j == k \div SectorsPerCluster
           r == k % SectorsPerCluster
           n == Len(Chain[c])
           d == SectorsPerCluster
<1>1. n \in Nat \ {0} /\ d \in Nat \ {0}
  BY ChainFacts, Geometry
<1>2. j \in Nat /\ j + 1 \in 1 .. n /\ r \in 0 .. d - 1 /\ k = d * j + r
  BY <1>1, SectorInChain, DivMod
<1>3. SectorCount(c) = n * d
  BY DEF SectorCount
<1>4. IF r = d - 1 THEN (k + 1) \div d = j + 1 /\ (k + 1) % d = 0
      ELSE (k + 1) \div d = j /\ (k + 1) % d = r + 1
  BY <1>1, NextDivMod
<1> HIDE DEF j, r, n
<1>5. ASSUME r + 1 < d PROVE k + 1 < n * d
  <2>1. (j + 1) * d <= n * d /\ (j + 1) * d \in Nat /\ n * d \in Nat
    BY <1>1, <1>2, TimesMonotone
  <2>2. (j + 1) * d = d * j + d /\ d * j \in Nat
    BY <1>1, <1>2
  <2> QED
    BY <1>1, <1>2, <1>5, <2>1, <2>2
<1>6. ASSUME r = d - 1, j + 1 < n PROVE k + 1 < n * d
  <2>1. (j + 2) * d <= n * d /\ (j + 2) * d \in Nat /\ n * d \in Nat
    <3>1. j + 2 \in Nat /\ j + 2 <= n
      BY <1>1, <1>2, <1>6
    <3> QED
      BY <1>1, <3>1, TimesMonotone
  <2>2. (j + 2) * d = d * j + d + d /\ d * j \in Nat
    BY <1>1, <1>2
  <2> QED
    BY <1>1, <1>2, <1>6, <2>1, <2>2
<1>7. ASSUME r = d - 1, j + 1 = n PROVE k + 1 = n * d
  <2>1. n * d = d * j + d
    BY <1>1, <1>2, <1>7
  <2> QED
    BY <1>1, <1>2, <1>7, <2>1
<1>8. r + 1 >= d <=> r = d - 1
  BY <1>1, <1>2
<1> QED
  BY <1>1, <1>2, <1>3, <1>4, <1>5, <1>6, <1>7, <1>8 DEF j, r, n

(* A copy stays in the sector or ends at the start of the next one.        *)
LEMMA MovedPosition ==
  ASSUME NEW fd \in AnyFile, NEW n \in Nat
  PROVE  LET k == fd.position \div SECTOR_SIZE
             p == fd.position + Take(fd, n)
         IN  /\ p \in Nat /\ k \in Nat /\ Take(fd, n) \in 0 .. n
             /\ Take(fd, n) < InBuffer(fd) => p \div SECTOR_SIZE = k
             /\ ~(Take(fd, n) < InBuffer(fd)) =>
                  /\ p = (k + 1) * SECTOR_SIZE
                  /\ p \div SECTOR_SIZE = k + 1 /\ p % SECTOR_SIZE = 0
PROOF
<1> DEFINE k == fd.position \div SECTOR_SIZE
           r == fd.position % SECTOR_SIZE
           t == Take(fd, n)
<1>1. fd.position \in Nat
  BY DEF AnyFile
<1>2. k \in Nat /\ r \in 0 .. SECTOR_SIZE - 1 /\ fd.position = SECTOR_SIZE * k + r
  BY <1>1, SectorPositive, DivMod
<1>3. InBuffer(fd) = SECTOR_SIZE - r /\ t \in 0 .. n
  BY TakeType DEF InBuffer
<1>4. ~(t < InBuffer(fd)) => t = InBuffer(fd)
  <2>1. InBuffer(fd) \in 1 .. SECTOR_SIZE
    BY TakeType
  <2> QED
    BY <2>1, SectorPositive DEF Take
<1> HIDE DEF k, r, t
<1>5. ASSUME t < InBuffer(fd) PROVE (fd.position + t) \div SECTOR_SIZE = k
  <2>1. r + t \in 0 .. SECTOR_SIZE - 1
    BY <1>2, <1>3, <1>5, SectorPositive
  <2>2. fd.position + t = k * SECTOR_SIZE + (r + t)
    <3>1. SECTOR_SIZE * k = k * SECTOR_SIZE /\ k * SECTOR_SIZE \in Nat
      BY <1>2, SectorPositive
    <3> QED
      BY <1>2, <1>3, <2>1, <3>1, SectorPositive
  <2>3. (k * SECTOR_SIZE + (r + t)) \div SECTOR_SIZE = k
    BY <1>2, <2>1, SectorPositive, DivUnique
  <2> QED
    BY <2>2, <2>3
<1>6. ASSUME t = InBuffer(fd)
      PROVE  /\ fd.position + t = (k + 1) * SECTOR_SIZE
             /\ (fd.position + t) \div SECTOR_SIZE = k + 1 /\ (fd.position + t) % SECTOR_SIZE = 0
  <2>1. fd.position + t = (k + 1) * SECTOR_SIZE + 0
    <3>1. (k + 1) * SECTOR_SIZE = SECTOR_SIZE * k + SECTOR_SIZE /\ SECTOR_SIZE * k \in Nat
      BY <1>2, SectorPositive
    <3> QED
      BY <1>2, <1>3, <1>6, <3>1, SectorPositive
  <2>2. k + 1 \in Nat /\ 0 \in 0 .. SECTOR_SIZE - 1
    BY <1>2, SectorPositive
  <2>3. ((k + 1) * SECTOR_SIZE + 0) \div SECTOR_SIZE = k + 1 /\ ((k + 1) * SECTOR_SIZE + 0) % SECTOR_SIZE = 0
    BY <2>2, SectorPositive, DivUnique
  <2>4. (k + 1) * SECTOR_SIZE + 0 = (k + 1) * SECTOR_SIZE
    BY <2>2, SectorPositive
  <2> QED
    BY <2>1, <2>3, <2>4
<1>7. fd.position + t \in Nat
  BY <1>1, <1>3
<1> QED
  BY <1>2, <1>3, <1>4, <1>5, <1>6, <1>7 DEF k, t

(***************************************************************************)
(* One iteration of read()'s loop on a handle that knows where it is.      *)
(***************************************************************************)
(* An object of the volume, with a sector of its own in the buffer.        *)
OnObject(fd) ==
  /\ fd.first \in DOMAIN Chain /\ fd.buffer \in Sectors(fd.first)
  /\ fd.position < Capacity(fd.first) /\ Tracked(fd)

(* The next sector is loaded, or the drive could not read it.              *)
Loaded(fd, it) ==
  LET lba == SectorLba(fd.first, it.fd.position \div SECTOR_SIZE)
  IN  /\ it.lba = lba /\ it.ok \in ReadOutcomes(lba) /\ it.stop = ~it.ok
      /\ it.fd.buffer = IF it.ok THEN lba ELSE fd.buffer

Goes(fd, n, it) ==
  /\ it.fd.opened = fd.opened /\ it.fd.isDir = fd.isDir /\ it.fd.first = fd.first
  /\ it.fd.position = fd.position + Take(fd, n)
  /\ Whole(it.look.cache, it.look.pos)
  /\ \/ /\ Take(fd, n) < InBuffer(fd) /\ OnObject(it.fd)
        /\ it.fd.size = fd.size /\ it.fd.buffer = fd.buffer /\ ~it.stop
     \/ /\ ~(Take(fd, n) < InBuffer(fd)) /\ OnObject(it.fd)
        /\ it.fd.size = fd.size /\ Loaded(fd, it)
     \/ /\ it.fd.position = Capacity(fd.first) /\ it.fd.size = it.fd.position
        /\ it.fd.buffer = fd.buffer /\ it.stop

LEMMA IterationGoes ==
  ASSUME SoundVolume, NoFillFails, CacheOK, Whole(cache, cachePos), sectorFaults \in Nat,
         NEW fd \in AnyFile, OnObject(fd), NEW n \in Nat, NEW it \in Iterations(fd, n)
  PROVE  Goes(fd, n, it)
PROOF
<1> DEFINE c == fd.first
           t == Take(fd, n)
           k == fd.position \div SECTOR_SIZE
           j == k \div SectorsPerCluster
           r == k % SectorsPerCluster
           moved == [fd EXCEPT !.position = @ + Take(fd, n)]
           lba(f) == ClusterToLba(f.cluster) + f.sector
           ended(s) == s.fd.cluster >= EndOfChain
<1>1. c \in DOMAIN Chain /\ fd.buffer \in Sectors(c) /\ fd.position < Capacity(c)
      /\ fd.position \in Nat /\ fd.cluster = Chain[c][j + 1] /\ fd.sector = r
  BY DEF OnObject, Tracked, AnyFile
<1>2. k \in Nat /\ k < SectorCount(c)
  BY <1>1, PositionInFile
<1>3. j \in Nat /\ j + 1 \in 1 .. Len(Chain[c]) /\ r \in 0 .. SectorsPerCluster - 1
  BY <1>1, <1>2, SectorInChain
<1>4. t \in Nat /\ fd.position + t \in Nat
  BY <1>1, MovedPosition
<1>5. /\ moved \in AnyFile /\ moved.opened = fd.opened /\ moved.isDir = fd.isDir
      /\ moved.size = fd.size /\ moved.position = fd.position + t /\ moved.first = fd.first
      /\ moved.cluster = fd.cluster /\ moved.sector = fd.sector /\ moved.buffer = fd.buffer
  BY <1>4 DEF AnyFile
<1>6. fd.cluster \in Nat /\ fd.buffer \in Nat \cup {NoSector}
  BY DEF AnyFile
<1> HIDE DEF moved
<1>7. CASE t < InBuffer(fd)
  <2>1. PICK l \in NoLookup(fd.cluster) :
          it = [fd |-> moved, look |-> l, lba |-> 0, ok |-> TRUE, stop |-> FALSE]
    BY <1>7 DEF Iterations, moved
  <2>2. l = [next |-> fd.cluster, pos |-> cachePos, cache |-> cache, faults |-> fatFaults]
    BY DEF NoLookup
  <2>3. (fd.position + t) \div SECTOR_SIZE = k
    BY <1>7, MovedPosition
  <2>4. fd.position + t < Capacity(c)
    <3>1. (k + 1) * SECTOR_SIZE <= Capacity(c) /\ (k + 1) * SECTOR_SIZE \in Nat
      <4>1. k + 1 \in Nat /\ k + 1 <= SectorCount(c) /\ SectorCount(c) \in Nat
        BY <1>1, <1>2, SectorCountType
      <4> HIDE DEF k
      <4> QED
        BY <4>1, TimesMonotone, SectorPositive DEF Capacity
    <3>2. fd.position + t < (k + 1) * SECTOR_SIZE
      <4>1. fd.position + t = SECTOR_SIZE * k + ((fd.position + t) % SECTOR_SIZE)
            /\ (fd.position + t) % SECTOR_SIZE \in 0 .. SECTOR_SIZE - 1
        BY <1>4, <2>3, DivMod, SectorPositive
      <4>2. (k + 1) * SECTOR_SIZE = SECTOR_SIZE * k + SECTOR_SIZE /\ SECTOR_SIZE * k \in Nat
        BY <1>2, SectorPositive
      <4> QED
        BY <4>1, <4>2, SectorPositive
    <3>3. Capacity(c) \in Nat
      BY <1>1, SectorCountType
    <3> QED
      BY <1>4, <3>1, <3>2, <3>3
  <2>5. OnObject(it.fd)
    BY <1>1, <1>5, <2>1, <2>3, <2>4 DEF OnObject, Tracked
  <2> QED
    BY <1>5, <1>7, <2>1, <2>2, <2>5 DEF Goes
<1>8. CASE ~(t < InBuffer(fd))
  <2>1. \/ \E s \in NextSectors(moved) :
             /\ ended(s)
             /\ it = [fd |-> [s.fd EXCEPT !.size = moved.position], look |-> s.look,
                      lba |-> 0, ok |-> TRUE, stop |-> TRUE]
        \/ \E s \in NextSectors(moved) : ~ended(s) /\ \E ok \in ReadOutcomes(lba(s.fd)) :
             it = [fd |-> [s.fd EXCEPT !.buffer = IF ok THEN lba(s.fd) ELSE @],
                   look |-> s.look, lba |-> lba(s.fd), ok |-> ok, stop |-> ~ok]
    BY <1>8 DEF Iterations, moved
  <2>2. PICK s \in NextSectors(moved) :
          \/ /\ ended(s)
             /\ it = [fd |-> [s.fd EXCEPT !.size = moved.position], look |-> s.look,
                      lba |-> 0, ok |-> TRUE, stop |-> TRUE]
          \/ ~ended(s) /\ \E ok \in ReadOutcomes(lba(s.fd)) :
             it = [fd |-> [s.fd EXCEPT !.buffer = IF ok THEN lba(s.fd) ELSE @],
                   look |-> s.look, lba |-> lba(s.fd), ok |-> ok, stop |-> ~ok]
    BY <2>1
  <2> DEFINE last == fd.sector + 1 >= SectorsPerCluster
             p == fd.position + t
  <2>3. PICK l \in IF last THEN NextCluster(fd.cluster) ELSE NoLookup(fd.cluster) :
          s = [look |-> l, fd |-> [moved EXCEPT !.cluster = l.next,
                                                !.sector = IF last THEN 0 ELSE fd.sector + 1]]
    BY <1>5 DEF NextSectors
  <2>4. p = (k + 1) * SECTOR_SIZE /\ p \div SECTOR_SIZE = k + 1
    BY <1>8, MovedPosition
  <2>5. l.next \in Nat
    BY <1>6, <2>3, LookupType, NoLookupType DEF LookOK
  <2>6. (IF last THEN 0 ELSE fd.sector + 1) \in 0 .. SectorsPerCluster - 1
    BY <1>1, <1>3, Geometry
  <2>7. /\ s.look = l /\ s.fd \in AnyFile
        /\ s.fd.opened = fd.opened /\ s.fd.isDir = fd.isDir /\ s.fd.size = fd.size
        /\ s.fd.position = p /\ s.fd.first = c /\ s.fd.cluster = l.next
        /\ s.fd.sector = (IF last THEN 0 ELSE fd.sector + 1) /\ s.fd.buffer = fd.buffer
    BY <1>5, <2>3, <2>5, <2>6 DEF AnyFile
  <2>8. Whole(l.cache, l.pos)
    <3>1. CASE last
      BY <1>1, <1>3, <2>3, <3>1, LookupOnChain
    <3>2. CASE ~last
      BY <2>3, <3>2 DEF NoLookup
    <3> QED
      BY <3>1, <3>2
  <2>9. \/ /\ ended(s) /\ k + 1 = SectorCount(c)
        \/ /\ ~ended(s) /\ k + 1 < SectorCount(c)
           /\ s.fd.cluster = Chain[c][((k + 1) \div SectorsPerCluster) + 1]
           /\ s.fd.sector = (k + 1) % SectorsPerCluster
    <3>1. CASE last /\ j + 1 = Len(Chain[c])
      <4>1. l.next >= EndOfChain
        BY <1>1, <1>3, <2>3, <3>1, LookupOnChain
      <4>2. k + 1 = SectorCount(c)
        BY <1>1, <1>2, <3>1, SectorAfter
      <4> QED
        BY <2>7, <4>1, <4>2
    <3>2. CASE last /\ j + 1 # Len(Chain[c])
      <4>1. l.next = Chain[c][(j + 1) + 1] /\ ~(l.next >= EndOfChain)
        BY <1>1, <1>3, <2>3, <3>2, LookupOnChain
      <4>2. j + 1 < Len(Chain[c])
        BY <1>1, <1>3, <3>2, ChainFacts
      <4>3. /\ k + 1 < SectorCount(c)
            /\ (k + 1) \div SectorsPerCluster = j + 1 /\ (k + 1) % SectorsPerCluster = 0
        BY <1>1, <1>2, <3>2, <4>2, SectorAfter
      <4> QED
        BY <2>7, <3>2, <4>1, <4>3
    <3>3. CASE ~last
      <4>1. l.next = fd.cluster
        BY <2>3, <3>3 DEF NoLookup
      <4>2. r + 1 < SectorsPerCluster
        BY <1>1, <1>3, <3>3, Geometry
      <4>3. /\ k + 1 < SectorCount(c)
            /\ (k + 1) \div SectorsPerCluster = j /\ (k + 1) % SectorsPerCluster = r + 1
        BY <1>1, <1>2, <4>2, SectorAfter
      <4>4. ~(fd.cluster >= EndOfChain)
        <5>1. fd.cluster \in DataCluster
          BY <1>1, <1>3, ChainFacts
        <5> QED
          BY <5>1, WidenedLink
      <4> QED
        BY <1>1, <2>7, <3>3, <4>1, <4>3, <4>4
    <3> QED
      BY <3>1, <3>2, <3>3
  <2>10. CASE ended(s) /\ it = [fd |-> [s.fd EXCEPT !.size = moved.position], look |-> s.look,
                                lba |-> 0, ok |-> TRUE, stop |-> TRUE]
    <3>1. p = Capacity(c)
      BY <2>4, <2>9, <2>10 DEF Capacity
    <3>2. /\ it.fd.opened = fd.opened /\ it.fd.isDir = fd.isDir /\ it.fd.size = p
          /\ it.fd.position = p /\ it.fd.first = c /\ it.fd.buffer = fd.buffer
      BY <1>5, <2>7, <2>10 DEF AnyFile
    <3>3. it.look = l /\ it.stop = TRUE
      BY <2>7, <2>10
    <3> QED
      BY <2>8, <3>1, <3>2, <3>3 DEF Goes
  <2>11. ASSUME ~ended(s), NEW ok \in ReadOutcomes(lba(s.fd)),
                it = [fd |-> [s.fd EXCEPT !.buffer = IF ok THEN lba(s.fd) ELSE @],
                      look |-> s.look, lba |-> lba(s.fd), ok |-> ok, stop |-> ~ok]
         PROVE  Goes(fd, n, it)
    <3>1. /\ k + 1 < SectorCount(c) /\ k + 1 \in Nat
          /\ s.fd.cluster = Chain[c][((k + 1) \div SectorsPerCluster) + 1]
          /\ s.fd.sector = (k + 1) % SectorsPerCluster
      BY <1>2, <2>9, <2>11
    <3>2. lba(s.fd) = SectorLba(c, k + 1)
      BY <3>1 DEF SectorLba
    <3>3. SectorLba(c, k + 1) \in Sectors(c)
      BY <1>1, <3>1, SectorInChain
    <3>4. p < Capacity(c)
      <4>1. ((k + 1) + 1) * SECTOR_SIZE <= Capacity(c) /\ ((k + 1) + 1) * SECTOR_SIZE \in Nat
        <5>1. (k + 1) + 1 \in Nat /\ (k + 1) + 1 <= SectorCount(c) /\ SectorCount(c) \in Nat
          BY <1>1, <3>1, SectorCountType
        <5> HIDE DEF k
        <5> QED
          BY <5>1, TimesMonotone, SectorPositive DEF Capacity
      <4>2. ((k + 1) + 1) * SECTOR_SIZE = (k + 1) * SECTOR_SIZE + SECTOR_SIZE
        BY <3>1, SectorPositive
      <4>3. Capacity(c) \in Nat
        BY <1>1, SectorCountType
      <4> HIDE DEF k
      <4> QED
        BY <1>4, <2>4, <4>1, <4>2, <4>3, SectorPositive
    <3> DEFINE a == lba(s.fd)
    <3>5. a = SectorLba(c, k + 1)
      BY <3>2
    <3> HIDE DEF a, lba
    <3>6. it = [fd |-> [s.fd EXCEPT !.buffer = IF ok THEN a ELSE s.fd.buffer],
                look |-> s.look, lba |-> a, ok |-> ok, stop |-> ~ok]
      BY <2>11 DEF a
    <3>7. ok \in ReadOutcomes(a)
      BY DEF a
    <3>8. /\ it.fd.opened = fd.opened /\ it.fd.isDir = fd.isDir /\ it.fd.size = fd.size
          /\ it.fd.position = p /\ it.fd.first = c /\ it.fd.cluster = s.fd.cluster
          /\ it.fd.sector = s.fd.sector /\ it.fd.buffer = (IF ok THEN a ELSE fd.buffer)
      BY <2>7, <3>6 DEF AnyFile
    <3>9. it.look = l /\ it.lba = a /\ it.ok = ok /\ it.stop = ~ok
      BY <2>7, <3>6
    <3>10. it.fd.buffer \in Sectors(c)
      BY <1>1, <3>3, <3>5, <3>8
    <3>11. Tracked(it.fd)
      BY <2>4, <3>1, <3>8 DEF Tracked
    <3>12. OnObject(it.fd)
      BY <1>1, <3>4, <3>8, <3>10, <3>11 DEF OnObject
    <3>13. Loaded(fd, it)
      BY <2>4, <3>5, <3>7, <3>8, <3>9 DEF Loaded
    <3> QED
      BY <1>8, <2>8, <3>8, <3>9, <3>12, <3>13 DEF Goes
  <2> QED
    BY <2>2, <2>10, <2>11
<1> QED
  BY <1>7, <1>8

(***************************************************************************)
(* Where the sectors of the volume lie, and what a directory sector says.  *)
(***************************************************************************)
LEMMA LbaOnVolume ==
  ASSUME SoundVolume, NEW c \in DOMAIN Chain, NEW k \in Nat, k < SectorCount(c)
  PROVE  LET x == Chain[c][k \div SectorsPerCluster + 1]
         IN  /\ SectorLba(c, k) = DataLba + ((x - 2) * SectorsPerCluster + (k % SectorsPerCluster))
             /\ SectorLba(c, k) \in Nat /\ SectorLba(c, k) \in 0 .. TotalSectors - 1
             /\ DataLba <= SectorLba(c, k) /\ x - 2 \in Nat
PROOF
<1> DEFINE i == k \div SectorsPerCluster + 1
           r == k % SectorsPerCluster
           x == Chain[c][i]
           y == x - 2
<1>1. i \in 1 .. Len(Chain[c]) /\ r \in 0 .. SectorsPerCluster - 1
  BY SectorInChain
<1>2. x \in DataCluster /\ x \in Clusters
  BY <1>1, ChainFacts
<1>3. x \in Nat /\ y \in Nat /\ x - 1 = y + 1
  <2>1. \A z \in DataCluster : z \in Nat /\ z - 2 \in Nat /\ z - 1 = (z - 2) + 1
    BY DEF DataCluster
  <2> HIDE DEF x
  <2> QED
    BY <1>2, <2>1
<1>4. DataLba + (x - 1) * SectorsPerCluster <= TotalSectors /\ TotalSectors <= WORD
  BY <1>2 DEF SoundVolume, OnVolume
<1>5. SectorLba(c, k) = ClusterToLba(x) + r
  BY DEF SectorLba
<1> HIDE DEF r, i
<1>6. (y + 1) * SectorsPerCluster = y * SectorsPerCluster + SectorsPerCluster
      /\ y * SectorsPerCluster \in Nat
  <2> HIDE DEF y
  <2> QED
    BY <1>3, Geometry, TimesMonotone
<1>7. DataLba + y * SectorsPerCluster + SectorsPerCluster <= TotalSectors
  <2>1. (x - 1) * SectorsPerCluster = (y + 1) * SectorsPerCluster
    BY <1>3, Zenon
  <2> HIDE DEF y
  <2> QED
    BY <1>4, <1>6, <2>1, Geometry
<1>8. ClusterToLba(x) = DataLba + y * SectorsPerCluster
  <2>1. DataLba + y * SectorsPerCluster \in Nat /\ DataLba + y * SectorsPerCluster < WORD
    <3> HIDE DEF y
    <3> QED
      BY <1>4, <1>6, <1>7, Geometry
  <2>2. \A z \in Nat : z < WORD => z % WORD = z
    BY Geometry
  <2>3. (DataLba + y * SectorsPerCluster) % WORD = DataLba + y * SectorsPerCluster
    BY <2>1, <2>2
  <2> QED
    BY <2>3 DEF ClusterToLba
<1>9. SectorLba(c, k) = DataLba + (y * SectorsPerCluster + r)
  <2>1. ClusterToLba(x) + r = DataLba + (y * SectorsPerCluster + r)
    <3> HIDE DEF x, y
    <3> QED
      BY <1>1, <1>6, <1>8, Geometry
  <2> QED
    BY <1>5, <2>1
<1>10. /\ SectorLba(c, k) \in Nat /\ SectorLba(c, k) < TotalSectors
       /\ DataLba <= SectorLba(c, k)
  <2> HIDE DEF x, y
  <2> QED
    BY <1>1, <1>6, <1>7, <1>9, Geometry
<1>11. SectorLba(c, k) \in 0 .. TotalSectors - 1
  BY <1>10, Geometry
<1> QED
  BY <1>3, <1>9, <1>10, <1>11 DEF r, i

(* No sector belongs to two objects, or twice to one.                      *)
LEMMA SectorsApart ==
  ASSUME SoundVolume, NEW c \in DOMAIN Chain, NEW k \in Nat, k < SectorCount(c),
         NEW d \in DOMAIN Chain, NEW m \in Nat, m < SectorCount(d),
         SectorLba(c, k) = SectorLba(d, m)
  PROVE  c = d /\ k = m
PROOF
<1> DEFINE n == SectorsPerCluster
           x == Chain[c][k \div n + 1] - 2
           y == Chain[d][m \div n + 1] - 2
<1>1. k \div n + 1 \in 1 .. Len(Chain[c]) /\ k % n \in 0 .. n - 1 /\ k \div n \in Nat
  BY SectorInChain
<1>2. m \div n + 1 \in 1 .. Len(Chain[d]) /\ m % n \in 0 .. n - 1 /\ m \div n \in Nat
  BY SectorInChain
<1>3. SectorLba(c, k) = DataLba + (x * n + (k % n)) /\ x \in Nat
  BY LbaOnVolume
<1>4. SectorLba(d, m) = DataLba + (y * n + (m % n)) /\ y \in Nat
  BY LbaOnVolume
<1>5. n \in Nat \ {0} /\ DataLba \in Nat
  BY Geometry
<1>6. Chain[c][k \div n + 1] \in Nat /\ Chain[d][m \div n + 1] \in Nat
  BY <1>1, <1>2, ChainFacts
<1>7. x * n + (k % n) = y * n + (m % n)
  <2>1. x * n \in Nat /\ y * n \in Nat /\ k % n \in Nat /\ m % n \in Nat
    <3>1. \A z \in 0 .. n - 1 : z \in Nat
      BY <1>5
    <3> HIDE DEF x, y, n
    <3> QED
      BY <1>1, <1>2, <1>3, <1>4, <1>5, <3>1, TimesMonotone
  <2>2. \A a, b \in Nat : DataLba + a = DataLba + b => a = b
    BY <1>5
  <2>3. x * n + (k % n) \in Nat /\ y * n + (m % n) \in Nat
    BY <2>1
  <2> HIDE DEF x, y, n
  <2> QED
    BY <1>3, <1>4, <2>2, <2>3
<1>8. x = y /\ k % n = m % n
  <2> HIDE DEF x, y, n
  <2>1. (x * n + (k % n)) \div n = x /\ (x * n + (k % n)) % n = k % n
    BY <1>1, <1>3, <1>5, DivUnique
  <2>2. (y * n + (m % n)) \div n = y /\ (y * n + (m % n)) % n = m % n
    BY <1>2, <1>4, <1>5, DivUnique
  <2> QED
    BY <1>7, <2>1, <2>2
<1>9. Chain[c][k \div n + 1] = Chain[d][m \div n + 1]
  BY <1>6, <1>8
<1>10. c = d /\ k \div n + 1 = m \div n + 1
  <2>1. k \div n + 1 \in DOMAIN Chain[c] /\ m \div n + 1 \in DOMAIN Chain[d]
    BY <1>1, <1>2, ChainFacts
  <2> HIDE DEF n
  <2> QED
    BY <1>9, <2>1 DEF SoundVolume, ChainsApart
<1>11. k = n * (k \div n) + (k % n) /\ m = n * (m \div n) + (m % n)
  BY <1>5, DivMod
<1>12. k \div n = m \div n
  BY <1>1, <1>2, <1>10
<1> QED
  BY <1>8, <1>10, <1>11, <1>12

(* Slot n of sector k of a directory.                                      *)
LEMMA DirectorySlot ==
  ASSUME SoundVolume, NEW c \in DOMAIN Dirs, NEW k \in Nat, k < SectorCount(c),
         NEW n \in 0 .. EntriesPerSector - 1
  PROVE  DirSlot[SectorLba(c, k)][n] = EntryAt(Dirs[c], k * EntriesPerSector + n + 1)
PROOF
<1> DEFINE lba == SectorLba(c, k)
           o == CHOOSE p \in Owner(lba) : TRUE
<1>1. c \in DOMAIN Chain
  BY DEF SoundVolume, EntriesSound
<1>2. lba \in 0 .. TotalSectors - 1 /\ lba \in Nat /\ DataLba <= lba
  BY <1>1, LbaOnVolume
<1>3. RootLba <= lba /\ ~(lba < RootLba) /\ ~(lba < DataLba)
  BY <1>2, Geometry DEF DataLba
<1>4. k \in 0 .. TotalSectors
  <2>1. SectorCount(c) \in Nat /\ SectorCount(c) <= TotalSectors
    BY <1>1, SectorCountType DEF SoundVolume, OnVolume
  <2> QED
    BY <2>1, Geometry
<1>5. <<c, k>> \in Owner(lba)
  BY <1>1, <1>4 DEF Owner
<1>6. o \in Owner(lba)
  BY <1>5
<1>7. o[1] \in DOMAIN Chain /\ o[2] \in 0 .. TotalSectors /\ o[2] < SectorCount(o[1])
      /\ SectorLba(o[1], o[2]) = lba
  BY <1>6 DEF Owner
<1> HIDE DEF o
<1>8. o[1] = c /\ o[2] = k
  <2>1. o[2] \in Nat
    BY <1>7, Geometry
  <2> QED
    BY <1>1, <1>7, <2>1, SectorsApart
<1>9. DirSlot[lba][n] = DataEntry(o, n)
  <2> HIDE DEF lba
  <2> QED
    BY <1>2, <1>3, <1>5 DEF DirSlot, o
<1> QED
  BY <1>8, <1>9 DEF DataEntry

LEMMA RootSlot ==
  ASSUME RootLba \in 0 .. TotalSectors - 1, NEW n \in 0 .. EntriesPerSector - 1
  PROVE  DirSlot[RootLba][n] = EntryAt(RootDir, n + 1)
PROOF
<1>1. RootSectors >= 1
  <2>1. RootSize \in Nat /\ RootSize >= 1
    <3>1. ENTRY_SIZE * 1 <= ENTRY_SIZE * RootEntryCount
      BY GeometryAssumption
    <3> QED
      BY <3>1, Geometry, GeometryAssumption DEF RootSize
  <2>2. RootSize + SECTOR_SIZE - 1 = SECTOR_SIZE * 1 + (RootSize - 1)
    BY <2>1, SectorPositive
  <2> DEFINE x == RootSize + SECTOR_SIZE - 1
  <2>3. x \in Nat /\ x >= SECTOR_SIZE
    BY <2>1, SectorPositive
  <2>4. x \div SECTOR_SIZE \in Nat /\ x = SECTOR_SIZE * (x \div SECTOR_SIZE) + (x % SECTOR_SIZE)
        /\ x % SECTOR_SIZE \in 0 .. SECTOR_SIZE - 1
    BY <2>3, DivMod, SectorPositive
  <2>5. x \div SECTOR_SIZE # 0
    <3> HIDE DEF x
    <3> QED
      BY <2>3, <2>4, SectorPositive
  <2> QED
    BY <2>4, <2>5 DEF RootSectors
<1>2. RootLba < DataLba /\ ~(RootLba < RootLba)
  BY <1>1, Geometry DEF DataLba
<1>3. (RootLba - RootLba) * EntriesPerSector + n + 1 = n + 1
  <2>1. RootLba - RootLba = 0 /\ 0 * EntriesPerSector = 0 /\ n \in Nat
    BY Geometry
  <2>2. 0 + n = n
    BY <2>1
  <2> QED
    BY <2>1, <2>2
<1>4. DirSlot[RootLba][n] = EntryAt(RootDir, (RootLba - RootLba) * EntriesPerSector + n + 1)
  BY <1>2 DEF DirSlot
<1> QED
  BY <1>3, <1>4

(* The entry found under a name is the one the directory has for it.       *)
LEMMA EntryNamed ==
  ASSUME NEW entries \in Seq(EntryType),
         \A j, k \in DOMAIN entries : entries[j].name = entries[k].name => j = k,
         NEW n, NEW name \in Names, EntryAt(entries, n).name = name
  PROVE  Named(entries, name) = EntryAt(entries, n) /\ EntryAt(entries, n) \in Listed(entries)
PROOF
<1>1. n \in DOMAIN entries
  <2>1. EndEntry.name = "END" /\ "END" \notin Names
    BY EntryAssumption DEF EndEntry
  <2> QED
    BY <2>1 DEF EntryAt
<1>2. EntryAt(entries, n) = entries[n] /\ entries[n].name = name
  BY <1>1 DEF EntryAt
<1> DEFINE hits == {k \in DOMAIN entries : entries[k].name = name}
<1>3. hits = {n}
  BY <1>1, <1>2
<1>4. n <= n
  BY <1>1, <1>2
<1>5. (CHOOSE k \in hits : \A j \in hits : k <= j) = n
  <2> HIDE DEF hits
  <2> QED
    BY <1>3, <1>4
<1> QED
  BY <1>1, <1>2, <1>3, <1>5 DEF Named, Listed

(***************************************************************************)
(* The way of a path.                                                      *)
(***************************************************************************)
LEMMA Least ==
  ASSUME NEW S, S \subseteq Nat, S # {}
  PROVE  \E p \in S : \A q \in S : p <= q
PROOF
<1> DEFINE R == OpToRel(<, Nat)
<1>1. IsWellFoundedOn(R, Nat)
  BY NatLessThanWellFounded
<1>2. \A p, q \in Nat : q < p => <<q, p>> \in R
  BY DEF OpToRel
<1> HIDE DEF R
<1>3. PICK p \in S : \A q \in S : <<q, p>> \notin R
  BY <1>1, WFMin
<1>4. ASSUME NEW q \in S PROVE p <= q
  <2>1. p \in Nat /\ q \in Nat
    OBVIOUS
  <2>2. ~(q < p)
    BY <1>2, <1>3, <2>1, Zenon
  <2> QED
    BY <2>1, <2>2
<1> QED
  BY <1>4

TopEntry == [EndEntry EXCEPT !.dir = TRUE]

(* The entry after f[k - 1].                                               *)
WayStep(f, path, k) ==
  IF k = 0 THEN TopEntry
  ELSE IF f[k - 1].dir THEN Named(EntriesIn(f[k - 1].cluster), path[k])
  ELSE EndEntry

(* The way exists: it is built name by name.                               *)
LEMMA WayExists ==
  ASSUME NEW path, NEW n \in Nat
  PROVE  \E f : f = [k \in 0 .. n |-> WayStep(f, path, k)]
PROOF
<1> DEFINE Built(m) == \E f : f = [k \in 0 .. m |-> WayStep(f, path, k)]
           S == {m \in Nat : ~Built(m)}
<1>1. SUFFICES ASSUME S # {} PROVE FALSE
  BY Zenon
<1>2. PICK m \in S : \A q \in S : m <= q
  <2>1. S \subseteq Nat
    OBVIOUS
  <2> HIDE DEF S
  <2> QED
    BY <1>1, <2>1, Least, Zenon
<1>3. m \in Nat /\ ~Built(m)
  OBVIOUS
<1>4. m # 0
  <2>1. Built(0)
    <3> DEFINE f == [k \in 0 .. 0 |-> TopEntry]
    <3>1. \A k \in 0 .. 0 : WayStep(f, path, k) = TopEntry
      BY DEF WayStep
    <3>2. f = [k \in 0 .. 0 |-> WayStep(f, path, k)]
      BY <3>1
    <3> HIDE DEF f
    <3> QED
      BY <3>2
  <2> HIDE DEF Built
  <2> QED
    BY <1>3, <2>1
<1>5. m - 1 \in Nat /\ Built(m - 1)
  <2>1. m - 1 \in Nat /\ ~(m <= m - 1)
    BY <1>3, <1>4
  <2>2. m - 1 \notin S
    BY <1>2, <2>1
  <2> HIDE DEF Built
  <2> QED
    BY <2>1, <2>2
<1>6. PICK f : f = [k \in 0 .. m - 1 |-> WayStep(f, path, k)]
  BY <1>5
<1> DEFINE g == [k \in 0 .. m |-> IF k = m THEN WayStep(f, path, m) ELSE f[k]]
<1>7. \A k \in 0 .. m - 1 : g[k] = f[k] /\ f[k] = WayStep(f, path, k)
  <2>1. \A k \in 0 .. m - 1 : k \in 0 .. m /\ k # m
    BY <1>3
  <2>2. \A k \in 0 .. m - 1 : f[k] = WayStep(f, path, k)
    BY <1>6
  <2> QED
    BY <2>1, <2>2
<1>8. ASSUME NEW k \in 0 .. m PROVE g[k] = WayStep(g, path, k)
  <2>1. k # 0 => k - 1 \in 0 .. m - 1
    BY <1>3
  <2>2. k # 0 => g[k - 1] = f[k - 1]
    BY <1>7, <2>1
  <2>3. WayStep(g, path, k) = WayStep(f, path, k)
    <3> HIDE DEF g
    <3> QED
      BY <2>2 DEF WayStep
  <2>4. g[k] = WayStep(f, path, k)
    <3>1. CASE k = m
      BY <3>1
    <3>2. CASE k # m
      <4>1. k \in 0 .. m - 1
        BY <1>3, <3>2
      <4> HIDE DEF g
      <4> QED
        BY <1>7, <4>1
    <3> QED
      BY <3>1, <3>2
  <2> HIDE DEF g
  <2> QED
    BY <2>3, <2>4
<1>9. g = [k \in 0 .. m |-> WayStep(g, path, k)]
  <2>1. g = [k \in 0 .. m |-> g[k]]
    OBVIOUS
  <2> HIDE DEF g
  <2> QED
    BY <1>8, <2>1
<1>10. Built(m)
  <2> HIDE DEF g
  <2> QED
    BY <1>9
<1> QED
  BY <1>3, <1>10, Zenon

LEMMA WayFacts ==
  ASSUME NEW path \in Seq(Names)
  PROVE  /\ Way(path)[0].dir = TRUE /\ Way(path)[0].cluster = 0
         /\ \A k \in 1 .. Len(path) :
              Way(path)[k - 1].dir =>
                Way(path)[k] = Named(EntriesIn(Way(path)[k - 1].cluster), path[k])
         /\ \A k \in 1 .. Len(path) : ~Way(path)[k - 1].dir => Way(path)[k] = EndEntry
PROOF
<1>1. Len(path) \in Nat
  OBVIOUS
<1>2. Way(path) = CHOOSE f : f = [k \in 0 .. Len(path) |-> WayStep(f, path, k)]
  BY DEF Way, WayStep, TopEntry
<1>3. \E f : f = [k \in 0 .. Len(path) |-> WayStep(f, path, k)]
  BY <1>1, WayExists, Zenon
<1> DEFINE w == Way(path)
<1>4. w = [k \in 0 .. Len(path) |-> WayStep(w, path, k)]
  BY <1>2, <1>3, Zenon
<1> HIDE DEF w
<1>5. \A k \in 0 .. Len(path) : w[k] = WayStep(w, path, k)
  BY <1>4
<1>6. w[0] = TopEntry
  <2>1. 0 \in 0 .. Len(path)
    BY <1>1
  <2> QED
    BY <1>5, <2>1 DEF WayStep
<1>7. ASSUME NEW k \in 1 .. Len(path), w[k - 1].dir
      PROVE  w[k] = Named(EntriesIn(w[k - 1].cluster), path[k])
  <2>1. k \in 0 .. Len(path) /\ k # 0
    BY <1>1
  <2> QED
    BY <1>5, <1>7, <2>1 DEF WayStep
<1>8. ASSUME NEW k \in 1 .. Len(path), ~w[k - 1].dir
      PROVE  w[k] = EndEntry
  <2>1. k \in 0 .. Len(path) /\ k # 0
    BY <1>1
  <2> QED
    BY <1>5, <1>8, <2>1 DEF WayStep
<1>9. TopEntry.dir = TRUE /\ TopEntry.cluster = 0
  BY DEF TopEntry, EndEntry
<1> QED
  BY <1>6, <1>7, <1>8, <1>9 DEF w

(***************************************************************************)
(* The invariant: what every handle is doing, between calls and within.    *)
(***************************************************************************)
Mounted == frame.op \notin {"unmounted", "failed"}

(* A file in the hands of the caller.                                      *)
IsFile(fd) ==
  /\ fd.opened /\ ~fd.isDir
  /\ fd.first \in DOMAIN Chain /\ fd.first \notin DOMAIN Dirs
  /\ fd.size = FileSize(fd.first) /\ fd.size <= Capacity(fd.first)
  /\ fd.position <= fd.size /\ fd.buffer \in Sectors(fd.first)

(* A directory that open() scans; past its last entry its size is known.   *)
IsDirectory(fd) ==
  /\ fd.opened /\ fd.isDir
  /\ fd.first \in DOMAIN Chain /\ fd.first \in DOMAIN Dirs
  /\ \/ fd.size = 0 /\ OnObject(fd)
     \/ fd.size > 0 /\ fd.size = fd.position /\ fd.buffer \in Sectors(fd.first)

Seeking(h) == frame.op = "seek" /\ frame.handle = h

CacheInv == Mounted => Whole(cache, cachePos)

RootFields(fd) ==
  /\ fd.opened /\ fd.isDir /\ fd.size = RootSize /\ fd.first = RootLba
  /\ fd.cluster = RootLba /\ fd.sector = 0 /\ fd.buffer = RootLba

(* The scan of the root directory has passed j entries, none the last.     *)
RootAt(p) ==
  IF Scanning(ROOT_DIRECTORY_HANDLE)
  THEN \E j \in 0 .. Len(RootDir) : p = j * ENTRY_SIZE
  ELSE p = 0

RootInv ==
  Mounted => /\ RootFields(fds[ROOT_DIRECTORY_HANDLE])
             /\ RootAt(fds[ROOT_DIRECTORY_HANDLE].position)

HeldInv ==
  /\ held \subseteq Handle
  /\ \A h \in held :
       /\ IsFile(fds[h])
       /\ fds[h].position < fds[h].size /\ ~Seeking(h) => Tracked(fds[h])

(* rest are the names of the path after the k-th.                          *)
After(rest, path, k) ==
  Len(rest) = Len(path) - k /\ \A i \in 1 .. Len(rest) : rest[i] = path[k + i]

WalkInv ==
  /\ frame.op = "scan" =>
       /\ frame.path \in Paths
       /\ \E k \in 0 .. Len(frame.path) - 1 :
            /\ After(frame.rest, frame.path, k)
            /\ Way(frame.path)[k].dir
            /\ k = 0 => frame.dir = ROOT_DIRECTORY_HANDLE
            /\ k # 0 => /\ frame.dir \in Handle /\ IsDirectory(fds[frame.dir])
                        /\ fds[frame.dir].first = Way(frame.path)[k].cluster
  /\ frame.op = "entry" =>
       /\ frame.path \in Paths /\ frame.entry \in AllEntries
       /\ \E k \in 1 .. Len(frame.path) :
            After(frame.rest, frame.path, k) /\ frame.entry = Way(frame.path)[k]

(* The walk along the chain has come to cluster j.                         *)
SeekInv ==
  frame.op = "seek" =>
    /\ frame.handle \in held /\ fds[frame.handle].position = frame.to
    /\ \E j \in 1 .. Len(Chain[fds[frame.handle].first]) :
         /\ frame.cluster = Chain[fds[frame.handle].first][j]
         /\ frame.to = (j - 1) * ClusterSize + frame.offset

ReadInv ==
  frame.op = "read" =>
    /\ frame.handle \in held
    /\ fds[frame.handle].position = frame.start + Len(frame.got)
    /\ fds[frame.handle].position + frame.left <= fds[frame.handle].size
    /\ Len(frame.got) + frame.left <= frame.want
    /\ \A i \in 1 .. Len(frame.got) : frame.got[i][1] \in Sectors(fds[frame.handle].first)

AnswerInv ==
  /\ frame.op = "unmounted" => reply = Waiting
  /\ OwnBytesOnly /\ SeekRepairs /\ OpensTheRightFile

SoundInv ==
  /\ CacheInv /\ RootInv /\ HeldInv /\ WalkInv /\ SeekInv /\ ReadInv /\ AnswerInv

(* What the proofs of the steps start from.                                *)
Ready == SoundVolume /\ NoFillFails /\ TypeOK /\ HandlesInv /\ SoundInv

LEMMA ReadyFacts ==
  ASSUME Ready
  PROVE  /\ CacheOK /\ sectorFaults \in Nat /\ fds \in [Files -> AnyFile]
         /\ \A h \in Files : fds[h] \in AnyFile
         /\ \A h \in held : /\ h \in Handle /\ h \in Files /\ h # ROOT_DIRECTORY_HANDLE
                            /\ IsFile(fds[h]) /\ fds[h] \in AnyFile /\ ~Scanning(h)
         /\ \A h \in Handle : ~fds[h].opened => h \notin held
         /\ ROOT_DIRECTORY_HANDLE \in Files
PROOF
<1>1. TypeOK /\ HandlesInv /\ HeldInv
  BY DEF Ready, SoundInv
<1>2. CacheOK /\ sectorFaults \in Nat /\ fds \in [Files -> AnyFile]
      /\ \A h \in Files : fds[h] \in AnyFile
  BY <1>1, TypeOKFacts DEF TypeOK
<1>3. \A h \in held : h \in Handle /\ IsFile(fds[h]) /\ ~Scanning(h)
  BY <1>1 DEF HeldInv, HandlesInv
<1>4. \A h \in Handle : ~fds[h].opened => h \notin held
  BY <1>1 DEF HandlesInv
<1> QED
  BY <1>2, <1>3, <1>4, NotRoot

LEMMA FilesFacts ==
  ASSUME NEW fd \in AnyFile
  PROVE  /\ fd.opened \in BOOLEAN /\ fd.isDir \in BOOLEAN /\ fd.size \in Nat
         /\ fd.position \in Nat /\ fd.first \in Nat /\ fd.cluster \in Nat
         /\ fd.buffer \in Nat \cup {NoSector}
PROOF
  BY DEF AnyFile

(* A step that takes files from the caller, or none, leaves the others.    *)
LEMMA HeldKept ==
  ASSUME HeldInv, held' \subseteq held,
         \A h \in held' : fds'[h] = fds[h] /\ (Seeking(h) => Seeking(h)')
  PROVE  HeldInv'
PROOF
  BY DEF HeldInv

(* A step that moves one file.                                             *)
LEMMA HeldMoved ==
  ASSUME HeldInv, held' = held, NEW g \in held,
         \A h \in held : h # g => fds'[h] = fds[h] /\ ~Seeking(h),
         IsFile(fds'[g]),
         fds'[g].position < fds'[g].size /\ ~Seeking(g)' => Tracked(fds'[g])
  PROVE  HeldInv'
PROOF
  BY DEF HeldInv

(* A step that gives out a file.                                           *)
LEMMA HeldGiven ==
  ASSUME HeldInv, NEW g \in Handle, held' = held \cup {g},
         \A h \in held : h # g /\ fds'[h] = fds[h] /\ ~Seeking(h),
         IsFile(fds'[g]), Tracked(fds'[g])
  PROVE  HeldInv'
PROOF
  BY DEF HeldInv

(* Steps that leave the root directory alone.                              *)
LEMMA RootKept ==
  ASSUME RootInv, Mounted, fds'[ROOT_DIRECTORY_HANDLE] = fds[ROOT_DIRECTORY_HANDLE],
         Scanning(ROOT_DIRECTORY_HANDLE)' <=> Scanning(ROOT_DIRECTORY_HANDLE)
  PROVE  RootInv'
PROOF
  BY DEF RootInv, RootAt

LEMMA SoundInit == Init => SoundInv
PROOF
<1> SUFFICES ASSUME Init PROVE SoundInv
  OBVIOUS
<1>1. frame.op = "unmounted" /\ held = {} /\ reply = Waiting
  BY DEF Init
<1>2. CacheInv /\ RootInv
  BY <1>1 DEF CacheInv, RootInv, Mounted
<1>3. HeldInv
  BY <1>1 DEF HeldInv
<1>4. WalkInv /\ SeekInv /\ ReadInv
  BY <1>1 DEF WalkInv, SeekInv, ReadInv
<1>5. AnswerInv
  BY <1>1 DEF AnswerInv, OwnBytesOnly, SeekRepairs, OpensTheRightFile, Between
<1> QED
  BY <1>2, <1>3, <1>4, <1>5 DEF SoundInv

LEMMA MountSound ==
  ASSUME Ready, Mount
  PROVE  SoundInv'
PROOF
<1>1. frame.op = "unmounted" /\ UNCHANGED <<cache, held, reply, fatFaults>> /\ reply = Waiting
  BY DEF Mount, Ready, SoundInv, AnswerInv
<1> DEFINE R == [opened |-> TRUE, isDir |-> TRUE, size |-> RootSize, position |-> 0,
                 first |-> RootLba, cluster |-> RootLba, sector |-> 0, buffer |-> RootLba]
<1>2. \/ frame' = [op |-> "failed"] /\ fds' = fds
      \/ /\ frame' = Idle /\ cachePos' = WORD - 1
         /\ fds' = [fds EXCEPT ![ROOT_DIRECTORY_HANDLE] = R]
  BY DEF Mount
<1>3. fds \in [Files -> AnyFile] /\ ROOT_DIRECTORY_HANDLE \in Files
  BY ReadyFacts
<1>4. frame'.op \in {"failed", "idle"}
  BY <1>2 DEF Idle
<1>5. HeldInv'
  <2>1. \A h \in Handle : fds'[h] = fds[h]
    BY <1>2, <1>3, NotRoot
  <2>2. HeldInv /\ \A h \in held : h \in Handle /\ ~Seeking(h)
    BY <1>1 DEF Ready, SoundInv, HeldInv, Seeking
  <2> QED
    BY <1>1, <2>1, <2>2, HeldKept
<1>6. WalkInv' /\ SeekInv' /\ ReadInv'
  BY <1>4 DEF WalkInv, SeekInv, ReadInv
<1>7. AnswerInv'
  BY <1>1, <1>4 DEF AnswerInv, OwnBytesOnly, SeekRepairs, OpensTheRightFile, Between, Waiting
<1>8. RootInv' /\ CacheInv'
  <2>1. CASE frame' = [op |-> "failed"]
    BY <2>1 DEF RootInv, CacheInv, Mounted
  <2>2. CASE /\ frame' = Idle /\ cachePos' = WORD - 1
             /\ fds' = [fds EXCEPT ![ROOT_DIRECTORY_HANDLE] = R]
    <3>1. fds'[ROOT_DIRECTORY_HANDLE] = R
      BY <1>3, <2>2
    <3>2. RootInv'
      BY <2>2, <3>1 DEF RootInv, RootFields, RootAt, Scanning, Idle
    <3>3. \A i \in 0 .. FAT_CACHE_SIZE - 1 : ~((WORD - 1) + i < SectorsPerFat)
      <4>1. SectorsPerFat * 1 <= SectorsPerFat * SECTOR_SIZE
        BY GeometryAssumption
      <4>2. SectorsPerFat <= 6144 /\ WORD > 8192 /\ FAT_CACHE_SIZE \in Nat
        BY <4>1, GeometryAssumption, Geometry
      <4> QED
        BY <4>2, Geometry
    <3> QED
      BY <2>2, <3>2, <3>3 DEF CacheInv, Whole
  <2> QED
    BY <1>2, <2>1, <2>2
<1> QED
  BY <1>5, <1>6, <1>7, <1>8 DEF SoundInv

(* What a call in progress says nothing of.                                *)
LEMMA NoAnswer ==
  ASSUME frame'.op \notin {"unmounted", "idle"}
  PROVE  AnswerInv'
PROOF
  BY DEF AnswerInv, OwnBytesOnly, SeekRepairs, OpensTheRightFile, Between

LEMMA OpenSound ==
  ASSUME Ready, NEW path \in Paths, Open(path)
  PROVE  SoundInv'
PROOF
<1>1. path # << >> /\ path \in Seq(Names)
  BY DriverAssumption DEF Ready, SoundVolume, OpensFiles
<1>2. /\ frame.op = "idle" /\ UNCHANGED <<fds, cachePos, cache, sectorFaults, fatFaults, held>>
      /\ frame' = [op |-> "scan", dir |-> ROOT_DIRECTORY_HANDLE, path |-> path, rest |-> path]
  BY <1>1 DEF Open, Begin
<1>3. HeldInv'
  <2>1. HeldInv /\ \A h \in held : ~Seeking(h)
    BY <1>2 DEF Ready, SoundInv, Seeking
  <2> QED
    BY <1>2, <2>1, HeldKept
<1>4. CacheInv' /\ RootInv'
  <2>1. /\ Whole(cache, cachePos) /\ RootFields(fds[ROOT_DIRECTORY_HANDLE])
        /\ fds[ROOT_DIRECTORY_HANDLE].position = 0
    BY <1>2 DEF Ready, SoundInv, CacheInv, RootInv, Mounted, RootAt, Scanning
  <2>2. 0 \in 0 .. Len(RootDir) /\ 0 = 0 * ENTRY_SIZE
    BY EntryAssumption, Geometry
  <2> QED
    BY <1>2, <2>1, <2>2 DEF CacheInv, RootInv, Mounted, RootAt
<1>5. WalkInv'
  <2>1. Len(path) \in Nat /\ Len(path) # 0
    BY <1>1
  <2>2. After(path, path, 0) /\ 0 \in 0 .. Len(path) - 1 /\ Way(path)[0].dir
    <3>1. Len(path) = Len(path) - 0 /\ 0 \in 0 .. Len(path) - 1
      BY <2>1
    <3>2. \A i \in 1 .. Len(path) : 0 + i = i
      BY <2>1
    <3>3. \A i \in 1 .. Len(path) : path[i] = path[0 + i]
      BY <3>2
    <3>4. Way(path)[0].dir
      BY <1>1, WayFacts
    <3> QED
      BY <3>1, <3>3, <3>4 DEF After
  <2>3. /\ frame'.op = "scan" /\ frame'.path = path /\ frame'.rest = path
        /\ frame'.dir = ROOT_DIRECTORY_HANDLE
    BY <1>2
  <2> QED
    BY <2>2, <2>3 DEF WalkInv
<1>6. SeekInv' /\ ReadInv'
  BY <1>2 DEF SeekInv, ReadInv
<1>7. AnswerInv'
  BY <1>2, NoAnswer
<1> QED
  BY <1>3, <1>4, <1>5, <1>6, <1>7 DEF SoundInv

LEMMA CloseSound ==
  ASSUME Ready, NEW h \in held, Close(h)
  PROVE  SoundInv'
PROOF
<1>1. /\ frame.op = "idle" /\ frame' = frame /\ UNCHANGED <<cachePos, cache>>
      /\ held' = held \ {h} /\ fds' = [fds EXCEPT ![h] = Closed(h, fds[h])]
      /\ reply'.op = "close"
  BY DEF Close
<1>2. h \in Handle /\ h \in Files /\ h # ROOT_DIRECTORY_HANDLE /\ fds \in [Files -> AnyFile]
      /\ held \subseteq Files
  BY ReadyFacts
<1>3. HeldInv'
  <2>1. HeldInv /\ \A g \in held : ~Seeking(g)
    BY <1>1 DEF Ready, SoundInv, Seeking
  <2>2. \A g \in held' : fds'[g] = fds[g]
    BY <1>1, <1>2
  <2> QED
    BY <1>1, <2>1, <2>2, HeldKept
<1>4. CacheInv' /\ RootInv'
  <2>1. fds'[ROOT_DIRECTORY_HANDLE] = fds[ROOT_DIRECTORY_HANDLE]
    BY <1>1, <1>2
  <2> QED
    BY <1>1, <2>1, RootKept DEF Ready, SoundInv, CacheInv, Mounted, Scanning
<1>5. WalkInv' /\ SeekInv' /\ ReadInv'
  BY <1>1 DEF WalkInv, SeekInv, ReadInv
<1>6. AnswerInv'
  BY <1>1 DEF AnswerInv, OwnBytesOnly, SeekRepairs, OpensTheRightFile, Between
<1> QED
  BY <1>3, <1>4, <1>5, <1>6 DEF SoundInv

LEMMA ReadableInFile ==
  ASSUME NEW fd \in AnyFile, IsFile(fd), NEW n \in Nat
  PROVE  Readable(fd, n) \in 0 .. n /\ fd.position + Readable(fd, n) <= fd.size
PROOF
<1> DEFINE left == (fd.size - fd.position) % WORD
<1>1. fd.size \in Nat /\ fd.position \in Nat /\ fd.position <= fd.size /\ fd.opened /\ ~fd.isDir
  BY FilesFacts DEF IsFile
<1>2. fd.size - fd.position \in Nat
  BY <1>1
<1>3. left \in Nat /\ left <= fd.size - fd.position
  BY <1>2, Geometry
<1>4. Readable(fd, n) = IF n < left THEN n ELSE left
  BY <1>1 DEF Readable
<1> HIDE DEF left
<1> QED
  BY <1>1, <1>3, <1>4

LEMMA ReadCallSound ==
  ASSUME Ready, NEW h \in held, NEW n \in ReadSizes, Read(h, n)
  PROVE  SoundInv'
PROOF
<1>1. /\ frame.op = "idle" /\ UNCHANGED <<fds, cachePos, cache, held>>
      /\ frame' = [op |-> "read", handle |-> h, start |-> fds[h].position, want |-> n,
                   left |-> Readable(fds[h], n), got |-> << >>]
  BY DEF Read, Begin
<1>2. h # ROOT_DIRECTORY_HANDLE /\ IsFile(fds[h]) /\ fds[h] \in AnyFile
  BY ReadyFacts
<1>3. n \in Nat
  BY DriverAssumption
<1>4. HeldInv'
  <2>1. HeldInv /\ \A g \in held : ~Seeking(g)
    BY <1>1 DEF Ready, SoundInv, Seeking
  <2> QED
    BY <1>1, <2>1, HeldKept
<1>5. CacheInv' /\ RootInv'
  BY <1>1, RootKept DEF Ready, SoundInv, CacheInv, Mounted, Scanning
<1>6. WalkInv' /\ SeekInv'
  BY <1>1 DEF WalkInv, SeekInv
<1>7. ReadInv'
  <2>1. fds[h].position \in Nat /\ fds[h].position = fds[h].position + Len(<< >>)
    BY <1>2, FilesFacts
  <2>2. Readable(fds[h], n) \in 0 .. n /\ fds[h].position + Readable(fds[h], n) <= fds[h].size
    BY <1>2, <1>3, ReadableInFile
  <2>3. Len(<< >>) + Readable(fds[h], n) <= n /\ 1 .. Len(<< >>) = {}
    BY <1>3, <2>2
  <2>4. /\ frame'.handle = h /\ frame'.start = fds[h].position /\ frame'.want = n
        /\ frame'.left = Readable(fds[h], n) /\ frame'.got = << >>
    BY <1>1
  <2> QED
    BY <1>1, <2>1, <2>2, <2>3, <2>4 DEF ReadInv
<1>8. AnswerInv'
  BY <1>1, NoAnswer
<1> QED
  BY <1>4, <1>5, <1>6, <1>7, <1>8 DEF SoundInv

LEMMA SeekCallSound ==
  ASSUME Ready, NEW h \in held, NEW p \in SeekTargets, Seek(h, p)
  PROVE  SoundInv'
PROOF
<1>1. frame.op = "idle" /\ UNCHANGED <<cachePos, cache, held>>
  BY DEF Seek
<1>2. /\ h \in Handle /\ h # ROOT_DIRECTORY_HANDLE /\ h \in Files /\ IsFile(fds[h])
      /\ fds[h] \in AnyFile /\ fds \in [Files -> AnyFile] /\ held \subseteq Files
  BY ReadyFacts
<1>3. p \in Nat
  BY DriverAssumption
<1>4. HeldInv /\ \A g \in held : ~Seeking(g)
  BY <1>1 DEF Ready, SoundInv, Seeking
<1>5. CASE Return(Sought(h, p, FALSE)) /\ UNCHANGED fds
  <2>1. frame' = Idle /\ reply' = Sought(h, p, FALSE) /\ fds' = fds /\ frame'.op = "idle"
    BY <1>5 DEF Return, Idle
  <2>2. HeldInv'
    BY <1>1, <1>4, <2>1, HeldKept
  <2>3. CacheInv' /\ RootInv'
    BY <1>1, <2>1, RootKept DEF Ready, SoundInv, CacheInv, Mounted, Scanning
  <2>4. WalkInv' /\ SeekInv' /\ ReadInv'
    BY <2>1 DEF WalkInv, SeekInv, ReadInv
  <2>5. AnswerInv'
    BY <2>1 DEF AnswerInv, OwnBytesOnly, SeekRepairs, OpensTheRightFile, Between, Sought
  <2> QED
    BY <2>2, <2>3, <2>4, <2>5 DEF SoundInv
<1>6. CASE /\ fds[h].isDir \/ p <= fds[h].size
           /\ fds' = [fds EXCEPT ![h].position = p]
           /\ Begin([op |-> "seek", handle |-> h, start |-> fds[h].position,
                     to |-> p, cluster |-> fds[h].first, offset |-> p])
  <2>1. frame' = [op |-> "seek", handle |-> h, start |-> fds[h].position,
                  to |-> p, cluster |-> fds[h].first, offset |-> p]
    BY <1>6 DEF Begin
  <2>2. fds'[h] = [fds[h] EXCEPT !.position = p]
    BY <1>2, <1>6
  <2>3. /\ fds'[h].opened = fds[h].opened /\ fds'[h].isDir = fds[h].isDir
        /\ fds'[h].size = fds[h].size /\ fds'[h].first = fds[h].first
        /\ fds'[h].buffer = fds[h].buffer /\ fds'[h].position = p
    BY <1>2, <2>2 DEF AnyFile
  <2>4. p <= fds[h].size
    BY <1>2, <1>6 DEF IsFile
  <2>5. IsFile(fds'[h])
    BY <1>2, <2>3, <2>4 DEF IsFile
  <2>6. \A g \in Files : g # h => fds'[g] = fds[g]
    BY <1>2, <1>6
  <2>7. HeldInv'
    <3>1. Seeking(h)'
      BY <2>1 DEF Seeking
    <3> QED
      BY <1>1, <1>2, <1>4, <2>5, <2>6, <3>1, HeldMoved
  <2>8. CacheInv' /\ RootInv'
    <3>1. fds'[ROOT_DIRECTORY_HANDLE] = fds[ROOT_DIRECTORY_HANDLE]
      BY <1>2, <2>6
    <3> QED
      BY <1>1, <2>1, <3>1, RootKept DEF Ready, SoundInv, CacheInv, Mounted, Scanning
  <2>9. WalkInv' /\ ReadInv'
    BY <2>1 DEF WalkInv, ReadInv
  <2>10. SeekInv'
    <3> DEFINE c == fds[h].first
    <3>1. c \in DOMAIN Chain
      BY <1>2 DEF IsFile
    <3>2. 1 \in 1 .. Len(Chain[c]) /\ c = Chain[c][1]
      BY <3>1, ChainFacts
    <3>3. p = (1 - 1) * ClusterSize + p
      BY <1>3, Geometry
    <3>4. /\ frame'.handle = h /\ frame'.to = p /\ frame'.cluster = c /\ frame'.offset = p
      BY <2>1
    <3> QED
      BY <1>1, <2>3, <3>2, <3>3, <3>4 DEF SeekInv
  <2>11. AnswerInv'
    BY <2>1, NoAnswer
  <2> QED
    BY <2>7, <2>8, <2>9, <2>10, <2>11 DEF SoundInv
<1> QED
  BY <1>5, <1>6 DEF Seek

(* A handle that the caller reads is on an object of its own.              *)
LEMMA FileOnObject ==
  ASSUME NEW fd \in AnyFile, IsFile(fd), fd.position < fd.size, Tracked(fd)
  PROVE  OnObject(fd)
PROOF
<1>1. fd.first \in DOMAIN Chain /\ fd.buffer \in Sectors(fd.first) /\ fd.size <= Capacity(fd.first)
  BY DEF IsFile
<1>2. Capacity(fd.first) \in Nat /\ fd.position \in Nat /\ fd.size \in Nat
  BY <1>1, SectorCountType, FilesFacts
<1> QED
  BY <1>1, <1>2 DEF OnObject

(* What a copy leaves of a file.                                           *)
LEMMA FileRead ==
  ASSUME NEW fd \in AnyFile, IsFile(fd), NEW n \in Nat, fd.position + n <= fd.size,
         NEW it, it.fd \in AnyFile, Goes(fd, n, it)
  PROVE  /\ IsFile(it.fd) /\ it.fd.size = fd.size /\ it.fd.first = fd.first
         /\ it.fd.position = fd.position + Take(fd, n)
         /\ it.fd.position < it.fd.size => Tracked(it.fd)
PROOF
<1> DEFINE t == Take(fd, n)
           c == fd.first
<1>1. /\ it.fd.opened = fd.opened /\ it.fd.isDir = fd.isDir /\ it.fd.first = c
      /\ it.fd.position = fd.position + t
  BY DEF Goes
<1>2. /\ fd.opened /\ ~fd.isDir /\ c \in DOMAIN Chain /\ c \notin DOMAIN Dirs
      /\ fd.size = FileSize(c) /\ fd.size <= Capacity(c) /\ fd.buffer \in Sectors(c)
  BY DEF IsFile
<1>3. fd.position \in Nat /\ fd.size \in Nat /\ t \in 0 .. n /\ Capacity(c) \in Nat
  BY <1>2, FilesFacts, TakeType, SectorCountType
<1>4. it.fd.position <= fd.size
  BY <1>1, <1>3
<1>5. CASE OnObject(it.fd) /\ it.fd.size = fd.size
  BY <1>1, <1>2, <1>4, <1>5 DEF IsFile, OnObject
<1>6. CASE /\ it.fd.position = Capacity(c) /\ it.fd.size = it.fd.position
           /\ it.fd.buffer = fd.buffer
  <2>1. it.fd.size = fd.size
    BY <1>2, <1>3, <1>4, <1>6
  <2>2. ~(it.fd.position < it.fd.size)
    BY <1>1, <1>3, <1>6
  <2> QED
    BY <1>1, <1>2, <1>4, <1>6, <2>1, <2>2 DEF IsFile
<1> QED
  BY <1>5, <1>6 DEF Goes

LEMMA Joined ==
  ASSUME NEW S, NEW a \in Seq(S), NEW b \in Seq(S)
  PROVE  /\ Len(a \o b) = Len(a) + Len(b)
         /\ \A i \in 1 .. Len(a \o b) :
              (a \o b)[i] = IF i <= Len(a) THEN a[i] ELSE b[i - Len(a)]
PROOF
  BY ConcatProperties

LEMMA ReadStepSound ==
  ASSUME Ready, ReadStep
  PROVE  SoundInv'
PROOF
<1> DEFINE h == frame.handle
           fd == fds[h]
           n == frame.left
           t == Take(fd, n)
           copied == Copied(fd, n)
           got == frame.got \o copied
<1>1. frame \in [op : {"read"}, handle : Files, start : Nat, want : Nat, left : Nat,
                 got : Seq(Int \X Int)]
  BY FrameFields DEF Ready, TypeOK, ReadStep
<1>2. /\ h \in held /\ fd.position = frame.start + Len(frame.got)
      /\ fd.position + n <= fd.size /\ Len(frame.got) + n <= frame.want
      /\ \A i \in 1 .. Len(frame.got) : frame.got[i][1] \in Sectors(fd.first)
  BY DEF Ready, SoundInv, ReadInv, ReadStep
<1>3. /\ fd \in AnyFile /\ IsFile(fd) /\ h \in Files /\ h # ROOT_DIRECTORY_HANDLE
      /\ fds \in [Files -> AnyFile] /\ held \subseteq Files
  BY <1>2, ReadyFacts
<1>4. n \in Nat /\ n > 0 /\ fd.position \in Nat /\ fd.size \in Nat
  BY <1>1, <1>3, FilesFacts DEF ReadStep
<1>5. \A g : ~Seeking(g)
  BY DEF Seeking, ReadStep
<1>6. OnObject(fd)
  <2>1. fd.position < fd.size
    BY <1>2, <1>4
  <2>2. Tracked(fd)
    BY <1>2, <1>5, <2>1 DEF Ready, SoundInv, HeldInv
  <2> QED
    BY <1>3, <2>1, <2>2, FileOnObject
<1>7. PICK it \in Iterations(fd, n) :
        /\ fds' = [fds EXCEPT ![h] = it.fd]
        /\ Remember(it.look)
        /\ frame' = [frame EXCEPT !.got = got, !.left = IF it.stop THEN 0 ELSE @ - Take(fd, @)]
  BY DEF ReadStep
<1>8. held' = held /\ reply' = reply /\ frame.op = "read"
  BY DEF ReadStep
<1>9. Goes(fd, n, it)
  <2>1. Whole(cache, cachePos)
    BY <1>8 DEF Ready, SoundInv, CacheInv, Mounted
  <2> QED
    BY <1>3, <1>4, <1>6, <2>1, ReadyFacts, IterationGoes DEF Ready
<1>10. it.fd \in AnyFile
  BY <1>3, <1>4, ReadyFacts, IterationType DEF IterationOK
<1>11. /\ IsFile(it.fd) /\ it.fd.size = fd.size /\ it.fd.first = fd.first
       /\ it.fd.position = fd.position + t
       /\ it.fd.position < it.fd.size => Tracked(it.fd)
  BY <1>2, <1>3, <1>4, <1>9, <1>10, FileRead
<1>12. t \in 0 .. n
  BY <1>3, <1>4, TakeType
<1>13. fds'[h] = it.fd /\ \A g \in Files : g # h => fds'[g] = fds[g]
  BY <1>3, <1>7
<1>14. HeldInv'
  BY <1>2, <1>3, <1>5, <1>8, <1>11, <1>13, HeldMoved DEF Ready, SoundInv
<1> DEFINE left == IF it.stop THEN 0 ELSE n - t
<1>15. /\ frame'.op = "read" /\ frame'.handle = h /\ frame'.start = frame.start
       /\ frame'.want = frame.want /\ frame'.got = got /\ frame'.left = left
  <2>1. frame' = [frame EXCEPT !.got = got, !.left = left]
    BY <1>7
  <2> HIDE DEF got, left
  <2> QED
    BY <1>1, <2>1
<1>16. CacheInv' /\ RootInv'
  <2>1. Whole(cache', cachePos')
    BY <1>7, <1>9 DEF Goes, Remember
  <2>2. fds'[ROOT_DIRECTORY_HANDLE] = fds[ROOT_DIRECTORY_HANDLE]
    BY <1>3, <1>13, ReadyFacts
  <2> QED
    BY <1>8, <1>15, <2>1, <2>2, RootKept DEF Ready, SoundInv, CacheInv, Mounted, Scanning
<1>17. ReadInv'
  <2>1. copied \in Seq(Int \X Int)
    BY <1>3, <1>4, CopiedType
  <2>2. Len(copied) = t /\ \A i \in 1 .. t : copied[i][1] = fd.buffer
    <3>1. copied = [i \in 1 .. t |-> <<fd.buffer, (fd.position % SECTOR_SIZE) + i - 1>>]
      BY DEF Copied
    <3>2. DOMAIN copied = 1 .. t /\ t \in Nat
      BY <1>4, <1>12, <3>1
    <3>3. Len(copied) = t
      <4> HIDE DEF copied, t
      <4> QED
        BY <2>1, <3>2, LenProperties
    <3>4. \A i \in 1 .. t : copied[i] = <<fd.buffer, (fd.position % SECTOR_SIZE) + i - 1>>
      BY <3>1
    <3> HIDE DEF copied, t
    <3> QED
      BY <3>3, <3>4
  <2>3. /\ Len(got) = Len(frame.got) + t
        /\ \A i \in 1 .. Len(got) :
             got[i] = IF i <= Len(frame.got) THEN frame.got[i] ELSE copied[i - Len(frame.got)]
    <3>1. frame.got \in Seq(Int \X Int)
      BY <1>1
    <3>2. /\ Len(frame.got \o copied) = Len(frame.got) + Len(copied)
          /\ \A i \in 1 .. Len(frame.got \o copied) :
               (frame.got \o copied)[i] =
                 IF i <= Len(frame.got) THEN frame.got[i] ELSE copied[i - Len(frame.got)]
      <4> HIDE DEF copied
      <4> QED
        BY <2>1, <3>1, Joined, Zenon
    <3> HIDE DEF copied, t
    <3> QED
      BY <2>2, <3>2, Zenon
  <2>4. Len(frame.got) \in Nat
    BY <1>1
  <2>5. fd.buffer \in Sectors(fd.first)
    BY <1>3 DEF IsFile
  <2>6. \A i \in 1 .. Len(got) : got[i][1] \in Sectors(fd.first)
    <3> TAKE i \in 1 .. Len(got)
    <3>1. CASE i <= Len(frame.got)
      <4>1. i \in 1 .. Len(frame.got)
        BY <2>3, <2>4, <3>1
      <4> HIDE DEF copied, got
      <4> QED
        BY <1>2, <2>3, <3>1, <4>1
    <3>2. CASE ~(i <= Len(frame.got))
      <4>1. i - Len(frame.got) \in 1 .. t
        <5> HIDE DEF got, t
        <5> QED
          BY <1>4, <1>12, <2>3, <2>4, <3>2
      <4> HIDE DEF copied, got
      <4> QED
        BY <2>2, <2>3, <2>5, <3>2, <4>1
    <3> QED
      BY <3>1, <3>2
  <2>7. left \in 0 .. n - t
    BY <1>4, <1>12
  <2>8. /\ fd.position + t = frame.start + Len(got)
        /\ fd.position + t + left <= fd.size
        /\ Len(got) + left <= frame.want
    <3>1. frame.start \in Nat /\ frame.want \in Nat
      BY <1>1
    <3>2. Len(got) = Len(frame.got) + t
      BY <2>3
    <3>3. t \in Nat /\ t <= n /\ left \in Nat /\ left <= n - t
      <4> HIDE DEF t, left
      <4> QED
        BY <1>4, <1>12, <2>7
    <3> HIDE DEF got, t, left, n, fd
    <3>4. fd.position + t = frame.start + Len(got)
      BY <1>2, <1>4, <2>4, <3>1, <3>2, <3>3
    <3>5. fd.position + t + left <= fd.size
      BY <1>2, <1>4, <3>3
    <3>6. Len(got) + left <= frame.want
      BY <1>2, <1>4, <2>4, <3>1, <3>2, <3>3
    <3> QED
      BY <3>4, <3>5, <3>6
  <2> HIDE DEF got, t, left
  <2> QED
    BY <1>2, <1>8, <1>11, <1>13, <1>15, <2>6, <2>8 DEF ReadInv
<1>18. WalkInv' /\ SeekInv' /\ AnswerInv'
  BY <1>15, NoAnswer DEF WalkInv, SeekInv
<1> QED
  BY <1>14, <1>16, <1>17, <1>18 DEF SoundInv

LEMMA ReadReturnSound ==
  ASSUME Ready, ReadReturn
  PROVE  SoundInv'
PROOF
<1> DEFINE h == frame.handle
<1>1. frame \in [op : {"read"}, handle : Files, start : Nat, want : Nat, left : Nat,
                 got : Seq(Int \X Int)]
  BY FrameFields DEF Ready, TypeOK, ReadReturn
<1>2. /\ frame.op = "read" /\ frame.left = 0 /\ frame' = Idle
      /\ reply' = [op |-> "read", handle |-> h, start |-> frame.start,
                   want |-> frame.want, got |-> frame.got]
      /\ UNCHANGED <<fds, cachePos, cache, held>>
  BY DEF ReadReturn, Return
<1>3. /\ h \in held /\ fds[h].position = frame.start + Len(frame.got)
      /\ fds[h].position + frame.left <= fds[h].size
      /\ Len(frame.got) + frame.left <= frame.want
      /\ \A i \in 1 .. Len(frame.got) : frame.got[i][1] \in Sectors(fds[h].first)
  BY <1>2 DEF Ready, SoundInv, ReadInv
<1>4. IsFile(fds[h]) /\ fds[h] \in AnyFile
  BY <1>3, ReadyFacts
<1>5. /\ fds[h].size = FileSize(fds[h].first) /\ fds[h].size \in Nat /\ fds[h].position \in Nat
      /\ DOMAIN frame.got = 1 .. Len(frame.got) /\ Len(frame.got) \in Nat /\ frame.want \in Nat
  BY <1>1, <1>4, FilesFacts DEF IsFile
<1>6. frame'.op = "idle"
  BY <1>2 DEF Idle
<1>7. HeldInv'
  <2>1. HeldInv /\ \A g \in held : ~Seeking(g)
    BY <1>2 DEF Ready, SoundInv, Seeking
  <2> QED
    BY <1>2, <2>1, HeldKept
<1>8. CacheInv' /\ RootInv'
  BY <1>2, <1>6, RootKept DEF Ready, SoundInv, CacheInv, Mounted, Scanning
<1>9. WalkInv' /\ SeekInv' /\ ReadInv'
  BY <1>6 DEF WalkInv, SeekInv, ReadInv
<1>10. AnswerInv'
  <2>1. Len(frame.got) <= frame.want /\ frame.start + Len(frame.got) <= FileSize(fds[h].first)
    BY <1>2, <1>3, <1>5
  <2>2. OwnBytesOnly'
    BY <1>2, <1>3, <1>5, <2>1 DEF OwnBytesOnly
  <2>3. SeekRepairs' /\ OpensTheRightFile'
    BY <1>2 DEF SeekRepairs, OpensTheRightFile
  <2> QED
    BY <1>6, <2>2, <2>3 DEF AnswerInv
<1> QED
  BY <1>7, <1>8, <1>9, <1>10 DEF SoundInv

(* The cluster and the sector of a position, counted in clusters.          *)
LEMMA SoughtSector ==
  ASSUME NEW c \in DOMAIN Chain, NEW j \in 1 .. Len(Chain[c]),
         NEW o \in Nat, o < ClusterSize, NEW p, p = (j - 1) * ClusterSize + o
  PROVE  LET k == p \div SECTOR_SIZE
             s == o \div SECTOR_SIZE
         IN  /\ k \in Nat /\ k < SectorCount(c) /\ s \in 0 .. SectorsPerCluster - 1
             /\ k \div SectorsPerCluster + 1 = j /\ k % SectorsPerCluster = s
PROOF
<1> DEFINE n == SectorsPerCluster
           z == SECTOR_SIZE
           s == o \div z
           r == o % z
           i == j - 1
<1>1. n \in Nat \ {0} /\ z \in Nat \ {0} /\ ClusterSize = n * z
  BY Geometry DEF ClusterSize
<1>2. Len(Chain[c]) \in Nat /\ i \in Nat /\ i + 1 = j /\ j \in Nat
  BY ChainFacts
<1>3. s \in 0 .. n - 1 /\ r \in 0 .. z - 1 /\ o = z * s + r
  BY <1>1, QuotientBound, DivMod
<1>4. p = i * ClusterSize + o
  OBVIOUS
<1> HIDE DEF s, r, i, n, z
<1>5. s \in Nat /\ r \in Nat
  BY <1>1, <1>3
<1> DEFINE k == i * n + s
<1>6. k \in Nat /\ p = k * z + r
  <2>1. i * n \in Nat /\ z * s \in Nat
    BY <1>1, <1>2, <1>5, TimesMonotone
  <2>2. i * (n * z) = (i * n) * z /\ (i * n + s) * z = (i * n) * z + z * s
    <3>1. \A a, b, d \in Nat : (a * b) * d = a * (b * d) /\ (a + b) * d = a * d + d * b
      OBVIOUS
    <3> QED
      BY <1>1, <1>2, <1>5, <2>1, <3>1
  <2>3. (i * n) * z \in Nat
    BY <1>1, <2>1
  <2>4. p = (i * n) * z + (z * s + r)
    BY <1>1, <1>3, <1>4, <2>2
  <2>5. k \in Nat /\ k * z = (i * n) * z + z * s
    BY <1>5, <2>1, <2>2
  <2> HIDE DEF k
  <2> QED
    BY <1>5, <2>1, <2>3, <2>4, <2>5
<1>7. k \div n = i /\ k % n = s
  BY <1>1, <1>2, <1>3, DivUnique
<1>8. k < SectorCount(c)
  <2>1. j * n <= Len(Chain[c]) * n /\ j * n \in Nat /\ Len(Chain[c]) * n \in Nat
    BY <1>1, <1>2, TimesMonotone
  <2>2. j * n = i * n + n /\ i * n \in Nat
    BY <1>1, <1>2, TimesMonotone
  <2>3. k < j * n
    BY <1>1, <1>3, <1>5, <2>2
  <2> HIDE DEF k
  <2> QED
    BY <1>6, <2>1, <2>3 DEF SectorCount, n
<1> HIDE DEF k
<1>9. p \div z = k
  BY <1>1, <1>3, <1>6, DivUnique
<1> QED
  BY <1>2, <1>3, <1>6, <1>7, <1>8, <1>9 DEF n, z, s

LEMMA SeekStepSound ==
  ASSUME Ready, SeekStep
  PROVE  SoundInv'
PROOF
<1> DEFINE h == frame.handle
           fd == fds[h]
           c == fd.first
<1>1. frame \in [op : {"seek"}, handle : Files, start : Nat, to : Nat, cluster : Nat, offset : Nat]
  BY FrameFields DEF Ready, TypeOK, SeekStep
<1>2. h \in held /\ fd.position = frame.to
  BY DEF Ready, SoundInv, SeekInv, SeekStep
<1>3. PICK j \in 1 .. Len(Chain[c]) :
        frame.cluster = Chain[c][j] /\ frame.to = (j - 1) * ClusterSize + frame.offset
  BY DEF Ready, SoundInv, SeekInv, SeekStep
<1>4. /\ frame.op = "seek" /\ frame.offset >= ClusterSize /\ frame.offset \in Nat
      /\ UNCHANGED <<fds, held>>
  BY <1>1 DEF SeekStep
<1>5. IsFile(fd) /\ fd \in AnyFile /\ c \in DOMAIN Chain
  BY <1>2, ReadyFacts DEF IsFile
<1>6. PICK l \in NextCluster(frame.cluster) :
        /\ Remember(l)
        /\ IF l.next >= EndOfChain
           THEN Return(Sought(h, frame.to, FALSE))
           ELSE /\ frame' = [frame EXCEPT !.cluster = l.next, !.offset = @ - ClusterSize]
                /\ UNCHANGED reply
  BY DEF SeekStep
<1>7. /\ Whole(l.cache, l.pos)
      /\ IF j = Len(Chain[c]) THEN l.next >= EndOfChain
         ELSE l.next = Chain[c][j + 1] /\ ~(l.next >= EndOfChain)
  <2>1. Whole(cache, cachePos) /\ l \in NextCluster(Chain[c][j])
    BY <1>3, <1>4, <1>6 DEF Ready, SoundInv, CacheInv, Mounted
  <2> QED
    BY <1>5, <2>1, ReadyFacts, LookupOnChain DEF Ready
<1>8. Whole(cache', cachePos')
  BY <1>6, <1>7 DEF Remember
<1>9. ClusterSize \in Nat /\ j \in Nat /\ Len(Chain[c]) \in Nat /\ j - 1 \in Nat
  BY <1>5, Geometry, ChainFacts DEF ClusterSize
<1>10. CASE l.next >= EndOfChain
  <2>1. frame' = Idle /\ reply' = Sought(h, frame.to, FALSE) /\ frame'.op = "idle"
    <3>1. Return(Sought(h, frame.to, FALSE))
      BY <1>6, <1>10
    <3> QED
      BY <3>1 DEF Return, Idle
  <2>2. j = Len(Chain[c])
    BY <1>7, <1>10
  <2>3. ~(fd.position < fd.size)
    <3>1. Capacity(c) = Len(Chain[c]) * ClusterSize
      <4>1. \A a, b, d \in Nat : (a * b) * d = a * (b * d)
        OBVIOUS
      <4>2. SectorsPerCluster \in Nat /\ SECTOR_SIZE \in Nat
        BY Geometry
      <4> QED
        BY <1>9, <4>1, <4>2, Zenon DEF Capacity, SectorCount, ClusterSize
    <3>2. Len(Chain[c]) * ClusterSize = (j - 1) * ClusterSize + ClusterSize
          /\ (j - 1) * ClusterSize \in Nat
      BY <1>9, <2>2, TimesMonotone
    <3>3. fd.size <= Capacity(c) /\ fd.size \in Nat /\ Capacity(c) \in Nat
      BY <1>5, FilesFacts, SectorCountType DEF IsFile
    <3> HIDE DEF fd, c
    <3> QED
      BY <1>2, <1>3, <1>4, <1>9, <3>1, <3>2, <3>3
  <2>4. HeldInv'
    <3>1. \A g \in held : g # h => ~Seeking(g)
      BY DEF Seeking
    <3> QED
      BY <1>2, <1>4, <1>5, <2>3, <3>1, HeldMoved DEF Ready, SoundInv
  <2>5. CacheInv' /\ RootInv'
    BY <1>4, <1>8, <2>1, RootKept DEF Ready, SoundInv, CacheInv, Mounted, Scanning
  <2>6. WalkInv' /\ SeekInv' /\ ReadInv'
    BY <2>1 DEF WalkInv, SeekInv, ReadInv
  <2>7. AnswerInv'
    BY <2>1 DEF AnswerInv, OwnBytesOnly, SeekRepairs, OpensTheRightFile, Between, Sought
  <2> QED
    BY <2>4, <2>5, <2>6, <2>7 DEF SoundInv
<1>11. CASE ~(l.next >= EndOfChain)
  <2>1. j # Len(Chain[c]) /\ l.next = Chain[c][j + 1]
    BY <1>7, <1>11
  <2>2. j + 1 \in 1 .. Len(Chain[c])
    BY <1>9, <2>1
  <2>3. frame' = [frame EXCEPT !.cluster = l.next, !.offset = @ - ClusterSize]
    BY <1>6, <1>11
  <2>4. /\ frame'.op = "seek" /\ frame'.handle = h /\ frame'.to = frame.to
        /\ frame'.cluster = l.next /\ frame'.offset = frame.offset - ClusterSize
    BY <1>1, <2>3
  <2>5. frame.to = ((j + 1) - 1) * ClusterSize + (frame.offset - ClusterSize)
    <3>1. ((j + 1) - 1) * ClusterSize = (j - 1) * ClusterSize + ClusterSize
          /\ (j - 1) * ClusterSize \in Nat
      BY <1>9, TimesMonotone
    <3> HIDE DEF fd, c
    <3> QED
      BY <1>3, <1>4, <1>9, <3>1
  <2>6. HeldInv'
    <3>1. \A g \in held : Seeking(g)' <=> Seeking(g)
      BY <1>4, <2>4 DEF Seeking
    <3> QED
      BY <1>4, <3>1, HeldKept DEF Ready, SoundInv
  <2>7. CacheInv' /\ RootInv'
    BY <1>4, <1>8, <2>4, RootKept DEF Ready, SoundInv, CacheInv, Mounted, Scanning
  <2>8. WalkInv' /\ ReadInv' /\ AnswerInv'
    BY <2>4, NoAnswer DEF WalkInv, ReadInv
  <2>9. SeekInv'
    BY <1>2, <1>4, <2>1, <2>2, <2>4, <2>5 DEF SeekInv
  <2> QED
    BY <2>6, <2>7, <2>8, <2>9 DEF SoundInv
<1> QED
  BY <1>10, <1>11

LEMMA SeekLoadSound ==
  ASSUME Ready, SeekLoad
  PROVE  SoundInv'
PROOF
<1> DEFINE h == frame.handle
           fd == fds[h]
           c == fd.first
           s == frame.offset \div SECTOR_SIZE
           lba == ClusterToLba(frame.cluster) + s
           k == frame.to \div SECTOR_SIZE
<1>1. frame \in [op : {"seek"}, handle : Files, start : Nat, to : Nat, cluster : Nat, offset : Nat]
  BY FrameFields DEF Ready, TypeOK, SeekLoad
<1>2. h \in held /\ fd.position = frame.to
  BY DEF Ready, SoundInv, SeekInv, SeekLoad
<1>3. PICK j \in 1 .. Len(Chain[c]) :
        frame.cluster = Chain[c][j] /\ frame.to = (j - 1) * ClusterSize + frame.offset
  BY DEF Ready, SoundInv, SeekInv, SeekLoad
<1>4. /\ frame.op = "seek" /\ frame.offset < ClusterSize /\ frame.offset \in Nat
      /\ UNCHANGED <<cachePos, cache, held>>
  BY <1>1 DEF SeekLoad
<1>5. /\ IsFile(fd) /\ fd \in AnyFile /\ c \in DOMAIN Chain /\ h \in Files
      /\ h # ROOT_DIRECTORY_HANDLE /\ fds \in [Files -> AnyFile] /\ held \subseteq Files
  BY <1>2, ReadyFacts DEF IsFile
<1>6. PICK ok \in ReadOutcomes(lba) :
        /\ fds' = [fds EXCEPT ![h].cluster = frame.cluster,
                              ![h].sector = s,
                              ![h].buffer = IF ok THEN lba ELSE @]
        /\ Return(Sought(h, frame.to, ok))
  BY DEF SeekLoad
<1>7. /\ k \in Nat /\ k < SectorCount(c) /\ s \in 0 .. SectorsPerCluster - 1
      /\ k \div SectorsPerCluster + 1 = j /\ k % SectorsPerCluster = s
  BY <1>3, <1>4, <1>5, SoughtSector
<1>8. lba = SectorLba(c, k) /\ SectorLba(c, k) \in Sectors(c)
  BY <1>3, <1>5, <1>7, SectorInChain DEF SectorLba
<1> HIDE DEF lba, s, k
<1> DEFINE buffer == IF ok THEN lba ELSE fd.buffer
           g == [fd EXCEPT !.cluster = frame.cluster, !.sector = s, !.buffer = buffer]
<1>9. fds'[h] = g /\ \A f \in Files : f # h => fds'[f] = fds[f]
  BY <1>1, <1>5, <1>6 DEF AnyFile
<1>10. /\ g.opened = fd.opened /\ g.isDir = fd.isDir /\ g.size = fd.size /\ g.first = c
       /\ g.position = fd.position /\ g.cluster = frame.cluster /\ g.sector = s
       /\ g.buffer = buffer
  BY <1>5 DEF AnyFile
<1>11. buffer \in Sectors(c)
  BY <1>5, <1>8 DEF IsFile
<1> HIDE DEF g, buffer
<1>12. IsFile(g)
  BY <1>5, <1>10, <1>11 DEF IsFile
<1>13. Tracked(g) /\ fds'[h].position = frame.to
  BY <1>2, <1>3, <1>7, <1>9, <1>10 DEF Tracked, k
<1>14. frame' = Idle /\ reply' = Sought(h, frame.to, ok) /\ frame'.op = "idle"
  BY <1>6 DEF Return, Idle
<1>15. HeldInv'
  <2>1. \A f \in held : f # h => ~Seeking(f)
    BY DEF Seeking
  <2>2. \A f \in held : h # f => fds'[f] = fds[f] /\ ~Seeking(f)
    BY <1>5, <1>9, <2>1
  <2> QED
    BY <1>2, <1>4, <1>9, <1>12, <1>13, <2>2, HeldMoved DEF Ready, SoundInv
<1>16. CacheInv' /\ RootInv'
  <2>1. fds'[ROOT_DIRECTORY_HANDLE] = fds[ROOT_DIRECTORY_HANDLE]
    BY <1>5, <1>9, ReadyFacts
  <2> QED
    BY <1>4, <1>14, <2>1, RootKept DEF Ready, SoundInv, CacheInv, Mounted, Scanning
<1>17. WalkInv' /\ SeekInv' /\ ReadInv'
  BY <1>14 DEF WalkInv, SeekInv, ReadInv
<1>18. AnswerInv'
  <2>1. OwnBytesOnly' /\ OpensTheRightFile'
    BY <1>14 DEF OwnBytesOnly, OpensTheRightFile, Sought
  <2>2. /\ fds'[h].cluster = Chain[fds'[h].first][(fds'[h].position \div SECTOR_SIZE) \div SectorsPerCluster + 1]
        /\ fds'[h].sector = (fds'[h].position \div SECTOR_SIZE) % SectorsPerCluster
    BY <1>9, <1>13 DEF Tracked
  <2>3. ok => <<fds'[h].buffer, frame.to % SECTOR_SIZE>> = Place(fds'[h].first, frame.to)
    BY <1>8, <1>9, <1>10 DEF Place, buffer, k
  <2>4. reply'.op = "seek" /\ reply'.handle = h /\ reply'.to = frame.to /\ reply'.ok = ok
    BY <1>14 DEF Sought
  <2>5. SeekRepairs'
    BY <1>13, <2>2, <2>3, <2>4 DEF SeekRepairs, OnTrack
  <2> QED
    BY <1>14, <2>1, <2>5 DEF AnswerInv
<1> QED
  BY <1>15, <1>16, <1>17, <1>18 DEF SoundInv

(***************************************************************************)
(* The path walk.                                                          *)
(***************************************************************************)
(* The scan of a directory ends, with or without an entry.                 *)
LEMMA ScanLeaves ==
  ASSUME Ready, frame.op = "scan", frame'.op \in {"idle", "entry"}, held' = held,
         Whole(cache', cachePos'),
         \A g \in Files : g # frame.dir => fds'[g] = fds[g],
         frame.dir = ROOT_DIRECTORY_HANDLE =>
           RootFields(fds'[frame.dir]) /\ fds'[frame.dir].position = 0
  PROVE  /\ HeldInv' /\ CacheInv' /\ RootInv' /\ SeekInv' /\ ReadInv'
PROOF
<1>1. HeldInv'
  <2>1. HeldInv /\ \A g \in held : ~Seeking(g)
    BY DEF Ready, SoundInv, Seeking
  <2>2. \A g \in held : g \in Files /\ g # frame.dir
    BY ReadyFacts DEF Scanning
  <2> QED
    BY <2>1, <2>2, HeldKept
<1>2. CacheInv'
  BY DEF CacheInv
<1>3. RootInv'
  <2>1. CASE frame.dir = ROOT_DIRECTORY_HANDLE
    BY <2>1 DEF RootInv, RootAt, Scanning
  <2>2. CASE frame.dir # ROOT_DIRECTORY_HANDLE
    <3>1. fds'[ROOT_DIRECTORY_HANDLE] = fds[ROOT_DIRECTORY_HANDLE]
      BY <2>2, ReadyFacts
    <3>2. ~Scanning(ROOT_DIRECTORY_HANDLE) /\ ~Scanning(ROOT_DIRECTORY_HANDLE)'
      BY <2>2 DEF Scanning
    <3> QED
      BY <3>1, <3>2, RootKept DEF Ready, SoundInv, Mounted
  <2> QED
    BY <2>1, <2>2
<1>4. SeekInv' /\ ReadInv'
  BY DEF SeekInv, ReadInv
<1> QED
  BY <1>1, <1>2, <1>3, <1>4

LEMMA ScanOver ==
  ASSUME Ready, frame.op = "scan", Return(Opened(frame.path, NoHandle)), held' = held,
         Whole(cache', cachePos'),
         \A g \in Files : g # frame.dir => fds'[g] = fds[g],
         frame.dir = ROOT_DIRECTORY_HANDLE =>
           RootFields(fds'[frame.dir]) /\ fds'[frame.dir].position = 0
  PROVE  SoundInv'
PROOF
<1>1. frame'.op = "idle" /\ reply'.op = "open" /\ reply'.handle = NoHandle
  BY DEF Return, Idle, Opened
<1>2. HeldInv' /\ CacheInv' /\ RootInv' /\ SeekInv' /\ ReadInv'
  BY <1>1, ScanLeaves
<1>3. WalkInv' /\ AnswerInv'
  BY <1>1 DEF WalkInv, AnswerInv, OwnBytesOnly, SeekRepairs, OpensTheRightFile
<1> QED
  BY <1>2, <1>3 DEF SoundInv

(* The entry found is the next one on the way of the path.                 *)
LEMMA ScanFound ==
  ASSUME Ready, frame.op = "scan", held' = held, Whole(cache', cachePos'), NEW entry,
         frame' = [op |-> "entry", entry |-> entry,
                   path |-> frame.path, rest |-> Tail(frame.rest)],
         NEW k \in 0 .. Len(frame.path) - 1, After(frame.rest, frame.path, k),
         entry = Way(frame.path)[k + 1], entry \in AllEntries,
         \A g \in Files : g # frame.dir => fds'[g] = fds[g],
         frame.dir = ROOT_DIRECTORY_HANDLE =>
           RootFields(fds'[frame.dir]) /\ fds'[frame.dir].position = 0
  PROVE  SoundInv'
PROOF
<1>1. /\ frame'.op = "entry" /\ frame'.entry = entry /\ frame'.path = frame.path
      /\ frame'.rest = Tail(frame.rest)
  OBVIOUS
<1>2. HeldInv' /\ CacheInv' /\ RootInv' /\ SeekInv' /\ ReadInv'
  BY <1>1, ScanLeaves
<1>3. frame.rest \in Seq(Names) /\ frame.rest # << >> /\ frame.path \in Seq(Names)
      /\ frame.path \in Paths
  BY FrameFields DEF Ready, TypeOK, SoundInv, WalkInv
<1> DEFINE rest == frame.rest
           path == frame.path
<1>4. /\ Len(Tail(rest)) = Len(rest) - 1 /\ Len(rest) \in Nat /\ Len(path) \in Nat
      /\ \A i \in 1 .. Len(rest) - 1 : Tail(rest)[i] = rest[i + 1]
  BY <1>3, HeadTailProperties
<1>5. Len(rest) = Len(path) - k /\ \A i \in 1 .. Len(rest) : rest[i] = path[k + i]
  BY DEF After
<1> HIDE DEF rest, path
<1>6. After(Tail(rest), path, k + 1)
  <2>1. Len(Tail(rest)) = Len(path) - (k + 1)
    BY <1>4, <1>5
  <2>2. ASSUME NEW i \in 1 .. Len(Tail(rest)) PROVE Tail(rest)[i] = path[(k + 1) + i]
    <3>1. i \in 1 .. Len(rest) - 1 /\ i + 1 \in 1 .. Len(rest) /\ k + (i + 1) = (k + 1) + i
      BY <1>4
    <3> QED
      BY <1>4, <1>5, <3>1
  <2> QED
    BY <2>1, <2>2 DEF After
<1>7. k + 1 \in 1 .. Len(path)
  BY <1>4 DEF path
<1>8. WalkInv'
  BY <1>1, <1>3, <1>6, <1>7 DEF WalkInv, rest, path
<1>9. AnswerInv'
  BY <1>1, NoAnswer
<1> QED
  BY <1>2, <1>8, <1>9 DEF SoundInv

(* The scan goes on.                                                       *)
LEMMA ScanOn ==
  ASSUME Ready, frame.op = "scan", held' = held, frame' = frame, reply' = reply,
         Whole(cache', cachePos'),
         \A g \in Files : g # frame.dir => fds'[g] = fds[g],
         frame.dir = ROOT_DIRECTORY_HANDLE =>
           /\ RootFields(fds'[frame.dir])
           /\ \E j \in 0 .. Len(RootDir) : fds'[frame.dir].position = j * ENTRY_SIZE,
         frame.dir # ROOT_DIRECTORY_HANDLE =>
           IsDirectory(fds'[frame.dir]) /\ fds'[frame.dir].first = fds[frame.dir].first
  PROVE  SoundInv'
PROOF
<1>1. HeldInv'
  <2>1. HeldInv /\ \A g \in held : ~Seeking(g)
    BY DEF Ready, SoundInv, Seeking
  <2>2. \A g \in held : g \in Files /\ g # frame.dir
    BY ReadyFacts DEF Scanning
  <2> QED
    BY <2>1, <2>2, HeldKept
<1>2. CacheInv' /\ SeekInv' /\ ReadInv'
  BY DEF CacheInv, SeekInv, ReadInv
<1>3. RootInv'
  <2>1. CASE frame.dir = ROOT_DIRECTORY_HANDLE
    BY <2>1 DEF RootInv, RootAt, Scanning
  <2>2. CASE frame.dir # ROOT_DIRECTORY_HANDLE
    <3>1. fds'[ROOT_DIRECTORY_HANDLE] = fds[ROOT_DIRECTORY_HANDLE]
      BY <2>2, ReadyFacts
    <3> QED
      BY <3>1, RootKept DEF Ready, SoundInv, Mounted, Scanning
  <2> QED
    BY <2>1, <2>2
<1>4. WalkInv'
  <2>1. frame.path \in Paths
    BY DEF Ready, SoundInv, WalkInv
  <2>2. PICK k \in 0 .. Len(frame.path) - 1 :
          /\ After(frame.rest, frame.path, k) /\ Way(frame.path)[k].dir
          /\ k = 0 => frame.dir = ROOT_DIRECTORY_HANDLE
          /\ k # 0 => /\ frame.dir \in Handle /\ IsDirectory(fds[frame.dir])
                      /\ fds[frame.dir].first = Way(frame.path)[k].cluster
    BY DEF Ready, SoundInv, WalkInv
  <2>3. k # 0 => /\ IsDirectory(fds'[frame.dir])
                 /\ fds'[frame.dir].first = Way(frame.path)[k].cluster
    BY <2>2, NotRoot
  <2> QED
    BY <2>1, <2>2, <2>3 DEF WalkInv
<1>5. AnswerInv'
  BY NoAnswer
<1> QED
  BY <1>1, <1>2, <1>3, <1>4, <1>5 DEF SoundInv

(* What a scan that has come to name k of the path looks for.              *)
LEMMA NextName ==
  ASSUME Ready, frame.op = "scan",
         NEW k \in 0 .. Len(frame.path) - 1, After(frame.rest, frame.path, k),
         Way(frame.path)[k].dir,
         NEW entries \in {RootDir} \cup {Dirs[c] : c \in DOMAIN Dirs},
         EntriesIn(Way(frame.path)[k].cluster) = entries,
         NEW n, EntryAt(entries, n).name = Head(frame.rest)
  PROVE  EntryAt(entries, n) = Way(frame.path)[k + 1] /\ EntryAt(entries, n) \in AllEntries
PROOF
<1>1. frame.rest \in Seq(Names) /\ frame.rest # << >> /\ frame.path \in Seq(Names)
  BY FrameFields DEF Ready, TypeOK
<1>2. Len(frame.path) \in Nat /\ Len(frame.rest) \in Nat \ {0}
  BY <1>1
<1>3. k + 1 \in 1 .. Len(frame.path) /\ (k + 1) - 1 = k /\ 1 \in 1 .. Len(frame.rest)
  BY <1>2
<1>4. Head(frame.rest) = frame.path[k + 1] /\ Head(frame.rest) \in Names
  <2>1. Head(frame.rest) = frame.rest[1] /\ Head(frame.rest) \in Names
    BY <1>1, HeadTailProperties
  <2> QED
    BY <1>3, <2>1 DEF After
<1>5. entries \in Seq(EntryType)
  BY EntryAssumption
<1>6. \A i, j \in DOMAIN entries : entries[i].name = entries[j].name => i = j
  BY DEF Ready, SoundVolume, EntriesSound
<1>7. /\ Named(entries, Head(frame.rest)) = EntryAt(entries, n)
      /\ EntryAt(entries, n) \in Listed(entries)
  BY <1>4, <1>5, <1>6, EntryNamed, Zenon
<1>8. Way(frame.path)[k + 1] = Named(entries, frame.path[k + 1])
  <2>1. \A i \in 1 .. Len(frame.path) :
          Way(frame.path)[i - 1].dir =>
            Way(frame.path)[i] = Named(EntriesIn(Way(frame.path)[i - 1].cluster), frame.path[i])
    BY <1>1, WayFacts, Zenon
  <2>2. Way(frame.path)[(k + 1) - 1].dir =>
          Way(frame.path)[k + 1] =
            Named(EntriesIn(Way(frame.path)[(k + 1) - 1].cluster), frame.path[k + 1])
    BY <1>3, <2>1, Zenon
  <2> QED
    BY <1>3, <2>2
<1>9. Listed(entries) \subseteq AllEntries
  BY DEF AllEntries
<1> QED
  BY <1>4, <1>7, <1>8, <1>9

(* The place of entry j in the first sector of the root directory.         *)
LEMMA RootPlace ==
  ASSUME SoundVolume, NEW j \in 0 .. Len(RootDir)
  PROVE  /\ j \in 0 .. EntriesPerSector - 1 /\ j * ENTRY_SIZE \in Nat
         /\ ((j * ENTRY_SIZE) % SECTOR_SIZE) \div ENTRY_SIZE = j
         /\ j * ENTRY_SIZE + ENTRY_SIZE = (j + 1) * ENTRY_SIZE
         /\ ENTRY_SIZE < SECTOR_SIZE - ((j * ENTRY_SIZE) % SECTOR_SIZE)
PROOF
<1> DEFINE z == SECTOR_SIZE
           e == ENTRY_SIZE
           n == EntriesPerSector
<1>1. e \in Nat \ {0} /\ z \in Nat \ {0} /\ n \in Nat /\ n * e = z
  BY Geometry
<1>2. Len(RootDir) \in Nat /\ Len(RootDir) + 2 <= n
  BY EntryAssumption DEF SoundVolume, RootInOneSector
<1>3. j \in Nat /\ j + 2 <= n
  BY <1>1, <1>2
<1> HIDE DEF e, z, n
<1>4. (j + 2) * e <= n * e
  BY <1>1, <1>3, TimesMonotone
<1>5. j * e \in Nat /\ (j + 2) * e = j * e + e + e /\ (j + 1) * e = j * e + e
  BY <1>1, <1>3, TimesMonotone
<1>6. j * e + e + e <= z /\ j * e < z
  BY <1>1, <1>4, <1>5
<1>7. (j * e) % z = j * e
  <2>1. \A x \in Nat : x < z => x % z = x
    BY <1>1
  <2> QED
    BY <1>5, <1>6, <2>1
<1>8. (j * e) \div e = j
  <2>1. (j * e + 0) \div e = j
    BY <1>1, <1>3, DivUnique
  <2>2. j * e + 0 = j * e
    BY <1>5
  <2> QED
    BY <2>1, <2>2
<1>9. e < z - j * e
  BY <1>1, <1>5, <1>6
<1>10. j \in 0 .. n - 1
  BY <1>1, <1>3
<1> QED
  BY <1>5, <1>7, <1>8, <1>9, <1>10 DEF e, z, n

LEMMA RootScanSound ==
  ASSUME Ready, ScanEntry, frame.dir = ROOT_DIRECTORY_HANDLE
  PROVE  SoundInv'
PROOF
<1> DEFINE h == ROOT_DIRECTORY_HANDLE
           fd == fds[h]
           entry == DirSlot[fd.buffer][(fd.position % SECTOR_SIZE) \div ENTRY_SIZE]
<1>1. /\ frame.op = "scan" /\ held' = held /\ h \in Files
      /\ fds \in [Files -> AnyFile] /\ fd \in AnyFile
  BY ReadyFacts DEF ScanEntry
<1>2. /\ Whole(cache, cachePos) /\ RootFields(fd)
      /\ \E j \in 0 .. Len(RootDir) : fd.position = j * ENTRY_SIZE
  BY <1>1 DEF Ready, SoundInv, CacheInv, RootInv, Mounted, RootAt, Scanning
<1>3. PICK j \in 0 .. Len(RootDir) : fd.position = j * ENTRY_SIZE
  BY <1>2
<1>4. /\ j \in 0 .. EntriesPerSector - 1 /\ j * ENTRY_SIZE \in Nat
      /\ (fd.position % SECTOR_SIZE) \div ENTRY_SIZE = j
      /\ fd.position + ENTRY_SIZE = (j + 1) * ENTRY_SIZE
      /\ ENTRY_SIZE < InBuffer(fd)
  BY <1>3, RootPlace DEF InBuffer, Ready
<1>5. PICK k \in 0 .. Len(frame.path) - 1 :
        /\ After(frame.rest, frame.path, k) /\ Way(frame.path)[k].dir
        /\ k # 0 => frame.dir \in Handle
  BY <1>1 DEF Ready, SoundInv, WalkInv
<1>6. k = 0
  BY <1>5, NotRoot
<1>7. EntriesIn(Way(frame.path)[k].cluster) = RootDir
  <2>1. Way(frame.path)[0].cluster = 0
    BY <1>1, FrameFields, WayFacts DEF Ready, TypeOK
  <2>2. 0 \notin DOMAIN Dirs
    <3>1. ASSUME 0 \in DOMAIN Chain PROVE FALSE
      <4>1. Len(Chain[0]) \in Nat \ {0} /\ Chain[0][1] = 0
            /\ \A i \in 1 .. Len(Chain[0]) : Chain[0][i] \in DataCluster
        BY <3>1, ChainFacts
      <4>2. 1 \in 1 .. Len(Chain[0])
        BY <4>1
      <4>3. 0 \notin DataCluster
        BY DEF DataCluster
      <4> QED
        BY <4>1, <4>2, <4>3
    <3> QED
      BY <3>1 DEF Ready, SoundVolume, EntriesSound
  <2> QED
    BY <1>6, <2>1, <2>2 DEF EntriesIn
<1>8. entry = EntryAt(RootDir, j + 1)
  <2>1. RootLba \in 0 .. TotalSectors - 1
    BY <1>1, <1>2 DEF Ready, TypeOK, RootFields
  <2>2. fd.buffer = RootLba
    BY <1>2 DEF RootFields
  <2> QED
    BY <1>4, <2>1, <2>2, RootSlot
<1>9. ASSUME NEW f \in AnyFile, RootFields(f), fds' = [fds EXCEPT ![h] = Closed(h, f)]
      PROVE  /\ RootFields(fds'[h]) /\ fds'[h].position = 0
             /\ \A g \in Files : g # h => fds'[g] = fds[g]
  <2>1. fds'[h] = [f EXCEPT !.position = 0, !.cluster = f.first]
    BY <1>1, <1>9 DEF Closed
  <2>2. /\ fds'[h].opened = f.opened /\ fds'[h].isDir = f.isDir /\ fds'[h].size = f.size
        /\ fds'[h].first = f.first /\ fds'[h].cluster = f.first /\ fds'[h].sector = f.sector
        /\ fds'[h].buffer = f.buffer /\ fds'[h].position = 0
    BY <2>1 DEF AnyFile
  <2> QED
    BY <1>1, <1>9, <2>2 DEF RootFields
<1> HIDE DEF entry
<1>10. CASE Readable(fd, ENTRY_SIZE) < ENTRY_SIZE
  <2>1. /\ fds' = [fds EXCEPT ![h] = Closed(h, fd)]
        /\ Return(Opened(frame.path, NoHandle)) /\ UNCHANGED <<cachePos, cache>>
    BY <1>10 DEF ScanEntry
  <2> QED
    BY <1>1, <1>2, <1>9, <2>1, ScanOver
<1>11. CASE ~(Readable(fd, ENTRY_SIZE) < ENTRY_SIZE)
  <2>1. PICK it \in Iterations(fd, ENTRY_SIZE) :
          /\ Remember(it.look)
          /\ \/ /\ entry.name = Head(frame.rest)
                /\ fds' = [fds EXCEPT ![h] = Closed(h, it.fd)]
                /\ frame' = [op |-> "entry", entry |-> entry,
                            path |-> frame.path, rest |-> Tail(frame.rest)]
             \/ /\ fds' = [fds EXCEPT ![h] = Closed(h, it.fd)]
                /\ Return(Opened(frame.path, NoHandle))
             \/ /\ entry # EndEntry
                /\ fds' = [fds EXCEPT ![h] = it.fd]
                /\ UNCHANGED <<frame, reply>>
    BY <1>11 DEF ScanEntry, entry
  <2> DEFINE moved == [fd EXCEPT !.position = @ + ENTRY_SIZE]
  <2>2. Take(fd, ENTRY_SIZE) = ENTRY_SIZE
    BY <1>4 DEF Take
  <2>3. \E l \in NoLookup(fd.cluster) :
          it = [fd |-> moved, look |-> l, lba |-> 0, ok |-> TRUE, stop |-> FALSE]
    BY <1>4, <2>2 DEF Iterations
  <2>4. it.fd = moved /\ it.look.pos = cachePos /\ it.look.cache = cache
    BY <2>3 DEF NoLookup
  <2>5. Whole(cache', cachePos')
    BY <1>2, <2>1, <2>4 DEF Remember
  <2>6. /\ it.fd.position = (j + 1) * ENTRY_SIZE /\ RootFields(it.fd) /\ it.fd \in AnyFile
    <3>1. fd.position + ENTRY_SIZE \in Nat
      BY <1>1, FilesFacts, Geometry
    <3>2. /\ moved \in AnyFile /\ moved.opened = fd.opened /\ moved.isDir = fd.isDir
          /\ moved.size = fd.size /\ moved.first = fd.first /\ moved.cluster = fd.cluster
          /\ moved.sector = fd.sector /\ moved.buffer = fd.buffer
          /\ moved.position = fd.position + ENTRY_SIZE
      BY <1>1, <3>1 DEF AnyFile
    <3> HIDE DEF moved
    <3> QED
      BY <1>2, <1>4, <2>4, <3>2 DEF RootFields
  <2>7. CASE /\ entry.name = Head(frame.rest)
             /\ fds' = [fds EXCEPT ![h] = Closed(h, it.fd)]
             /\ frame' = [op |-> "entry", entry |-> entry,
                         path |-> frame.path, rest |-> Tail(frame.rest)]
    <3>1. entry = Way(frame.path)[k + 1] /\ entry \in AllEntries
      BY <1>1, <1>5, <1>7, <1>8, <2>7, NextName
    <3> QED
      BY <1>1, <1>5, <1>9, <2>5, <2>6, <2>7, <3>1, ScanFound
  <2>8. CASE /\ fds' = [fds EXCEPT ![h] = Closed(h, it.fd)]
             /\ Return(Opened(frame.path, NoHandle))
    BY <1>1, <1>9, <2>5, <2>6, <2>8, ScanOver
  <2>9. CASE /\ entry # EndEntry /\ fds' = [fds EXCEPT ![h] = it.fd]
             /\ UNCHANGED <<frame, reply>>
    <3>1. j + 1 \in 0 .. Len(RootDir)
      <4>1. j + 1 \in DOMAIN RootDir
        BY <1>8, <2>9 DEF EntryAt
      <4>2. DOMAIN RootDir = 1 .. Len(RootDir) /\ Len(RootDir) \in Nat
        BY EntryAssumption
      <4> QED
        BY <4>1, <4>2
    <3>2. fds'[h] = it.fd /\ \A g \in Files : g # h => fds'[g] = fds[g]
      BY <1>1, <2>9
    <3> QED
      BY <1>1, <2>5, <2>6, <2>9, <3>1, <3>2, ScanOn
  <2> QED
    BY <2>1, <2>7, <2>8, <2>9
<1> QED
  BY <1>10, <1>11

(* The entry that a scan finds in a sector of a directory.                 *)
LEMMA ScannedSlot ==
  ASSUME SoundVolume, NEW fd \in AnyFile, IsDirectory(fd)
  PROVE  \E n \in Nat : DirSlot[fd.buffer][(fd.position % SECTOR_SIZE) \div ENTRY_SIZE] =
                          EntryAt(Dirs[fd.first], n)
PROOF
<1> DEFINE c == fd.first
           o == fd.position % SECTOR_SIZE
           s == o \div ENTRY_SIZE
<1>1. c \in DOMAIN Dirs /\ c \in DOMAIN Chain /\ fd.buffer \in Sectors(c)
  BY DEF IsDirectory, OnObject
<1>2. PICK m \in 0 .. SectorCount(c) - 1 : fd.buffer = SectorLba(c, m)
  BY <1>1 DEF Sectors
<1>3. m \in Nat /\ m < SectorCount(c)
  BY <1>1, <1>2, SectorCountType
<1>4. o \in 0 .. SECTOR_SIZE - 1
  BY FilesFacts, DivMod, SectorPositive
<1>5. EntriesPerSector \in Nat /\ ENTRY_SIZE \in Nat \ {0} /\ EntriesPerSector * ENTRY_SIZE = SECTOR_SIZE
  BY Geometry
<1>6. s \in 0 .. EntriesPerSector - 1
  <2> HIDE DEF o
  <2>1. o \in Nat /\ o < EntriesPerSector * ENTRY_SIZE
    BY <1>4, <1>5, SectorPositive
  <2> QED
    BY <1>5, <2>1, QuotientBound
<1> HIDE DEF s
<1>7. DirSlot[fd.buffer][s] = EntryAt(Dirs[c], m * EntriesPerSector + s + 1)
  BY <1>1, <1>2, <1>3, <1>6, DirectorySlot
<1>8. m * EntriesPerSector + s + 1 \in Nat
  BY <1>3, <1>5, <1>6, TimesMonotone
<1> QED
  BY <1>7, <1>8 DEF s

LEMMA DirectoryScanSound ==
  ASSUME Ready, ScanEntry, frame.dir # ROOT_DIRECTORY_HANDLE
  PROVE  SoundInv'
PROOF
<1> DEFINE h == frame.dir
           fd == fds[h]
           entry == DirSlot[fd.buffer][(fd.position % SECTOR_SIZE) \div ENTRY_SIZE]
<1>1. frame.op = "scan" /\ held' = held /\ Whole(cache, cachePos)
  BY DEF ScanEntry, Ready, SoundInv, CacheInv, Mounted
<1>2. PICK k \in 0 .. Len(frame.path) - 1 :
        /\ After(frame.rest, frame.path, k) /\ Way(frame.path)[k].dir
        /\ h \in Handle /\ IsDirectory(fd) /\ fd.first = Way(frame.path)[k].cluster
  BY <1>1 DEF Ready, SoundInv, WalkInv
<1>3. h \in Files /\ fds \in [Files -> AnyFile] /\ fd \in AnyFile
  BY <1>2, NotRoot, ReadyFacts
<1>4. fd.first \in DOMAIN Dirs /\ fd.first \in DOMAIN Chain /\ fd.isDir /\ fd.opened
  BY <1>2 DEF IsDirectory
<1>5. EntriesIn(Way(frame.path)[k].cluster) = Dirs[fd.first]
  BY <1>2, <1>4 DEF EntriesIn
<1>6. PICK n \in Nat : entry = EntryAt(Dirs[fd.first], n)
  BY <1>2, <1>3, ScannedSlot DEF Ready
<1> HIDE DEF entry
<1>7. \A f : fds' = [fds EXCEPT ![h] = f] =>
               fds'[h] = f /\ \A g \in Files : g # h => fds'[g] = fds[g]
  BY <1>3
<1>8. CASE Readable(fd, ENTRY_SIZE) < ENTRY_SIZE
  <2>1. /\ fds' = [fds EXCEPT ![h] = Closed(h, fd)]
        /\ Return(Opened(frame.path, NoHandle)) /\ UNCHANGED <<cachePos, cache>>
    BY <1>8 DEF ScanEntry
  <2> QED
    BY <1>1, <1>7, <2>1, ScanOver
<1>9. CASE ~(Readable(fd, ENTRY_SIZE) < ENTRY_SIZE)
  <2>1. PICK it \in Iterations(fd, ENTRY_SIZE) :
          /\ Remember(it.look)
          /\ \/ /\ entry.name = Head(frame.rest)
                /\ fds' = [fds EXCEPT ![h] = Closed(h, it.fd)]
                /\ frame' = [op |-> "entry", entry |-> entry,
                            path |-> frame.path, rest |-> Tail(frame.rest)]
             \/ /\ fds' = [fds EXCEPT ![h] = Closed(h, it.fd)]
                /\ Return(Opened(frame.path, NoHandle))
             \/ /\ fds' = [fds EXCEPT ![h] = it.fd]
                /\ UNCHANGED <<frame, reply>>
    BY <1>9 DEF ScanEntry, entry
  <2>2. ENTRY_SIZE \in Nat /\ ENTRY_SIZE # 0
    BY Geometry
  <2>3. fd.size = 0
    <3>1. ASSUME fd.size # 0 PROVE FALSE
      <4>1. fd.size = fd.position /\ fd.size \in Nat
        BY <1>2, <1>3, <3>1, FilesFacts DEF IsDirectory
      <4>2. (fd.size - fd.position) % WORD = 0
        <5>1. fd.size - fd.position = 0
          BY <4>1
        <5> QED
          BY <5>1, Geometry
      <4>3. Readable(fd, ENTRY_SIZE) = IF ENTRY_SIZE < 0 THEN ENTRY_SIZE ELSE 0
        BY <1>4, <3>1, <4>2 DEF Readable
      <4> QED
        BY <1>9, <2>2, <4>3
    <3> QED
      BY <3>1
  <2>4. OnObject(fd)
    <3>1. ~(fd.size > 0)
      BY <2>3
    <3> QED
      BY <1>2, <3>1 DEF IsDirectory
  <2>5. Goes(fd, ENTRY_SIZE, it)
    BY <1>1, <1>3, <2>2, <2>4, ReadyFacts, IterationGoes DEF Ready
  <2>6. Whole(cache', cachePos')
    BY <2>1, <2>5 DEF Goes, Remember
  <2>7. IsDirectory(it.fd) /\ it.fd.first = fd.first
    <3>1. it.fd.opened = fd.opened /\ it.fd.isDir = fd.isDir /\ it.fd.first = fd.first
      BY <2>5 DEF Goes
    <3>2. CASE OnObject(it.fd) /\ it.fd.size = fd.size
      BY <1>4, <2>3, <3>1, <3>2 DEF IsDirectory
    <3>3. CASE /\ it.fd.position = Capacity(fd.first) /\ it.fd.size = it.fd.position
               /\ it.fd.buffer = fd.buffer
      <4>1. Capacity(fd.first) > 0
        BY <1>4, SectorCountType
      <4>2. fd.buffer \in Sectors(fd.first)
        BY <2>4 DEF OnObject
      <4> QED
        BY <1>4, <3>1, <3>3, <4>1, <4>2 DEF IsDirectory
    <3> QED
      BY <2>5, <3>1, <3>2, <3>3 DEF Goes
  <2>8. CASE /\ entry.name = Head(frame.rest)
             /\ fds' = [fds EXCEPT ![h] = Closed(h, it.fd)]
             /\ frame' = [op |-> "entry", entry |-> entry,
                         path |-> frame.path, rest |-> Tail(frame.rest)]
    <3>1. entry = Way(frame.path)[k + 1] /\ entry \in AllEntries
      <4>1. Dirs[fd.first] \in {RootDir} \cup {Dirs[c] : c \in DOMAIN Dirs}
        BY <1>4
      <4>2. EntryAt(Dirs[fd.first], n).name = Head(frame.rest)
        BY <1>6, <2>8
      <4> QED
        BY <1>1, <1>2, <1>5, <1>6, <4>1, <4>2, NextName
    <3> QED
      BY <1>1, <1>2, <1>7, <2>6, <2>8, <3>1, ScanFound
  <2>9. CASE /\ fds' = [fds EXCEPT ![h] = Closed(h, it.fd)]
             /\ Return(Opened(frame.path, NoHandle))
    BY <1>1, <1>7, <2>6, <2>9, ScanOver
  <2>10. CASE fds' = [fds EXCEPT ![h] = it.fd] /\ UNCHANGED <<frame, reply>>
    BY <1>1, <1>7, <2>6, <2>7, <2>10, ScanOn
  <2> QED
    BY <2>1, <2>8, <2>9, <2>10
<1> QED
  BY <1>8, <1>9

(* open() goes on without a handle.                                        *)
LEMMA ResumedWithNone ==
  ASSUME Ready, frame.op = "entry", UNCHANGED <<cachePos, cache>>,
         \/ Return(Opened(frame.path, NoHandle)) /\ held' = held
         \/ Resume(NoHandle),
         \A g \in Files : fds[g].opened => fds'[g] = fds[g]
  PROVE  SoundInv'
PROOF
<1>1. held' = held /\ frame' = Idle /\ reply' = Opened(frame.path, NoHandle)
  BY EndsWithNone DEF Return, Ready, SoundVolume
<1>2. frame'.op = "idle"
  BY <1>1 DEF Idle
<1>3. HeldInv'
  <2>1. HeldInv /\ \A g \in held : ~Seeking(g)
    BY DEF Ready, SoundInv, Seeking
  <2>2. \A g \in held : fds'[g] = fds[g]
    BY ReadyFacts DEF IsFile
  <2> QED
    BY <1>1, <2>1, <2>2, HeldKept
<1>4. CacheInv' /\ RootInv'
  <2>1. Mounted /\ RootFields(fds[ROOT_DIRECTORY_HANDLE])
    BY DEF Ready, SoundInv, RootInv, Mounted
  <2>2. fds'[ROOT_DIRECTORY_HANDLE] = fds[ROOT_DIRECTORY_HANDLE]
    BY <2>1, ReadyFacts DEF RootFields
  <2> QED
    BY <1>2, <2>1, <2>2, RootKept DEF Ready, SoundInv, CacheInv, Mounted, Scanning
<1>5. WalkInv' /\ SeekInv' /\ ReadInv'
  BY <1>2 DEF WalkInv, SeekInv, ReadInv
<1>6. AnswerInv'
  BY <1>1 DEF Idle, Opened, AnswerInv, OwnBytesOnly, SeekRepairs, OpensTheRightFile
<1> QED
  BY <1>3, <1>4, <1>5, <1>6 DEF SoundInv

(* The fields of a handle that has just taken an entry.                    *)
LEMMA EntryFields ==
  ASSUME NEW e \in EntryType, NEW isOpen, NEW buffer
  PROVE  LET f == EntryFile(e, isOpen, buffer)
         IN  /\ f.opened = isOpen /\ f.isDir = e.dir /\ f.size = e.size /\ f.position = 0
             /\ f.first = e.cluster /\ f.cluster = e.cluster /\ f.sector = 0
             /\ f.buffer = buffer
PROOF
  BY DEF EntryFile

(* A handle on the first sector of an object.                              *)
LEMMA AtTheStart ==
  ASSUME SoundVolume, NEW f, f.first \in DOMAIN Chain, f.position = 0,
         f.cluster = f.first, f.sector = 0, f.buffer = ClusterToLba(f.first)
  PROVE  OnObject(f)
PROOF
<1> DEFINE c == f.first
<1>1. 0 \div SECTOR_SIZE = 0 /\ 0 \div SectorsPerCluster = 0 /\ 0 % SectorsPerCluster = 0
  BY Geometry
<1>2. SectorCount(c) \in Nat \ {0} /\ Capacity(c) \in Nat \ {0}
  BY SectorCountType
<1>3. Chain[c][1] = c /\ ClusterToLba(c) \in Nat
  BY ChainFacts, LbaOfCluster
<1>4. SectorLba(c, 0) = ClusterToLba(c)
  <2>1. 0 \div SectorsPerCluster + 1 = 1
    BY <1>1
  <2> QED
    BY <1>1, <1>3, <2>1 DEF SectorLba
<1>5. ClusterToLba(c) \in Sectors(c)
  <2>1. 0 \in 0 .. SectorCount(c) - 1
    BY <1>2
  <2> QED
    BY <1>4, <2>1 DEF Sectors
<1>6. Tracked(f)
  <2>1. (f.position \div SECTOR_SIZE) \div SectorsPerCluster + 1 = 1
        /\ (f.position \div SECTOR_SIZE) % SectorsPerCluster = 0
    BY <1>1
  <2> QED
    BY <1>3, <2>1 DEF Tracked
<1>7. f.position < Capacity(c)
  BY <1>2
<1> QED
  BY <1>5, <1>6, <1>7 DEF OnObject

(* What is known of an entry that leads somewhere.                         *)
LEMMA EntryFacts ==
  ASSUME SoundVolume, NEW e \in AllEntries, e \in EntryType, ~InvalidCluster(e.cluster)
  PROVE  /\ e.cluster \in DOMAIN Chain /\ e.dir \in BOOLEAN
         /\ e.dir <=> e.cluster \in DOMAIN Dirs
         /\ e.dir => e.size = 0
         /\ ~e.dir => e.size = FileSize(e.cluster) /\ e.size <= Capacity(e.cluster)
PROOF
<1>1. /\ e.cluster \in DOMAIN Chain
      /\ e.dir <=> e.cluster \in DOMAIN Dirs
      /\ IF e.dir THEN e.size = 0 ELSE e.size <= SectorCount(e.cluster) * SECTOR_SIZE
      /\ \A f \in AllEntries : f.cluster = e.cluster => f.size = e.size
  BY DEF SoundVolume, EntriesSound
<1>2. ASSUME ~e.dir PROVE e.size = FileSize(e.cluster)
  <2> DEFINE f == CHOOSE g \in AllEntries : g.cluster = e.cluster
  <2>1. f \in AllEntries /\ f.cluster = e.cluster
    OBVIOUS
  <2>2. f.size = e.size
    BY <1>1, <2>1
  <2> QED
    BY <1>1, <1>2, <2>2 DEF FileSize
<1>3. e.dir \in BOOLEAN
  BY DEF EntryType
<1> QED
  BY <1>1, <1>2, <1>3 DEF Capacity

LEMMA LoadEntrySound ==
  ASSUME Ready, frame.op = "entry", NEW h \in LowestFree, LoadEntry(h, frame.entry),
         ~NotADirectory, ~InvalidCluster(frame.entry.cluster), UNCHANGED <<cachePos, cache>>
  PROVE  SoundInv'
PROOF
<1> DEFINE e == frame.entry
           lba == ClusterToLba(e.cluster)
           path == frame.path
<1>1. /\ e \in EntryType /\ path \in Seq(Names) /\ frame.rest \in Seq(Names)
      /\ path \in Paths /\ e \in AllEntries
  BY FrameFields DEF Ready, TypeOK, SoundInv, WalkInv
<1>2. PICK k \in 1 .. Len(path) : After(frame.rest, path, k) /\ e = Way(path)[k]
  BY DEF Ready, SoundInv, WalkInv
<1>3. /\ h \in Handle /\ ~fds[h].opened /\ h \notin held /\ h \in Files
      /\ h # ROOT_DIRECTORY_HANDLE /\ fds \in [Files -> AnyFile] /\ held \subseteq Files
  BY ReadyFacts, NotRoot DEF LowestFree, FreeHandles
<1>4. PICK ok \in ReadOutcomes(lba) :
        /\ fds' = [fds EXCEPT ![h] = EntryFile(e, ok, IF ok THEN lba ELSE @.buffer)]
        /\ Resume(IF ok THEN h ELSE NoHandle)
  BY DEF LoadEntry
<1>5. \A g \in Files : g # h => fds'[g] = fds[g]
  BY <1>3, <1>4
<1>6. CASE ~ok
  <2>1. Resume(NoHandle)
    BY <1>4, <1>6
  <2>2. \A g \in Files : fds[g].opened => fds'[g] = fds[g]
    BY <1>3, <1>5
  <2> QED
    BY <2>1, <2>2, ResumedWithNone
<1>7. CASE ok
  <2> DEFINE f == EntryFile(e, ok, lba)
  <2>1. fds'[h] = f /\ Resume(h)
    BY <1>3, <1>4, <1>7
  <2>2. /\ f.opened = ok /\ f.isDir = e.dir /\ f.size = e.size /\ f.position = 0
        /\ f.first = e.cluster /\ f.cluster = e.cluster /\ f.sector = 0 /\ f.buffer = lba
    BY <1>1, EntryFields
  <2>3. /\ e.cluster \in DOMAIN Chain /\ e.dir \in BOOLEAN
        /\ e.dir <=> e.cluster \in DOMAIN Dirs
        /\ e.dir => e.size = 0
        /\ ~e.dir => e.size = FileSize(e.cluster) /\ e.size <= Capacity(e.cluster)
    BY <1>1, EntryFacts DEF Ready
  <2> HIDE DEF f
  <2>4. OnObject(f)
    BY <2>2, <2>3, AtTheStart DEF Ready
  <2>5. Len(path) \in Nat /\ Len(frame.rest) \in Nat /\ Len(frame.rest) = Len(path) - k
    BY <1>1, <1>2 DEF After
  <2>6. CacheInv' /\ RootInv'
    <3>1. Mounted /\ ~Scanning(ROOT_DIRECTORY_HANDLE)
      BY DEF Mounted, Scanning
    <3>2. fds'[ROOT_DIRECTORY_HANDLE] = fds[ROOT_DIRECTORY_HANDLE]
      BY <1>3, <1>5, ReadyFacts
    <3>3. ~Scanning(ROOT_DIRECTORY_HANDLE)'
      BY <1>3, <2>1, NotNull DEF Resume, Return, Idle, Scanning
    <3> QED
      BY <3>1, <3>2, <3>3, RootKept DEF Ready, SoundInv, CacheInv
  <2>7. CASE frame.rest = << >>
    <3>1. /\ frame' = Idle /\ reply' = Opened(path, h) /\ held' = held \cup {h}
          /\ frame'.op = "idle"
      BY <1>3, <2>1, <2>7, NotNull DEF Resume, Return, Idle
    <3>2. k = Len(path)
      BY <2>5, <2>7
    <3>3. e.cluster = Target(path) /\ ~e.dir
      <4>1. Target(path) = e.cluster
        BY <1>2, <3>2 DEF Target
      <4>2. Target(path) \notin DOMAIN Dirs
        BY <1>1 DEF Ready, SoundVolume, OpensFiles
      <4> QED
        BY <2>3, <4>1, <4>2
    <3>4. IsFile(f)
      <4>1. 0 <= e.size
        BY <1>1 DEF EntryType
      <4> QED
        BY <1>7, <2>2, <2>3, <2>4, <3>3, <4>1 DEF IsFile, OnObject
    <3>5. HeldInv'
      <4>1. \A g \in held : h # g /\ fds'[g] = fds[g] /\ ~Seeking(g)
        BY <1>3, <1>5 DEF Seeking
      <4> QED
        BY <1>3, <2>1, <2>4, <3>1, <3>4, <4>1, HeldGiven DEF Ready, SoundInv, OnObject
    <3>6. WalkInv' /\ SeekInv' /\ ReadInv'
      BY <3>1 DEF WalkInv, SeekInv, ReadInv
    <3>7. AnswerInv'
      <4>1. reply'.op = "open" /\ reply'.path = path /\ reply'.handle = h
        BY <3>1 DEF Opened
      <4>2. fds'[h].opened /\ fds'[h].first = Target(path)
        BY <1>7, <2>1, <2>2, <3>3
      <4> QED
        BY <3>1, <4>1, <4>2 DEF AnswerInv, OwnBytesOnly, SeekRepairs, OpensTheRightFile
    <3> QED
      BY <2>6, <3>5, <3>6, <3>7 DEF SoundInv
  <2>8. CASE frame.rest # << >>
    <3>1. frame' = [op |-> "scan", dir |-> h, path |-> path, rest |-> frame.rest]
          /\ held' = held
      BY <1>3, <2>1, <2>8, NotNull DEF Resume
    <3>2. /\ frame'.op = "scan" /\ frame'.dir = h /\ frame'.path = path
          /\ frame'.rest = frame.rest
      BY <3>1
    <3>3. e.dir
      BY <2>8 DEF NotADirectory
    <3>4. IsDirectory(f)
      BY <1>7, <2>2, <2>3, <2>4, <3>3 DEF IsDirectory
    <3>5. k \in 0 .. Len(path) - 1 /\ k # 0
      <4>1. Len(frame.rest) # 0
        BY <1>1, <2>8, EmptySeq
      <4> QED
        BY <2>5, <4>1
    <3>6. HeldInv'
      <4>1. HeldInv /\ \A g \in held : fds'[g] = fds[g] /\ ~Seeking(g)
        BY <1>3, <1>5 DEF Ready, SoundInv, Seeking
      <4> QED
        BY <3>1, <4>1, HeldKept
    <3>7. WalkInv'
      BY <1>1, <1>2, <1>3, <2>1, <2>2, <3>2, <3>3, <3>4, <3>5 DEF WalkInv
    <3>8. SeekInv' /\ ReadInv' /\ AnswerInv'
      BY <3>2, NoAnswer DEF SeekInv, ReadInv
    <3> QED
      BY <2>6, <3>6, <3>7, <3>8 DEF SoundInv
  <2> QED
    BY <2>7, <2>8
<1> QED
  BY <1>6, <1>7

LEMMA OpenEntrySound ==
  ASSUME Ready, OpenEntry
  PROVE  SoundInv'
PROOF
<1>1. frame.op = "entry" /\ UNCHANGED <<cachePos, cache>>
  BY DEF OpenEntry
<1>2. fds \in [Files -> AnyFile]
  BY ReadyFacts
<1>3. CASE fds' = fds /\ held' = held /\ Return(Opened(frame.path, NoHandle))
  BY <1>1, <1>3, ResumedWithNone
<1>4. CASE fds' = fds /\ Resume(NoHandle)
  BY <1>1, <1>4, ResumedWithNone
<1>5. ASSUME NEW h \in LowestFree,
             fds' = [fds EXCEPT ![h] = EntryFile(frame.entry, FALSE, @.buffer)],
             Resume(NoHandle)
      PROVE  SoundInv'
  <2>1. \A g \in Files : fds[g].opened => fds'[g] = fds[g]
    BY <1>2, <1>5 DEF LowestFree, FreeHandles
  <2> QED
    BY <1>1, <1>5, <2>1, ResumedWithNone
<1>6. ASSUME NEW h \in LowestFree, LoadEntry(h, frame.entry),
             ~NotADirectory, ~InvalidCluster(frame.entry.cluster)
      PROVE  SoundInv'
  BY <1>1, <1>6, LoadEntrySound
<1> QED
  BY <1>3, <1>4, <1>5, <1>6 DEF OpenEntry

LEMMA ScanEntrySound ==
  ASSUME Ready, ScanEntry
  PROVE  SoundInv'
PROOF
  BY RootScanSound, DirectoryScanSound

LEMMA SoundStep == Ready /\ [Next]_vars => SoundInv'
PROOF
<1> SUFFICES ASSUME Ready, [Next]_vars PROVE SoundInv'
  OBVIOUS
<1>1. CASE Step
  BY <1>1, MountSound, ScanEntrySound, OpenEntrySound, ReadStepSound, ReadReturnSound,
     SeekStepSound, SeekLoadSound DEF Step
<1>2. CASE Caller
  BY <1>2, OpenSound, ReadCallSound, SeekCallSound, CloseSound DEF Caller
<1>3. CASE UNCHANGED vars
  BY <1>3 DEF vars, Ready, SoundInv, CacheInv, RootInv, HeldInv, WalkInv, SeekInv, ReadInv,
     AnswerInv, Mounted, RootAt, Scanning, Seeking, OwnBytesOnly, SeekRepairs,
     OpensTheRightFile, Between, OnTrack
<1> QED
  BY <1>1, <1>2, <1>3 DEF Next

(***************************************************************************)
(* What the callers rely on, on a sound volume whose FAT can be read.      *)
(* Sectors of files and directories may fail at any time.                  *)
(***************************************************************************)
LEMMA AlwaysSound ==
  ASSUME SoundVolume, NoFillFails
  PROVE  Spec => []SoundInv
PROOF
<1>1. Init => TypeOK /\ HandlesInv /\ SoundInv
  BY InitType, HandlesInit, SoundInit
<1>2. TypeOK /\ HandlesInv /\ SoundInv /\ [Next]_vars => (TypeOK /\ HandlesInv /\ SoundInv)'
  BY TypeStep, HandlesStep, SoundStep DEF Ready, SoundVolume
<1> QED
  BY <1>1, <1>2, PTL DEF Spec

(* Between calls, the cluster and the sector number kept in a handle are   *)
(* those of its position, whatever sectors read(), seek() and open() could *)
(* not read.                                                               *)
THEOREM HandlesStayOnTrack ==
  ASSUME SoundVolume, NoFillFails
  PROVE  Spec => []HandlesOnTrack
PROOF
<1>1. SoundInv => HandlesOnTrack
  BY DEF SoundInv, HeldInv, HandlesOnTrack, Between, Seeking, OnTrack, Tracked
<1> QED
  BY <1>1, AlwaysSound, PTL

(* read() delivers bytes of the file's own sectors, at most as many as     *)
(* were asked for, and none past the end of the file.                      *)
THEOREM ReadsOwnBytes ==
  ASSUME SoundVolume, NoFillFails
  PROVE  Spec => []OwnBytesOnly
PROOF
<1>1. SoundInv => OwnBytesOnly
  BY DEF SoundInv, AnswerInv
<1> QED
  BY <1>1, AlwaysSound, PTL

(* A seek() that reports success leaves position, cluster, sector and      *)
(* buffer in agreement, whatever the reads before it did to the handle.    *)
THEOREM SeeksRepair ==
  ASSUME SoundVolume, NoFillFails
  PROVE  Spec => []SeekRepairs
PROOF
<1>1. SoundInv => SeekRepairs
  BY DEF SoundInv, AnswerInv
<1> QED
  BY <1>1, AlwaysSound, PTL

(* A handle open() gives out is open on the object its path names.         *)
THEOREM OpensWhatThePathNames ==
  ASSUME SoundVolume, NoFillFails
  PROVE  Spec => []OpensTheRightFile
PROOF
<1>1. SoundInv => OpensTheRightFile
  BY DEF SoundInv, AnswerInv
<1> QED
  BY <1>1, AlwaysSound, PTL

(***************************************************************************)
(* Refinement.  The steps of FileStore, in terms of the driver's state.    *)
(***************************************************************************)
NoFile == [file |-> 0, pos |-> 0]

SameCursors == \A h \in Handle : CursorOf(h)' = CursorOf(h)

OthersStay(g) == \A h \in Handle : h # g => CursorOf(h)' = CursorOf(h)

LEMMA StoreRests ==
  ASSUME SameCursors, reply' = reply
  PROVE  [Store!Next]_<<[h \in Handle |-> CursorOf(h)], reply>>
PROOF
  BY DEF SameCursors

LEMMA StoreAsks ==
  ASSUME SameCursors, reply' = Waiting
  PROVE  Store!Next
PROOF
  BY DEF SameCursors, Store!Next, Store!Ask, Store!Waiting, Waiting

LEMMA StoreOpens ==
  ASSUME NEW path \in Paths, NEW g \in Handle, Target(path) # 0, CursorOf(g) = NoFile,
         CursorOf(g)' = [file |-> Target(path), pos |-> 0], OthersStay(g),
         reply' = Opened(path, g)
  PROVE  Store!Next
PROOF
<1> DEFINE cursor == [h \in Handle |-> CursorOf(h)]
<1>1. ~Store!IsOpen(g)
  BY DEF Store!IsOpen, Store!Closed, NoFile
<1>2. cursor' = [cursor EXCEPT ![g] = [file |-> Target(path), pos |-> 0]]
  BY DEF OthersStay
<1>3. Store!Open(path)
  BY <1>1, <1>2 DEF Store!Open, Opened
<1> QED
  BY <1>3 DEF Store!Next

LEMMA StoreOpensNothing ==
  ASSUME NEW path \in Paths, SameCursors, reply' = Opened(path, NoHandle),
         Target(path) = 0 \/ \A h \in Handle : CursorOf(h) # NoFile
  PROVE  Store!Next
PROOF
<1>1. Store!Open(path)
  BY DEF Store!Open, Opened, SameCursors, Store!IsOpen, Store!Closed, NoFile
<1> QED
  BY <1>1 DEF Store!Next

LEMMA StoreReads ==
  ASSUME NEW g \in Handle, NEW n \in ReadSizes, NEW c, NEW p, NEW end,
         CursorOf(g) = [file |-> c, pos |-> p], c # 0,
         end = Store!Least(p + n, Len(Content(c))),
         CursorOf(g)' = [file |-> c, pos |-> end], OthersStay(g),
         reply' = [op |-> "read", handle |-> g, start |-> p, want |-> n,
                   got |-> SubSeq(Content(c), p + 1, end)]
  PROVE  Store!Next
PROOF
<1> DEFINE cursor == [h \in Handle |-> CursorOf(h)]
<1>1. Store!IsOpen(g)
  BY DEF Store!IsOpen, Store!Closed
<1>2. cursor[g] = [file |-> c, pos |-> p]
  OBVIOUS
<1>3. cursor' = [cursor EXCEPT ![g].pos = end]
  <2>1. cursor' = [cursor EXCEPT ![g] = [file |-> c, pos |-> end]]
    BY DEF OthersStay
  <2>2. [cursor[g] EXCEPT !.pos = end] = [file |-> c, pos |-> end]
    BY <1>2
  <2> HIDE DEF cursor
  <2> QED
    BY <2>1, <2>2
<1>4. Store!Read(g, n)
  <2>1. cursor[g].file = c /\ cursor[g].pos = p
    BY <1>2
  <2> HIDE DEF cursor
  <2> QED
    BY <1>1, <1>3, <2>1 DEF Store!Read, cursor
<1> QED
  BY <1>4 DEF Store!Next

LEMMA StoreSeeks ==
  ASSUME NEW g \in Handle, NEW p \in SeekTargets, NEW c, NEW q, NEW ok,
         CursorOf(g) = [file |-> c, pos |-> q], c # 0, OthersStay(g),
         CursorOf(g)' = [file |-> c, pos |-> IF p <= Len(Content(c)) THEN p ELSE q],
         ok \in {p < Len(Content(c)), p <= Len(Content(c))},
         reply' = Sought(g, p, ok)
  PROVE  Store!Next
PROOF
<1> DEFINE cursor == [h \in Handle |-> CursorOf(h)]
<1>1. Store!IsOpen(g)
  BY DEF Store!IsOpen, Store!Closed
<1>2. cursor[g] = [file |-> c, pos |-> q]
  OBVIOUS
<1>3. cursor' = IF p <= Len(Content(c)) THEN [cursor EXCEPT ![g].pos = p] ELSE cursor
  <2> DEFINE to == IF p <= Len(Content(c)) THEN p ELSE q
  <2>1. cursor' = [cursor EXCEPT ![g] = [file |-> c, pos |-> to]]
    BY DEF OthersStay
  <2>2. [cursor[g] EXCEPT !.pos = to] = [file |-> c, pos |-> to]
    BY <1>2
  <2>3. [cursor EXCEPT ![g] = cursor[g]] = cursor
    OBVIOUS
  <2> HIDE DEF cursor
  <2> QED
    BY <1>2, <2>1, <2>2, <2>3
<1>4. Store!Seek(g, p)
  <2>1. cursor[g].file = c
    BY <1>2
  <2> HIDE DEF cursor
  <2> QED
    BY <1>1, <1>3, <2>1 DEF Store!Seek, Sought, cursor
<1> QED
  BY <1>4 DEF Store!Next

LEMMA StoreCloses ==
  ASSUME NEW g \in Handle, NEW c, NEW p, CursorOf(g) = [file |-> c, pos |-> p], c # 0,
         CursorOf(g)' = NoFile, OthersStay(g), reply' = [op |-> "close", handle |-> g]
  PROVE  Store!Next
PROOF
<1> DEFINE cursor == [h \in Handle |-> CursorOf(h)]
<1>1. Store!IsOpen(g)
  BY DEF Store!IsOpen, Store!Closed
<1>2. cursor' = [cursor EXCEPT ![g] = NoFile]
  BY DEF OthersStay
<1>3. Store!Close(g)
  BY <1>1, <1>2 DEF Store!Close, Store!Closed, NoFile
<1> QED
  BY <1>3 DEF Store!Next

(***************************************************************************)
(* The invariant, where no read fails: buffers hold the sector of the      *)
(* position, bytes are those at the cursor, scans have passed nothing they *)
(* look for.                                                               *)
(***************************************************************************)
Exact(fd) == fd.buffer = SectorLba(fd.first, fd.position \div SECTOR_SIZE)

HeldExact ==
  \A h \in held : /\ fds[h].size < WORD
                  /\ fds[h].position < fds[h].size /\ ~Seeking(h) => Exact(fds[h])

Passed(entries, name, p) ==
  \E i \in Nat : /\ p = i * ENTRY_SIZE
                 /\ \A j \in DOMAIN entries : j <= i => entries[j].name # name

ScanExact ==
  frame.op = "scan" =>
    LET fd == fds[frame.dir]
    IN  IF frame.dir = ROOT_DIRECTORY_HANDLE
        THEN Passed(RootDir, Head(frame.rest), fd.position)
        ELSE /\ Passed(Dirs[fd.first], Head(frame.rest), fd.position)
             /\ IF fd.size = 0 THEN Exact(fd) ELSE fd.position = Capacity(fd.first)

ReadExact ==
  frame.op = "read" =>
    LET fd == fds[frame.handle]
    IN  /\ frame.want \in ReadSizes
        /\ Len(frame.got) + frame.left = Store!Least(frame.want, fd.size - frame.start)
        /\ \A i \in 1 .. Len(frame.got) : frame.got[i] = Place(fd.first, frame.start + i - 1)

SeekExact == frame.op = "seek" => frame.to \in SeekTargets

ExactInv == HeldExact /\ ScanExact /\ ReadExact /\ SeekExact

Perfect == Ready /\ SoundInv' /\ EntriesComplete /\ NoSectorFails /\ ExactInv

(* A sector of the drive is read.                                          *)
LEMMA NoReadFails ==
  ASSUME NoSectorFails, TypeOK, NEW lba \in 0 .. TotalSectors - 1, NEW ok \in ReadOutcomes(lba)
  PROVE  ok = TRUE
PROOF
<1>1. sectorFaults \in 0 .. 0
  BY TypeOKFacts DEF NoSectorFails
<1>2. lba < TotalSectors /\ ~(sectorFaults < 0)
  BY <1>1, Geometry
<1> QED
  BY <1>2 DEF ReadOutcomes, NoSectorFails

LEMMA FileReadWell ==
  ASSUME SoundVolume, NoSectorFails, TypeOK, NEW c \in DOMAIN Chain, NEW k \in Nat,
         k < SectorCount(c), NEW ok \in ReadOutcomes(SectorLba(c, k))
  PROVE  ok = TRUE
PROOF
<1>1. SectorLba(c, k) \in 0 .. TotalSectors - 1
  BY LbaOnVolume
<1> QED
  BY <1>1, NoReadFails

(* Entry i of a directory: its sector, its slot, and the room left there.  *)
LEMMA SlotOfEntry ==
  ASSUME NEW i \in Nat
  PROVE  LET p == i * ENTRY_SIZE
             n == EntriesPerSector
         IN  /\ p \in Nat /\ n \in Nat \ {0}
             /\ p \div SECTOR_SIZE = i \div n /\ i \div n \in Nat
             /\ (p % SECTOR_SIZE) \div ENTRY_SIZE = i % n /\ i % n \in 0 .. n - 1
             /\ i = (i \div n) * n + (i % n)
             /\ ENTRY_SIZE <= SECTOR_SIZE - (p % SECTOR_SIZE)
             /\ p + ENTRY_SIZE = (i + 1) * ENTRY_SIZE
PROOF
<1> DEFINE n == EntriesPerSector
           e == ENTRY_SIZE
           z == SECTOR_SIZE
           q == i \div n
           r == i % n
<1>1. e \in Nat \ {0} /\ z \in Nat \ {0} /\ n \in Nat /\ n * e = z
  BY Geometry
<1>2. n # 0
  BY <1>1
<1>3. q \in Nat /\ r \in 0 .. n - 1 /\ i = n * q + r
  BY <1>1, <1>2, DivMod
<1> HIDE DEF n, e, z, q, r
<1>4. r \in Nat /\ r + 1 <= n
  BY <1>1, <1>3
<1>5. r * e \in Nat /\ (r + 1) * e <= n * e /\ (r + 1) * e = r * e + e
  BY <1>1, <1>4, TimesMonotone
<1>6. i * e = q * z + r * e
  <2>1. \A a, b, c, d \in Nat : (a * b + c) * d = b * (a * d) + c * d
    OBVIOUS
  <2>2. (n * q + r) * e = q * (n * e) + r * e
    BY <1>1, <1>3, <1>4, <2>1
  <2> QED
    BY <1>1, <1>3, <2>2
<1>7. r * e \in 0 .. z - 1 /\ r * e + e <= z
  BY <1>1, <1>5
<1>8. (i * e) \div z = q /\ (i * e) % z = r * e
  <2> DEFINE x == r * e
  <2>1. x \in 0 .. z - 1
    BY <1>7
  <2> HIDE DEF x
  <2>2. (q * z + x) \div z = q /\ (q * z + x) % z = x
    BY <1>1, <1>3, <2>1, DivUnique
  <2> QED
    BY <1>6, <2>2 DEF x
<1>9. (r * e) \div e = r
  <2>1. (r * e + 0) \div e = r /\ 0 \in 0 .. e - 1
    BY <1>1, <1>4, DivUnique
  <2> QED
    BY <1>5, <2>1
<1>10. e <= z - r * e
  BY <1>1, <1>5, <1>7
<1>11. i * e \in Nat /\ i * e + e = (i + 1) * e /\ i = q * n + r
  BY <1>1, <1>3, TimesMonotone
<1> QED
  BY <1>1, <1>2, <1>3, <1>8, <1>9, <1>10, <1>11 DEF n, e, z, q, r

(* An entry is not looked for behind one that is not there.                *)
LEMMA WayLost ==
  ASSUME NEW path \in Seq(Names), NEW k \in 0 .. Len(path), Way(path)[k] = EndEntry
  PROVE  Target(path) = 0
PROOF
<1> DEFINE w == Way(path)
           S == {m \in k .. Len(path) : w[m] # EndEntry}
<1>1. Len(path) \in Nat /\ k \in Nat
  OBVIOUS
<1>2. \A m \in 1 .. Len(path) : ~w[m - 1].dir => w[m] = EndEntry
  BY WayFacts
<1>3. w[k] = EndEntry /\ EndEntry.dir = FALSE /\ EndEntry.cluster = 0
  BY DEF EndEntry
<1> HIDE DEF w
<1>4. S = {}
  <2>1. SUFFICES ASSUME S # {} PROVE FALSE
    OBVIOUS
  <2>2. PICK m \in S : \A q \in S : m <= q
    <3>1. S \subseteq Nat
      BY <1>1
    <3> HIDE DEF S
    <3> QED
      BY <2>1, <3>1, Least, Zenon
  <2>3. m \in k .. Len(path) /\ w[m] # EndEntry /\ m # k
    BY <1>3
  <2>4. m - 1 \in k .. Len(path) /\ ~(m <= m - 1) /\ m \in 1 .. Len(path)
    BY <1>1, <2>3
  <2>5. w[m - 1] = EndEntry
    BY <2>2, <2>4
  <2> QED
    BY <1>2, <1>3, <2>3, <2>4, <2>5
<1>5. w[Len(path)] = EndEntry
  <2>1. Len(path) \in k .. Len(path)
    BY <1>1
  <2> QED
    BY <1>4, <2>1
<1> QED
  BY <1>3, <1>5 DEF w, Target

(* A name that no entry has leads nowhere.                                 *)
LEMMA NameMissed ==
  ASSUME Ready, frame.op = "scan",
         NEW k \in 0 .. Len(frame.path) - 1, After(frame.rest, frame.path, k),
         Way(frame.path)[k].dir,
         NEW entries, EntriesIn(Way(frame.path)[k].cluster) = entries,
         \A j \in DOMAIN entries : entries[j].name # Head(frame.rest)
  PROVE  Target(frame.path) = 0
PROOF
<1>1. frame.rest \in Seq(Names) /\ frame.rest # << >> /\ frame.path \in Seq(Names)
  BY FrameFields DEF Ready, TypeOK
<1>2. Len(frame.path) \in Nat /\ Len(frame.rest) \in Nat \ {0}
  BY <1>1
<1>3. k + 1 \in 1 .. Len(frame.path) /\ (k + 1) - 1 = k /\ 1 \in 1 .. Len(frame.rest)
      /\ k + 1 \in 0 .. Len(frame.path)
  BY <1>2
<1>4. Head(frame.rest) = frame.path[k + 1]
  <2>1. Head(frame.rest) = frame.rest[1]
    BY <1>1, HeadTailProperties
  <2> QED
    BY <1>3, <2>1 DEF After
<1>5. Way(frame.path)[k + 1] = Named(entries, frame.path[k + 1])
  <2>1. \A i \in 1 .. Len(frame.path) :
          Way(frame.path)[i - 1].dir =>
            Way(frame.path)[i] = Named(EntriesIn(Way(frame.path)[i - 1].cluster), frame.path[i])
    BY <1>1, WayFacts, Zenon
  <2>2. Way(frame.path)[(k + 1) - 1].dir =>
          Way(frame.path)[k + 1] =
            Named(EntriesIn(Way(frame.path)[(k + 1) - 1].cluster), frame.path[k + 1])
    BY <1>3, <2>1, Zenon
  <2> QED
    BY <1>3, <2>2
<1>6. Named(entries, frame.path[k + 1]) = EndEntry
  BY <1>4 DEF Named
<1> QED
  BY <1>1, <1>3, <1>5, <1>6, WayLost

(***************************************************************************)
(* What the steps leave of the invariant and of the cursors.               *)
(***************************************************************************)
LEMMA ExactKept ==
  ASSUME HeldExact, held' \subseteq held,
         \A h \in held' : fds'[h] = fds[h] /\ (Seeking(h) => Seeking(h)')
  PROVE  HeldExact'
PROOF
  BY DEF HeldExact, Exact

LEMMA CursorsKept ==
  ASSUME held' = held, \A h \in held : fds'[h] = fds[h] /\ ~Moving(h) /\ ~Moving(h)'
  PROVE  SameCursors
PROOF
  BY DEF SameCursors, CursorOf

LEMMA CursorHeld ==
  ASSUME NEW h \in held, ~Moving(h)
  PROVE  CursorOf(h) = [file |-> fds[h].first, pos |-> fds[h].position]
PROOF
  BY DEF CursorOf

LEMMA CursorFree ==
  ASSUME NEW h, h \notin held
  PROVE  CursorOf(h) = NoFile
PROOF
  BY DEF CursorOf, NoFile

(* Files are not at cluster 0.                                             *)
LEMMA FirstCluster ==
  ASSUME NEW c \in DOMAIN Chain
  PROVE  c # 0
PROOF
<1>1. Len(Chain[c]) \in Nat \ {0} /\ Chain[c][1] = c
      /\ \A i \in 1 .. Len(Chain[c]) : Chain[c][i] \in DataCluster
  BY ChainFacts
<1>2. 1 \in 1 .. Len(Chain[c])
  BY <1>1
<1>3. 0 \notin DataCluster
  BY DEF DataCluster
<1> QED
  BY <1>1, <1>2, <1>3

LEMMA ContentLength ==
  ASSUME NEW fd \in AnyFile, IsFile(fd)
  PROVE  Len(Content(fd.first)) = fd.size
PROOF
<1>1. FileSize(fd.first) = fd.size /\ fd.size \in Nat
  BY FilesFacts DEF IsFile
<1>2. Content(fd.first) = [p \in 1 .. fd.size |-> Place(fd.first, p - 1)]
  BY <1>1 DEF Content
<1> QED
  BY <1>1, <1>2

(***************************************************************************)
(* The steps, one by one.                                                  *)
(***************************************************************************)
Refines == Store!Next \/ (SameCursors /\ reply' = reply)

LEMMA PerfectFacts ==
  ASSUME Perfect
  PROVE  /\ TypeOK /\ SoundVolume /\ HeldExact
         /\ \A h \in held : /\ h \in Handle /\ h \in Files /\ h # ROOT_DIRECTORY_HANDLE
                            /\ IsFile(fds[h]) /\ fds[h] \in AnyFile
                            /\ fds[h].first # 0 /\ fds[h].size < WORD
                            /\ Len(Content(fds[h].first)) = fds[h].size
                            /\ fds[h].size \in Nat /\ fds[h].position \in Nat
                            /\ fds[h].position <= fds[h].size
         /\ fds \in [Files -> AnyFile] /\ held \subseteq Files
PROOF
<1>1. Ready /\ TypeOK /\ SoundVolume /\ HeldExact
  BY DEF Perfect, Ready, ExactInv
<1>2. \A h \in held : /\ h \in Handle /\ h \in Files /\ h # ROOT_DIRECTORY_HANDLE
                      /\ IsFile(fds[h]) /\ fds[h] \in AnyFile /\ fds[h].size < WORD
  BY <1>1, ReadyFacts DEF HeldExact
<1>3. \A h \in held : /\ fds[h].first # 0 /\ fds[h].position <= fds[h].size
                      /\ Len(Content(fds[h].first)) = fds[h].size
                      /\ fds[h].size \in Nat /\ fds[h].position \in Nat
  BY <1>2, FirstCluster, ContentLength, FilesFacts DEF IsFile
<1>4. fds \in [Files -> AnyFile] /\ held \subseteq Files
  BY <1>1, ReadyFacts DEF TypeOK
<1> QED
  BY <1>1, <1>2, <1>3, <1>4

LEMMA MountRefines ==
  ASSUME Perfect, Mount
  PROVE  ExactInv' /\ Refines
PROOF
<1>1. /\ frame.op = "unmounted" /\ held' = held /\ reply' = reply
      /\ frame'.op \in {"failed", "idle"}
  BY DEF Mount, Idle
<1>2. \A h \in held : fds'[h] = fds[h]
  <2>1. fds' = fds \/ \E f : fds' = [fds EXCEPT ![ROOT_DIRECTORY_HANDLE] = f]
    BY DEF Mount
  <2> QED
    BY <2>1, PerfectFacts
<1>3. \A h : ~Moving(h) /\ ~Moving(h)' /\ ~Seeking(h)
  BY <1>1 DEF Moving, Seeking
<1>4. SameCursors
  BY <1>1, <1>2, <1>3, CursorsKept
<1>5. HeldExact'
  BY <1>1, <1>2, <1>3, PerfectFacts, ExactKept
<1> QED
  BY <1>1, <1>4, <1>5 DEF Refines, ExactInv, ScanExact, ReadExact, SeekExact

LEMMA OpenRefines ==
  ASSUME Perfect, NEW path \in Paths, Open(path)
  PROVE  ExactInv' /\ Refines
PROOF
<1>1. path # << >>
  BY DEF Perfect, Ready, SoundVolume, OpensFiles
<1>2. /\ frame.op = "idle" /\ fds' = fds /\ held' = held /\ reply' = Waiting
      /\ frame' = [op |-> "scan", dir |-> ROOT_DIRECTORY_HANDLE, path |-> path, rest |-> path]
  BY <1>1 DEF Open, Begin
<1>3. \A h : ~Moving(h) /\ ~Moving(h)' /\ ~Seeking(h)
  BY <1>2 DEF Moving, Seeking
<1>4. SameCursors
  BY <1>2, <1>3, CursorsKept
<1>5. HeldExact'
  BY <1>2, <1>3, PerfectFacts, ExactKept
<1>6. ScanExact'
  <2>1. fds[ROOT_DIRECTORY_HANDLE].position = 0
    BY <1>2 DEF Perfect, Ready, SoundInv, RootInv, Mounted, RootAt, Scanning
  <2>2. 0 = 0 * ENTRY_SIZE /\ \A j \in DOMAIN RootDir : ~(j <= 0)
    BY EntryAssumption, Geometry
  <2>3. Passed(RootDir, Head(path), 0)
    BY <2>2 DEF Passed
  <2>4. frame'.dir = ROOT_DIRECTORY_HANDLE /\ frame'.rest = path
    BY <1>2
  <2> QED
    BY <1>2, <2>1, <2>3, <2>4 DEF ScanExact
<1> QED
  BY <1>2, <1>4, <1>5, <1>6, StoreAsks DEF Refines, ExactInv, ReadExact, SeekExact

LEMMA CloseRefines ==
  ASSUME Perfect, NEW h \in held, Close(h)
  PROVE  ExactInv' /\ Refines
PROOF
<1>1. /\ frame.op = "idle" /\ frame' = frame /\ held' = held \ {h}
      /\ fds' = [fds EXCEPT ![h] = Closed(h, fds[h])]
      /\ reply' = [op |-> "close", handle |-> h]
  BY DEF Close
<1>2. h \in Handle /\ h \in Files /\ fds[h].first # 0 /\ fds \in [Files -> AnyFile]
      /\ held \subseteq Files
  BY PerfectFacts
<1>3. \A g : ~Moving(g) /\ ~Moving(g)' /\ ~Seeking(g)
  BY <1>1 DEF Moving, Seeking
<1>4. \A g \in held' : g \in held /\ fds'[g] = fds[g]
  BY <1>1, <1>2
<1>5. HeldExact'
  BY <1>1, <1>3, <1>4, PerfectFacts, ExactKept
<1>6. CursorOf(h) = [file |-> fds[h].first, pos |-> fds[h].position]
  BY <1>3, CursorHeld
<1>7. CursorOf(h)' = NoFile
  BY <1>1 DEF CursorOf, NoFile
<1>8. OthersStay(h)
  BY <1>1, <1>3, <1>4 DEF OthersStay, CursorOf
<1>9. Store!Next
  BY <1>1, <1>2, <1>6, <1>7, <1>8, StoreCloses
<1> QED
  BY <1>1, <1>5, <1>9 DEF Refines, ExactInv, ScanExact, ReadExact, SeekExact

(* A file is read up to the count asked for or to its end.                 *)
LEMMA ReadableIs ==
  ASSUME NEW fd \in AnyFile, IsFile(fd), fd.size < WORD, NEW n \in Nat
  PROVE  Readable(fd, n) = Store!Least(n, fd.size - fd.position)
PROOF
<1>1. fd.size \in Nat /\ fd.position \in Nat /\ fd.position <= fd.size /\ fd.opened /\ ~fd.isDir
  BY FilesFacts DEF IsFile
<1>2. fd.size - fd.position \in Nat /\ fd.size - fd.position < WORD /\ WORD \in Nat
  BY <1>1, Geometry
<1>3. (fd.size - fd.position) % WORD = fd.size - fd.position
  <2>1. \A x \in Nat : x < WORD => x % WORD = x
    BY <1>2
  <2> QED
    BY <1>2, <2>1
<1> QED
  BY <1>1, <1>3 DEF Readable, Store!Least

LEMMA ReadCallRefines ==
  ASSUME Perfect, NEW h \in held, NEW n \in ReadSizes, Read(h, n)
  PROVE  ExactInv' /\ Refines
PROOF
<1>1. /\ frame.op = "idle" /\ fds' = fds /\ held' = held /\ reply' = Waiting
      /\ frame' = [op |-> "read", handle |-> h, start |-> fds[h].position, want |-> n,
                   left |-> Readable(fds[h], n), got |-> << >>]
  BY DEF Read, Begin
<1>2. /\ frame'.op = "read" /\ frame'.handle = h /\ frame'.start = fds[h].position
      /\ frame'.want = n /\ frame'.left = Readable(fds[h], n) /\ frame'.got = << >>
  BY <1>1
<1>3. \A g : ~Moving(g) /\ ~Seeking(g) /\ (Moving(g)' => g = h)
  BY <1>1, <1>2 DEF Moving, Seeking
<1>4. SameCursors
  BY <1>1, <1>2, <1>3 DEF SameCursors, CursorOf
<1>5. HeldExact'
  BY <1>1, <1>3, PerfectFacts, ExactKept
<1>6. ReadExact'
  <2>1. Readable(fds[h], n) = Store!Least(n, fds[h].size - fds[h].position) /\ n \in Nat
    BY PerfectFacts, ReadableIs, DriverAssumption
  <2>2. Readable(fds[h], n) \in Nat
    BY <2>1, PerfectFacts DEF Store!Least
  <2>3. Len(<< >>) + Readable(fds[h], n) = Readable(fds[h], n) /\ 1 .. Len(<< >>) = {}
    BY <2>2
  <2> QED
    BY <1>1, <1>2, <2>1, <2>3 DEF ReadExact
<1> QED
  BY <1>1, <1>2, <1>4, <1>5, <1>6, StoreAsks DEF Refines, ExactInv, ScanExact, SeekExact

LEMMA PlaceType ==
  ASSUME SoundVolume, NEW c \in DOMAIN Chain, NEW p \in Nat, p < Capacity(c)
  PROVE  Place(c, p) \in Int \X Int
PROOF
<1>1. p \div SECTOR_SIZE \in Nat /\ p \div SECTOR_SIZE < SectorCount(c)
  BY PositionInFile
<1>2. SectorLba(c, p \div SECTOR_SIZE) \in Nat
  BY <1>1, LbaOnVolume
<1>3. p % SECTOR_SIZE \in Nat
  BY DivMod, SectorPositive
<1> QED
  BY <1>2, <1>3 DEF Place

(* The bytes read are the stretch of the file that was asked for.          *)
LEMMA ReadReturnRefines ==
  ASSUME Perfect, ReadReturn
  PROVE  ExactInv' /\ Refines
PROOF
<1>0. PICK h : h = frame.handle
  OBVIOUS
<1> DEFINE c == fds[h].first
           got == frame.got
           start == frame.start
           want == frame.want
           end == Store!Least(start + want, Len(Content(c)))
<1>1. /\ frame.op = "read" /\ frame.left = 0 /\ frame' = Idle /\ fds' = fds /\ held' = held
      /\ reply' = [op |-> "read", handle |-> h, start |-> start, want |-> want, got |-> got]
  BY <1>0 DEF ReadReturn, Return
<1>2. frame \in [op : {"read"}, handle : Files, start : Nat, want : Nat, left : Nat,
                 got : Seq(Int \X Int)]
  BY <1>1, PerfectFacts, FrameFields DEF TypeOK
<1>3. h \in held /\ fds[h].position = start + Len(got)
  BY <1>0, <1>1 DEF Perfect, Ready, SoundInv, ReadInv
<1>4. /\ h \in Handle /\ c # 0 /\ IsFile(fds[h]) /\ Len(Content(c)) = fds[h].size
      /\ fds[h].size \in Nat /\ fds[h].position <= fds[h].size
  BY <1>3, PerfectFacts
<1>5. /\ want \in ReadSizes /\ Len(got) + 0 = Store!Least(want, fds[h].size - start)
      /\ \A i \in 1 .. Len(got) : got[i] = Place(c, start + i - 1)
  BY <1>0, <1>1 DEF Perfect, ExactInv, ReadExact
<1>6. got \in Seq(Int \X Int) /\ Len(got) \in Nat /\ start \in Nat /\ want \in Nat
  BY <1>2
<1>7. \A g : (Moving(g) <=> g = h) /\ ~Moving(g)' /\ ~Seeking(g)
  BY <1>0, <1>1 DEF Moving, Seeking, Idle
<1>8. HeldExact'
  BY <1>1, <1>7, PerfectFacts, ExactKept
<1>9. CursorOf(h) = [file |-> c, pos |-> start]
  BY <1>3, <1>7 DEF CursorOf
<1>10. CursorOf(h)' = [file |-> c, pos |-> start + Len(got)]
  BY <1>1, <1>3, <1>7 DEF CursorOf
<1>11. OthersStay(h)
  BY <1>1, <1>7 DEF OthersStay, CursorOf
<1>12. end = start + Len(got) /\ end <= fds[h].size
  <2> DEFINE size == fds[h].size
  <2>1. Len(got) = IF want < size - start THEN want ELSE size - start
    BY <1>5, <1>6 DEF Store!Least
  <2>2. end = IF start + want < size THEN start + want ELSE size
    BY <1>4 DEF Store!Least
  <2>3. size \in Nat /\ start + Len(got) <= size
    BY <1>3, <1>4
  <2> HIDE DEF end, size, got, start, want
  <2> QED
    BY <1>6, <2>1, <2>2, <2>3 DEF size
<1>13. got = SubSeq(Content(c), start + 1, end)
  <2> DEFINE size == fds[h].size
             part == SubSeq(Content(c), start + 1, end)
  <2>1. Content(c) = [p \in 1 .. size |-> Place(c, p - 1)]
    BY <1>4 DEF Content, IsFile
  <2>2. start + 1 \in Int /\ end \in Int /\ size \in Nat
    BY <1>4, <1>6, <1>12
  <2>3. \A i \in start + 1 .. end : i \in 1 .. size
    <3> HIDE DEF end, size, start, got
    <3> QED
      BY <1>6, <1>12, <2>2 DEF size
  <2>4. \A i \in 1 .. size : Content(c)[i] = Place(c, i - 1) /\ Content(c)[i] \in Int \X Int
    <3>1. ASSUME NEW i \in 1 .. size PROVE Place(c, i - 1) \in Int \X Int
      <4>1. c \in DOMAIN Chain /\ size <= Capacity(c) /\ Capacity(c) \in Nat
        BY <1>4, SectorCountType DEF IsFile
      <4>2. i - 1 \in Nat /\ i - 1 < Capacity(c)
        BY <2>2, <4>1
      <4> QED
        BY <4>1, <4>2, PerfectFacts, PlaceType
    <3> QED
      BY <2>1, <3>1
  <2> HIDE DEF end
  <2>5. /\ part \in Seq(Int \X Int)
        /\ Len(part) = IF start + 1 <= end THEN end - (start + 1) + 1 ELSE 0
        /\ \A i \in 1 .. end - (start + 1) + 1 : part[i] = Content(c)[(start + 1) + i - 1]
    <3>1. \A i \in start + 1 .. end : Content(c)[i] \in Int \X Int
      BY <2>3, <2>4
    <3> HIDE DEF size, start, c
    <3> QED
      BY <2>2, <3>1, SubSeqProperties
  <2> HIDE DEF part, size, start, got, c
  <2>6. Len(part) = Len(got) /\ end - (start + 1) + 1 = Len(got)
    BY <1>6, <1>12, <2>5
  <2>7. ASSUME NEW i \in 1 .. Len(got) PROVE got[i] = part[i]
    <3>1. (start + 1) + i - 1 = start + i /\ start + i \in 1 .. size /\ (start + i) - 1 = start + i - 1
      BY <1>6, <1>12, <2>2 DEF size
    <3>2. part[i] = Content(c)[start + i]
      BY <2>5, <2>6, <3>1
    <3>3. got[i] = Place(c, start + i - 1)
      BY <1>5
    <3> QED
      BY <2>4, <3>1, <3>2, <3>3
  <2> QED
    BY <1>6, <2>5, <2>6, <2>7, SeqEqual DEF part
<1>14. Store!Next
  <2>1. CursorOf(h)' = [file |-> c, pos |-> end]
    BY <1>10, <1>12
  <2>2. reply' = [op |-> "read", handle |-> h, start |-> start, want |-> want,
                  got |-> SubSeq(Content(c), start + 1, end)]
    BY <1>1, <1>13
  <2> HIDE DEF end, got, c, start, want
  <2> QED
    BY <1>4, <1>5, <1>9, <1>11, <2>1, <2>2, StoreReads DEF end
<1> QED
  BY <1>1, <1>8, <1>14 DEF Refines, ExactInv, ScanExact, ReadExact, SeekExact, Idle

(* An iteration on an exact buffer leaves one, and stops only at the end.  *)
LEMMA IterationExact ==
  ASSUME SoundVolume, NoSectorFails, TypeOK, NEW fd \in AnyFile, OnObject(fd), Exact(fd),
         NEW n \in Nat, NEW it, it.fd \in AnyFile, Goes(fd, n, it)
  PROVE  \/ ~it.stop /\ it.fd.size = fd.size /\ OnObject(it.fd) /\ Exact(it.fd)
         \/ it.fd.position = Capacity(fd.first) /\ it.fd.size = it.fd.position
PROOF
<1>1. CASE Take(fd, n) < InBuffer(fd) /\ OnObject(it.fd)
           /\ it.fd.size = fd.size /\ it.fd.buffer = fd.buffer /\ ~it.stop
  <2>1. it.fd.position \div SECTOR_SIZE = fd.position \div SECTOR_SIZE
    BY <1>1, MovedPosition DEF Goes
  <2>2. it.fd.first = fd.first
    BY DEF Goes
  <2> QED
    BY <1>1, <2>1, <2>2 DEF Exact
<1>2. CASE OnObject(it.fd) /\ it.fd.size = fd.size /\ Loaded(fd, it)
  <2>1. it.fd.first = fd.first /\ fd.first \in DOMAIN Chain
    BY DEF Goes, OnObject
  <2>2. it.fd.position \in Nat /\ it.fd.position < Capacity(fd.first)
    BY <1>2, <2>1, FilesFacts DEF OnObject
  <2> DEFINE k == it.fd.position \div SECTOR_SIZE
  <2>3. k \in Nat /\ k < SectorCount(fd.first)
    BY <2>1, <2>2, PositionInFile
  <2>4. it.ok \in ReadOutcomes(SectorLba(fd.first, k)) /\ it.stop = ~it.ok
        /\ it.fd.buffer = IF it.ok THEN SectorLba(fd.first, k) ELSE fd.buffer
    BY <1>2 DEF Loaded
  <2> HIDE DEF k
  <2>5. it.ok = TRUE
    BY <2>1, <2>3, <2>4, FileReadWell
  <2>6. Exact(it.fd)
    BY <2>1, <2>4, <2>5 DEF Exact, k
  <2> QED
    BY <1>2, <2>4, <2>5, <2>6
<1>3. CASE it.fd.position = Capacity(fd.first) /\ it.fd.size = it.fd.position
  BY <1>3
<1> QED
  BY <1>1, <1>2, <1>3 DEF Goes

(* Byte i of a copy is the i-th from the position on.                      *)
LEMMA CopiedPlace ==
  ASSUME NEW fd \in AnyFile, Exact(fd), NEW n \in Nat
  PROVE  /\ Len(Copied(fd, n)) = Take(fd, n) /\ Copied(fd, n) \in Seq(Int \X Int)
         /\ \A i \in 1 .. Take(fd, n) :
              Copied(fd, n)[i] = Place(fd.first, fd.position + i - 1)
PROOF
<1> DEFINE t == Take(fd, n)
           p == fd.position
           z == SECTOR_SIZE
           r == p % z
           k == p \div z
<1>1. Copied(fd, n) \in Seq(Int \X Int)
  BY CopiedType
<1>2. Copied(fd, n) = [i \in 1 .. t |-> <<fd.buffer, r + i - 1>>]
  BY DEF Copied
<1>3. t \in Nat /\ InBuffer(fd) = z - r /\ t <= InBuffer(fd)
  <2>1. t \in 0 .. n /\ InBuffer(fd) \in 1 .. z
    BY TakeType
  <2> QED
    BY <2>1, SectorPositive DEF Take, InBuffer
<1>4. Len(Copied(fd, n)) = t
  <2> DEFINE s == Copied(fd, n)
  <2>1. s \in Seq(Int \X Int) /\ DOMAIN s = 1 .. t
    BY <1>1, <1>2
  <2> HIDE DEF s, t
  <2>2. DOMAIN s = 1 .. Len(s) /\ Len(s) \in Nat
    BY <2>1, LenProperties
  <2> QED
    BY <1>3, <2>1, <2>2 DEF s
<1>5. p \in Nat /\ z \in Nat \ {0} /\ k \in Nat /\ r \in 0 .. z - 1 /\ p = z * k + r
  BY FilesFacts, SectorPositive, DivMod
<1>6. ASSUME NEW i \in 1 .. t
      PROVE  <<fd.buffer, r + i - 1>> = Place(fd.first, p + i - 1)
  <2> DEFINE x == r + i - 1
  <2>1. x \in 0 .. z - 1 /\ p + i - 1 = z * k + x
    <3> HIDE DEF t, k, r
    <3> QED
      BY <1>3, <1>5
  <2>2. z * k = k * z
    BY <1>5
  <2> HIDE DEF x, k, r, z
  <2>3. (k * z + x) \div z = k /\ (k * z + x) % z = x
    BY <1>5, <2>1, DivUnique
  <2>4. (p + i - 1) \div z = k /\ (p + i - 1) % z = x
    BY <2>1, <2>2, <2>3
  <2>5. fd.buffer = SectorLba(fd.first, k)
    BY DEF Exact, k, z
  <2> QED
    BY <2>4, <2>5 DEF Place, x, z
<1>7. \A i \in 1 .. t : Copied(fd, n)[i] = Place(fd.first, p + i - 1)
  BY <1>2, <1>6
<1> QED
  BY <1>1, <1>4, <1>7

LEMMA ReadStepRefines ==
  ASSUME Perfect, ReadStep
  PROVE  ExactInv' /\ Refines
PROOF
<1>0. PICK h : h = frame.handle
  OBVIOUS
<1> DEFINE fd == fds[h]
           c == fd.first
           n == frame.left
           t == Take(fd, n)
           copied == Copied(fd, n)
           got == frame.got \o copied
<1>1. frame \in [op : {"read"}, handle : Files, start : Nat, want : Nat, left : Nat,
                 got : Seq(Int \X Int)]
  BY FrameFields, PerfectFacts DEF TypeOK, ReadStep
<1>2. /\ h \in held /\ fd.position = frame.start + Len(frame.got)
      /\ fd.position + n <= fd.size
  BY <1>0 DEF Perfect, Ready, SoundInv, ReadInv, ReadStep
<1>3. /\ fd \in AnyFile /\ IsFile(fd) /\ h \in Files /\ fds \in [Files -> AnyFile]
      /\ held \subseteq Files /\ fd.size < WORD /\ fd.size \in Nat /\ fd.position \in Nat
  BY <1>2, PerfectFacts
<1>4. n \in Nat /\ n > 0 /\ frame.op = "read" /\ fd.position < fd.size
  <2>1. n \in Nat /\ n > 0 /\ frame.op = "read"
    BY <1>1 DEF ReadStep
  <2> QED
    BY <1>2, <1>3, <2>1
<1>5. \A g : ~Seeking(g)
  BY <1>4 DEF Seeking
<1>6. OnObject(fd) /\ Exact(fd)
  <2>1. Tracked(fd)
    BY <1>2, <1>4, <1>5 DEF Perfect, Ready, SoundInv, HeldInv
  <2>2. Exact(fd)
    BY <1>2, <1>4, <1>5, PerfectFacts DEF HeldExact
  <2> QED
    BY <1>3, <1>4, <2>1, <2>2, FileOnObject
<1>7. PICK it \in Iterations(fd, n) :
        /\ fds' = [fds EXCEPT ![h] = it.fd]
        /\ frame' = [frame EXCEPT !.got = got, !.left = IF it.stop THEN 0 ELSE @ - Take(fd, @)]
  BY <1>0 DEF ReadStep
<1>8. held' = held /\ reply' = reply
  BY DEF ReadStep
<1>9. Goes(fd, n, it) /\ it.fd \in AnyFile
  <2>1. Whole(cache, cachePos) /\ Ready
    BY <1>4 DEF Perfect, Ready, SoundInv, CacheInv, Mounted
  <2>2. Goes(fd, n, it)
    BY <1>3, <1>4, <1>6, <2>1, ReadyFacts, IterationGoes DEF Ready
  <2>3. it.fd \in AnyFile
    BY <1>3, <1>4, <2>1, ReadyFacts, IterationType DEF IterationOK
  <2> QED
    BY <2>2, <2>3
<1>10. it.fd.size = fd.size /\ it.fd.first = c /\ it.fd.position = fd.position + t
  BY <1>2, <1>3, <1>4, <1>9, FileRead
<1>11. t \in 0 .. n
  BY <1>3, <1>4, TakeType
<1>12. /\ it.fd.position < fd.size => Exact(it.fd)
       /\ it.stop => n = t
  <2>1. CASE ~it.stop /\ Exact(it.fd)
    BY <2>1
  <2>2. CASE it.fd.position = Capacity(c)
    <3>1. fd.size <= Capacity(c) /\ Capacity(c) \in Nat
      BY <1>3, SectorCountType DEF IsFile
    <3> HIDE DEF fd, c, n, t
    <3> QED
      BY <1>2, <1>3, <1>4, <1>10, <1>11, <2>2, <3>1
  <2>3. SoundVolume /\ NoSectorFails /\ TypeOK
    BY PerfectFacts DEF Perfect
  <2> QED
    BY <1>3, <1>4, <1>6, <1>9, <2>1, <2>2, <2>3, IterationExact
<1>13. fds'[h] = it.fd /\ \A g \in Files : g # h => fds'[g] = fds[g]
  BY <1>3, <1>7
<1>14. /\ frame'.op = "read" /\ frame'.handle = h /\ frame'.start = frame.start
       /\ frame'.want = frame.want /\ frame'.got = got /\ frame'.left = n - t
  <2> DEFINE left == IF it.stop THEN 0 ELSE n - t
  <2>1. frame' = [frame EXCEPT !.got = got, !.left = left]
    BY <1>7
  <2>2. left = n - t
    <3>1. t \in Nat /\ n - t \in Int /\ (n = t => n - t = 0)
      <4> HIDE DEF t, n
      <4> QED
        BY <1>4, <1>11
    <3> HIDE DEF t, n
    <3> QED
      BY <1>12, <3>1
  <2> HIDE DEF got, left, t, n
  <2> QED
    BY <1>0, <1>1, <2>1, <2>2
<1>15. \A g : (Moving(g) <=> g = h) /\ (Moving(g)' <=> g = h) /\ ~Seeking(g)'
  BY <1>0, <1>4, <1>14 DEF Moving, Seeking
<1>16. SameCursors
  BY <1>3, <1>8, <1>10, <1>13, <1>14, <1>15 DEF SameCursors, CursorOf
<1>17. HeldExact'
  BY <1>3, <1>5, <1>8, <1>10, <1>12, <1>13, PerfectFacts DEF HeldExact, Exact
<1>18. ReadExact'
  <2>1. /\ frame.want \in ReadSizes
        /\ Len(frame.got) + n = Store!Least(frame.want, fd.size - frame.start)
        /\ \A i \in 1 .. Len(frame.got) : frame.got[i] = Place(c, frame.start + i - 1)
    BY <1>0, <1>4 DEF Perfect, ExactInv, ReadExact
  <2>2. /\ Len(copied) = t /\ copied \in Seq(Int \X Int)
        /\ \A i \in 1 .. t : copied[i] = Place(c, fd.position + i - 1)
    BY <1>3, <1>4, <1>6, CopiedPlace
  <2>3. frame.got \in Seq(Int \X Int) /\ Len(frame.got) \in Nat /\ frame.start \in Nat
    BY <1>1
  <2>4. /\ Len(got) = Len(frame.got) + t
        /\ \A i \in 1 .. Len(got) :
             got[i] = IF i <= Len(frame.got) THEN frame.got[i] ELSE copied[i - Len(frame.got)]
    <3>1. /\ Len(frame.got \o copied) = Len(frame.got) + Len(copied)
          /\ \A i \in 1 .. Len(frame.got \o copied) :
               (frame.got \o copied)[i] =
                 IF i <= Len(frame.got) THEN frame.got[i] ELSE copied[i - Len(frame.got)]
      <4> HIDE DEF copied
      <4> QED
        BY <2>2, <2>3, Joined, Zenon
    <3> HIDE DEF copied, t
    <3> QED
      BY <2>2, <3>1, Zenon
  <2>5. t \in Nat /\ t <= n
    <3> HIDE DEF t, n
    <3> QED
      BY <1>4, <1>11
  <2> HIDE DEF copied, got, t, n, fd, c
  <2>6. Len(got) + (n - t) = Len(frame.got) + n
    BY <1>4, <2>3, <2>4, <2>5
  <2>7. ASSUME NEW i \in 1 .. Len(got) PROVE got[i] = Place(c, frame.start + i - 1)
    <3>1. CASE i <= Len(frame.got)
      BY <2>1, <2>3, <2>4, <3>1
    <3>2. CASE ~(i <= Len(frame.got))
      <4>1. i - Len(frame.got) \in 1 .. t
        BY <2>3, <2>4, <2>5, <3>2
      <4>2. fd.position + (i - Len(frame.got)) - 1 = frame.start + i - 1
        BY <1>2, <2>3
      <4> QED
        BY <2>2, <2>4, <3>2, <4>1, <4>2
    <3> QED
      BY <3>1, <3>2
  <2> QED
    BY <1>10, <1>13, <1>14, <2>1, <2>6, <2>7 DEF ReadExact
<1> QED
  BY <1>8, <1>14, <1>16, <1>17, <1>18 DEF Refines, ExactInv, ScanExact, SeekExact

LEMMA SeekCallRefines ==
  ASSUME Perfect, NEW h \in held, NEW p \in SeekTargets, Seek(h, p)
  PROVE  ExactInv' /\ Refines
PROOF
<1>1. frame.op = "idle" /\ held' = held
  BY DEF Seek
<1>2. /\ h \in Handle /\ h \in Files /\ IsFile(fds[h]) /\ fds[h].first # 0
      /\ fds[h] \in AnyFile /\ fds \in [Files -> AnyFile] /\ held \subseteq Files
      /\ Len(Content(fds[h].first)) = fds[h].size /\ fds[h].size \in Nat /\ fds[h].size < WORD
  BY PerfectFacts
<1>3. p \in Nat
  BY DriverAssumption
<1>4. \A g : ~Moving(g) /\ ~Seeking(g)
  BY <1>1 DEF Moving, Seeking
<1>5. CASE /\ ~fds[h].opened \/ (~fds[h].isDir /\ p > fds[h].size)
           /\ Return(Sought(h, p, FALSE)) /\ UNCHANGED fds
  <2>1. frame' = Idle /\ reply' = Sought(h, p, FALSE) /\ fds' = fds /\ ~(p <= fds[h].size)
    BY <1>2, <1>3, <1>5 DEF Return, IsFile
  <2>2. \A g : ~Moving(g)'
    BY <2>1 DEF Moving, Idle
  <2>3. HeldExact'
    BY <1>1, <1>4, <2>1, PerfectFacts, ExactKept
  <2>4. /\ CursorOf(h) = [file |-> fds[h].first, pos |-> fds[h].position]
        /\ CursorOf(h)' = [file |-> fds[h].first, pos |-> fds[h].position]
        /\ OthersStay(h)
    BY <1>1, <1>4, <2>1, <2>2 DEF CursorOf, OthersStay
  <2>5. FALSE \in {p < fds[h].size, p <= fds[h].size}
    <3>1. (p <= fds[h].size) = FALSE
      BY <2>1
    <3> QED
      BY <3>1, Zenon
  <2>6. Store!Next
    <3> DEFINE c == fds[h].first
               q == fds[h].position
    <3>1. /\ CursorOf(h) = [file |-> c, pos |-> q] /\ c # 0
          /\ CursorOf(h)' = [file |-> c, pos |-> IF p <= Len(Content(c)) THEN p ELSE q]
          /\ FALSE \in {p < Len(Content(c)), p <= Len(Content(c))}
      BY <1>2, <2>1, <2>4, <2>5
    <3> HIDE DEF c, q
    <3> QED
      BY <1>2, <2>1, <2>4, <3>1, StoreSeeks
  <2> QED
    BY <2>1, <2>3, <2>6 DEF Refines, ExactInv, ScanExact, ReadExact, SeekExact, Idle
<1>6. CASE /\ fds' = [fds EXCEPT ![h].position = p]
           /\ Begin([op |-> "seek", handle |-> h, start |-> fds[h].position,
                     to |-> p, cluster |-> fds[h].first, offset |-> p])
  <2>1. /\ frame' = [op |-> "seek", handle |-> h, start |-> fds[h].position,
                     to |-> p, cluster |-> fds[h].first, offset |-> p]
        /\ reply' = Waiting
    BY <1>6 DEF Begin
  <2>2. /\ frame'.op = "seek" /\ frame'.handle = h /\ frame'.start = fds[h].position
        /\ frame'.to = p
    BY <2>1
  <2>3. fds'[h] = [fds[h] EXCEPT !.position = p] /\ \A g \in Files : g # h => fds'[g] = fds[g]
    BY <1>2, <1>6
  <2>4. fds'[h].first = fds[h].first /\ fds'[h].size = fds[h].size
    BY <1>2, <2>3 DEF AnyFile
  <2>5. \A g : (Moving(g)' <=> g = h) /\ (Seeking(g)' <=> g = h)
    BY <2>2 DEF Moving, Seeking
  <2>6. SameCursors
    BY <1>1, <1>2, <1>4, <2>2, <2>3, <2>4, <2>5 DEF SameCursors, CursorOf
  <2>7. HeldExact'
    BY <1>1, <1>2, <1>4, <2>3, <2>4, <2>5, PerfectFacts DEF HeldExact, Exact
  <2> QED
    BY <2>1, <2>2, <2>6, <2>7, StoreAsks DEF Refines, ExactInv, ScanExact, ReadExact, SeekExact
<1> QED
  BY <1>5, <1>6 DEF Seek

(* Only a seek to the end of the last cluster runs off the chain.          *)
LEMMA RunsOff ==
  ASSUME Ready, SeekStep, NEW h, h = frame.handle,
         NEW l \in NextCluster(frame.cluster), l.next >= EndOfChain
  PROVE  ~(frame.to < fds[h].size)
PROOF
<1> DEFINE fd == fds[h]
           c == fd.first
<1>1. frame.offset >= ClusterSize /\ frame.offset \in Nat /\ frame.op = "seek"
  BY FrameFields DEF Ready, TypeOK, SeekStep
<1>2. h \in held /\ fd.position = frame.to
  BY <1>1 DEF Ready, SoundInv, SeekInv
<1>3. PICK j \in 1 .. Len(Chain[c]) :
        frame.cluster = Chain[c][j] /\ frame.to = (j - 1) * ClusterSize + frame.offset
  BY <1>1 DEF Ready, SoundInv, SeekInv
<1>4. IsFile(fd) /\ fd \in AnyFile /\ c \in DOMAIN Chain
  BY <1>2, ReadyFacts DEF IsFile
<1>5. j = Len(Chain[c])
  <2>1. Whole(cache, cachePos) /\ l \in NextCluster(Chain[c][j])
    BY <1>1, <1>3 DEF Ready, SoundInv, CacheInv, Mounted
  <2> QED
    BY <1>4, <2>1, ReadyFacts, LookupOnChain DEF Ready
<1>6. ClusterSize \in Nat /\ j \in Nat /\ Len(Chain[c]) \in Nat /\ j - 1 \in Nat
  BY <1>4, Geometry, ChainFacts
<1>7. Capacity(c) = Len(Chain[c]) * ClusterSize
  <2>1. \A a, b, d \in Nat : (a * b) * d = a * (b * d)
    OBVIOUS
  <2>2. SectorsPerCluster \in Nat /\ SECTOR_SIZE \in Nat
    BY Geometry
  <2> QED
    BY <1>6, <2>1, <2>2, Zenon DEF Capacity, SectorCount, ClusterSize
<1>8. Len(Chain[c]) * ClusterSize = (j - 1) * ClusterSize + ClusterSize
      /\ (j - 1) * ClusterSize \in Nat
  BY <1>5, <1>6, TimesMonotone
<1>9. fd.size <= Capacity(c) /\ fd.size \in Nat /\ Capacity(c) \in Nat
  BY <1>4, FilesFacts, SectorCountType DEF IsFile
<1> HIDE DEF fd, c
<1> QED
  BY <1>1, <1>3, <1>6, <1>7, <1>8, <1>9 DEF fd

LEMMA SeekStepRefines ==
  ASSUME Perfect, SeekStep
  PROVE  ExactInv' /\ Refines
PROOF
<1>0. PICK h : h = frame.handle
  OBVIOUS
<1>1. frame \in [op : {"seek"}, handle : Files, start : Nat, to : Nat, cluster : Nat, offset : Nat]
  BY FrameFields, PerfectFacts DEF TypeOK, SeekStep
<1>2. frame.op = "seek" /\ fds' = fds /\ held' = held
  BY DEF SeekStep
<1>3. /\ h \in held /\ fds[h].position = frame.to /\ frame.to \in SeekTargets
  BY <1>0, <1>2 DEF Perfect, Ready, SoundInv, SeekInv, ExactInv, SeekExact
<1>4. /\ h \in Handle /\ fds[h].first # 0 /\ Len(Content(fds[h].first)) = fds[h].size
      /\ fds[h].size \in Nat /\ fds[h].position \in Nat /\ fds[h].position <= fds[h].size
  BY <1>3, PerfectFacts
<1>5. \A g : (Moving(g) <=> g = h) /\ (Seeking(g) <=> g = h)
  BY <1>0, <1>2 DEF Moving, Seeking
<1>6. PICK l \in NextCluster(frame.cluster) :
        IF l.next >= EndOfChain
        THEN Return(Sought(h, frame.to, FALSE))
        ELSE /\ frame' = [frame EXCEPT !.cluster = l.next, !.offset = @ - ClusterSize]
             /\ UNCHANGED reply
  BY <1>0 DEF SeekStep
<1>7. CASE l.next >= EndOfChain
  <2> DEFINE p == fds[h].position
             c == fds[h].first
             q == frame.start
  <2>1. frame' = Idle /\ reply' = Sought(h, frame.to, FALSE)
    BY <1>6, <1>7 DEF Return
  <2>2. ~(frame.to < fds[h].size)
    BY <1>0, <1>7, RunsOff DEF Perfect
  <2>3. \A g : ~Moving(g)'
    BY <2>1 DEF Moving, Idle
  <2>4. HeldExact'
    BY <1>2, <1>3, <1>5, <2>2, PerfectFacts DEF HeldExact, Exact
  <2>5. /\ CursorOf(h) = [file |-> c, pos |-> q] /\ CursorOf(h)' = [file |-> c, pos |-> p]
        /\ OthersStay(h)
    BY <1>2, <1>3, <1>5, <2>3 DEF CursorOf, OthersStay
  <2>6. FALSE \in {p < Len(Content(c)), p <= Len(Content(c))}
    <3>1. (p < Len(Content(c))) = FALSE
      BY <1>3, <1>4, <2>2
    <3> QED
      BY <3>1, Zenon
  <2>7. p \in SeekTargets /\ p = (IF p <= Len(Content(c)) THEN p ELSE q)
        /\ reply' = Sought(h, p, FALSE)
    BY <1>3, <1>4, <2>1
  <2>8. Store!Next
    <3> HIDE DEF p, c, q
    <3> QED
      BY <1>4, <2>5, <2>6, <2>7, StoreSeeks DEF c
  <2> QED
    BY <2>1, <2>4, <2>8 DEF Refines, ExactInv, ScanExact, ReadExact, SeekExact, Idle
<1>8. CASE ~(l.next >= EndOfChain)
  <2>1. frame' = [frame EXCEPT !.cluster = l.next, !.offset = @ - ClusterSize]
        /\ reply' = reply
    BY <1>6, <1>8
  <2>2. /\ frame'.op = "seek" /\ frame'.handle = h /\ frame'.to = frame.to
        /\ frame'.start = frame.start
    BY <1>0, <1>1, <2>1
  <2>3. \A g : (Moving(g)' <=> g = h) /\ (Seeking(g)' <=> g = h)
    BY <2>2 DEF Moving, Seeking
  <2>4. SameCursors
    BY <1>2, <1>5, <2>2, <2>3 DEF SameCursors, CursorOf
  <2>5. HeldExact'
    BY <1>2, <1>5, <2>3, PerfectFacts, ExactKept
  <2> QED
    BY <1>3, <2>1, <2>2, <2>4, <2>5 DEF Refines, ExactInv, ScanExact, ReadExact, SeekExact
<1> QED
  BY <1>7, <1>8

LEMMA SeekLoadRefines ==
  ASSUME Perfect, SeekLoad
  PROVE  ExactInv' /\ Refines
PROOF
<1>0. PICK h : h = frame.handle
  OBVIOUS
<1> DEFINE fd == fds[h]
           c == fd.first
           s == frame.offset \div SECTOR_SIZE
           lba == ClusterToLba(frame.cluster) + s
           k == frame.to \div SECTOR_SIZE
<1>1. frame \in [op : {"seek"}, handle : Files, start : Nat, to : Nat, cluster : Nat, offset : Nat]
  BY FrameFields, PerfectFacts DEF TypeOK, SeekLoad
<1>2. frame.op = "seek" /\ held' = held /\ frame.offset < ClusterSize /\ frame.offset \in Nat
  BY <1>1 DEF SeekLoad
<1>3. h \in held /\ fd.position = frame.to /\ frame.to \in SeekTargets
  BY <1>0, <1>2 DEF Perfect, Ready, SoundInv, SeekInv, ExactInv, SeekExact
<1>4. PICK j \in 1 .. Len(Chain[c]) :
        frame.cluster = Chain[c][j] /\ frame.to = (j - 1) * ClusterSize + frame.offset
  BY <1>0, <1>2 DEF Perfect, Ready, SoundInv, SeekInv
<1>5. /\ h \in Handle /\ h \in Files /\ c # 0 /\ Len(Content(c)) = fd.size /\ fd \in AnyFile
      /\ fd.size \in Nat /\ fd.position \in Nat /\ fd.position <= fd.size /\ c \in DOMAIN Chain
      /\ fd.size < WORD /\ fds \in [Files -> AnyFile] /\ held \subseteq Files
  BY <1>3, PerfectFacts DEF IsFile
<1>6. PICK ok \in ReadOutcomes(lba) :
        /\ fds' = [fds EXCEPT ![h].cluster = frame.cluster,
                              ![h].sector = s,
                              ![h].buffer = IF ok THEN lba ELSE @]
        /\ Return(Sought(h, frame.to, ok))
  BY <1>0 DEF SeekLoad
<1>7. /\ k \in Nat /\ k < SectorCount(c) /\ k \div SectorsPerCluster + 1 = j
      /\ k % SectorsPerCluster = s
  BY <1>2, <1>4, <1>5, SoughtSector
<1>8. lba = SectorLba(c, k)
  BY <1>4, <1>7 DEF SectorLba
<1> HIDE DEF lba, s, k
<1>9. ok = TRUE
  BY <1>5, <1>6, <1>7, <1>8, PerfectFacts, FileReadWell DEF Perfect
<1> DEFINE g == [fd EXCEPT !.cluster = frame.cluster, !.sector = s, !.buffer = lba]
<1>10. fds'[h] = g /\ \A f \in Files : f # h => fds'[f] = fds[f]
  BY <1>5, <1>6, <1>9 DEF AnyFile
<1>11. g.size = fd.size /\ g.first = c /\ g.position = fd.position /\ g.buffer = lba
  BY <1>5 DEF AnyFile
<1> HIDE DEF g
<1>12. Exact(g)
  BY <1>3, <1>8, <1>11 DEF Exact, k
<1>13. frame' = Idle /\ reply' = Sought(h, frame.to, TRUE)
  BY <1>6, <1>9 DEF Return
<1>14. \A f : (Moving(f) <=> f = h) /\ (Seeking(f) <=> f = h) /\ ~Moving(f)'
  BY <1>0, <1>2, <1>13 DEF Moving, Seeking, Idle
<1>15. HeldExact'
  BY <1>2, <1>5, <1>10, <1>11, <1>12, <1>14, PerfectFacts DEF HeldExact, Exact
<1> DEFINE p == fd.position
           q == frame.start
<1>16. /\ CursorOf(h) = [file |-> c, pos |-> q] /\ CursorOf(h)' = [file |-> c, pos |-> p]
       /\ OthersStay(h)
  BY <1>2, <1>3, <1>5, <1>10, <1>11, <1>14 DEF CursorOf, OthersStay
<1>17. TRUE \in {p < Len(Content(c)), p <= Len(Content(c))} /\ p \in SeekTargets
       /\ p = (IF p <= Len(Content(c)) THEN p ELSE q) /\ reply' = Sought(h, p, TRUE)
  BY <1>3, <1>5, <1>13
<1>18. Store!Next
  <2> HIDE DEF p, c, q
  <2> QED
    BY <1>5, <1>16, <1>17, StoreSeeks
<1> QED
  BY <1>13, <1>15, <1>18 DEF Refines, ExactInv, ScanExact, ReadExact, SeekExact, Idle

(***************************************************************************)
(* The path walk.                                                          *)
(***************************************************************************)
(* The walk goes on, finds nothing or ends with a null File*.              *)
LEMMA WalkRefines ==
  ASSUME Perfect, frame.op \in {"scan", "entry"}, held' = held,
         frame'.op \in {"idle", "scan", "entry"},
         \A g \in held : fds'[g] = fds[g], ScanExact',
         \/ reply' = reply
         \/ /\ reply' = Opened(frame.path, NoHandle)
            /\ Target(frame.path) = 0 \/ \A g \in Handle : CursorOf(g) # NoFile
  PROVE  ExactInv' /\ Refines
PROOF
<1>1. frame.path \in Paths
  BY DEF Perfect, Ready, SoundInv, WalkInv
<1>2. \A g : ~Moving(g) /\ ~Moving(g)' /\ ~Seeking(g)
  BY DEF Moving, Seeking
<1>3. SameCursors
  BY <1>2, CursorsKept
<1>4. HeldExact'
  BY <1>2, PerfectFacts, ExactKept
<1>5. Refines
  BY <1>1, <1>3, StoreOpensNothing DEF Refines
<1> QED
  BY <1>4, <1>5 DEF ExactInv, ReadExact, SeekExact

LEMMA ScanGoesOn ==
  ASSUME NEW entries \in Seq(EntryType), NEW name, NEW i \in Nat,
         \A j \in DOMAIN entries : j <= i => entries[j].name # name,
         EntryAt(entries, i + 1).name # name
  PROVE  Passed(entries, name, (i + 1) * ENTRY_SIZE)
PROOF
<1>1. ASSUME NEW j \in DOMAIN entries, j <= i + 1 PROVE entries[j].name # name
  <2>1. j \in Nat
    OBVIOUS
  <2>2. CASE j <= i
    BY <2>2
  <2>3. CASE ~(j <= i)
    <3>1. j = i + 1
      BY <1>1, <2>1, <2>3
    <3> QED
      BY <3>1 DEF EntryAt
  <2> QED
    BY <2>2, <2>3
<1>2. i + 1 \in Nat
  OBVIOUS
<1> QED
  BY <1>1, <1>2 DEF Passed

LEMMA ListEnds ==
  ASSUME EntriesComplete, NEW entries \in {RootDir} \cup {Dirs[c] : c \in DOMAIN Dirs},
         NEW i \in Nat, EntryAt(entries, i + 1) = EndEntry
  PROVE  Len(entries) <= i
PROOF
<1>1. entries \in Seq(EntryType)
  BY EntryAssumption
<1>2. i + 1 \notin DOMAIN entries
  <2>1. \A j \in DOMAIN entries : entries[j] \in AllEntries
    BY DEF AllEntries, Listed
  <2>2. \A e \in AllEntries : e # EndEntry
    BY DEF EntriesComplete
  <2> QED
    BY <2>1, <2>2 DEF EntryAt
<1>3. DOMAIN entries = 1 .. Len(entries) /\ Len(entries) \in Nat
  BY <1>1
<1> QED
  BY <1>2, <1>3

LEMMA ScanMisses ==
  ASSUME Ready, frame.op = "scan",
         NEW k \in 0 .. Len(frame.path) - 1, After(frame.rest, frame.path, k),
         Way(frame.path)[k].dir,
         NEW entries \in Seq(EntryType), EntriesIn(Way(frame.path)[k].cluster) = entries,
         NEW i \in Nat, \A j \in DOMAIN entries : j <= i => entries[j].name # Head(frame.rest),
         Len(entries) <= i
  PROVE  Target(frame.path) = 0
PROOF
<1>1. \A j \in DOMAIN entries : j <= i
  <2>1. DOMAIN entries = 1 .. Len(entries) /\ Len(entries) \in Nat
    OBVIOUS
  <2> QED
    BY <2>1
<1>2. \A j \in DOMAIN entries : entries[j].name # Head(frame.rest)
  BY <1>1
<1> QED
  BY <1>2, NameMissed

LEMMA SameEntry ==
  ASSUME NEW i \in Nat, NEW j \in Nat, i * ENTRY_SIZE = j * ENTRY_SIZE
  PROVE  i = j
PROOF
<1>1. ENTRY_SIZE \in Nat \ {0}
  BY Geometry
<1>2. (i * ENTRY_SIZE + 0) \div ENTRY_SIZE = i /\ (j * ENTRY_SIZE + 0) \div ENTRY_SIZE = j
  BY <1>1, DivUnique
<1>3. i * ENTRY_SIZE \in Nat /\ j * ENTRY_SIZE \in Nat
  BY <1>1, TimesMonotone
<1> QED
  BY <1>2, <1>3

(* The steps of a scan in which it stops.                                  *)
LEMMA ScanStops ==
  ASSUME Perfect, ScanEntry, NEW fd, fds' = [fds EXCEPT ![frame.dir] = fd],
         \/ Return(Opened(frame.path, NoHandle)) /\ Target(frame.path) = 0
         \/ frame'.op = "entry" /\ reply' = reply
  PROVE  ExactInv' /\ Refines
PROOF
<1>1. frame.op = "scan" /\ held' = held /\ frame'.op \in {"idle", "entry"}
  <2>1. frame.op = "scan" /\ held' = held
    BY DEF ScanEntry
  <2>2. frame'.op \in {"idle", "entry"}
    BY DEF Return, Idle
  <2> QED
    BY <2>1, <2>2
<1>2. \A g \in held : g \in Files /\ g # frame.dir
  BY <1>1, ReadyFacts DEF Perfect, Scanning
<1>3. \A g \in held : fds'[g] = fds[g]
  BY <1>2, PerfectFacts
<1>4. ScanExact'
  BY <1>1 DEF ScanExact
<1> QED
  BY <1>1, <1>3, <1>4, WalkRefines DEF Return

(* What a step of a scan does once it has an entry.                        *)
LEMMA ScanChoices ==
  ASSUME ScanEntry, NEW fd, fd = fds[frame.dir], NEW entry,
         entry = DirSlot[fd.buffer][(fd.position % SECTOR_SIZE) \div ENTRY_SIZE],
         ~(Readable(fd, ENTRY_SIZE) < ENTRY_SIZE)
  PROVE  \E it \in Iterations(fd, ENTRY_SIZE) :
           \/ /\ fds' = [fds EXCEPT ![frame.dir] = Closed(frame.dir, it.fd)]
              /\ frame'.op = "entry" /\ reply' = reply
           \/ /\ entry.name # Head(frame.rest) /\ entry = EndEntry
              /\ fds' = [fds EXCEPT ![frame.dir] = Closed(frame.dir, it.fd)]
              /\ Return(Opened(frame.path, NoHandle))
           \/ /\ entry.name # Head(frame.rest) /\ entry # EndEntry
              /\ fds' = [fds EXCEPT ![frame.dir] = it.fd]
              /\ frame' = frame /\ reply' = reply
PROOF
<1>1. PICK it \in Iterations(fd, ENTRY_SIZE) :
        \/ /\ fds' = [fds EXCEPT ![frame.dir] = Closed(frame.dir, it.fd)]
           /\ frame' = [op |-> "entry", entry |-> entry,
                        path |-> frame.path, rest |-> Tail(frame.rest)]
           /\ reply' = reply
        \/ /\ entry.name # Head(frame.rest) /\ entry = EndEntry
           /\ fds' = [fds EXCEPT ![frame.dir] = Closed(frame.dir, it.fd)]
           /\ Return(Opened(frame.path, NoHandle))
        \/ /\ entry.name # Head(frame.rest) /\ entry # EndEntry
           /\ fds' = [fds EXCEPT ![frame.dir] = it.fd]
           /\ frame' = frame /\ reply' = reply
  BY DEF ScanEntry
<1>2. ASSUME frame' = [op |-> "entry", entry |-> entry,
                       path |-> frame.path, rest |-> Tail(frame.rest)]
      PROVE  frame'.op = "entry"
  BY <1>2
<1> QED
  BY <1>1, <1>2, Zenon

LEMMA ScanMoves ==
  ASSUME Perfect, ScanEntry, NEW fd, fds' = [fds EXCEPT ![frame.dir] = fd],
         frame' = frame, reply' = reply, ScanExact'
  PROVE  ExactInv' /\ Refines
PROOF
<1>1. frame.op = "scan" /\ held' = held
  BY DEF ScanEntry
<1>2. \A g \in held : g \in Files /\ g # frame.dir
  BY <1>1, ReadyFacts DEF Perfect, Scanning
<1>3. \A g \in held : fds'[g] = fds[g]
  BY <1>2, PerfectFacts
<1> QED
  BY <1>1, <1>3, WalkRefines

(* The root directory is read to its last entry.                           *)
LEMMA RootReadable ==
  ASSUME EntriesComplete, NEW fd \in AnyFile, RootFields(fd), NEW j \in 0 .. Len(RootDir),
         fd.position = j * ENTRY_SIZE, Readable(fd, ENTRY_SIZE) < ENTRY_SIZE
  PROVE  Len(RootDir) <= j
PROOF
<1> DEFINE e == ENTRY_SIZE
           n == RootEntryCount
           m == Len(RootDir)
<1>1. e \in Nat \ {0} /\ n \in Nat \ {0} /\ RootSize = e * n /\ WORD \in Nat /\ WORD > 0
  BY Geometry, GeometryAssumption DEF RootSize
<1>2. m \in Nat /\ m <= n /\ RootSize < WORD
  BY EntryAssumption DEF EntriesComplete
<1>3. fd.opened /\ fd.isDir /\ fd.size = RootSize
  BY DEF RootFields
<1> HIDE DEF e, n, m
<1>4. j \in Nat /\ j <= n /\ n - j \in Nat
  BY <1>1, <1>2 DEF m
<1>5. e * n = j * e + (n - j) * e /\ j * e \in Nat /\ (n - j) * e \in Nat /\ e * n \in Nat
  <2>1. \A a, b, c \in Nat : a * (b + c) = b * a + c * a
    OBVIOUS
  <2>2. e * (j + (n - j)) = j * e + (n - j) * e
    BY <1>1, <1>4, <2>1
  <2>3. j + (n - j) = n
    BY <1>1, <1>4
  <2> QED
    BY <1>1, <1>4, <2>2, <2>3, TimesMonotone
<1>6. (fd.size - fd.position) % WORD = (n - j) * e
  <2> DEFINE x == (n - j) * e
  <2>1. fd.size - fd.position = x /\ x \in Nat /\ x < WORD
    BY <1>1, <1>2, <1>3, <1>5 DEF e
  <2>2. \A y \in Nat : y < WORD => y % WORD = y
    BY <1>1
  <2>3. (fd.size - fd.position) % WORD = x
    <3> HIDE DEF x
    <3> QED
      BY <2>1, <2>2
  <2> QED
    BY <2>3
<1>7. fd.size # 0
  <2>1. e * 1 <= e * n
    BY <1>1
  <2> QED
    BY <1>1, <1>3, <2>1
<1>8. Readable(fd, e) = IF e < (n - j) * e THEN e ELSE (n - j) * e
  BY <1>3, <1>6, <1>7 DEF Readable
<1>9. (n - j) * e < e
  <2> DEFINE x == (n - j) * e
  <2> HIDE DEF x
  <2> QED
    BY <1>1, <1>8 DEF e, x
<1>10. n - j = 0
  <2>1. ASSUME 1 <= n - j PROVE FALSE
    <3>1. 1 * e <= (n - j) * e
      BY <1>1, <1>4, <2>1, TimesMonotone
    <3> QED
      BY <1>1, <1>5, <1>9, <3>1
  <2> QED
    BY <1>4, <2>1
<1> QED
  BY <1>1, <1>2, <1>4, <1>10 DEF m

LEMMA RootScanRefines ==
  ASSUME Perfect, ScanEntry, frame.dir = ROOT_DIRECTORY_HANDLE
  PROVE  ExactInv' /\ Refines
PROOF
<1>0. PICK fd : fd = fds[ROOT_DIRECTORY_HANDLE]
  OBVIOUS
<1> DEFINE entry == DirSlot[fd.buffer][(fd.position % SECTOR_SIZE) \div ENTRY_SIZE]
           name == Head(frame.rest)
<1>1. /\ frame.op = "scan" /\ ROOT_DIRECTORY_HANDLE \in Files /\ Ready
      /\ fds \in [Files -> AnyFile] /\ fd \in AnyFile /\ SoundVolume /\ EntriesComplete /\ TypeOK
  BY <1>0, ReadyFacts, PerfectFacts DEF ScanEntry, Perfect
<1>2. RootFields(fd) /\ \E j \in 0 .. Len(RootDir) : fd.position = j * ENTRY_SIZE
  BY <1>0, <1>1 DEF Ready, SoundInv, RootInv, Mounted, RootAt, Scanning
<1>3. PICK j \in 0 .. Len(RootDir) : fd.position = j * ENTRY_SIZE
  BY <1>2
<1>4. /\ j \in 0 .. EntriesPerSector - 1 /\ j \in Nat
      /\ (fd.position % SECTOR_SIZE) \div ENTRY_SIZE = j
      /\ fd.position + ENTRY_SIZE = (j + 1) * ENTRY_SIZE
      /\ ENTRY_SIZE < InBuffer(fd)
  BY <1>1, <1>3, RootPlace DEF InBuffer
<1>5. PICK k \in 0 .. Len(frame.path) - 1 :
        /\ After(frame.rest, frame.path, k) /\ Way(frame.path)[k].dir
        /\ k # 0 => frame.dir \in Handle
  BY <1>1 DEF Ready, SoundInv, WalkInv
<1>6. EntriesIn(Way(frame.path)[k].cluster) = RootDir
  <2>1. k = 0
    BY <1>5, NotRoot
  <2>2. Way(frame.path)[0].cluster = 0
    BY <1>1, FrameFields, WayFacts DEF TypeOK
  <2>3. 0 \notin DOMAIN Dirs
    BY <1>1, FirstCluster DEF SoundVolume, EntriesSound
  <2> QED
    BY <2>1, <2>2, <2>3 DEF EntriesIn
<1>7. \A i \in DOMAIN RootDir : i <= j => RootDir[i].name # name
  <2>1. Passed(RootDir, name, fd.position)
    BY <1>0, <1>1 DEF Perfect, ExactInv, ScanExact
  <2>2. PICK i \in Nat : /\ fd.position = i * ENTRY_SIZE
                         /\ \A m \in DOMAIN RootDir : m <= i => RootDir[m].name # name
    BY <2>1 DEF Passed
  <2>3. i = j
    BY <1>3, <1>4, <2>2, SameEntry
  <2> QED
    BY <2>2, <2>3
<1>8. entry = EntryAt(RootDir, j + 1)
  <2>1. RootLba \in 0 .. TotalSectors - 1 /\ fd.buffer = RootLba
    BY <1>0, <1>1, <1>2 DEF TypeOK, RootFields
  <2> QED
    BY <1>4, <2>1, RootSlot
<1>9. RootDir \in Seq(EntryType) /\ RootDir \in {RootDir} \cup {Dirs[c] : c \in DOMAIN Dirs}
  BY EntryAssumption
<1>10. ASSUME Len(RootDir) <= j PROVE Target(frame.path) = 0
  BY <1>1, <1>4, <1>5, <1>6, <1>7, <1>9, <1>10, ScanMisses
<1>11. CASE Readable(fd, ENTRY_SIZE) < ENTRY_SIZE
  <2>1. /\ fds' = [fds EXCEPT ![frame.dir] = Closed(frame.dir, fd)]
        /\ Return(Opened(frame.path, NoHandle))
    BY <1>0, <1>11 DEF ScanEntry
  <2>2. Len(RootDir) <= j
    BY <1>1, <1>2, <1>3, <1>11, RootReadable
  <2> QED
    BY <1>10, <2>1, <2>2, ScanStops
<1>12. CASE ~(Readable(fd, ENTRY_SIZE) < ENTRY_SIZE)
  <2>1. PICK it \in Iterations(fd, ENTRY_SIZE) :
          \/ /\ fds' = [fds EXCEPT ![frame.dir] = Closed(frame.dir, it.fd)]
             /\ frame'.op = "entry" /\ reply' = reply
          \/ /\ entry.name # name /\ entry = EndEntry
             /\ fds' = [fds EXCEPT ![frame.dir] = Closed(frame.dir, it.fd)]
             /\ Return(Opened(frame.path, NoHandle))
          \/ /\ entry.name # name /\ entry # EndEntry
             /\ fds' = [fds EXCEPT ![frame.dir] = it.fd]
             /\ frame' = frame /\ reply' = reply
    <3> HIDE DEF entry
    <3> QED
      BY <1>0, <1>12, ScanChoices DEF entry
  <2> HIDE DEF entry, name
  <2>2. CASE /\ fds' = [fds EXCEPT ![frame.dir] = Closed(frame.dir, it.fd)]
             /\ frame'.op = "entry" /\ reply' = reply
    BY <2>2, ScanStops
  <2>3. CASE /\ entry = EndEntry
             /\ fds' = [fds EXCEPT ![frame.dir] = Closed(frame.dir, it.fd)]
             /\ Return(Opened(frame.path, NoHandle))
    <3>1. Len(RootDir) <= j
      BY <1>1, <1>4, <1>8, <1>9, <2>3, ListEnds
    <3> QED
      BY <1>10, <2>3, <3>1, ScanStops
  <2>4. CASE /\ entry.name # name
             /\ fds' = [fds EXCEPT ![frame.dir] = it.fd]
             /\ frame' = frame /\ reply' = reply
    <3>1. it.fd.position = (j + 1) * ENTRY_SIZE
      <4>1. Take(fd, ENTRY_SIZE) = ENTRY_SIZE
        BY <1>4 DEF Take
      <4>2. it.fd = [fd EXCEPT !.position = @ + ENTRY_SIZE]
        BY <1>4, <4>1 DEF Iterations
      <4> QED
        BY <1>1, <1>4, <4>2 DEF AnyFile
    <3>2. Passed(RootDir, name, (j + 1) * ENTRY_SIZE)
      BY <1>4, <1>7, <1>8, <1>9, <2>4, ScanGoesOn
    <3>3. fds'[frame.dir] = it.fd
      BY <1>1, <2>4
    <3>4. ScanExact'
      BY <2>4, <3>1, <3>2, <3>3 DEF ScanExact, name
    <3> QED
      BY <2>4, <3>4, ScanMoves
  <2> QED
    BY <2>1, <2>2, <2>3, <2>4
<1> QED
  BY <1>11, <1>12

(* The end of a directory: the last sector of its chain has been read.     *)
LEMMA DirectoryOver ==
  ASSUME EntriesComplete, NEW c \in DOMAIN Dirs, c \in DOMAIN Chain, NEW i \in Nat,
         i * ENTRY_SIZE = Capacity(c)
  PROVE  Len(Dirs[c]) <= i
PROOF
<1> DEFINE e == ENTRY_SIZE
           n == EntriesPerSector
           m == SectorCount(c)
<1>1. e \in Nat /\ n \in Nat /\ m \in Nat /\ n * e = SECTOR_SIZE
  BY Geometry, SectorCountType
<1>2. Capacity(c) = (m * n) * e /\ m * n \in Nat
  <2>1. \A a, b, d \in Nat : (a * b) * d = a * (b * d)
    OBVIOUS
  <2>2. (m * n) * e = m * (n * e)
    BY <1>1, <2>1
  <2> QED
    BY <1>1, <2>2, TimesMonotone DEF Capacity
<1>3. i = m * n
  BY <1>2, SameEntry
<1>4. Len(Dirs[c]) <= m * n
  BY DEF EntriesComplete
<1> QED
  BY <1>3, <1>4

LEMMA DirectoryScanRefines ==
  ASSUME Perfect, ScanEntry, frame.dir # ROOT_DIRECTORY_HANDLE
  PROVE  ExactInv' /\ Refines
PROOF
<1>0. PICK fd : fd = fds[frame.dir]
  OBVIOUS
<1> DEFINE entry == DirSlot[fd.buffer][(fd.position % SECTOR_SIZE) \div ENTRY_SIZE]
           name == Head(frame.rest)
           entries == Dirs[fd.first]
<1>1. frame.op = "scan" /\ Ready /\ SoundVolume /\ EntriesComplete /\ TypeOK /\ NoSectorFails
  BY PerfectFacts DEF ScanEntry, Perfect
<1>2. PICK k \in 0 .. Len(frame.path) - 1 :
        /\ After(frame.rest, frame.path, k) /\ Way(frame.path)[k].dir
        /\ frame.dir \in Handle /\ IsDirectory(fd) /\ fd.first = Way(frame.path)[k].cluster
  BY <1>0, <1>1 DEF Ready, SoundInv, WalkInv
<1>3. /\ frame.dir \in Files /\ fds \in [Files -> AnyFile] /\ fd \in AnyFile
      /\ fd.size \in Nat /\ fd.position \in Nat
  BY <1>0, <1>1, <1>2, NotRoot, ReadyFacts, FilesFacts
<1>4. fd.first \in DOMAIN Dirs /\ fd.first \in DOMAIN Chain /\ fd.isDir /\ fd.opened
  BY <1>2 DEF IsDirectory
<1>5. EntriesIn(Way(frame.path)[k].cluster) = entries
  BY <1>2, <1>4 DEF EntriesIn
<1>6. /\ Passed(entries, name, fd.position)
      /\ IF fd.size = 0 THEN Exact(fd) ELSE fd.position = Capacity(fd.first)
  BY <1>0, <1>1 DEF Perfect, ExactInv, ScanExact
<1>7. PICK i \in Nat : /\ fd.position = i * ENTRY_SIZE
                       /\ \A m \in DOMAIN entries : m <= i => entries[m].name # name
  BY <1>6 DEF Passed
<1>8. entries \in Seq(EntryType) /\ entries \in {RootDir} \cup {Dirs[c] : c \in DOMAIN Dirs}
  BY <1>4, EntryAssumption
<1>9. ASSUME Len(entries) <= i PROVE Target(frame.path) = 0
  BY <1>1, <1>2, <1>5, <1>7, <1>8, <1>9, ScanMisses
<1>10. ENTRY_SIZE \in Nat \ {0}
  BY Geometry
<1>11. CASE fd.size # 0
  <2>1. Readable(fd, ENTRY_SIZE) < ENTRY_SIZE
    <3>1. fd.size = fd.position
      BY <1>2, <1>3, <1>11 DEF IsDirectory
    <3>2. (fd.size - fd.position) % WORD = 0
      <4>1. fd.size - fd.position = 0
        BY <1>3, <3>1
      <4> QED
        BY <4>1, Geometry
    <3>3. Readable(fd, ENTRY_SIZE) = IF ENTRY_SIZE < 0 THEN ENTRY_SIZE ELSE 0
      BY <1>4, <1>11, <3>2 DEF Readable
    <3> QED
      BY <1>10, <3>3
  <2>2. /\ fds' = [fds EXCEPT ![frame.dir] = Closed(frame.dir, fd)]
        /\ Return(Opened(frame.path, NoHandle))
    BY <1>0, <2>1 DEF ScanEntry
  <2>3. Len(entries) <= i
    BY <1>1, <1>4, <1>6, <1>7, <1>11, DirectoryOver
  <2> QED
    BY <1>9, <2>2, <2>3, ScanStops
<1>12. CASE fd.size = 0
  <2>1. OnObject(fd) /\ Exact(fd)
    <3>1. ~(fd.size > 0)
      BY <1>12
    <3> QED
      BY <1>2, <1>6, <1>12, <3>1 DEF IsDirectory
  <2>2. Readable(fd, ENTRY_SIZE) = ENTRY_SIZE /\ ~(ENTRY_SIZE < ENTRY_SIZE)
    BY <1>4, <1>10, <1>12 DEF Readable
  <2>3. entry = EntryAt(entries, i + 1)
    <3> DEFINE n == EntriesPerSector
               q == i \div n
               s == i % n
    <3>1. /\ fd.position \div SECTOR_SIZE = q /\ q \in Nat /\ i = q * n + s
          /\ (fd.position % SECTOR_SIZE) \div ENTRY_SIZE = s /\ s \in 0 .. n - 1
      BY <1>7, SlotOfEntry
    <3>2. fd.position < Capacity(fd.first)
      BY <2>1 DEF OnObject
    <3>3. q < SectorCount(fd.first)
      BY <1>3, <1>4, <3>1, <3>2, PositionInFile
    <3>4. fd.buffer = SectorLba(fd.first, q)
      BY <2>1, <3>1 DEF Exact
    <3> HIDE DEF q, s
    <3>5. DirSlot[SectorLba(fd.first, q)][s] = EntryAt(Dirs[fd.first], q * n + s + 1)
      BY <1>1, <1>4, <3>1, <3>3, DirectorySlot
    <3> QED
      BY <3>1, <3>4, <3>5
  <2>4. PICK it \in Iterations(fd, ENTRY_SIZE) :
          \/ /\ fds' = [fds EXCEPT ![frame.dir] = Closed(frame.dir, it.fd)]
             /\ frame'.op = "entry" /\ reply' = reply
          \/ /\ entry.name # name /\ entry = EndEntry
             /\ fds' = [fds EXCEPT ![frame.dir] = Closed(frame.dir, it.fd)]
             /\ Return(Opened(frame.path, NoHandle))
          \/ /\ entry.name # name /\ entry # EndEntry
             /\ fds' = [fds EXCEPT ![frame.dir] = it.fd]
             /\ frame' = frame /\ reply' = reply
    <3> HIDE DEF entry
    <3> QED
      BY <1>0, <2>2, ScanChoices DEF entry
  <2> HIDE DEF entry, name, entries
  <2>5. CASE /\ fds' = [fds EXCEPT ![frame.dir] = Closed(frame.dir, it.fd)]
             /\ frame'.op = "entry" /\ reply' = reply
    BY <2>5, ScanStops
  <2>6. CASE /\ entry = EndEntry
             /\ fds' = [fds EXCEPT ![frame.dir] = Closed(frame.dir, it.fd)]
             /\ Return(Opened(frame.path, NoHandle))
    <3>1. Len(entries) <= i
      BY <1>1, <1>7, <1>8, <2>3, <2>6, ListEnds
    <3> QED
      BY <1>9, <2>6, <3>1, ScanStops
  <2>7. CASE /\ entry.name # name
             /\ fds' = [fds EXCEPT ![frame.dir] = it.fd]
             /\ frame' = frame /\ reply' = reply
    <3>1. Passed(entries, name, (i + 1) * ENTRY_SIZE)
      BY <1>7, <1>8, <2>3, <2>7, ScanGoesOn
    <3>2. Whole(cache, cachePos)
      BY <1>1 DEF Ready, SoundInv, CacheInv, Mounted
    <3>3. Goes(fd, ENTRY_SIZE, it) /\ it.fd \in AnyFile
      <4>1. Goes(fd, ENTRY_SIZE, it)
        BY <1>1, <1>3, <1>10, <2>1, <3>2, ReadyFacts, IterationGoes DEF Ready
      <4>2. it.fd \in AnyFile
        BY <1>1, <1>3, <1>10, ReadyFacts, IterationType DEF IterationOK
      <4> QED
        BY <4>1, <4>2
    <3>4. it.fd.first = fd.first /\ it.fd.position = (i + 1) * ENTRY_SIZE
      <4>1. ENTRY_SIZE <= InBuffer(fd) /\ fd.position + ENTRY_SIZE = (i + 1) * ENTRY_SIZE
            /\ InBuffer(fd) \in Nat
        <5>1. ENTRY_SIZE <= SECTOR_SIZE - (fd.position % SECTOR_SIZE)
              /\ fd.position + ENTRY_SIZE = (i + 1) * ENTRY_SIZE
          BY <1>7, SlotOfEntry
        <5>2. InBuffer(fd) \in 1 .. SECTOR_SIZE
          BY <1>3, <1>10, TakeType
        <5> QED
          BY <5>1, <5>2, SectorPositive DEF InBuffer
      <4>2. Take(fd, ENTRY_SIZE) = ENTRY_SIZE
        BY <1>10, <4>1 DEF Take
      <4> QED
        BY <3>3, <4>1, <4>2 DEF Goes
    <3>5. IF it.fd.size = 0 THEN Exact(it.fd) ELSE it.fd.position = Capacity(it.fd.first)
      <4>1. Capacity(fd.first) \in Nat \ {0}
        BY <1>4, SectorCountType
      <4>2. CASE it.fd.size = fd.size /\ Exact(it.fd)
        BY <1>12, <4>2
      <4>3. CASE it.fd.position = Capacity(fd.first) /\ it.fd.size = it.fd.position
        BY <3>4, <4>1, <4>3
      <4> QED
        BY <1>1, <1>3, <1>10, <2>1, <3>3, <4>2, <4>3, IterationExact
    <3>6. fds'[frame.dir] = it.fd
      BY <1>3, <2>7
    <3>7. ScanExact'
      BY <2>7, <3>1, <3>4, <3>5, <3>6 DEF ScanExact, name, entries
    <3> QED
      BY <2>7, <3>7, ScanMoves
  <2> QED
    BY <2>4, <2>5, <2>6, <2>7
<1> QED
  BY <1>11, <1>12

(***************************************************************************)
(* The entry at the end of a walk, or of a part of it.                     *)
(***************************************************************************)
(* A handle on the first sector of an object holds its bytes.              *)
LEMMA ExactAtTheStart ==
  ASSUME NEW f, f.first \in DOMAIN Chain, f.position = 0, f.buffer = ClusterToLba(f.first),
         SoundVolume
  PROVE  Exact(f) /\ SectorLba(f.first, 0) = ClusterToLba(f.first)
PROOF
<1>1. 0 \div SECTOR_SIZE = 0 /\ 0 \div SectorsPerCluster = 0 /\ 0 % SectorsPerCluster = 0
  BY Geometry
<1>2. Chain[f.first][1] = f.first /\ ClusterToLba(f.first) \in Nat
  BY ChainFacts, LbaOfCluster
<1>3. SectorLba(f.first, 0) = ClusterToLba(f.first)
  <2>1. 0 \div SectorsPerCluster + 1 = 1
    BY <1>1
  <2> QED
    BY <1>1, <1>2, <2>1 DEF SectorLba
<1> QED
  BY <1>1, <1>3 DEF Exact

(* What the walk has come to: the entry of name k of the path.             *)
LEMMA EntryMet ==
  ASSUME Perfect, frame.op = "entry"
  PROVE  /\ frame.entry \in EntryType /\ frame.entry \in AllEntries /\ frame.path \in Paths
         /\ frame.path \in Seq(Names) /\ frame.rest \in Seq(Names)
         /\ frame.entry.size < WORD
         /\ InvalidCluster(frame.entry.cluster) => frame.entry.cluster = 0
         /\ frame.rest = << >> => Target(frame.path) = frame.entry.cluster
         /\ NotADirectory => Target(frame.path) = 0
         /\ frame.rest # << >> /\ ~NotADirectory => ~InvalidCluster(frame.entry.cluster)
PROOF
<1>1. /\ frame.entry \in EntryType /\ frame.path \in Seq(Names) /\ frame.rest \in Seq(Names)
      /\ frame.path \in Paths /\ frame.entry \in AllEntries
  BY FrameFields, PerfectFacts DEF TypeOK, Perfect, Ready, SoundInv, WalkInv
<1>2. frame.entry.size < WORD /\ (InvalidCluster(frame.entry.cluster) => frame.entry.cluster = 0)
  BY <1>1 DEF Perfect, EntriesComplete
<1>3. PICK k \in 1 .. Len(frame.path) :
        After(frame.rest, frame.path, k) /\ frame.entry = Way(frame.path)[k]
  BY DEF Perfect, Ready, SoundInv, WalkInv
<1>4. Len(frame.path) \in Nat /\ Len(frame.rest) \in Nat /\ Len(frame.rest) = Len(frame.path) - k
  BY <1>1, <1>3 DEF After
<1>5. frame.rest = << >> => Target(frame.path) = frame.entry.cluster
  BY <1>3, <1>4 DEF Target
<1>6. ASSUME NotADirectory PROVE Target(frame.path) = 0
  <2>1. frame.rest # << >> /\ ~frame.entry.dir
    BY <1>6 DEF NotADirectory
  <2>2. Len(frame.rest) # 0
    BY <1>1, <2>1, EmptySeq
  <2>3. k + 1 \in 1 .. Len(frame.path) /\ (k + 1) - 1 = k /\ k + 1 \in 0 .. Len(frame.path)
    BY <1>4, <2>2
  <2>4. Way(frame.path)[k + 1] = EndEntry
    <3>1. \A m \in 1 .. Len(frame.path) : ~Way(frame.path)[m - 1].dir => Way(frame.path)[m] = EndEntry
      BY <1>1, WayFacts, Zenon
    <3>2. ~Way(frame.path)[(k + 1) - 1].dir => Way(frame.path)[k + 1] = EndEntry
      BY <2>3, <3>1, Zenon
    <3> QED
      BY <1>3, <2>1, <2>3, <3>2
  <2> QED
    BY <1>1, <2>3, <2>4, WayLost
<1>7. ASSUME frame.rest # << >>, ~NotADirectory PROVE ~InvalidCluster(frame.entry.cluster)
  <2>1. Len(frame.rest) # 0 /\ frame.entry.dir
    BY <1>1, <1>7, EmptySeq DEF NotADirectory
  <2>2. k \in 1 .. Len(frame.path) - 1 /\ Way(frame.path)[k].dir
    BY <1>3, <1>4, <2>1
  <2> QED
    BY <1>1, <1>3, <2>2 DEF Perfect, EntriesComplete
<1> QED
  BY <1>1, <1>2, <1>5, <1>6, <1>7

(* While a handle is not in use, it is not the caller's.                   *)
LEMMA AllInUse ==
  ASSUME Perfect, frame.op = "entry", FreeHandles = {}
  PROVE  \A g \in Handle : CursorOf(g) # NoFile
PROOF
<1>1. ASSUME NEW g \in Handle PROVE CursorOf(g) # NoFile
  <2>1. fds[g].opened
    BY DEF FreeHandles
  <2>2. g \in held
    BY <1>1, <2>1 DEF Perfect, Ready, HandlesInv, Scanning
  <2>3. CursorOf(g) = [file |-> fds[g].first, pos |-> fds[g].position]
    BY <2>2, CursorHeld DEF Moving
  <2>4. fds[g].first # 0
    BY <2>2, PerfectFacts
  <2> QED
    BY <2>3, <2>4 DEF NoFile
<1> QED
  BY <1>1

(* open() goes on without a handle.                                        *)
LEMMA ResumesWithNone ==
  ASSUME Perfect, frame.op = "entry", held' = held,
         \/ Return(Opened(frame.path, NoHandle)) /\ NotADirectory
         \/ Resume(NoHandle) /\ FreeHandles = {}
         \/ Resume(NoHandle) /\ ~NotADirectory /\ InvalidCluster(frame.entry.cluster),
         \A g \in Files : fds[g].opened => fds'[g] = fds[g]
  PROVE  ExactInv' /\ Refines
PROOF
<1>1. \A g \in held : fds'[g] = fds[g]
  BY PerfectFacts DEF IsFile
<1>2. frame' = Idle /\ reply' = Opened(frame.path, NoHandle)
  BY EndsWithNone DEF Return, Perfect, Ready, SoundVolume
<1>3. NotADirectory \/ frame.rest = << >> \/ FreeHandles = {}
  BY EntryMet
<1>4. Target(frame.path) = 0 \/ \A g \in Handle : CursorOf(g) # NoFile
  BY <1>3, EntryMet, AllInUse
<1>5. ScanExact' /\ frame'.op \in {"idle", "scan", "entry"}
  BY <1>2 DEF ScanExact, Idle
<1> QED
  BY <1>1, <1>2, <1>4, <1>5, WalkRefines, Zenon

LEMMA LoadEntryRefines ==
  ASSUME Perfect, frame.op = "entry", NEW h \in LowestFree, LoadEntry(h, frame.entry),
         ~NotADirectory, ~InvalidCluster(frame.entry.cluster)
  PROVE  ExactInv' /\ Refines
PROOF
<1> DEFINE e == frame.entry
           lba == ClusterToLba(e.cluster)
           path == frame.path
<1>1. /\ e \in EntryType /\ e \in AllEntries /\ path \in Paths /\ e.size < WORD
      /\ frame.rest = << >> => Target(path) = e.cluster
  BY EntryMet
<1>2. /\ h \in Handle /\ h \in Files /\ h # NoHandle /\ h \notin held
      /\ h # ROOT_DIRECTORY_HANDLE /\ fds \in [Files -> AnyFile] /\ held \subseteq Files
      /\ SoundVolume /\ TypeOK /\ NoSectorFails
  BY ReadyFacts, PerfectFacts, NotRoot, DriverAssumption DEF LowestFree, FreeHandles, Perfect
<1>3. PICK ok \in ReadOutcomes(lba) :
        /\ fds' = [fds EXCEPT ![h] = EntryFile(e, ok, IF ok THEN lba ELSE @.buffer)]
        /\ Resume(IF ok THEN h ELSE NoHandle)
  BY DEF LoadEntry
<1>4. e.cluster \in DOMAIN Chain /\ (e.dir => e.size = 0)
  BY <1>1, <1>2, EntryFacts
<1>5. ok = TRUE
  <2>1. SectorCount(e.cluster) \in Nat \ {0}
    BY <1>4, SectorCountType
  <2>2. SectorLba(e.cluster, 0) = lba
    <3> DEFINE f == [first |-> e.cluster, position |-> 0, buffer |-> lba]
    <3>1. f.first = e.cluster /\ f.position = 0 /\ f.buffer = lba
      OBVIOUS
    <3> HIDE DEF f
    <3> QED
      BY <1>2, <1>4, <3>1, ExactAtTheStart
  <2>3. 0 \in Nat /\ 0 < SectorCount(e.cluster)
    BY <2>1
  <2> QED
    BY <1>2, <1>3, <1>4, <2>2, <2>3, FileReadWell
<1> DEFINE f == EntryFile(e, ok, lba)
<1>6. fds'[h] = f /\ Resume(h)
  BY <1>2, <1>3, <1>5
<1>7. /\ f.isDir = e.dir /\ f.size = e.size /\ f.position = 0
      /\ f.first = e.cluster /\ f.buffer = lba
  BY <1>1, EntryFields
<1>8. \A g \in Files : g # h => fds'[g] = fds[g]
  BY <1>2, <1>3
<1> HIDE DEF f
<1>9. Exact(f)
  BY <1>2, <1>4, <1>7, ExactAtTheStart
<1>10. \A g \in held : fds'[g] = fds[g] /\ g # h
  BY <1>2, <1>8
<1>11. \A g : ~Moving(g) /\ ~Seeking(g)
  BY DEF Moving, Seeking
<1>12. CASE frame.rest = << >>
  <2>1. frame' = Idle /\ reply' = Opened(path, h) /\ held' = held \cup {h}
    BY <1>2, <1>6, <1>12, NotNull DEF Resume, Return
  <2>2. frame'.op = "idle" /\ \A g : ~Moving(g)'
    BY <2>1 DEF Idle, Moving
  <2>3. HeldExact'
    <3>1. ASSUME NEW g \in held'
          PROVE  /\ fds'[g].size < WORD
                 /\ fds'[g].position < fds'[g].size /\ ~Seeking(g)' => Exact(fds'[g])
      <4>1. CASE g = h
        BY <1>1, <1>6, <1>7, <1>9, <4>1
      <4>2. CASE g # h
        <5>1. g \in held /\ fds'[g] = fds[g]
          BY <1>10, <2>1, <4>2
        <5> QED
          BY <1>11, <5>1, PerfectFacts DEF HeldExact
      <4> QED
        BY <4>1, <4>2
    <3> QED
      BY <3>1 DEF HeldExact, Exact
  <2>4. Target(path) = e.cluster /\ e.cluster # 0
    BY <1>1, <1>4, <1>12, FirstCluster
  <2>5. CursorOf(h) = NoFile
    BY <1>2, CursorFree
  <2>6. CursorOf(h)' = [file |-> Target(path), pos |-> 0]
    BY <1>6, <1>7, <2>1, <2>2, <2>4 DEF CursorOf
  <2>7. OthersStay(h)
    BY <1>10, <1>11, <2>1, <2>2 DEF OthersStay, CursorOf
  <2>8. Store!Next
    BY <1>1, <1>2, <2>1, <2>4, <2>5, <2>6, <2>7, StoreOpens
  <2> QED
    BY <2>2, <2>3, <2>8 DEF Refines, ExactInv, ScanExact, ReadExact, SeekExact
<1>13. CASE frame.rest # << >>
  <2>1. /\ frame' = [op |-> "scan", dir |-> h, path |-> path, rest |-> frame.rest]
        /\ held' = held /\ reply' = reply
    BY <1>2, <1>6, <1>13, NotNull DEF Resume
  <2>2. frame'.op = "scan" /\ frame'.dir = h /\ frame'.rest = frame.rest
    BY <2>1
  <2>3. f.size = 0 /\ e.cluster \in DOMAIN Dirs
    BY <1>1, <1>2, <1>4, <1>7, <1>13, EntryFacts DEF NotADirectory
  <2>4. Passed(Dirs[f.first], Head(frame.rest), 0)
    <3>1. 0 = 0 * ENTRY_SIZE /\ \A j \in DOMAIN Dirs[e.cluster] : ~(j <= 0)
      BY <2>3, EntryAssumption, Geometry
    <3> QED
      BY <1>7, <3>1 DEF Passed
  <2>5. ScanExact'
    BY <1>2, <1>6, <1>7, <1>9, <2>2, <2>3, <2>4 DEF ScanExact
  <2> QED
    BY <1>10, <2>1, <2>2, <2>5, WalkRefines
<1> QED
  BY <1>12, <1>13

LEMMA OpenEntryRefines ==
  ASSUME Perfect, OpenEntry
  PROVE  ExactInv' /\ Refines
PROOF
<1>1. frame.op = "entry"
  BY DEF OpenEntry
<1>2. fds \in [Files -> AnyFile]
  BY PerfectFacts
<1>3. ASSUME Resume(NoHandle) PROVE held' = held
  BY <1>3, EndsWithNone DEF Perfect, Ready, SoundVolume
<1>4. CASE fds' = fds /\ held' = held /\ Return(Opened(frame.path, NoHandle)) /\ NotADirectory
  BY <1>1, <1>4, ResumesWithNone
<1>5. CASE fds' = fds /\ Resume(NoHandle) /\ FreeHandles = {}
  BY <1>1, <1>3, <1>5, ResumesWithNone
<1>6. ASSUME NEW h \in LowestFree,
             fds' = [fds EXCEPT ![h] = EntryFile(frame.entry, FALSE, @.buffer)],
             Resume(NoHandle), ~NotADirectory, InvalidCluster(frame.entry.cluster)
      PROVE  ExactInv' /\ Refines
  <2>1. \A g \in Files : fds[g].opened => fds'[g] = fds[g]
    BY <1>2, <1>6 DEF LowestFree, FreeHandles
  <2> QED
    BY <1>1, <1>3, <1>6, <2>1, ResumesWithNone
<1>7. ASSUME NEW h \in LowestFree, LoadEntry(h, frame.entry),
             ~NotADirectory, ~InvalidCluster(frame.entry.cluster)
      PROVE  ExactInv' /\ Refines
  BY <1>1, <1>7, LoadEntryRefines
<1> QED
  BY <1>4, <1>5, <1>6, <1>7 DEF OpenEntry

(***************************************************************************)
(* The refinement.                                                         *)
(***************************************************************************)
LEMMA ExactInit ==
  ASSUME Init
  PROVE  ExactInv /\ Store!Init
PROOF
<1>1. frame.op = "unmounted" /\ held = {} /\ reply = Waiting
  BY DEF Init
<1>2. ExactInv
  BY <1>1 DEF ExactInv, HeldExact, ScanExact, ReadExact, SeekExact
<1>3. \A h \in Handle : CursorOf(h) = Store!Closed
  BY <1>1 DEF CursorOf, Store!Closed
<1> QED
  BY <1>1, <1>2, <1>3 DEF Store!Init, Store!Waiting, Waiting

LEMMA RefinesStep ==
  ASSUME Perfect, [Next]_vars
  PROVE  ExactInv' /\ Refines
PROOF
<1>1. CASE Step
  <2>1. ASSUME ScanEntry PROVE ExactInv' /\ Refines
    BY <2>1, RootScanRefines, DirectoryScanRefines
  <2> QED
    BY <1>1, <2>1, MountRefines, OpenEntryRefines, ReadStepRefines, ReadReturnRefines,
       SeekStepRefines, SeekLoadRefines DEF Step
<1>2. CASE Caller
  BY <1>2, OpenRefines, ReadCallRefines, SeekCallRefines, CloseRefines DEF Caller
<1>3. CASE UNCHANGED vars
  <2>1. fds' = fds /\ held' = held /\ frame' = frame /\ reply' = reply
    BY <1>3 DEF vars
  <2>2. ExactInv
    BY DEF Perfect
  <2>3. ExactInv'
    BY <2>1, <2>2 DEF ExactInv, HeldExact, ScanExact, ReadExact, SeekExact, Seeking
  <2>4. SameCursors
    BY <2>1 DEF SameCursors, CursorOf, Moving
  <2> QED
    BY <2>1, <2>3, <2>4 DEF Refines
<1> QED
  BY <1>1, <1>2, <1>3 DEF Next

(* On a sound volume whose entries are in order, while every read of the   *)
(* drive succeeds, open(), read(), seek() and close() are those of a store *)
(* of files: a path opens the file it names while a handle is free, a read *)
(* delivers the bytes of that file at the cursor, as many as were asked    *)
(* for or are left, and no handle moves another's cursor.                  *)
THEOREM FilesAreThoseOfTheVolume ==
  ASSUME SoundVolume, NoFillFails, NoSectorFails, EntriesComplete
  PROVE  Spec => ImplementsFileStore
PROOF
<1> DEFINE Inv == TypeOK /\ HandlesInv /\ SoundInv /\ ExactInv
<1>1. Init => Inv /\ Store!Init
  BY InitType, HandlesInit, SoundInit, ExactInit
<1>2. ASSUME Inv, [Next]_vars PROVE Inv' /\ Refines
  <2>1. Ready
    BY <1>2 DEF Ready
  <2>2. TypeOK' /\ HandlesInv' /\ SoundInv'
    BY <1>2, <2>1, TypeStep, HandlesStep, SoundStep DEF SoundVolume
  <2>3. Perfect
    BY <1>2, <2>1, <2>2 DEF Perfect
  <2> QED
    BY <1>2, <2>2, <2>3, RefinesStep
<1>3. ASSUME Refines PROVE [Store!Next]_<<[h \in Handle |-> CursorOf(h)], reply>>
  BY <1>3, StoreRests DEF Refines
<1>4. Inv /\ [Next]_vars => Inv' /\ [Store!Next]_<<[h \in Handle |-> CursorOf(h)], reply>>
  BY <1>2, <1>3
<1> HIDE DEF Inv
<1> QED
  BY <1>1, <1>4, PTL DEF Spec, ImplementsFileStore, Store!Spec
=============================================================================
