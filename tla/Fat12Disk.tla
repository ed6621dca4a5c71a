------------------------------ MODULE Fat12Disk ------------------------------
(***************************************************************************)
(* A FAT12 volume as the stage-2 driver finds it: where each region lies,  *)
(* what a byte of the file allocation table is, and which directory entry  *)
(* a sector holds.  Everything here is constant: the boot loader never     *)
(* writes to the disk.                                                     *)
(*                                                                         *)
(* The bytes of a file are not spelled out.  A byte is named by its place, *)
(* <<lba, offset>>, which is enough to tell a right byte from a wrong one. *)
(***************************************************************************)
EXTENDS Integers, Sequences

CONSTANTS
  SECTOR_SIZE,        \* bytes per sector (512 on a real disk)
  ENTRY_SIZE,         \* sizeof(FAT_DirectoryEntry) (32)
  WORD,               \* number of values of a uint32_t (2^32)
  ReservedSectors,    \* reserved_sector_count
  SectorsPerFat,      \* fat_size_16
  FatCount,           \* num_fats
  RootEntryCount,     \* root_entry_count
  SectorsPerCluster,  \* sectors_per_cluster
  TotalSectors,       \* sectors the drive answers for
  Names,              \* file names
  RootDir,            \* the entries of the root directory, in disk order
  Dirs,               \* Dirs[c]: the entries of the directory whose first cluster is c
  Chain               \* Chain[c]: the clusters of the object whose first cluster is c

(* A volume mkfs.fat can produce, as far as the driver relies on it: whole *)
(* directory entries per sector, FAT entries of 12 bits, chains of         *)
(* distinct data clusters, an entry per object.                            *)
ASSUME GeometryAssumption ==
  /\ SECTOR_SIZE \in Nat \ {0} /\ ENTRY_SIZE \in Nat \ {0}
  /\ SECTOR_SIZE % ENTRY_SIZE = 0
  /\ WORD \in Nat /\ WORD > 8192
  /\ ReservedSectors \in Nat \ {0} /\ SectorsPerFat \in Nat \ {0}
  /\ SectorsPerFat * SECTOR_SIZE <= 6144          \* at most 4096 FAT entries
  /\ FatCount \in Nat \ {0} /\ RootEntryCount \in Nat \ {0}
  /\ SectorsPerCluster \in Nat \ {0} /\ TotalSectors \in Nat

DataCluster == 2 .. 4079

ASSUME ChainAssumption ==
  \A c \in DOMAIN Chain :
    /\ Chain[c] \in Seq(DataCluster)
    /\ Chain[c] # << >> /\ Chain[c][1] = c

(***************************************************************************)
(* Regions, as initialize() computes them from the boot sector.            *)
(***************************************************************************)
RootLba == ReservedSectors + SectorsPerFat * FatCount

RootSize == ENTRY_SIZE * RootEntryCount

RootSectors == (RootSize + SECTOR_SIZE - 1) \div SECTOR_SIZE

DataLba == RootLba + RootSectors

ClusterSize == SectorsPerCluster * SECTOR_SIZE

(* Unsigned arithmetic: clusters 0 and 1 wrap below the data region.       *)
ClusterToLba(cluster) == (DataLba + (cluster - 2) * SectorsPerCluster) % WORD

(***************************************************************************)
(* The file allocation table: 12-bit entries, two of them in three bytes.  *)
(***************************************************************************)
FatEnd == 4095            \* mkfs's end-of-chain mark

(* The successor of cluster c: read off the chains, 0 where c is free.     *)
FatEntry(c) ==
  IF \E f \in DOMAIN Chain : \E i \in DOMAIN Chain[f] : Chain[f][i] = c
  THEN LET f == CHOOSE g \in DOMAIN Chain :
                  \E i \in DOMAIN Chain[g] : Chain[g][i] = c
           i == CHOOSE j \in DOMAIN Chain[f] : Chain[f][j] = c
       IN  IF i = Len(Chain[f]) THEN FatEnd ELSE Chain[f][i + 1]
  ELSE IF c = 0 THEN 4080 ELSE IF c = 1 THEN FatEnd ELSE 0

(* Byte b of the table.                                                    *)
FatByte ==
  [b \in 0 .. (SectorsPerFat * SECTOR_SIZE) - 1 |->
     LET even == FatEntry(2 * (b \div 3))
         odd  == FatEntry(2 * (b \div 3) + 1)
     IN  CASE b % 3 = 0 -> even % 256
           [] b % 3 = 1 -> (even \div 256) + 16 * (odd % 16)
           [] b % 3 = 2 -> odd \div 16]

(* Byte o of the s-th sector after the reserved ones.  Past the copies of  *)
(* the table lies the root directory; its bytes count as zeros here.       *)
FatSectorByte(s, o) ==
  IF s \in 0 .. (SectorsPerFat * FatCount) - 1
  THEN FatByte[((s % SectorsPerFat) * SECTOR_SIZE) + o]
  ELSE 0

(***************************************************************************)
(* Directory entries.  An entry whose first name byte is 0 ends a          *)
(* directory; the bytes of a sector that is no directory's decode to       *)
(* entries that match no name.                                             *)
(***************************************************************************)
EntryType == [name : Names \cup {"END", "JUNK"}, dir : BOOLEAN, cluster : Nat, size : Nat]

ASSUME EntryAssumption ==
  /\ Names \cap {"END", "JUNK"} = {}
  /\ RootDir \in Seq(EntryType)
  /\ \A c \in DOMAIN Dirs : Dirs[c] \in Seq(EntryType)

EndEntry  == [name |-> "END",  dir |-> FALSE, cluster |-> 0, size |-> 0]
JunkEntry == [name |-> "JUNK", dir |-> FALSE, cluster |-> 0, size |-> 0]

EntriesPerSector == SECTOR_SIZE \div ENTRY_SIZE

EntryAt(entries, k) == IF k \in DOMAIN entries THEN entries[k] ELSE EndEntry

(* The LBA of the k-th sector (from 0) of the object that starts at c.     *)
SectorLba(c, k) ==
  ClusterToLba(Chain[c][k \div SectorsPerCluster + 1]) + (k % SectorsPerCluster)

SectorCount(c) == Len(Chain[c]) * SectorsPerCluster

(* Slot k (from 0) of the sector at lba.  Unused clusters of a volume made *)
(* from zeros decode to the end mark.                                      *)
Owner(lba) ==
  {o \in (DOMAIN Chain) \X (0 .. TotalSectors) :
     o[2] < SectorCount(o[1]) /\ SectorLba(o[1], o[2]) = lba}

DataEntry(o, k) ==
  IF o[1] \in DOMAIN Dirs
  THEN EntryAt(Dirs[o[1]], o[2] * EntriesPerSector + k + 1)
  ELSE JunkEntry

DirSlot ==
  [lba \in 0 .. TotalSectors - 1 |-> [k \in 0 .. EntriesPerSector - 1 |->
     IF lba < RootLba THEN JunkEntry
     ELSE IF lba < DataLba THEN EntryAt(RootDir, (lba - RootLba) * EntriesPerSector + k + 1)
     ELSE IF Owner(lba) = {} THEN EndEntry
     ELSE DataEntry(CHOOSE o \in Owner(lba) : TRUE, k)]]

(***************************************************************************)
(* What the volume says, as a caller means it: the object a path names and *)
(* the bytes of an object in order.                                        *)
(***************************************************************************)
EntriesIn(c) == IF c \in DOMAIN Dirs THEN Dirs[c] ELSE RootDir

Named(entries, name) ==
  LET hits == {k \in DOMAIN entries : entries[k].name = name}
  IN  IF hits = {} THEN EndEntry
      ELSE entries[CHOOSE k \in hits : \A j \in hits : k <= j]

(* The entries that the names of a path lead to, one after the other; that *)
(* of the root directory comes first.                                      *)
Way(path) ==
  LET at[k \in 0 .. Len(path)] ==
        IF k = 0 THEN [EndEntry EXCEPT !.dir = TRUE]
        ELSE IF at[k - 1].dir THEN Named(EntriesIn(at[k - 1].cluster), path[k])
        ELSE EndEntry
  IN  at

(* The first cluster of the object that path names, 0 if it names none.    *)
Target(path) == Way(path)[Len(path)].cluster

Listed(entries) == {entries[k] : k \in DOMAIN entries}

AllEntries == Listed(RootDir) \cup UNION {Listed(Dirs[c]) : c \in DOMAIN Dirs}

FileSize(c) ==
  IF c \in DOMAIN Dirs THEN SectorCount(c) * SECTOR_SIZE
  ELSE (CHOOSE e \in AllEntries : e.cluster = c).size

(* Where byte p (from 0) of the object that starts at cluster c lies.      *)
Place(c, p) == <<SectorLba(c, p \div SECTOR_SIZE), p % SECTOR_SIZE>>

Content(c) == [p \in 1 .. FileSize(c) |-> Place(c, p - 1)]
=============================================================================
