--------------------------- MODULE Fat12Properties ---------------------------
(***************************************************************************)
(* What the callers of the FAT12 driver rely on.                           *)
(***************************************************************************)
EXTENDS Fat12

Files == Handle \cup {ROOT_DIRECTORY_HANDLE}

AnyFile ==
  [opened : BOOLEAN, isDir : BOOLEAN, size : Nat, position : Nat, first : Nat,
   cluster : Nat, sector : 0 .. SectorsPerCluster - 1,
   buffer : Nat \cup {NoSector}]

AnyFrame ==
  [op : {"unmounted", "failed", "idle"}]
    \cup [op : {"scan"}, dir : Files, path : Seq(Names), rest : Seq(Names) \ {<< >>}]
    \cup [op : {"entry"}, entry : EntryType, path : Seq(Names), rest : Seq(Names)]
    \cup [op : {"read"}, handle : Files, start : Nat, want : Nat, left : Nat,
          got : Seq(Int \X Int)]
    \cup [op : {"seek"}, handle : Files, start : Nat, to : Nat, cluster : Nat, offset : Nat]

(* Every field stays in its range: the sector within its cluster, the      *)
(* handles of File* within OpenedFiles and RootDirectory, and an open      *)
(* handle's buffer holds some sector of the drive.                         *)
TypeOK ==
  /\ fds \in [Files -> AnyFile]
  /\ \A h \in Files : fds[h].opened => fds[h].buffer \in 0 .. TotalSectors - 1
  /\ cachePos \in Nat
  /\ cache \in [0 .. FAT_CACHE_SIZE - 1 -> Nat \cup {NoSector}]
  /\ frame \in AnyFrame
  /\ held \subseteq Files
  /\ sectorFaults \in 0 .. MaxSectorFaults
  /\ fatFaults \in 0 .. MaxFatFaults

(***************************************************************************)
(* The volumes and callers on which the driver keeps its promises, sector  *)
(* faults apart.  The first three are what a file system checker asks of a *)
(* volume; the others are limits of this driver.                           *)
(***************************************************************************)
Clusters == UNION {{Chain[c][i] : i \in DOMAIN Chain[c]} : c \in DOMAIN Chain}

(* No cluster is in two places.                                            *)
ChainsApart ==
  \A c, d \in DOMAIN Chain : \A i \in DOMAIN Chain[c], j \in DOMAIN Chain[d] :
    Chain[c][i] = Chain[d][j] => c = d /\ i = j

(* Objects and their FAT entries lie on the drive.                         *)
OnVolume ==
  /\ DataLba <= TotalSectors /\ TotalSectors <= WORD
  /\ \A c \in DOMAIN Chain : SectorCount(c) <= TotalSectors
  /\ \A k \in Clusters :
       /\ DataLba + (k - 1) * SectorsPerCluster <= TotalSectors
       /\ FatIndex(k) + 1 < SectorsPerFat * SECTOR_SIZE

(* An entry describes its object, and its name tells it from the others.   *)
EntriesSound ==
  /\ DOMAIN Dirs \subseteq DOMAIN Chain
  /\ \A e \in AllEntries : ~InvalidCluster(e.cluster) =>
       /\ e.cluster \in DOMAIN Chain
       /\ e.dir <=> e.cluster \in DOMAIN Dirs
       /\ IF e.dir THEN e.size = 0 ELSE e.size <= SectorCount(e.cluster) * SECTOR_SIZE
       /\ \A f \in AllEntries : f.cluster = e.cluster => f.size = e.size
  /\ \A entries \in {RootDir} \cup {Dirs[c] : c \in DOMAIN Dirs} :
       \A j, k \in DOMAIN entries : entries[j].name = entries[k].name => j = k

(* The root directory and its end mark leave room in its first sector.     *)
RootInOneSector == Len(RootDir) + 2 <= EntriesPerSector

(* An entry that lies across two FAT sectors is not looked up while the    *)
(* cache ends between them.                                                *)
Straddles(k) == FatIndex(k) % SECTOR_SIZE = SECTOR_SIZE - 1

NoEntryAcrossTheEnd ==
  \A j, k \in Clusters :
    Straddles(k) => FatSector(k) + 1 # FatSector(j) + FAT_CACHE_SIZE

(* The paths the caller opens name files, if anything.                     *)
OpensFiles == \A path \in Paths : path # << >> /\ Target(path) \notin DOMAIN Dirs

(* A null File* is not taken for one of the files.                         *)
NullNamesNone == NullHandle \notin Handle

SoundVolume ==
  /\ ChainsApart /\ OnVolume /\ EntriesSound
  /\ RootInOneSector /\ NoEntryAcrossTheEnd /\ OpensFiles /\ NullNamesNone

(* Every fill of the FAT cache succeeds: NextCluster does not look whether *)
(* it has.                                                                 *)
NoFillFails == MaxFatFaults = 0

(* Entries are used up to the first free one, a directory has room for its *)
(* own, and one that leads nowhere has the first cluster of an empty file. *)
(* No path leads through one: only ".." does so, which FindFile spells in  *)
(* a way that no entry has.                                                *)
EntriesComplete ==
  /\ \A path \in Paths : \A k \in 1 .. Len(path) - 1 :
       Way(path)[k].dir => ~InvalidCluster(Way(path)[k].cluster)
  /\ Len(RootDir) <= RootEntryCount /\ RootSize < WORD
  /\ \A c \in DOMAIN Dirs : Len(Dirs[c]) <= SectorCount(c) * EntriesPerSector
  /\ \A e \in AllEntries :
       /\ e # EndEntry /\ e.size < WORD
       /\ InvalidCluster(e.cluster) => e.cluster = 0

(* The drive answers every read of a sector it has.                        *)
NoSectorFails == MaxSectorFaults = 0

(***************************************************************************)
(* Refinement: between calls a held handle is a cursor over its file, and  *)
(* a call takes effect as it returns.                                      *)
(***************************************************************************)
Moving(h) == frame.op \in {"read", "seek"} /\ frame.handle = h

CursorOf(h) ==
  IF h \in held
  THEN [file |-> fds[h].first,
        pos  |-> IF Moving(h) THEN frame.start ELSE fds[h].position]
  ELSE [file |-> 0, pos |-> 0]

Store == INSTANCE FileStore WITH
  Handles <- Handle, Nobody <- NoHandle, Missing <- 0,
  cursor  <- [h \in Handle |-> CursorOf(h)],
  answer  <- reply

(* On a disk that answers every read, open(), read(), seek() and close()   *)
(* do what fs.hpp says of them: a path opens the file it names while a     *)
(* handle is free, and a read delivers the file's own bytes at the cursor, *)
(* as many as were asked for or are left, wherever the chain leads and     *)
(* whatever part of the FAT the cache holds.                               *)
ImplementsFileStore == Store!Spec

(***************************************************************************)
(* Safety.                                                                 *)
(***************************************************************************)
Between == frame.op = "idle"

(* The state of handle h says where its position is: the cluster and the   *)
(* sector read() and seek() keep beside the position are those of the      *)
(* sector the position lies in.                                            *)
OnTrack(h) ==
  LET fd == fds[h]
      k  == fd.position \div SECTOR_SIZE
  IN  /\ fd.cluster = Chain[fd.first][k \div SectorsPerCluster + 1]
      /\ fd.sector = k % SectorsPerCluster

(* Failed sector reads do not derail a handle: three fields written by     *)
(* different branches of read() and seek() stay in step, so a later read   *)
(* that succeeds goes on at the right place of the disk.                   *)
HandlesOnTrack ==
  Between => \A h \in held \cap Handle : fds[h].position < fds[h].size => OnTrack(h)

Sectors(c) == {SectorLba(c, k) : k \in 0 .. SectorCount(c) - 1}

(* Whatever reads fail, and however many handles are open at once, read()  *)
(* delivers bytes of the file's own sectors only, never more than was      *)
(* asked for and never past the end of the file.                           *)
OwnBytesOnly ==
  (Between /\ reply.op = "read") =>
    LET c == fds[reply.handle].first IN
    /\ \A i \in DOMAIN reply.got : reply.got[i][1] \in Sectors(c)
    /\ Len(reply.got) <= reply.want
    /\ reply.start + Len(reply.got) <= FileSize(c)

(* A successful seek repairs a handle that read errors have left with the  *)
(* wrong sector: position, cluster, sector and buffer agree again.         *)
SeekRepairs ==
  (Between /\ reply.op = "seek" /\ reply.ok) =>
    /\ OnTrack(reply.handle)
    /\ fds[reply.handle].position = reply.to
    /\ <<fds[reply.handle].buffer, reply.to % SECTOR_SIZE>> =
         Place(fds[reply.handle].first, reply.to)

(* The path walk opens what the path names or nothing, even when a sector  *)
(* of a directory cannot be read and the stale one is scanned again.       *)
OpensTheRightFile ==
  (Between /\ reply.op = "open" /\ reply.handle # NoHandle) =>
    /\ fds[reply.handle].opened
    /\ fds[reply.handle].first = Target(reply.path)

(* The handles marked open are those the caller holds: no path, found or   *)
(* not, and no failing read leaks a slot of OpenedFiles, and no two File*  *)
(* share one.                                                              *)
HandlesAccounted ==
  Between => {h \in Handle : fds[h].opened} = held \cap Handle

(***************************************************************************)
(* Liveness: every call returns, whatever reads fail and whatever the      *)
(* driver takes a null File* for.                                          *)
(***************************************************************************)
CallsReturn == (frame.op # "idle") ~> (frame.op \in {"idle", "failed"})

(***************************************************************************)
(* What the headers and comments say and the code does not always do.      *)
(***************************************************************************)
(* fat.hpp, "Read data from a file.": the bytes delivered are those at the *)
(* cursor.                                                                 *)
ReadsTheFile ==
  (Between /\ reply.op = "read") =>
    \A i \in DOMAIN reply.got :
      reply.got[i] = Place(fds[reply.handle].first, reply.start + i - 1)

(* fat.hpp, "Open a file at the given path.": while a handle is free, a    *)
(* path that names a file opens it.                                        *)
OpensWhatExists ==
  (Between /\ reply.op = "open" /\ reply.handle = NoHandle /\ reply.path \in Paths) =>
    Target(reply.path) = 0 \/ Handle \subseteq held
=============================================================================
