-------------------------------- MODULE Fat12 --------------------------------
(***************************************************************************)
(* The FAT12 driver of the stage-2 boot loader: mounting, open, read,      *)
(* seek, close, and the FAT sector cache they share.                       *)
(*                                                                         *)
(* The driver runs on one CPU without interrupts, so a call runs to its    *)
(* return; what makes it hard is the state a call leaves behind for the    *)
(* next one, above all after a disk error.  A call is a sequence of steps, *)
(* one per iteration of the driver's loops, kept in frame.                 *)
(***************************************************************************)
EXTENDS Fat12Disk, FiniteSets

CONSTANTS
  MAX_FILE_HANDLES,   \* slots of OpenedFiles that open() hands out (10)
  FAT_CACHE_SIZE,     \* sectors of the FAT held in memory (5)
  NullHandle,         \* the byte at address 0: the handle field of a null File*
  Paths,              \* paths the caller opens: sequences of names
  ReadSizes,          \* byte counts the caller passes to read()
  SeekTargets,        \* positions the caller passes to seek()
  MaxSectorFaults,    \* bound: one-sector reads that fail in a behaviour
  MaxFatFaults        \* bound: FAT cache fills that fail in a behaviour

ASSUME DriverAssumption ==
  /\ MAX_FILE_HANDLES \in Nat \ {0} /\ FAT_CACHE_SIZE \in Nat \ {0}
  \* the BIOS's byte; the root's handle is left out
  /\ NullHandle \in Nat \ {MAX_FILE_HANDLES + 1}
  /\ ReadSizes \subseteq Nat /\ SeekTargets \subseteq Nat
  /\ MaxSectorFaults \in Nat /\ MaxFatFaults \in Nat
  /\ Paths \subseteq Seq(Names)
  \* a caller that reads the root directory reads whole entries
  /\ << >> \in Paths => \A n \in ReadSizes \cup SeekTargets : n % ENTRY_SIZE = 0

VARIABLES
  fds,           \* RootDirectory and OpenedFiles, by handle
  cachePos,      \* FatCachePosition: the FAT sector the cache starts at
  cache,         \* FatCache: which FAT sector's bytes each cache sector holds
  frame,         \* the call in progress
  held,          \* the handles of the File* the caller has been given
  reply,         \* what the last call returned
  sectorFaults,  \* one-sector reads that have failed
  fatFaults      \* FAT cache fills that have failed

vars == <<fds, cachePos, cache, frame, held, reply, sectorFaults, fatFaults>>

Handle == 0 .. MAX_FILE_HANDLES - 1

ROOT_DIRECTORY_HANDLE == MAX_FILE_HANDLES + 1

NoSector == -1        \* a buffer nothing has been read into: zero bytes

NoHandle == -1        \* a null File*

ZeroFile ==
  [opened |-> FALSE, isDir |-> FALSE, size |-> 0, position |-> 0, first |-> 0,
   cluster |-> 0, sector |-> 0, buffer |-> NoSector]

Idle == [op |-> "idle"]

(***************************************************************************)
(* The disk.  A one-sector read past the end of the drive fails; any other *)
(* may fail.  A failing read transfers nothing, a failing cache fill has   *)
(* transferred the sectors before the one that failed.                     *)
(***************************************************************************)
ReadOutcomes(lba) ==
  (IF lba < TotalSectors THEN {TRUE} ELSE {FALSE})
    \cup (IF sectorFaults < MaxSectorFaults THEN {FALSE} ELSE {})

(* A fill from FAT sector s reads what the drive has, or stops earlier.     *)
OnDrive(s) ==
  LET n == TotalSectors - (ReservedSectors + s)
  IN  IF n >= FAT_CACHE_SIZE THEN FAT_CACHE_SIZE ELSE IF n > 0 THEN n ELSE 0

FillOutcomes(s) ==
  IF fatFaults < MaxFatFaults THEN 0 .. OnDrive(s) ELSE {OnDrive(s)}

(* A failure the drive had no reason for is counted against the bound.     *)
CountSectorFault(lba, ok) ==
  sectorFaults' = IF ok \/ lba >= TotalSectors THEN sectorFaults ELSE sectorFaults + 1

(***************************************************************************)
(* NextCluster.  The 12 bits of an entry are two bytes of the cache; the   *)
(* byte after the cache is the low byte of FatCachePosition.               *)
(***************************************************************************)
FatIndex(cluster) == (cluster * 3) \div 2

FatSector(cluster) == FatIndex(cluster) \div SECTOR_SIZE

(* Mutant: the sector after the cache counts as cached.                    *)
CacheHit_OneTooMany(cluster) ==
  FatSector(cluster) >= cachePos /\ FatSector(cluster) <= cachePos + FAT_CACHE_SIZE

CacheHit(cluster) ==
  /\ FatSector(cluster) >= cachePos
  /\ FatSector(cluster) < (cachePos + FAT_CACHE_SIZE) % WORD

(* The cache after a fill from sector s that transferred k sectors.        *)
Filled(s, k) ==
  [i \in 0 .. FAT_CACHE_SIZE - 1 |-> IF i < k THEN s + i ELSE cache[i]]

CacheByte(c, pos, i) ==
  IF i < FAT_CACHE_SIZE * SECTOR_SIZE
  THEN IF c[i \div SECTOR_SIZE] = NoSector
       THEN 0
       ELSE FatSectorByte(c[i \div SECTOR_SIZE], i % SECTOR_SIZE)
  ELSE pos % 256

(* End-of-chain marks are widened to the top of the 32-bit range.          *)
EndOfChain == WORD - 8

Widened(n) == IF n >= 4088 THEN n + WORD - 4096 ELSE n

Decoded(c, pos, cluster) ==
  LET i    == FatIndex(cluster) - pos * SECTOR_SIZE
      pair == CacheByte(c, pos, i) + 256 * CacheByte(c, pos, i + 1)
  IN  Widened(IF cluster % 2 = 0 THEN pair % 4096 ELSE pair \div 16)

(* The ways NextCluster(cluster) can go: the cluster it returns and the    *)
(* cache it leaves.  The result of the fill is not looked at.              *)
NextCluster(cluster) ==
  IF CacheHit(cluster)
  THEN {[next |-> Decoded(cache, cachePos, cluster),
         pos |-> cachePos, cache |-> cache, faults |-> fatFaults]}
  ELSE LET s == FatSector(cluster)
       IN  {[next |-> Decoded(Filled(s, k), s, cluster), pos |-> s, cache |-> Filled(s, k),
             faults |-> IF k < OnDrive(s) THEN fatFaults + 1 ELSE fatFaults] :
               k \in FillOutcomes(s)}

NoLookup(cluster) ==
  {[next |-> cluster, pos |-> cachePos, cache |-> cache, faults |-> fatFaults]}

Remember(l) == cachePos' = l.pos /\ cache' = l.cache /\ fatFaults' = l.faults

(***************************************************************************)
(* One iteration of read()'s copy loop on fd with n bytes still wanted:    *)
(* copy what the buffer has, and at its end step to the next sector and    *)
(* load it at once, wanted or not.                                         *)
(***************************************************************************)
InBuffer(fd) == SECTOR_SIZE - (fd.position % SECTOR_SIZE)

(* Mutant: the last byte of the buffer is never taken.                     *)
Take_OneShort(fd, n) == IF n < InBuffer(fd) THEN n ELSE InBuffer(fd) - 1

Take(fd, n) == IF n < InBuffer(fd) THEN n ELSE InBuffer(fd)

Copied(fd, n) ==
  [i \in 1 .. Take(fd, n) |-> <<fd.buffer, (fd.position % SECTOR_SIZE) + i - 1>>]

(* Mutant: the end of the file does not bound the count.                   *)
Readable_Unbounded(fd, n) == IF fd.opened THEN n ELSE 0

(* The bytes read() will deliver of the n it is asked for; the subtraction *)
(* is unsigned.                                                            *)
Readable(fd, n) ==
  LET left == (fd.size - fd.position) % WORD
  IN  CASE ~fd.opened -> 0
        [] fd.opened /\ fd.isDir /\ fd.size = 0 -> n
        [] fd.opened /\ ~(fd.isDir /\ fd.size = 0) -> IF n < left THEN n ELSE left

(* Mutant: a cluster has one sector too many.                              *)
NextSectors_OneTooMany(fd) ==
  LET last == fd.sector + 1 > SectorsPerCluster
  IN  {[look |-> l,
        fd   |-> [fd EXCEPT !.cluster = l.next, !.sector = IF last THEN 0 ELSE @ + 1]] :
         l \in IF last THEN NextCluster(fd.cluster) ELSE NoLookup(fd.cluster)}

NextSectors(fd) ==
  LET last == fd.sector + 1 >= SectorsPerCluster
  IN  {[look |-> l,
        fd   |-> [fd EXCEPT !.cluster = l.next, !.sector = IF last THEN 0 ELSE @ + 1]] :
         l \in IF last THEN NextCluster(fd.cluster) ELSE NoLookup(fd.cluster)}

Iterations(fd, n) ==
  LET moved == [fd EXCEPT !.position = @ + Take(fd, n)]
      lba(f) == ClusterToLba(f.cluster) + f.sector
      ended(s) == s.fd.cluster >= EndOfChain
  IN  IF Take(fd, n) < InBuffer(fd)
      THEN {[fd |-> moved, look |-> l, lba |-> 0, ok |-> TRUE, stop |-> FALSE] :
              l \in NoLookup(fd.cluster)}
      ELSE {[fd |-> [s.fd EXCEPT !.size = moved.position], look |-> s.look,
             lba |-> 0, ok |-> TRUE, stop |-> TRUE] :
              s \in {x \in NextSectors(moved) : ended(x)}}
           \cup UNION {{[fd |-> [s.fd EXCEPT !.buffer = IF ok THEN lba(s.fd) ELSE @],
                         look |-> s.look, lba |-> lba(s.fd), ok |-> ok, stop |-> ~ok] :
                          ok \in ReadOutcomes(lba(s.fd))} :
                        s \in {x \in NextSectors(moved) : ~ended(x)}}

Return(r) == frame' = Idle /\ reply' = r

(* A call in progress has not answered yet.                                *)
Waiting == [op |-> "waiting"]

Begin(f) == frame' = f /\ reply' = Waiting

Opened(path, h) == [op |-> "open", path |-> path, handle |-> h]

(***************************************************************************)
(* initialize(): a drive whose boot sector or root directory cannot be     *)
(* read is not mounted.  On success the root directory is open, its first  *)
(* sector loaded, and every handle free.                                   *)
(***************************************************************************)
Mount ==
  /\ frame.op = "unmounted"
  /\ \E boot \in ReadOutcomes(0), root \in ReadOutcomes(RootLba) :
       LET mounted == boot /\ root IN
       /\ CountSectorFault(IF boot THEN RootLba ELSE 0, mounted)
       /\ cachePos' = IF boot THEN WORD - 1 ELSE cachePos
       /\ frame' = IF mounted THEN Idle ELSE [op |-> "failed"]
       /\ fds' = IF mounted
                 THEN [fds EXCEPT ![ROOT_DIRECTORY_HANDLE] =
                         [opened |-> TRUE, isDir |-> TRUE, size |-> RootSize, position |-> 0,
                          first |-> RootLba, cluster |-> RootLba, sector |-> 0,
                          buffer |-> RootLba]]
                 ELSE fds
  /\ UNCHANGED <<cache, held, reply, fatFaults>>

(***************************************************************************)
(* open(path): from the root directory, find each name of the path in turn *)
(* and open its entry.  The path "/" is the root directory itself.         *)
(***************************************************************************)
Open(path) ==
  /\ frame.op = "idle"
  /\ IF path = << >>
     THEN /\ Return(Opened(path, ROOT_DIRECTORY_HANDLE))
          /\ held' = held \cup {ROOT_DIRECTORY_HANDLE}
     ELSE /\ Begin([op |-> "scan", dir |-> ROOT_DIRECTORY_HANDLE, path |-> path, rest |-> path])
          /\ UNCHANGED held
  /\ UNCHANGED <<fds, cachePos, cache, sectorFaults, fatFaults>>

(* Mutant: the slot stays taken.                                           *)
Closed_Leaks(h, fd) == [fd EXCEPT !.position = 0, !.cluster = fd.first]

(* close(): only the root's position and cluster are put back; its buffer  *)
(* and its sector within the cluster stay.                                 *)
Closed(h, fd) ==
  IF h = ROOT_DIRECTORY_HANDLE
  THEN [fd EXCEPT !.position = 0, !.cluster = fd.first]
  ELSE [fd EXCEPT !.opened = FALSE]

(* FindFile, one ReadEntry at a time.  The directory is closed when the    *)
(* name is found and when it is not.                                       *)
ScanEntry ==
  /\ frame.op = "scan"
  /\ LET h     == frame.dir
         fd    == fds[h]
         entry == DirSlot[fd.buffer][(fd.position % SECTOR_SIZE) \div ENTRY_SIZE]
         match == entry.name = Head(frame.rest)
     IN  IF Readable(fd, ENTRY_SIZE) < ENTRY_SIZE
         THEN /\ fds' = [fds EXCEPT ![h] = Closed(h, fd)]
              /\ Return(Opened(frame.path, NoHandle))
              /\ UNCHANGED <<cachePos, cache, sectorFaults, fatFaults>>
         ELSE \E it \in Iterations(fd, ENTRY_SIZE) :
                /\ Remember(it.look)
                /\ CountSectorFault(it.lba, it.ok)
                /\ \/ /\ match
                      /\ fds' = [fds EXCEPT ![h] = Closed(h, it.fd)]
                      /\ frame' = [op |-> "entry", entry |-> entry,
                                  path |-> frame.path, rest |-> Tail(frame.rest)]
                      /\ UNCHANGED reply
                   \/ /\ ~match /\ entry = EndEntry
                      /\ fds' = [fds EXCEPT ![h] = Closed(h, it.fd)]
                      /\ Return(Opened(frame.path, NoHandle))
                   \/ /\ ~match /\ entry # EndEntry
                      /\ fds' = [fds EXCEPT ![h] = it.fd]
                      /\ UNCHANGED <<frame, reply>>
  /\ UNCHANGED held

FreeHandles == {h \in Handle : ~fds[h].opened}

LowestFree == {h \in FreeHandles : \A g \in FreeHandles : h <= g}

EntryFile(entry, isOpen, buffer) ==
  [opened |-> isOpen, isDir |-> entry.dir, size |-> entry.size, position |-> 0,
   first |-> entry.cluster, cluster |-> entry.cluster, sector |-> 0, buffer |-> buffer]

(* The slot of OpenedFiles a File* names.  Address 0 is mapped: a null one *)
(* names what the byte there says.                                         *)
SlotOf(h) == IF h = NoHandle THEN NullHandle ELSE h

(* open() goes on with what OpenEntry gave it, a null File* included: the  *)
(* next name is looked for in the slot that names, and the slot closed.    *)
(* The memory beyond OpenedFiles is zeros, a file that is not open; what   *)
(* close() writes there is no state of the driver.                         *)
Resume(h) ==
  \/ /\ frame.rest = << >>
     /\ Return(Opened(frame.path, h))
     /\ held' = IF h = NoHandle THEN held ELSE held \cup {h}
  \/ /\ frame.rest # << >>
     /\ SlotOf(h) \in Handle
     /\ frame' = [op |-> "scan", dir |-> SlotOf(h), path |-> frame.path, rest |-> frame.rest]
     /\ UNCHANGED <<reply, held>>
  \/ /\ frame.rest # << >>
     /\ SlotOf(h) \notin Handle
     /\ Return(Opened(frame.path, NoHandle))
     /\ UNCHANGED held

NotADirectory == frame.rest # << >> /\ ~frame.entry.dir

InvalidCluster(c) == c < 2 \/ c >= 4088

(* Mutant: a handle whose first sector could not be read is handed out.    *)
LoadEntry_IgnoresError(h, entry) ==
  LET lba == ClusterToLba(entry.cluster)
  IN  \E ok \in ReadOutcomes(lba) :
        /\ fds' = [fds EXCEPT ![h] = EntryFile(entry, ok, IF ok THEN lba ELSE @.buffer)]
        /\ Resume(h)
        /\ CountSectorFault(lba, ok)

LoadEntry(h, entry) ==
  LET lba == ClusterToLba(entry.cluster)
  IN  \E ok \in ReadOutcomes(lba) :
        /\ fds' = [fds EXCEPT ![h] = EntryFile(entry, ok, IF ok THEN lba ELSE @.buffer)]
        /\ Resume(IF ok THEN h ELSE NoHandle)
        /\ CountSectorFault(lba, ok)

(* OpenEntry: the lowest free handle takes the entry and its first sector. *)
(* A handle whose entry turns out bad keeps the entry's fields but is not  *)
(* marked open.                                                            *)
OpenEntry ==
  /\ frame.op = "entry"
  /\ \/ /\ NotADirectory
        /\ Return(Opened(frame.path, NoHandle))
        /\ UNCHANGED <<fds, held, sectorFaults>>
     \/ /\ ~NotADirectory
        /\ FreeHandles = {}
        /\ Resume(NoHandle)
        /\ UNCHANGED <<fds, sectorFaults>>
     \/ /\ ~NotADirectory
        /\ InvalidCluster(frame.entry.cluster)
        /\ \E h \in LowestFree :
             fds' = [fds EXCEPT ![h] = EntryFile(frame.entry, FALSE, @.buffer)]
        /\ Resume(NoHandle)
        /\ UNCHANGED sectorFaults
     \/ /\ ~NotADirectory
        /\ ~InvalidCluster(frame.entry.cluster)
        /\ \E h \in LowestFree : LoadEntry(h, frame.entry)
  /\ UNCHANGED <<cachePos, cache, fatFaults>>

(***************************************************************************)
(* read(file, byteCount)                                                   *)
(***************************************************************************)
Read(h, n) ==
  /\ frame.op = "idle"
  /\ h \in held
  /\ Begin([op |-> "read", handle |-> h, start |-> fds[h].position, want |-> n,
            left |-> Readable(fds[h], n), got |-> << >>])
  /\ UNCHANGED <<fds, cachePos, cache, held, sectorFaults, fatFaults>>

ReadStep ==
  /\ frame.op = "read"
  /\ frame.left > 0
  /\ LET fd  == fds[frame.handle]
         got == frame.got \o Copied(fd, frame.left)
     IN  \E it \in Iterations(fd, frame.left) :
           /\ fds' = [fds EXCEPT ![frame.handle] = it.fd]
           /\ Remember(it.look)
           /\ CountSectorFault(it.lba, it.ok)
           /\ frame' = [frame EXCEPT !.got = got,
                          !.left = IF it.stop THEN 0 ELSE @ - Take(fd, @)]
  /\ UNCHANGED <<held, reply>>

ReadReturn ==
  /\ frame.op = "read"
  /\ frame.left = 0
  /\ Return([op |-> "read", handle |-> frame.handle, start |-> frame.start,
             want |-> frame.want, got |-> frame.got])
  /\ UNCHANGED <<fds, cachePos, cache, held, sectorFaults, fatFaults>>

(***************************************************************************)
(* seek(file, position): the new position is stored first, then the chain  *)
(* is walked from its start; when the walk runs off the chain the cluster  *)
(* and the buffer stay those of the old position.                          *)
(***************************************************************************)
Sought(h, p, ok) == [op |-> "seek", handle |-> h, to |-> p, ok |-> ok]

Seek(h, p) ==
  /\ frame.op = "idle"
  /\ h \in held
  /\ \/ /\ ~fds[h].opened \/ (~fds[h].isDir /\ p > fds[h].size)
        /\ Return(Sought(h, p, FALSE))
        /\ UNCHANGED fds
     \/ /\ fds[h].opened
        /\ fds[h].isDir \/ p <= fds[h].size
        /\ fds' = [fds EXCEPT ![h].position = p]
        /\ Begin([op |-> "seek", handle |-> h, start |-> fds[h].position,
                  to |-> p, cluster |-> fds[h].first, offset |-> p])
  /\ UNCHANGED <<cachePos, cache, held, sectorFaults, fatFaults>>

SeekStep ==
  /\ frame.op = "seek"
  /\ frame.offset >= ClusterSize
  /\ \E l \in NextCluster(frame.cluster) :
       /\ Remember(l)
       /\ IF l.next >= EndOfChain
          THEN Return(Sought(frame.handle, frame.to, FALSE))
          ELSE /\ frame' = [frame EXCEPT !.cluster = l.next, !.offset = @ - ClusterSize]
               /\ UNCHANGED reply
  /\ UNCHANGED <<fds, held, sectorFaults>>

(* Mutant: the sector within the cluster is left as it was.                *)
SeekLoad_KeepsSector ==
  /\ frame.op = "seek"
  /\ frame.offset < ClusterSize
  /\ LET lba == ClusterToLba(frame.cluster) + frame.offset \div SECTOR_SIZE
     IN  \E ok \in ReadOutcomes(lba) :
           /\ fds' = [fds EXCEPT ![frame.handle].cluster = frame.cluster,
                                 ![frame.handle].buffer = IF ok THEN lba ELSE @]
           /\ CountSectorFault(lba, ok)
           /\ Return(Sought(frame.handle, frame.to, ok))
  /\ UNCHANGED <<cachePos, cache, held, fatFaults>>

(* Mutant: a read error is reported as success.                            *)
SeekLoad_IgnoresError ==
  /\ frame.op = "seek"
  /\ frame.offset < ClusterSize
  /\ LET sector == frame.offset \div SECTOR_SIZE
         lba    == ClusterToLba(frame.cluster) + sector
     IN  \E ok \in ReadOutcomes(lba) :
           /\ fds' = [fds EXCEPT ![frame.handle].cluster = frame.cluster,
                                 ![frame.handle].sector = sector,
                                 ![frame.handle].buffer = IF ok THEN lba ELSE @]
           /\ CountSectorFault(lba, ok)
           /\ Return(Sought(frame.handle, frame.to, TRUE))
  /\ UNCHANGED <<cachePos, cache, held, fatFaults>>

SeekLoad ==
  /\ frame.op = "seek"
  /\ frame.offset < ClusterSize
  /\ LET sector == frame.offset \div SECTOR_SIZE
         lba    == ClusterToLba(frame.cluster) + sector
     IN  \E ok \in ReadOutcomes(lba) :
           /\ fds' = [fds EXCEPT ![frame.handle].cluster = frame.cluster,
                                 ![frame.handle].sector = sector,
                                 ![frame.handle].buffer = IF ok THEN lba ELSE @]
           /\ CountSectorFault(lba, ok)
           /\ Return(Sought(frame.handle, frame.to, ok))
  /\ UNCHANGED <<cachePos, cache, held, fatFaults>>

(***************************************************************************)
(* close(file): the caller drops its File*.                                *)
(***************************************************************************)
Close(h) ==
  /\ frame.op = "idle"
  /\ h \in held
  /\ fds' = [fds EXCEPT ![h] = Closed(h, @)]
  /\ held' = held \ {h}
  /\ reply' = [op |-> "close", handle |-> h]
  /\ UNCHANGED <<cachePos, cache, frame, sectorFaults, fatFaults>>

(***************************************************************************)
(* Specification.  Step is the driver at work, Caller the code above it.   *)
(***************************************************************************)
Init ==
  /\ fds = [h \in Handle \cup {ROOT_DIRECTORY_HANDLE} |-> ZeroFile]
  /\ cachePos = 0
  /\ cache = [i \in 0 .. FAT_CACHE_SIZE - 1 |-> NoSector]
  /\ frame = [op |-> "unmounted"]
  /\ held = {}
  /\ reply = Waiting
  /\ sectorFaults = 0 /\ fatFaults = 0

Step ==
  \/ Mount \/ ScanEntry \/ OpenEntry
  \/ ReadStep \/ ReadReturn
  \/ SeekStep \/ SeekLoad

Caller ==
  \/ \E path \in Paths : Open(path)
  \/ \E h \in held :
       \/ \E n \in ReadSizes : Read(h, n)
       \/ \E p \in SeekTargets : Seek(h, p)
       \/ Close(h)

Next == Step \/ Caller

(* The loops run on a CPU nothing interrupts, and every disk read they     *)
(* wait for is bounded by a poll count: a call in progress goes on.        *)
Spec == Init /\ [][Next]_vars /\ WF_vars(Step)
=============================================================================
