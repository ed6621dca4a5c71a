# A TLA+ verification of AIDOS 4

AIDOS 4 is a small operating system: a boot sector, a stage-2 boot loader that
finds a kernel on a FAT12 volume and calls it, and a kernel that so far sets up
its own page tables and copies one ACPI structure. The specifications here are
translated from its sources (`src/src/...` below is the `src/` directory of the
repository). `PROJECT.json` maps each definition to its lines.

Everything runs on one CPU with interrupts off. The only actors that move at
the same time as the code are devices (the ATA drives) and the MMU's TLB. What
makes the code hard is not concurrency but what one call leaves behind for the
next: shared buffers and caches, handles, tables half built when memory ends,
and every way in which a disk can fail in mid-call.

## Inventory

| part | state | operations | works with | what is hard | what makes it correct |
|---|---|---|---|---|---|
| Boot sector, `stage1/main.asm` | geometry, extended flag, retry counts, memory | reset, query, LBA or CHS read, jump | BIOS; the image builder | reads that fail part way, CHS arithmetic, retry counters | stage 2 is entered complete or not at all; it ends |
| BIOS data, `Init/init16.asm` | memory map, RSDP address, EBDA | E820 loop, RSDP search | BIOS; handed to stage 2 and the kernel | the buffer's end, segment arithmetic | the map is complete and in its buffer; the RSDP is found where one is |
| Mode switch, `Init/init32.asm`, `init64.asm` | A20, control registers, first page tables | A20 test and set, CPU checks, identity map | stage 2 starts on its tables | order of the steps | long mode is entered with the code mapped |
| Boot loader heap and paging, `stage2/memory.cpp` | bump pointer, four tables and those of the heap | kmalloc, setup_paging, map_4k, map_2m | ELF loader, FAT driver (its sector buffers) | heap exhaustion | as the kernel's |
| ATA driver, `dev/io/disk/ata.cpp` | the drive found | initialize, read_sectors | the drives; below the file system | time-outs and late answers, status read too early | a read returns the sectors asked for or fails; it returns |
| FAT12, `dev/io/fs/fat/fat12.cpp` | ten handles and the root, each with a sector buffer; one FAT cache | initialize, open, read, seek, close | ATA driver; ELF loader | the cache shared by all handles, buffers and positions after errors, chains across the cache's end | a read delivers the bytes of the file at the cursor; no handle leaks |
| Detection, `fat_common.cpp`, `detect.cpp` | none | decide FAT12/16/32 or none, mount | ATA driver, FAT12 | boundary values | a volume is mounted as what it is |
| ELF loader, `elf.cpp` | memory, page tables | readElf | FAT12, paging | partial pages, shared pages and tables, errors ignored | the bytes of every segment are where it was linked; nothing else is written |
| Boot flow, `Main.cpp` | what the kernel is handed | stage2_main | all of the above | choice of the region, what is handed over | the kernel is loaded in usable memory and told where |
| Text, `vga.cpp`, `stdio.cpp` | cursor, screen | write, scroll, printf | all messages | scrolling at the last line | text comes out in order |
| Kernel heap, `kernel/memory.cpp` 1-38 | bump pointer | kmalloc, new | page tables, objects | mixed alignments, the end of the heap | blocks are apart, aligned and in the heap |
| Kernel paging, `kernel/memory.cpp` 40-245 | PML4, tables in the heap, cr3, TLB | setup_paging, map, unmap | boot loader's tables; heap; RSDP | replacing the tables one runs on, heap exhaustion in mid-walk, stale TLB entries | the tables are one map from pages to frames; the kernel stays mapped |
| RSDP, `kernel/dev/acpi` | one copy | parseRSDP | kernel paging | a structure that crosses a page | the copy is the RSDP |

Host-side, outside the running system: the image builder
(`scripts/Install_Stage2_info.py`), CMake files and linker scripts.

## Modules

| module | models | extends or instantiates |
|---|---|---|
| `Fat12Disk` | a FAT12 volume: regions, FAT bytes, chains, directories (constant: nobody writes) | |
| `Fat12` | the FAT12 driver, one step per iteration of its loops | `Fat12Disk` |
| `FileStore` | what `fs.hpp` promises: a tree of files and cursors | `Fat12Disk` |
| `Fat12Properties` | what its callers rely on; the volumes on which they may (`SoundVolume`); `Fat12` implements `FileStore` | `Fat12`, instance of `FileStore` |
| `Fat12Proofs` | theorems about the driver | `Fat12Properties` |
| `BlockDevice` | what `io.hpp` promises of a disk | |
| `AtaDrive`, `AtaDriveProofs` | the PIO driver and four places where a drive may be; theorems | instance of `BlockDevice` |
| `BiosData` | the 16-bit part of stage 2 and its A20 gate | |
| `PageTables`, `PageTableProofs` | four levels of page tables and the CPU's walk; lemmas on the indexes of a page | |
| `BootPaging`, `BootPagingProofs` | the boot loader's heap, its page tables, what is written to memory; theorems about kmalloc, lemmas on what each operator keeps and on the loader's tables as a tree | `KernelHeap`, `PageTables` (proofs: `PageTableProofs`) |
| `ElfLoader` | readElf, page by page | `BootPaging` |
| `FatDetection` | FAT12 or not, from a boot sector | |
| `Stage2`, `Stage2Proofs` | all of stage 2, to the call of the kernel; theorems | `BiosData`, `ElfLoader`, `FatDetection` (proofs: `BootPagingProofs`) |
| `Console`, `ConsoleProofs` | printf and the VGA driver; theorems | |
| `Stage1Disk`, `Stage1DiskProofs` | the boot sector and the BIOS disk services it calls; theorems | |
| `KernelHeap` | kmalloc, the kernel's and the boot loader's | |
| `AddressSpace` | an address space: one map from pages to frames | |
| `KernelPaging`, `KernelPagingProofs` | the kernel's tables, the TLB, and the RSDP read through them; theorems | `PageTables`, instance of `AddressSpace` (proofs: `PageTableProofs`) |
| `MC...` | the instances the runs check; `MCFat12Sound` is `MCFat12` for volumes that are sound, `MCKernelPagingSound` is `MCKernelPaging` for boot tables and callers that are | |

`Stage2` looks at a read of the file system as one that delivers the bytes or,
after a failed sector, some of them or bytes of another sector: what `FileStore`
and, with failing sectors, `fat_stale_buffer` leave of it. `Fat12` looks at sector reads as atomic with a result; that a read of the ATA
driver is such a thing is what `AtaDrive` shows (`ImplementsBlockDevice`) and,
for the drives of `ata_lag`, refutes.

### How state and actions correspond to the code

*FAT12.* `fds` holds `RootDirectory` and `OpenedFiles`: public size and
position, first and current cluster, sector in cluster, and the sector that lies
in `Buffer`. A byte is named by its place on the disk, `<<sector, offset>>`, so
a buffer is a sector number and a read returns a sequence of places; this tells
a right byte from any wrong one without file contents. `cache` and `cachePos`
are `FatCache` and `FatCachePosition`; each FAT byte is computed from the
chains, so a chain entry is decoded from two bytes of whatever the cache holds,
the field behind the cache included. `frame` is the call in progress with its
locals; a call is `Open`/`Read`/`Seek`/`Close`, then `ScanEntry`, `OpenEntry`,
`ReadStep` or `SeekStep` for each iteration, then the return. `held` is the
caller: the `File*` it has been given and has not closed. A null `File*` in the
middle of a path is gone through as the code goes through it: address 0 is
mapped, and `NullHandle` is the byte there, which is taken for a handle. One
that names a slot has that slot scanned and closed (`SlotOf`); of any other the memory
behind `OpenedFiles` is read, taken as zeros, and nothing is found.

*ATA.* `call` is the driver's place in `initialize` or `read_sectors` with its
loop counters; `drive` is the status and command of each drive and a command it
has not taken note of yet; drives answer at any time between two polls, late
answers to abandoned commands included. A drive that `lags` shows its old status
at the first poll after a command, as ATA allows for 400 ns.

*Boot sector.* `boot` is the place in the code with the registers of
`disk_read`; `memory` says which sector each piece of memory was read from. A
BIOS read may transfer any part of what it was asked for and fail.

*BIOS data.* `boot_info` is the structure of that name; `boot` is the place in the
code with the registers of the E820 loop. An entry that has no room lands in the
fields behind the buffer, as the layout has it. The search for the RSDP is one
step: nothing changes under it.

*Boot loader paging and ELF loader.* `mem` is what the frames of tables hold read as tables: those
of the assembly code, the four of `memory.cpp`, the heap's, and frame 0, which
a null table pointer leads to. `ram` is what was written elsewhere, each unit as
its place in the file, `Zero`, or `Wrong`. `cr3` is the table the CPU walks. A
step of a loop works on a record of memory (`Memory`) and `Becomes` its result.
`elf` is the place in `readElf` with its locals; one step maps one page, copies
the bytes of one segment, or clears what is left of it. `readElf` looks at no
result of `seek` and `read`, and a `seek` whose sector fails has moved the
position and left the old sector in the buffer. So from the first failure on a program
header (`ReadPhdr`) may be the one before, none, or whatever the bytes of an old
sector, alone or mixed with right ones, read as: one of `Strays`, any
headers of the address space. `stray` records that one was taken. The ELF header alone is
always the right one: `open` has loaded its sector, and a failed `seek` to 0
leaves that. Bytes of a segment (`Arrives`) are then the right ones, some of
them, or all `Wrong`, which stands for any mixture (`Garbled`). A stray header may
map or write the first megabyte, in which the loader runs: what the CPU does from there on is no
program of this repository, and `InControl` ends the model.

*Boot flow.* `boot` goes on where `BiosData` leaves it. `media` is what the
machine boots from: whether there is a disk, the fields of its boot sector, and the
kernel's headers. `handed` is what the kernel gets. `stop` is each of the endless loops
after a message.

*Console.* A message is a sequence of pieces, each a character of the format or
a conversion with its argument; `Format` and `Arguments` make of it what
`printf` is called with, and `said` collects what is printed for each. `text` is
all of it, and a place of `screen` is a character and its attribute.

*Kernel heap.* `heap_offset` is the code's; `blocks` records what was returned.

*Kernel paging.* `mem` is what each frame holds read as a page table.
`setup_paging` runs on the boot loader's tables: it and `virt_to_phys` reach the
originals by their physical addresses and the copies by their heap addresses, each
pointer translated by the tables as they are (`Deref`), a page that is not mapped
ending in mode "fault" before `cr3` is loaded. It is the code's three nested loops (`CopyTree`,
`CopyPdpt`, `CopyDirectory`), with the null pointer of an exhausted heap
untested as there: the copy goes to address 0 and the link to where that leads.
Later writes go through `frame + KERNEL_OFFSET`, which is a valid pointer only within the image.
Each iteration of a call works on a record of the tables so far; a null pointer
or one that leaves the image is a fault too. `asked` records the last call,
so that the refinement sees a call that has no effect. `tlb` is filled by `Touch`,
the CPU's own action.

## Runs

| run | result | question and bounds |
|---|---|---|
| `fat_files` | passes | Does the driver implement `FileStore` when the disk answers? Fragmented chains that move a two-sector FAT cache back and forth, a directory of two clusters, two handles, paths that exist, do not, or go through a file. |
| `fat_sector_faults` | passes | What survives two failing reads anywhere: handles are accounted for, positions stay on track, bytes are the file's own, seeks repair, every call returns. Clusters of two sectors. |
| `fat_straddle` | violated | A chain entry across the end of the FAT cache is read with a byte that is not the FAT's. |
| `fat_stale_buffer` | violated | A failed prefetch is reported as success and the next read returns the sector before. |
| `fat_root_sectors` | violated | A file named in the second sector of the root directory is not found. |
| `ata_drive` | passes | Detection and reads with a lone disk, two disks, a disk beside a packet drive, a disk on the second channel; requests off the disk and off the bus. |
| `ata_lag` | violated | On a lagging disk the data of a read that timed out is taken for that of the next. |
| `stage1_load` | passes | Drives with and without both BIOS extensions, of 2x3, 3x2 and 63x255 geometry, two that end inside stage 2; any number of failures. |
| `stage2_boot` | passes | What 540 machines hand over: maps that are empty, fit or do not fit the buffer, ended by a continuation value or the carry flag; an RSDP in either area, both, elsewhere or nowhere; gates that are open, can be opened or stay closed. Two of them boot fourteen kernels (segments that share a page or a table, in descending order, in large pages, at the end of the first megabyte, across a page the loader does not count, too many for the heap, with a null table between two good ones, cut short, cut short in such a page, no ELF) and fifteen volumes at the edges of the FAT12 rule. Any one sector may fail, and the old bytes may read as one of three stray headers: of a page of the first megabyte, of bytes of it without a page, and of the kernel's pages with more in the file than in memory. |
| `console` | passes | Every three calls of fourteen messages: wrapping, scrolling, newlines at the last column, and numbers read back. |
| `kernel_paging` | passes | setup_paging, the RSDP, then any order of mapping, unmapping and access, across tables, until no table is left. |
| `kernel_large_image` | violated | With the image in 2 MiB pages, `virt_to_phys` takes the frame of one for a table and reads it at its physical address, which nothing maps: `setup_paging` ends in a page fault. |

The bounds. Sectors of 4 bytes with entries of 1 byte keep the arithmetic of the
driver (a 12-bit entry still lies in one or two sectors) and let a chain cross
cached ranges within five FAT sectors; with 512 bytes the same happens from
cluster 1706 on. `WORD` is 2^16 for 2^32: no count of the runs comes near it but
by an unsigned wrap, which is what it is for. Two handles suffice for
one to disturb another and for a path to run out of slots. Two faults allow a
second failure during the recovery from a first. `MAX_WAIT` = 2 instead of
100000: a wait that sees nothing, one that sees an answer at its last poll, one
that ends just before it. A `HALF` of 16 values
leaves lengths that spill into both halves of the count. `stage2_boot` has pages
of 2 units, so that segments begin and end inside a page, tables of 16 entries,
so that the first megabyte of 14 pages fits one, and a heap of four tables, one
more than a kernel beside a large page needs; one failing sector reaches each
read of the boot. `LIMIT` 20 stands for 4085, and the volumes lie on both sides
of it. The screen of 3 by 3 scrolls after ten characters; a `BYTE` of 4 values
makes the cursor need both of its registers, as 2000 places do of 256.
In `kernel_paging`, tables of 4 entries and four levels keep the walk
and let two small mappings fall into different tables at three levels. Three
tries of the boot sector are the code's own. `CHECK_DEADLOCK FALSE` stands where
the system does stop: a halted boot sector, a failed mount, a
page fault, or a caller with no calls left; on kernel paging and
ATA a call sequence may end as well.

A violation run checks one sentence of a header or comment; the finding that
quotes it is in `PROJECT.json`.

### Fairness

*FAT12* and *boot sector*: weak fairness of the code's own steps. The CPU runs
with interrupts off and nothing else to do, so a loop that can take its next
iteration does. The caller is not obliged to call. *ATA*: weak fairness of the
driver and of a drive taking note of a command; nothing is assumed of a drive's
answer, so `CallsReturn` rests on the poll limit alone. *Stage 2*: weak fairness
of its next step, for the same reason as the boot sector. The other modules have
no liveness property and no fairness.

## Proofs

Each component's theorems hold for every value of its constants that its
assumptions allow. Where a theorem has a hypothesis besides, it is named below
with what justifies it.

### FAT12

For every volume, number of handles, cache size, caller and pattern of failing
reads:

* `DriverTypeOK`: `TypeOK`, which is inductive as it stands because it says that
  open handles and the root have a buffer with a sector of the drive. It goes
  from the arithmetic of quotients (`DivMod`, `QuotientBound`), to the type of
  a FAT byte and a decoded entry for any content of the cache, to the step of the copy
  loop (`IterationType`), which `read` and the directory scan share, to one
  lemma per action.
* `HandlesNeverLeak`, under `NullNamesNone`: `HandlesAccounted` holds between calls only; the invariant
  `HandlesInv` says what a path walk adds to the caller's handles in mid-call,
  which is the one directory it is scanning, and one lemma per action
  keeps it. `DriverTypeOK` is used for the range of handles. `NullNamesNone` says
  that the byte at address 0 is no handle, which
  is a fact about the BIOS, whose first interrupt vector it is (the runs take 0x53), and of
  no code here; with a `NullHandle` of 0 TLC finds a file closed behind its owner.

Assuming `SoundVolume` and `NoFillFails`, with any pattern of failing sector
reads: `HandlesStayOnTrack` (`HandlesOnTrack`), `ReadsOwnBytes`
(`OwnBytesOnly`), `SeeksRepair` (`SeekRepairs`) and `OpensWhatThePathNames`
(`OpensTheRightFile`).

These properties speak of the time between calls, and none is inductive:
a handle is on its track after a call because of where the call was in each
of its iterations. `SoundInv` adds that:

* `CacheInv`: the FAT cache is whole, and begins at the FAT sector of some
  cluster in use. With that, `NextCluster` returns the next link of a chain, or
  an end mark at its end, whatever the cache held before (`LookupOnChain`).
* `RootInv`, `HeldInv`: what `RootDirectory` and the handles of the caller are
  while no call moves them.
* `WalkInv`: the name a path walk looks for is the k-th of the path, and the
  directory it scans, or the entry it has found, is the one the first names
  lead to.
* `SeekInv`: `seek` has come to cluster j of the chain, and the offset left is
  the target less j clusters. `SoughtSector` is the arithmetic of its last step.
* `ReadInv`: the bytes copied so far are of the file's sectors, as many as the
  position has moved by. `IterationGoes` says so of one iteration of the loop,
  including the prefetch of a next sector that fails or does not exist.
* `AnswerInv`: the four properties as they are when the call returns.

A chain is followed by the code a link at a time, so the invariant carries the
induction along it. The path a volume names is a recursive function (`Way`);
that such a function exists, which TLA+ does not give for free, is `WayExists`,
from the least number at which it would fail. That two places on
the disk belong to one object only if they are the same place of it is
`SectorsApart`.

`SoundVolume` is what a file system checker asks: no cluster twice
(`ChainsApart`), everything on the drive (`OnVolume`), an entry that
describes its object, under one name (`EntriesSound`); and four limits of
this loader. `RootInOneSector` and `NoEntryAcrossTheEnd` leave out what
`fat_root_sectors` and `fat_straddle` show to go wrong; `NullNamesNone` is as above; `OpensFiles` holds of
`Main.cpp`, which opens the kernel only. `NoFillFails` is there because
`NextCluster` ignores a fill that fails. `MCFat12Sound` has TLC evaluate the hypotheses
on the volumes of `fat_files` and `fat_sector_faults`.

`FilesAreThoseOfTheVolume` (`ImplementsFileStore`) is the refinement, with two more
hypotheses. `NoSectorFails`: the drive answers every read; without it the
sentence is false, `fat_stale_buffer` shows how; `fat_files`, which checks the same
refinement, meets it. `EntriesComplete`: the entries of a
directory come before its end mark and fit it, a file is shorter than a
`uint32_t` can count, an entry that leads nowhere has cluster 0, as empty files have,
and no path leads through one. On a disk only the `..` of a first-level directory
would be on such a path, and `FindFile` spells it in a way no entry has (`fat12.cpp:129-140`).
`SoundInv` is not enough for it, since it speaks of sectors and not of their bytes
or of what a scan has missed. `ExactInv` adds:

* `HeldExact`: the buffer of a handle holds the sector of its position
  (`Exact`), unless the position is the end of the file. One iteration keeps it
  because it loads the next sector at once (`IterationExact`).
* `ReadExact`: the bytes copied so far are those from the start of the call on,
  and with what is left they are as many as were asked for or as the file had.
  `CopiedPlace` says which bytes a copy out of an exact buffer takes.
* `ScanExact`: no entry the scan has passed has the name it looks for, and at
  the end of a directory all have been passed. Hence an `open` that answers with a
  null `File*` is right: the name is in no entry (`ScanMisses`), the path goes on
  behind a file (`WayLost`), or all handles are in use (`AllInUse`).
* `SeekExact`: the target is one the caller asked for.

Each action then is a step of `FileStore` or a stutter (`Refines`), one lemma per
action. A walk that goes through a null `File*` finds nothing there
(`NullNamesNone`) and answers as one that has no handle for the file.

### ATA driver

For every set of machines and requests:

* `TypeCorrect` (`TypeOK`) and `DetectionIsRight` (`FoundIsADisk`), from
  `AtaInv`: the shape of a call and of each drive, what `initialize` has learnt
  of the drive it looks at (`Detecting`, `AtCandidate`), and which drive the
  registers select while a read goes on (`AtTarget`). `FoundIsADisk` needs
  all: an answer is taken for the candidate's because the selection has not
  changed since the command.
* `NoCommandIsLost` (`CommandsAreTaken`), an action property, from `AtaInv` and
  `Pending`: a drive that has not taken note of a command is the selected one, and
  the driver is still waiting for it.
* `ReadsAreThoseOfADisk` (`ImplementsBlockDevice`), under `NoDiskLags`: a step
  of the driver is a step or a stutter of `BlockDevice` (`RefinedStep`). The
  invariant `ReadsInOrder` says that the data a drive holds are those the
  transfer counts on. `NoDiskLags` is needed: `ata_lag` refutes the sentence
  without it.

### Boot sector

For every set of disks, size and place of stage 2, and number of tries:

* `TypeCorrect` (`TypeOK`), `FindsItsInfo` (`InfoFound`) and
  `HaltsAfterTheLastTry` (`GivesUpLate`), from `BootInv`: the shape of the
  registers at each label, what is known of the geometry (`Known`), how failures and
  tries add up (`Tried`), and that the info structure is looked at only when
  its sector has been read (`InfoRead`).
* `EntersWholeStage2` (`JumpsIntoStage2`), under `ChsReaches`: a drive without
  the extensions has all of stage 2 below the last CHS address. `Loading` says which
  sectors have arrived. That the conversion of `chs_read`, its 10-bit cylinder
  and the 8- and 6-bit fields included, is inverse to the drive's own, and that the
  count does not go past a track, is `ChsIsRight` and `TrackLimits`.

### Stage 2

For every machine, medium, kernel and pattern of failing reads:

* `AnswersKept` (`InfoComplete`), `GateIsOpen` (`GateOpen`): from `BiosInv`, proved
  kept by each step of the BIOS part. None of the two is
  inductive: `FetchingMap` adds what the E820 loop has stored before it has
  counted it, that its two registers agree, and that a map that fits has not
  touched the count and the RSDP behind the buffer; `TryingGate` what the number
  of tries says of the gate. That a search returns a signature if its area has
  one rests on `Smallest` (a set of numbers has a least one). Steps of
  `stage2_main` keep `BiosInv` because they leave its variables alone (`OnwardKeeps`).
* `RegionIsUsable` (`KernelRegionUsable`): no region is chosen while the BIOS is
  asked (`Stage2Inv`), and at the choice `InfoComplete` makes the entries listed those
  of the machine (`ListedEntries`).
* `MountsWhatIsFat12` (`MountsFat12`): the three sums and products `detect`
  takes modulo 2^32 do not wrap on a volume that fits its own fields
  (`Unsigned`, `ClustersAreCounted`), so what it computes is the count of
  clusters; `MountInv` carries the answer to the mount.
* `TablesDisjoint`, `TablesInHeap`: a mapping makes up to three tables in one step;
  `BootPagingProofs` shows of each operator a mapping is made of that it keeps
  `Sound`, of the record of memory it works on, also when the heap runs out.
* `LowMegabyteStays` (`IdentityKept`), under `KernelsHigh`: the first megabyte,
  in which the loader runs, stays mapped to itself by whatever table the CPU
  walks. `MemoryInv` has the tables typed and the identity made so far by the assembly code;
  `LatePaging` the identity from `setup_paging` on. A mapping keeps it because
  an entry of the four own tables is only ever set for an address above the
  megabyte, also when the heap is exhausted and a null table leads to frame 0.
  It ends with the first stray header, which may name any page.
  `KernelsHigh` (no segment is linked into the first megabyte) is what
  `src/src/kernel/linker.ld` does, at `0xFFFF800000000000`.
* `TypeCorrect` (`TypeOK`), `HeapTyped` (`HeapTypeOK`): from `MemoryInv`, `LoadInv`
  and `FaultsCounted`; `ElfInv` says where `readElf` is in the headers of the
  kernel it reads.
* `LinkedInPlace` (`KernelInPlace`), `LinkedHandover` (`HandoverAgrees`),
  `LinkedOnlyNamed` (`OnlyNamedMemory`) and `LinkedFaults` (`FaultsExplained`), for
  every kernel that is `Linked`: its segments lie above the first megabyte, each
  at one offset from its physical address, which is whole pages, no two share an
  address, and the region starts on a page. `linker.ld` makes kernels so: one
  location counter, from `0xFFFF800000000000` at physical 0. Every kernel of
  `stage2_boot` that a boot without failing reads calls is `Linked`, those whose segments share a page or
  reach over a block among them. `OnlyNamedMemory` and `FaultsExplained` speak of failing
  sectors too, up to the first stray header, behind which the loader may map
  and write anything. So `LoadInv`, on which the type invariant rests, takes a
  header to be any of the address space, and `LoadedInv` ends with the first stray one.

  `PreparedInv` is what `stage2_main` has when it calls `readElf`: the own tables
  are the CPU's, the identity is made, only the file system object is in the heap.
  `LoadedInv` is what holds from then on, if the tables fit (`Roomy`): `Loads`.
  - `Built`: the tables are a tree of named tables (`Tree`: a table's name is
    the way to it, so no two ways meet), and each page mapped leads to the frame
    that all segments agree on. A property of what a walk finds thus becomes one of
    single entries, and a mapping made twice, where segments share a page, changes nothing.
    `Room` counts the names yet to come against the heap (`CountedAreAll`), so
    that kmalloc does not fail: with an exhausted heap, the null table at frame 0
    can hang in the tree twice.
  - Memory written is of segments' cells only; the pages of the segment being
    copied are mapped (`MappedPages`) unless it `Straddles` a page not counted.
  - `InStep`, while no sector has failed: the segments of the headers done are
    `Placed`. They stay so because cells of different bytes differ
    (`CellsApart`), and what is written goes where `WriteIs` says.

Two properties were stated too strongly at first, and the attempt to prove
them led TLC to the kernels that show it. With the heap exhausted, a null table
between good ones lets pages lead anywhere (kernel `NullTables`), so
`OnlyNamedMemory` asks that the tables fit. A file cut short in a segment that
straddles a page not counted leaves that page unmapped, and the kernel is
called all the same (`CutShortStraddling`), so `HandoverAgrees` excepts it.

### Kernel paging

For every boot loader's tree, image, heap, set of calls and order of them, under
`BootSound` and `CallersSound`: `PagingTyped` (`TypeOK`), `KernelStaysMapped`
(`KernelMapped`), `TlbStaysCoherent` (`TlbCoherent`), `TablesStayOwned`
(`TablesOwned`) and the refinement `TablesAreOneMap` (`ImplementsAddressSpace`).
All rest on `AlwaysKernel`: `KernelInv` is an invariant. It says, while the kernel
runs:

* `Tree`: some `lv` gives each table of the kernel's (its PML4 and the pages
  kmalloc has given) a level, 4 for the PML4 alone; a link leads from level n to
  one of level n - 1, no two links lead to the same table, and every table but the PML4 is
  linked. Large pages hang from directories. The existence of `lv` is the point: a
  property of what is reachable (`TablesOwned`) becomes one of single entries.
* `Sorted`: the lower half's directories have large pages where the kernel maps large
  pages, tables or nothing elsewhere. Without it a small mapping would walk into a large
  page as if it were a table: the code does not look.
* `TlbExact`: a cached entry is what a walk now gives for each page it
  covers. `TlbCoherent` alone is not inductive: a large entry must go when any
  of its pages is unmapped, so the entry has to be known to be the walk's own.
* `ImageMapped`: the image, and with it the heap's pages, is where `KERNEL_OFFSET`
  says, so that the kernel writes the table it means to.
* Between setup_paging and the RSDP the lower half is empty (`LowerEmpty`): the
  page of the RSDP was not mapped, so the unmap restores it.

The argument goes from the arithmetic of indexes (`PageTableProofs`: two pages share
a directory entry as they share a block) to what one write does to a tree: an
entry of a last table or directory (`WriteTree`, `WriteKeepsWays`), a new table in an empty
slot (`GrowTree`, `GrowWays`), which moves no page at all. Then the steps of a call
(`DownFrom4`, `DownFrom3`, `DownFrom2`, `StoreLeaf`, `ClearLeaf`), one iteration
(`MapSmallStep` and its three sisters) and the loop, whose recursive function exists by
`LoopExists` and is followed from the least step at which it would fail (`MapRun`). So a
call that finds the heap empty at iteration k has mapped k pages and changed
nothing else (`MapSmallSound`).

`setup_paging` is proved apart (`Leaving`). Its copies are named by the slots that lead
to the originals, in the order in which the nested loops come to them: `Ranks` shows that
this order numbers the names without gaps, `Copies` that two names never get one page. The
invariant of the loops is that memory is `PartMem` of a key: the copies whose names come
before it are made, and an entry of a copy leads to a copy if its own name comes before it and
to the original otherwise. `CopyOne` is one copy, with
each pointer it goes through; `DirectoryRound`, `PdptRound` and `Pml4Round` are an entry of the three
loops, and `TreeCopied` is the outermost. Of the memory at its end,
`LeftTree` shows that the copies are a tree whatever the boot loader's tables shared, and
`LeftWalks` that each page of the upper half leads where it led. That no pointer of
it faults on the way is `SetupNeverFaults` (`PagingIsSetUp`).

`BootSound` says of the boot loader's tables that their entries lead to frames, that there
is no large page above a directory, as `map_2m` and `map_4k` of
`stage2/memory.cpp` make none, that the tables are found at their physical addresses outside the
image (they are in the first megabyte: the assembly code's, those of `.bss`, and the loader's heap), that
the image is in small pages, and that the heap has room for a copy of each table of the
upper half. The image is not so for every kernel: `kernel_large_image` shows that without it
`setup_paging` faults. The room is so for every kernel: its heap is 16 MiB, the
tables copied are in the first megabyte. Where it is not, `setup_paging` tests no result of
`kmalloc`, copies over address 0, links what that leads to and loads `cr3` all the same; the model
does that too, and the theorems say nothing of it. `CallersSound` is what the kernel does and the section on
assumptions says; that no page is mapped small and large at different times is
met by a kernel that never calls `map_2m`. `MCKernelPagingSound` has TLC evaluate both on the instance of
`kernel_paging`.

In `TablesAreOneMap` a call of `map` that runs out of tables halts with the pages mapped so
far.

### Kernel heap and text

`BootPagingProofs`, for every heap and set of requests: `Sound` (every block
ends below the bump pointer, blocks are apart and aligned) is kept by an
allocation, so `HeapInv`, which says it of the heap, is inductive
(`HeapInvariance`) and gives `KmallocTypeOK`, `KmallocBlocksDisjoint` and
`KmallocBlocksInHeap`. `BlocksDisjoint` alone is not inductive: a new block is
apart from the old ones only because all of them end below the bump pointer.

`ConsoleProofs`, for every screen and list of messages, proves
`PositionStaysOnScreen` (`TypeOK`; the invariant adds only that `call` is a
record), `WritesInTheBuffer`, which needs a product bound (`PlaceOnScreen`) the
prover does not find by itself, and the two properties whose references are
recursive functions.

* `ScreenShowsTheText` (`ShowsTheText`). The invariant `ScreenInv` says of the
  text on paper, `Rows(text)`, that no row is longer than the screen is wide and
  the last one shorter,
  that each place of the screen shows its character or a blank (`Shows`), and
  that the driver's position and the cursor registers are behind the last one
  (`Behind`, `Registers`). `RowsOfMore` takes one step of the recursion;
  `LongerRow`, `NewRowShows` and `PutcharShows` are the cases of a character in
  a row, one that ends it, and one that ends the last row of the screen.
* `PrintsWhatWasAsked` (`PrintsTheMessage`). The invariant `Progress` says that
  the first pieces of the message have been said, that what is left of the
  format and of the arguments is what the other pieces need, and that what a
  conversion has printed and has yet to print is together what its piece says.
  The arguments are in step only while every conversion was one printf knows
  (`AllKnown`): behind an unknown one nothing is said of them, and
  `MessagesAssumption`, which describes the callers, has nothing there that takes
  one. `FormatPlaces` and `ArgumentPlaces` say where a piece stands in the
  format and among the arguments; `DigitsAreANumeral` that the digits of a
  number have its value and no zero in front.

Both follow recursive functions over the naturals. The library's induction
theorem cannot be used (it takes an operator), so `Induction` states the least
counterexample over a set of naturals, which the well-foundedness of `<` gives,
and `Recursion` that the function a recursion describes exists.

### What they rest on, and what only TLC checks

The proofs rest on the assumptions of the modules: `GeometryAssumption`,
`ChainAssumption`, `EntryAssumption`, `DriverAssumption`, `AtaAssumption`,
`Stage1Assumption`, `HeapAssumption`, `FirmwareAssumption`, `FanAssumption`,
`PagingAssumption`, `BootPagingAssumption`, `Stage2Assumption`, `ConsoleAssumption` and
`MessagesAssumption`, and on the
hypotheses named above. TLC evaluates the assumptions in the runs of their
modules.

Only model-checked:

* all liveness: fairness and ENABLED are out of the prover's reach.
* `KernelInPlace`, `OnlyNamedMemory`, `HandoverAgrees` and `FaultsExplained` of
  `Stage2` for kernels that are not `Linked`: segments that overlap or lie at
  different offsets, which no linker script of the repository makes.

## What the models assume

* FAT12: no run lets a fill of the FAT cache fail: `NextCluster` ignores such a
  failure, and which cluster it then returns is said nowhere. Of the theorems,
  `DriverTypeOK` and `HandlesNeverLeak` do include failing fills; those about
  what is read and opened take `NoFillFails` for a hypothesis, and
  `FilesAreThoseOfTheVolume` also `NoSectorFails`.
* FAT12: `fat_size_16` and `total_sectors_16` are not zero; root reads are of
  whole entries; FAT bytes past the table and entries past a directory's last
  are zero; names are compared as values (letter case and the 8.3 form are left out).
* ATA: no call reads across the last 28-bit LBA; a drive shows that it has taken
  note of a command by the second poll; no status of its own changes between
  the poll that allowed a command and the command.
* Boot sector: the bytes of the disk address packet that the code does not write
  are zero; a drive that does not answer the geometry call has that of the
  BPB; stage 2 lies below sector 65536 and does not overwrite stage_2_info.
* BIOS data: the EBDA starts on a kilobyte, as `detect_ebda` says of it, so that
  the search, which takes the low digit of the segment for an offset, starts where
  the EBDA does; regions of a memory map do not overlap; the BIOS returns entries of
  20 bytes; a map is at most one entry too long.
* Stage 2: the file system object fits the heap; an image fits the region it is
  put in (the code asks for a megabyte and does not look); a segment has no more
  bytes in the file than in memory; low bits of a physical address that fall into
  the flags of an entry have no effect the model has; the first megabyte is all
  memory. Headers of stray bytes lie in the four levels' address space, and sums with
  their physical addresses do not wrap.
* FAT12: memory behind `OpenedFiles`, which a null `File*` may be taken to name, is zero
  where the driver looks, and the byte at address 0 is not the root's handle.
* Console: the loader's formats and arguments agree, but for `%u`, and no caller
  has a known conversion behind a `%u` (`MessagesAssumption`).
* Paging: the kernel maps what is not mapped, as `parseRSDP` does; calls for
  large pages and all unmap calls have a count of 1, since the code flushes and
  advances by the first and by small pages; frames that hold no table are zero.
* Heap: no request is so large that its sums wrap.

## Not modelled, and the plan

Left out for good: printing in assembly, descriptor tables, control registers and port numbers, the
kernel's entry code and the constructors' frames, which have no state
a property could be about; the image builder, which runs on the host; the
helpers (`memcpy`, `min`, string functions), which are what the models use them as.

Read in the code and in no model: `error` of `init64.asm` loads `SI` and reads by
`ESI`, whose upper half is what clearing `.bss` left of `__end`
(`init32.asm:90-98`), so the message about an old CPU need not be the one shown;
the listing of an empty memory map runs its `loop` 65536 times
(`init16.asm:43-89`).

In the models, but in no violation run: `open` walks on through a null `File*`
(`fat12.cpp:105`), which closes the file whose handle is the byte at address 0, if one has it
(`SlotOf`); `readElf` takes stale bytes for a program header after a failed `seek`
(`elf.cpp:54`), and maps and fills what they name (`Strays`); `setup_paging` tests no result of
`kmalloc` (`kernel/memory.cpp:109`), which no kernel of 16 MiB of heap comes to.

What is worth doing next is proof: `OnlyNamedMemory` and `FaultsExplained` for
segments at different offsets. There a page may get one frame, then another,
so that the tree of `Built` would have to say which segment mapped it last.
