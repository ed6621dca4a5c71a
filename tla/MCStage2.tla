------------------------------- MODULE MCStage2 -------------------------------
(***************************************************************************)
(* Pages of 2 units, tables of 16 entries, a first megabyte of 14 pages, a *)
(* heap with room for the file system object and four tables.              *)
(*                                                                         *)
(* Machines with every memory map load an empty kernel; two of them boot   *)
(* every kernel, and from every volume.                                    *)
(***************************************************************************)
EXTENDS Stage2

(* Maps of none to three entries, for two: usable regions that are too     *)
(* low, too short, of another type, or good.                               *)
Entry32(base, length, type) == [base |-> base, length |-> length, type |-> type]

Low == Entry32(0, 20, 1)
Hole == Entry32(28, 32, 2)
Short == Entry32(60, 4, 1)
Ram == Entry32(64, 100, 1)
Shifted == Entry32(68, 96, 1)
More == Entry32(200, 40, 1)

Maps == {<< >>, <<Low>>, <<Ram>>, <<Low, Ram>>, <<Hole, Ram>>, <<Hole, Short>>, <<Ram, More>>,
         <<Low, Hole, Ram>>, <<Low, Ram, More>>}

Plain == [map |-> <<Low, Ram>>, ends |-> "carry", gate |-> "opens", ebda |-> 64,
          rsdps |-> {66, 201}, drive |-> 128]

(* The same machine, with memory that starts between two large pages.      *)
Uneven == [Plain EXCEPT !.map = <<Low, Shifted>>]

(* The RSDP in the EBDA, the BIOS area, both, elsewhere or nowhere.        *)
SomeFirmwares ==
  [map : Maps, ends : {"continuation", "carry"}, gate : {"open", "opens", "stuck"},
   ebda : {0, 64}, rsdps : {{}, {65}, {200}, {66, 201}, {300}}, drive : {128}] \cup {Uneven}

BiosArea == 200 .. 210

HeapRequests == {[size |-> 1, align |-> 1], [size |-> 2, align |-> 2]}

(***************************************************************************)
(* Kernels.                                                                *)
(***************************************************************************)
Base == 8 * 16 * 16 * 16 * 2

Load(offset, at, filesz, memsz) ==
  [load |-> TRUE, offset |-> offset, vaddr |-> Base + at, paddr |-> at,
   filesz |-> filesz, memsz |-> memsz]

Elf(size, phdrs) == [magic |-> TRUE, entry |-> Base + 1, size |-> size, phdrs |-> phdrs]

OneSegment == Elf(9, <<Load(2, 0, 5, 9)>>)

(* Three segments, the first two of which share a page.                    *)
SharedPage == Elf(7, <<Load(2, 0, 3, 3), Load(5, 3, 1, 1), Load(6, 4, 0, 4)>>)

(* The higher one first, and a header that is none of a segment.           *)
Reversed == Elf(9, <<Load(6, 4, 2, 2), NoSegment, Load(2, 0, 3, 4)>>)

TwoTables == Elf(9, <<Load(2, 30, 3, 4)>>)

(* A large page, where the region allows it, and a small one behind it.    *)
LargePage == Elf(40, <<Load(2, 0, 6, 32), Load(9, 32, 3, 3)>>)

(* Linked at the end of the first megabyte, in the table that maps it.     *)
AtMegabyte ==
  Elf(9, <<[load |-> TRUE, offset |-> 2, vaddr |-> 28, paddr |-> 28, filesz |-> 2, memsz |-> 4]>>)

(* The last unit of the second segment is in a page of its own.            *)
Straddling == Elf(9, <<Load(2, 0, 3, 3), Load(5, 3, 1, 2)>>)

(* The last two tables of the last segment find no room in the heap.       *)
TooManyTables == Elf(9, <<Load(2, 0, 1, 1), Load(3, 32, 1, 1), Load(4, 94, 3, 4)>>)

(* The last two tables are those of the last segment, whose first page is  *)
(* copied to where its last page was mapped.                               *)
NullTables == Elf(9, <<Load(2, 0, 0, 1), Load(3, 32, 0, 1), Load(4, 64, 2, 33)>>)

(* The unit in a page of its own is past the end of the file.              *)
CutShortStraddling == Elf(6, <<Load(2, 0, 3, 3), Load(5, 3, 2, 2)>>)

CutShort == Elf(5, <<Load(2, 0, 5, 5), Load(7, 6, 2, 2)>>)

NotAnElf == [OneSegment EXCEPT !.magic = FALSE]

NoHeaders == Elf(2, << >>)

Kernels == {OneSegment, SharedPage, Reversed, TwoTables, LargePage, AtMegabyte, Straddling,
            TooManyTables, NullTables, CutShort, CutShortStraddling, NotAnElf, NoHeaders, Missing}

(* Headers that are none: of a page of the first megabyte, of no page but  *)
(* some bytes of the first megabyte, and of a page of the kernel with more *)
(* in the file than in memory.                                             *)
StrayHeaders ==
  {[Load(2, 40, 2, 2) EXCEPT !.vaddr = 4], [Load(2, 40, 2, 0) EXCEPT !.vaddr = 4], Load(0, 2, 5, 1)}

(***************************************************************************)
(* Volumes: 2 sectors of metadata and n of data, and what may be wrong.    *)
(***************************************************************************)
Volume(n) ==
  [signature |-> TRUE, bytes_per_sector |-> 512, sectors_per_cluster |-> 1,
   reserved_sector_count |-> 1, num_fats |-> 1, root_entry_count |-> 0,
   total_sectors_16 |-> 2 + n, total_sectors_32 |-> 0, fat_size_16 |-> 1]

Floppy == Volume(10)

Volumes ==
  {Floppy, Volume(19), Volume(20), Volume(0), Volume(-1),
   [Volume(39) EXCEPT !.sectors_per_cluster = 2], [Volume(40) EXCEPT !.sectors_per_cluster = 2],
   [Volume(5) EXCEPT !.root_entry_count = 17], [Volume(1) EXCEPT !.num_fats = 3],
   [Floppy EXCEPT !.signature = FALSE], [Floppy EXCEPT !.sectors_per_cluster = 3],
   [Floppy EXCEPT !.sectors_per_cluster = 0], [Floppy EXCEPT !.bytes_per_sector = 0],
   [Floppy EXCEPT !.fat_size_16 = 0],
   [Floppy EXCEPT !.total_sectors_16 = 0, !.total_sectors_32 = 12]}

Medium(cpu, disk, volume, kernel) ==
  [cpu |-> cpu, disk |-> disk, volume |-> volume, kernel |-> kernel]

Good == Medium("64 bit", TRUE, Floppy, OneSegment)

MediaOf(f) ==
  IF f \in {Plain, Uneven}
  THEN {Medium("64 bit", TRUE, Floppy, k) : k \in Kernels}
         \cup {[Good EXCEPT !.volume = v] : v \in Volumes}
         \cup {[Good EXCEPT !.cpu = c] : c \in {"no cpuid", "32 bit"}}
         \cup {[Good EXCEPT !.disk = FALSE]}
  ELSE {[Good EXCEPT !.kernel = NoHeaders]}
=============================================================================
