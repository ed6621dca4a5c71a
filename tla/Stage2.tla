-------------------------------- MODULE Stage2 --------------------------------
(***************************************************************************)
(* Stage 2 from its first instruction to the call of the kernel: the BIOS  *)
(* data (BiosData), the CPU's tests, stage2_main, the file system it finds *)
(* (FatDetection) and the kernel it loads (ElfLoader, BootPaging).         *)
(***************************************************************************)
EXTENDS BiosData, ElfLoader, FatDetection, FiniteSets

CONSTANTS
  MEGABYTE,     \* 0x100000, in the unit of addresses
  FS_SIZE,      \* size of a FAT12FileSystem
  KERNEL_BASE,  \* the address the kernel is linked for
  Missing,      \* no file /kernel.elf
  Media(_)      \* what may be plugged into a machine

PhdrType ==
  [load : BOOLEAN, offset : Nat, vaddr : Nat, paddr : Nat, filesz : Nat, memsz : Nat]

InAddressSpace(ph) == ph.vaddr + ph.memsz <= Fan * Fan * Fan * Fan * PAGE

(* Segments are what a linker makes: no more in the file than in memory,   *)
(* at addresses that four levels of tables translate.  The file system     *)
(* object, made first, finds room in the heap.                             *)
ASSUME Stage2Assumption ==
  /\ [size |-> PAGE, align |-> PAGE] \in Requests
  /\ [size |-> FS_SIZE, align |-> 1] \in Requests /\ FS_SIZE \in 1 .. HeapSize - 1
  /\ MEGABYTE = LOW_PAGES * PAGE
  /\ MaxFaults \in Nat /\ LIMIT \in Nat /\ WORD \in Nat
  /\ \A f \in Firmwares : \A m \in Media(f) :
       /\ m.cpu \in {"no cpuid", "32 bit", "64 bit"} /\ m.disk \in BOOLEAN
       /\ VolumeFits(m.volume)
       /\ m.kernel # Missing =>
            /\ m.kernel.size \in Nat /\ m.kernel.phdrs \in Seq(PhdrType)
            /\ \A i \in DOMAIN m.kernel.phdrs :
                 LET ph == m.kernel.phdrs[i]
                 IN  /\ ph.filesz <= ph.memsz
                     /\ InAddressSpace(ph)
  /\ \A ph \in Strays : ph \in PhdrType /\ InAddressSpace(ph)

VARIABLES
  media,      \* the CPU, whether there is a disk, its boot sector and its kernel
  region,     \* kernelStart and memoryMapIndex
  handed      \* entry and kernelPhysicalBase, as the kernel gets them

vars == <<biosVars, memory, elf, faults, stray, media, region, handed>>

None == [base |-> 0, index |-> 0]

Nothing == [entry |-> Nowhere, base |-> Nowhere]

Given == <<firmware, boot_info, a20, media>>

Stop == boot' = [op |-> "stop"]

Goto(label) == boot' = [op |-> label]

(***************************************************************************)
(* start32_64: a CPU without cpuid or without long mode ends the boot.     *)
(***************************************************************************)
check_cpuid ==
  /\ boot.op = "protected"
  /\ IF media.cpu = "no cpuid" THEN Goto("error") ELSE Goto("check long")
  /\ UNCHANGED <<Given, memory, elf, faults, stray, region, handed>>

check_long ==
  /\ boot.op = "check long"
  /\ IF media.cpu = "32 bit" THEN Goto("error") ELSE Goto("page tables")
  /\ UNCHANGED <<Given, memory, elf, faults, stray, region, handed>>

FirstTables ==
  /\ boot.op = "page tables"
  /\ setup_page_tables
  /\ Goto("paging")
  /\ UNCHANGED <<Given, elf, faults, stray, region, handed>>

LongMode ==
  /\ boot.op = "paging"
  /\ enable_paging_and_longmode
  /\ Goto("long")
  /\ UNCHANGED <<Given, elf, faults, stray, region, handed>>

(***************************************************************************)
(* stage2_main.                                                            *)
(***************************************************************************)
Setup ==
  /\ boot.op = "long"
  /\ setup_paging
  /\ Goto("disk")
  /\ UNCHANGED <<Given, elf, faults, stray, region, handed>>

FindDisk ==
  /\ boot.op = "disk"
  /\ IF media.disk THEN Goto("detect") ELSE Stop
  /\ UNCHANGED <<Given, memory, elf, faults, stray, region, handed>>

(* The file system object comes from the heap and never goes back.         *)
detect ==
  /\ boot.op = "detect"
  /\ \/ /\ SectorRead /\ Detected(media.volume)
        /\ kmalloc(FS_SIZE, 1)
        /\ Goto("initialize")
     \/ /\ SectorRead /\ ~Detected(media.volume)
        /\ Stop
        /\ UNCHANGED <<heap_offset, blocks>>
     \/ /\ SectorFails
        /\ Stop
        /\ UNCHANGED <<heap_offset, blocks>>
  /\ UNCHANGED <<Given, mem, cr3, ram, elf, stray, region, handed>>

initialize ==
  /\ boot.op = "initialize"
  /\ \/ SectorRead /\ Accepted(media.volume) /\ Goto("open")
     \/ SectorRead /\ ~Accepted(media.volume) /\ Stop
     \/ SectorFails /\ Stop
  /\ UNCHANGED <<Given, memory, elf, stray, region, handed>>

(* Nobody misses a sector that fails behind the one that names the kernel. *)
open ==
  /\ boot.op = "open"
  /\ \/ SectorRead /\ media.kernel # Missing /\ Goto("region")
     \/ SectorRead /\ media.kernel = Missing /\ Stop
     \/ SectorFails /\ (Stop \/ Goto("open"))
  /\ UNCHANGED <<Given, memory, elf, stray, region, handed>>

(* Mutant: regions of any type are taken.                                  *)
Usable_AnyType(e) == e.base >= MEGABYTE /\ e.length >= MEGABYTE

Usable(e) == e.base >= MEGABYTE /\ e.length >= MEGABYTE /\ e.type = 1

Listed == {i \in 0 .. MAP_ENTRIES - 1 : i < boot_info.mem_map_count}

UsableRegions == {i \in Listed : Usable(boot_info.mem_map[i])}

First(S) == CHOOSE i \in S : \A j \in S : i <= j

(* The first usable region of a megabyte, above one.  An index past the    *)
(* buffer reads whatever follows boot_info.                                *)
ChooseRegion ==
  /\ boot.op = "region"
  /\ \/ /\ UsableRegions # {}
        /\ region' = [base  |-> boot_info.mem_map[First(UsableRegions)].base,
                      index |-> First(UsableRegions)]
        /\ Goto("load")
     \/ /\ UsableRegions = {} /\ boot_info.mem_map_count > MAP_ENTRIES
        /\ region' = [base |-> MEGABYTE, index |-> MAP_ENTRIES]
        /\ Goto("load")
     \/ /\ UsableRegions = {}
        /\ boot' = [op |-> "stop", no |-> "memory"]
        /\ UNCHANGED region
  /\ UNCHANGED <<Given, memory, elf, faults, stray, handed>>

CallReadElf ==
  /\ boot.op = "load"
  /\ Goto("readElf")
  /\ elf' = [op |-> "header", file |-> media.kernel, data |-> region.base]
  /\ UNCHANGED <<Given, memory, faults, stray, region, handed>>

Loading ==
  /\ boot.op = "readElf"
  /\ readElf
  /\ UNCHANGED <<Given, boot, region, handed>>

CallKernel ==
  /\ boot.op = "readElf" /\ elf.op = "returned"
  /\ handed' = [entry |-> elf.entry, base |-> elf.phys_base]
  /\ Goto("kernel")
  /\ UNCHANGED <<Given, memory, elf, faults, stray, region>>

Init ==
  /\ BiosInit
  /\ BootPagingInit
  /\ media \in Media(firmware)
  /\ elf = Idle /\ faults = 0 /\ stray = FALSE
  /\ region = None /\ handed = Nothing

Next ==
  \/ BiosNext /\ UNCHANGED <<memory, elf, faults, stray, media, region, handed>>
  \/ check_cpuid \/ check_long \/ FirstTables \/ LongMode
  \/ Setup \/ FindDisk \/ detect \/ initialize \/ open
  \/ ChooseRegion \/ CallReadElf \/ Loading \/ CallKernel

Spec == Init /\ [][Next]_vars /\ WF_vars(Next)

(***************************************************************************)
(* Properties.                                                             *)
(***************************************************************************)
TypeOK ==
  /\ BiosTypeOK
  /\ mem \in [TableFrames -> [Slots -> [to : Nat \cup {Nowhere}, large : BOOLEAN]]]
  /\ \A c \in DOMAIN ram : ram[c] \in Nat \cup {Zero, Wrong}
  /\ faults \in 0 .. MaxFaults /\ stray \in BOOLEAN

RamAt(base) ==
  \E e \in {firmware.map[i] : i \in DOMAIN firmware.map} :
    e.base = base /\ e.type = 1 /\ e.length >= MEGABYTE

(* The kernel goes into memory the BIOS reports as usable, at least a      *)
(* megabyte of it and none of the first, the index handed over names it,   *)
(* and the boot stops for want of memory only when there is none.          *)
KernelRegionUsable ==
  MapFits =>
    /\ region # None => /\ region.base >= MEGABYTE /\ RamAt(region.base)
                        /\ boot_info.mem_map[region.index].base = region.base
    /\ "no" \in DOMAIN boot => \A b \in {firmware.map[i].base : i \in DOMAIN firmware.map} :
                                 b < MEGABYTE \/ ~RamAt(b)

Mounted == boot.op \in {"open", "region", "load", "readElf", "kernel"}

(* What is mounted is FAT12 by the count of its clusters, though the count *)
(* is unsigned and a volume may be smaller than its metadata; and a FAT12  *)
(* volume that gives its size in 16 bits is mounted unless a read fails.   *)
MountsFat12 ==
  /\ Mounted => IsFat12(media.volume)
  /\ boot.op = "stop" /\ heap_offset = 0 /\ faults = 0 /\ media.disk
       => ~(IsFat12(media.volume) /\ Accepted(media.volume))

(* From the first page table on, whatever the loader maps, the first       *)
(* megabyte stays where it is: stage 2 runs there, and the tables,         *)
(* boot_info and the pointers the kernel is called with are addresses of   *)
(* it.  Only bytes of another sector, taken for a program header, may      *)
(* move it.                                                                *)
IdentityKept ==
  cr3 # Nowhere /\ ~stray => \A p \in 0 .. LOW_PAGES - 1 : Walk(mem, cr3, p) = p

Phdrs == IF media.kernel = Missing THEN << >> ELSE media.kernel.phdrs

Segments == {Phdrs[i] : i \in {j \in DOMAIN Phdrs : Phdrs[j].load}}

PagesOf(ph) == (ph.vaddr \div PAGE) .. ((ph.vaddr + ph.memsz - 1) \div PAGE)

(* The tables the image needs beyond the four of setup_paging, and those   *)
(* there is room for behind the file system object.                        *)
TablesNeeded ==
  LET pages == UNION {PagesOf(ph) : ph \in Segments}
      names == {<<Index4(v)>> : v \in pages} \cup {<<Index4(v), Index3(v)>> : v \in pages}
                 \cup {<<Index4(v), Index3(v), Index2(v)>> : v \in pages}
  IN  Cardinality(names \ {<<0>>, <<0, 0>>, <<0, 0, 0>>})

TablesLeft ==
  LET end == HeapBase + FS_SIZE + PAGE - 1
  IN  (HeapBase + HeapSize - 1 - (end - (end % PAGE))) \div PAGE

Straddles(ph) ==
  (ph.vaddr % PAGE) + ph.memsz > ((ph.memsz + PAGE - 1) \div PAGE) * PAGE

Whole == \A ph \in Segments : ph.offset + ph.filesz <= media.kernel.size

Content(ph, j) == IF j < ph.filesz THEN ph.offset + j ELSE Zero

(* When the kernel is called, each byte of each segment is where it was    *)
(* linked to be: the file's bytes, and zero behind them, though segments   *)
(* share pages and tables, and tables may be large or small.  A sector     *)
(* that failed, a file that was cut short and a heap too small for the     *)
(* tables are what may break this; none is reported.                       *)
KernelInPlace ==
  boot.op = "kernel" /\ faults = 0 /\ media.kernel.magic /\ Whole /\ TablesNeeded <= TablesLeft =>
    \A ph \in Segments : \A j \in 0 .. ph.memsz - 1 :
      /\ Mapped(mem, ph.vaddr + j)
      /\ Physical(mem, ph.vaddr + j) \in DOMAIN ram
      /\ ram[Physical(mem, ph.vaddr + j)] = Content(ph, j)

(* Whatever is not read, the loader writes no memory but what the segments *)
(* name, counted from the start of the region: while it takes no bytes of  *)
(* another sector for a program header.  Tables that found no room are     *)
(* null, and lead pages elsewhere.                                         *)
OnlyNamedMemory ==
  ~stray /\ TablesNeeded <= TablesLeft =>
    DOMAIN ram \subseteq
      UNION {(region.base + ph.paddr) .. (region.base + ph.paddr + ph.memsz - 1) : ph \in Segments}

(* The kernel turns addresses around with KERNEL_BASE and the base it is   *)
(* handed: that must be how it is mapped, if it is linked as its linker    *)
(* script says, from KERNEL_BASE and physical 0 on.  A segment's last page *)
(* may not be mapped if it is not counted and the file does not reach it.  *)
HandoverAgrees ==
  LET linked == /\ \A ph \in Segments : ph.vaddr - ph.paddr = KERNEL_BASE
                /\ \E ph \in Segments : ph.paddr = 0
      mapped == Whole \/ \A ph \in Segments : ~Straddles(ph)
  IN  boot.op = "kernel" /\ faults = 0 /\ media.kernel.magic /\ linked /\ mapped
        /\ TablesNeeded <= TablesLeft =>
        /\ handed.entry = media.kernel.entry
        /\ \A ph \in Segments : \A a \in ph.vaddr .. ph.vaddr + ph.memsz - 1 :
             Physical(mem, a) = (a - KERNEL_BASE) + handed.base

(* The loader runs off its own mapping only for a segment whose last page  *)
(* is not counted, when the heap has no room for the tables, or after it   *)
(* took bytes of another sector for a program header.                      *)
FaultsExplained ==
  elf.op = "fault" => (\E ph \in Segments : Straddles(ph)) \/ TablesNeeded > TablesLeft \/ stray

(* Every boot ends: in the kernel, with a message, or in a page fault; or  *)
(* such bytes take the first megabyte away from under the loader.          *)
BootEnds ==
  <>(boot.op \in {"stop", "error", "halt", "kernel"} \/ elf.op = "fault" \/ (stray /\ ~InControl))
=============================================================================
