------------------------------ MODULE Stage1Disk ------------------------------
(***************************************************************************)
(* The boot sector: it asks the BIOS what the boot drive can do, loads the *)
(* sector that says where stage 2 lies, loads stage 2 and jumps to it.     *)
(*                                                                         *)
(* Memory is counted in pieces of a sector.  A step is a call of the BIOS, *)
(* which may fail.                                                         *)
(***************************************************************************)
EXTENDS Integers

CONSTANTS
  Disks,      \* the drives: sectors, true geometry, and the BIOS calls they know
  Bpb,        \* the sectors per track and heads the boot sector is built with
  RETRIES,    \* how often a read is tried (3)
  InfoAt,     \* where __stage2_info_start lies
  Location,   \* stage_2_info.location: the first sector of stage 2
  Size,       \* stage_2_info.size: its sectors
  Load,       \* stage_2_info.load: where it goes
  MemorySize  \* pieces of memory

Pieces == 0 .. MemorySize - 1

(* A drive that does not tell its geometry has the one of the BPB.  Stage  *)
(* 2 follows the boot sector and the sector of stage_2_info.               *)
ASSUME Stage1Assumption ==
  /\ \A d \in Disks :
       /\ d.sectors \in Nat /\ d.spt \in 1 .. 63 /\ d.heads \in 1 .. 255
       /\ d.extended \in BOOLEAN /\ d.geometry \in BOOLEAN
       /\ ~d.geometry => d.spt = Bpb.spt /\ d.heads = Bpb.heads
       /\ d.sectors <= 1024 * d.heads * d.spt
  /\ Bpb \in [spt : 1 .. 63, heads : 1 .. 255]
  /\ RETRIES \in Nat \ {0} /\ Size \in 1 .. 255 /\ Location \in Nat \ {0, 1}
  /\ Location + Size <= 65536
  /\ Load \in Nat /\ MemorySize \in Nat /\ InfoAt \in Pieces /\ Load + Size <= MemorySize
  /\ InfoAt \notin Load .. Load + Size - 1

VARIABLES
  disk,       \* the boot drive
  extended,   \* disk_extended_present
  bdb,        \* bdb_sectors_per_track and bdb_heads
  memory,     \* the sector each piece of memory was read from
  boot,       \* where the boot sector is
  failures    \* reads of the BIOS that failed since the last that did not

vars == <<disk, extended, bdb, memory, boot, failures>>

Junk == -1    \* memory nothing was read into

(***************************************************************************)
(* lba_to_chs, in 16-bit registers: CH and the two top bits of CL hold the *)
(* cylinder, the rest of CL the sector, DH the head.                       *)
(***************************************************************************)
(* Mutant: sectors of a track count from 0.                                *)
lba_to_chs_FromZero(lba) ==
  LET n == lba % 65536 IN
  [cylinder |-> (n \div ((bdb.heads * bdb.spt) % 65536)) % 1024,
   head     |-> ((n \div bdb.spt) % bdb.heads) % 256,
   sector   |-> (n % bdb.spt) % 64]

lba_to_chs(lba) ==
  LET n == lba % 65536 IN
  [cylinder |-> (n \div ((bdb.heads * bdb.spt) % 65536)) % 1024,
   head     |-> ((n \div bdb.spt) % bdb.heads) % 256,
   sector   |-> ((n % bdb.spt) + 1) % 64]

(* The sector the BIOS reads at a cylinder, head and sector of the drive.  *)
SectorAt(chs) ==
  IF chs.sector \in 1 .. disk.spt /\ chs.head < disk.heads
  THEN (chs.cylinder * disk.heads + chs.head) * disk.spt + chs.sector - 1
  ELSE disk.sectors

(* What an attempt to read count sectors from lba may transfer: all that   *)
(* was asked for if the drive has it, or less.                             *)
Transfers(lba, count) ==
  {k \in 0 .. count : lba + k <= disk.sectors \/ k = 0}

Stored(at, lba, k) ==
  [p \in Pieces |-> IF p \in at .. at + k - 1 THEN lba + (p - at) ELSE memory[p]]

(***************************************************************************)
(* Finding out about the drive.                                            *)
(***************************************************************************)
(* disk_reset ignores what the BIOS answers.                               *)
DiskReset ==
  /\ boot.op = "reset"
  /\ boot' = [op |-> "check"]
  /\ UNCHANGED <<disk, extended, bdb, memory, failures>>

check_disk_extended ==
  /\ boot.op = "check"
  /\ extended' = disk.extended
  /\ boot' = [op |-> "geometry"]
  /\ UNCHANGED <<disk, bdb, memory, failures>>

(* disk_read(lba, count) to the piece at, and what comes after it.         *)
Reading(lba, count, at, then) ==
  [op |-> IF extended THEN "extended" ELSE "chs", lba |-> lba, count |-> count,
   at |-> at, tries |-> RETRIES, then |-> then]

(* What the BIOS answers in DH.                                            *)
LastHead == disk.heads - 1

(* Mutant: the number of the last head is taken for their number.          *)
disk_get_geometry_LastHead ==
  /\ boot.op = "geometry"
  /\ bdb' = IF disk.geometry THEN [spt |-> disk.spt % 64, heads |-> LastHead] ELSE bdb
  /\ boot' = Reading(1, 1, InfoAt, "info")
  /\ UNCHANGED <<disk, extended, memory, failures>>

disk_get_geometry ==
  /\ boot.op = "geometry"
  /\ bdb' = IF disk.geometry
            THEN [spt |-> disk.spt % 64, heads |-> LastHead + 1] ELSE bdb
  /\ boot' = Reading(1, 1, InfoAt, "info")
  /\ UNCHANGED <<disk, extended, memory, failures>>

(***************************************************************************)
(* disk_read.                                                              *)
(***************************************************************************)
Failed(then) ==
  /\ failures' = failures + 1
  /\ boot' = IF boot.tries = 1 THEN [op |-> "halt"] ELSE then

Arrived == [op |-> boot.then]

(* One call reads all sectors; the drive is reset before the next try.     *)
ExtendedRead ==
  /\ boot.op = "extended"
  /\ \E k \in Transfers(boot.lba, boot.count) :
       /\ memory' = Stored(boot.at, boot.lba, k)
       /\ \/ /\ k = boot.count
             /\ boot' = Arrived
             /\ failures' = 0
          \/ Failed([boot EXCEPT !.tries = @ - 1])
  /\ UNCHANGED <<disk, extended, bdb>>

(* Mutant: the tries left over serve the next sector.                      *)
NextSector_TriesLeft ==
  [boot EXCEPT !.lba = @ + 1, !.count = @ - 1, !.at = @ + 1]

(* ES moves on by the paragraphs of a sector; the tries start over.        *)
NextSector ==
  [boot EXCEPT !.lba = @ + 1, !.count = (@ - 1) % 65536, !.at = @ + 1, !.tries = RETRIES]

(* Mutant: a read is tried for ever.                                       *)
ChsRead_NoLimit ==
  /\ boot.op = "chs"
  /\ \E k \in Transfers(SectorAt(lba_to_chs(boot.lba)), 1) :
       /\ memory' = Stored(boot.at, SectorAt(lba_to_chs(boot.lba)), k)
       /\ \/ /\ k = 1
             /\ boot' = IF boot.count = 1 THEN Arrived ELSE NextSector
             /\ failures' = 0
          \/ k = 0 /\ UNCHANGED <<boot, failures>>
  /\ UNCHANGED <<disk, extended, bdb>>

(* Mutant: the sectors left are tested before the one just read is counted. *)
ChsRead_OneTooMany ==
  /\ boot.op = "chs"
  /\ \E k \in Transfers(SectorAt(lba_to_chs(boot.lba)), 1) :
       /\ memory' = Stored(boot.at, SectorAt(lba_to_chs(boot.lba)), k)
       /\ \/ /\ k = 1
             /\ boot' = IF boot.count = 0 THEN Arrived ELSE NextSector
             /\ failures' = 0
          \/ Failed([boot EXCEPT !.tries = @ - 1])
  /\ UNCHANGED <<disk, extended, bdb>>

(* One sector a call, tried again without a reset.                         *)
ChsRead ==
  /\ boot.op = "chs"
  /\ \E k \in Transfers(SectorAt(lba_to_chs(boot.lba)), 1) :
       /\ memory' = Stored(boot.at, SectorAt(lba_to_chs(boot.lba)), k)
       /\ \/ /\ k = 1
             /\ boot' = IF boot.count = 1 THEN Arrived ELSE NextSector
             /\ failures' = 0
          \/ Failed([boot EXCEPT !.tries = @ - 1])
  /\ UNCHANGED <<disk, extended, bdb>>

(***************************************************************************)
(* stage_2_info is what the first read brought.                            *)
(***************************************************************************)
ReadStage2 ==
  /\ boot.op = "info"
  /\ boot' = IF memory[InfoAt] = 1 THEN Reading(Location, Size, Load, "stage2")
             ELSE [op |-> "lost"]
  /\ UNCHANGED <<disk, extended, bdb, memory, failures>>

Init ==
  /\ disk \in Disks
  /\ extended = FALSE
  /\ bdb = Bpb
  /\ memory = [p \in Pieces |-> Junk]
  /\ boot = [op |-> "reset"]
  /\ failures = 0

Next ==
  \/ DiskReset \/ check_disk_extended \/ disk_get_geometry
  \/ ExtendedRead \/ ChsRead \/ ReadStage2

(* The processor goes on as long as the boot sector does.                  *)
Spec == Init /\ [][Next]_vars /\ WF_vars(Next)

(***************************************************************************)
(* Properties.                                                             *)
(***************************************************************************)
TypeOK ==
  /\ disk \in Disks
  /\ bdb \in [spt : 1 .. 63, heads : 1 .. 256]
  /\ memory \in [Pieces -> Int]
  /\ "tries" \in DOMAIN boot => boot.tries \in 1 .. RETRIES /\ boot.count \in 1 .. Size

(* Stage 2 is entered only when all of it is in memory, each sector at its *)
(* place, by whichever way the drive is read, across heads and cylinders,  *)
(* and after any reads that failed half way.                               *)
JumpsIntoStage2 ==
  boot.op = "stage2" => \A i \in 0 .. Size - 1 : memory[Load + i] = Location + i

(* The boot sector never takes another sector for stage_2_info.            *)
InfoFound == boot.op # "lost"

(* It gives up only on a read that failed RETRIES times in a row: failures *)
(* of other sectors, read well in the end, do not add up.                  *)
GivesUpLate == boot.op = "halt" => failures = RETRIES

(* The boot sector either enters stage 2 or says that it cannot: it does   *)
(* not try for ever on a drive that keeps failing.                         *)
BootEnds == <>(boot.op \in {"stage2", "halt"})
=============================================================================
