------------------------------- MODULE BiosData -------------------------------
(***************************************************************************)
(* The 16-bit part of stage 2: it asks the BIOS about the machine, leaves  *)
(* the answers in boot_info, and opens the A20 gate.                       *)
(*                                                                         *)
(* Addresses of the first megabyte count paragraphs of 16 bytes; those of  *)
(* the memory map are in a unit of their own.                              *)
(***************************************************************************)
EXTENDS Integers, Sequences

CONSTANTS
  Firmwares,     \* the machines
  MAP_ENTRIES,   \* whole entries mem_map has room for (85)
  EBDA_SCAN,     \* paragraphs of the EBDA that are searched (64)
  BIOS_AREA,     \* the paragraphs from 0xE0000 to 0x100000
  HALF           \* number of values of a 16-bit register

Types == 1 .. 5     \* of memory; 1 is usable

Regions == [base : Nat, length : Nat, type : Types]

Separate(d, e) == d.base + d.length <= e.base \/ e.base + e.length <= d.base

(* What a machine is: the memory map its E820 call reports in entries of   *)
(* 20 bytes, and how it ends it; the segment of the EBDA, which starts on  *)
(* a kilobyte; the paragraphs that start with the RSDP's signature; what   *)
(* the A20 gate does; and the boot drive.                                  *)
ASSUME FirmwareAssumption ==
  /\ MAP_ENTRIES \in Nat \ {0} /\ EBDA_SCAN \in Nat /\ BIOS_AREA \subseteq Nat \ {0}
  /\ HALF \in Nat /\ HALF > MAP_ENTRIES + 1
  /\ \A f \in Firmwares :
       /\ f.map \in Seq(Regions)
       /\ \A i, j \in DOMAIN f.map : i = j \/ Separate(f.map[i], f.map[j])
       /\ Len(f.map) <= MAP_ENTRIES + 1
       /\ f.ends \in {"continuation", "carry"} /\ f.gate \in {"open", "opens", "stuck"}
       /\ f.ebda \in Nat /\ f.ebda % 64 = 0 /\ f.rsdps \subseteq Nat \ {0} /\ f.drive \in Nat

VARIABLES
  firmware,     \* the machine
  boot_info,    \* the structure handed to stage2_main and to the kernel
  a20,          \* whether the gate is open
  boot          \* where the program is, and its registers

biosVars == <<firmware, boot_info, a20, boot>>

Blank == [base |-> 0, length |-> 0, type |-> 0]

start ==
  /\ boot.op = "start"
  /\ boot_info' = [boot_info EXCEPT !.boot_drive = firmware.drive]
  /\ boot' = [op |-> "ebda"]
  /\ UNCHANGED <<firmware, a20>>

detect_ebda ==
  /\ boot.op = "ebda"
  /\ boot_info' = [boot_info EXCEPT !.ebda = firmware.ebda]
  /\ boot' = [op |-> "rsdp"]
  /\ UNCHANGED <<firmware, a20>>

(* The first signature of an area, 0 if it has none.                       *)
Scan(area) ==
  LET found == area \cap firmware.rsdps
  IN  IF found = {} THEN 0 ELSE CHOOSE p \in found : \A q \in found : p <= q

EbdaArea == IF firmware.ebda = 0 THEN {} ELSE firmware.ebda .. firmware.ebda + EBDA_SCAN - 1

(* Mutant: the entries of the map are counted from 1.                      *)
detect_rsdp_CountsFromOne ==
  /\ boot.op = "rsdp"
  /\ boot_info' = [boot_info EXCEPT !.rsdp_addr =
                     IF Scan(EbdaArea) # 0 THEN Scan(EbdaArea) ELSE Scan(BIOS_AREA)]
  /\ boot' = [op |-> "e820", ebx |-> 0, bp |-> 1]
  /\ UNCHANGED <<firmware, a20>>

(* The EBDA is searched first, then the BIOS area.                         *)
detect_rsdp ==
  /\ boot.op = "rsdp"
  /\ boot_info' = [boot_info EXCEPT !.rsdp_addr =
                     IF Scan(EbdaArea) # 0 THEN Scan(EbdaArea) ELSE Scan(BIOS_AREA)]
  /\ boot' = [op |-> "e820", ebx |-> 0, bp |-> 0]
  /\ UNCHANGED <<firmware, a20>>

(***************************************************************************)
(* detect_memory_map.  mem_map has 8 bytes to spare: of the first entry    *)
(* that has no room, the base falls into them, and the rest over the       *)
(* fields that follow.                                                     *)
(***************************************************************************)
Stored(slot, e) ==
  IF slot < MAP_ENTRIES THEN [boot_info EXCEPT !.mem_map[slot] = e]
  ELSE [boot_info EXCEPT !.mem_map_count = e.length % (HALF * HALF),
                         !.rsdp_addr = e.length \div (HALF * HALF),
                         !.ebda = e.type]

(* Only the low half of mem_map_count is written.                          *)
Counted(info, bp) ==
  [info EXCEPT !.mem_map_count = (@ - (@ % HALF)) + bp]

Over == [op |-> "a20", tries |-> 1]

(* The BIOS has no more entries and says so with the carry flag, ...       *)
EndsWithCarry ==
  /\ boot.ebx >= Len(firmware.map)
  /\ boot_info' = Counted(boot_info, boot.bp)
  /\ boot' = Over

(* ... or has said so with the last entry, by a continuation value of 0.   *)
LastOfMap == boot.ebx + 1 = Len(firmware.map) /\ firmware.ends = "continuation"

(* Mutant: the last entry is stored but not counted.                       *)
NextEntry_ForgetsLast ==
  /\ boot.ebx < Len(firmware.map)
  /\ LET info == Stored(boot.bp, firmware.map[boot.ebx + 1])
     IN  boot_info' = IF LastOfMap THEN Counted(info, boot.bp) ELSE info
  /\ boot' = IF LastOfMap THEN Over ELSE [boot EXCEPT !.ebx = @ + 1, !.bp = @ + 1]

NextEntry ==
  /\ boot.ebx < Len(firmware.map)
  /\ LET info == Stored(boot.bp, firmware.map[boot.ebx + 1])
     IN  boot_info' = IF LastOfMap THEN Counted(info, boot.bp + 1) ELSE info
  /\ boot' = IF LastOfMap THEN Over ELSE [boot EXCEPT !.ebx = @ + 1, !.bp = @ + 1]

detect_memory_map ==
  /\ boot.op = "e820"
  /\ NextEntry \/ EndsWithCarry
  /\ UNCHANGED <<firmware, a20>>

(***************************************************************************)
(* start16_32: the gate is tried once, by port 0x92, unless the port says  *)
(* that it is open already.                                                *)
(***************************************************************************)
(* Mutant: the gate is not tested again.                                   *)
open_a20_Trusting ==
  /\ boot.op = "a20"
  /\ a20' = IF ~a20 THEN firmware.gate = "opens" ELSE a20
  /\ boot' = [op |-> "protected"]
  /\ UNCHANGED <<firmware, boot_info>>

open_a20 ==
  /\ boot.op = "a20"
  /\ \/ /\ a20
        /\ boot' = [op |-> "protected"]
        /\ UNCHANGED a20
     \/ /\ ~a20 /\ boot.tries = 1
        /\ a20' = (firmware.gate = "opens")
        /\ boot' = [boot EXCEPT !.tries = 0]
     \/ /\ ~a20 /\ boot.tries = 0
        /\ boot' = [op |-> "halt"]
        /\ UNCHANGED a20
  /\ UNCHANGED <<firmware, boot_info>>

BiosInit ==
  /\ firmware \in Firmwares
  /\ boot_info = [mem_map |-> [i \in 0 .. MAP_ENTRIES - 1 |-> Blank], mem_map_count |-> 0,
                  rsdp_addr |-> 0, ebda |-> 0, boot_drive |-> 0]
  /\ a20 = (firmware.gate = "open")
  /\ boot = [op |-> "start"]

BiosNext ==
  \/ start \/ detect_ebda \/ detect_rsdp \/ detect_memory_map
  \/ open_a20

BiosSpec == BiosInit /\ [][BiosNext]_biosVars

(***************************************************************************)
(* Properties.                                                             *)
(***************************************************************************)
BiosTypeOK ==
  /\ firmware \in Firmwares
  /\ boot_info.mem_map_count \in Nat /\ boot_info.rsdp_addr \in Nat
  /\ boot.op = "e820" => boot.bp <= Len(firmware.map) /\ boot.bp = boot.ebx
  /\ a20 \in BOOLEAN

MapFits == Len(firmware.map) <= MAP_ENTRIES

Asked == boot.op \notin {"start", "ebda", "rsdp", "e820"}

HasRsdp == (EbdaArea \cup BIOS_AREA) \cap firmware.rsdps # {}

(* A memory map that fits is handed over whole and in order, whichever way *)
(* the BIOS ends it, and what was found before it was fetched survives it: *)
(* the RSDP, if there is one, and the boot drive.                          *)
InfoComplete ==
  (Asked /\ MapFits) =>
    /\ boot_info.mem_map_count = Len(firmware.map)
    /\ \A i \in DOMAIN firmware.map : boot_info.mem_map[i - 1] = firmware.map[i]
    /\ boot_info.rsdp_addr \in (IF HasRsdp THEN firmware.rsdps ELSE {0})
    /\ boot_info.boot_drive = firmware.drive

(* Nothing above the first megabyte is used while the gate is closed, and  *)
(* only a gate that cannot be opened this way ends the boot.               *)
GateOpen ==
  /\ Asked /\ boot.op \notin {"a20", "halt"} => a20
  /\ boot.op = "halt" => firmware.gate = "stuck"
=============================================================================
