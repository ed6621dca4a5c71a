----------------------------- MODULE Stage2Proofs -----------------------------
(***************************************************************************)
(* Of the whole boot: the answers of the BIOS survive it, the gate is open *)
(* from protected mode on, the kernel goes into usable memory, page tables *)
(* and file system share a heap without touching each other, what is       *)
(* mounted is FAT12, and the first megabyte stays where it is.  Of a       *)
(* kernel as a linker makes it: it is called with its bytes in place, and  *)
(* its loader writes nothing else.                                         *)
(***************************************************************************)
EXTENDS Stage2, BootPagingProofs, WellFoundedInduction, TLAPS

(***************************************************************************)
(* The BIOS data, whatever the machine is.                                 *)
(***************************************************************************)
(* A set of numbers has a smallest one.                                    *)
LEMMA Smallest ==
  ASSUME NEW S, S \subseteq Nat, S # {}
  PROVE  \E p \in S : \A q \in S : p <= q
PROOF
<1> DEFINE R == OpToRel(<, Nat)
<1>1. IsWellFoundedOn(R, Nat)
  BY NatLessThanWellFounded
<1>2. \A p, q \in Nat : q < p => <<q, p>> \in R
  BY DEF OpToRel
<1> HIDE DEF R
<1>3. PICK p \in S : \A q \in S : <<q, p>> \notin R
  BY <1>1, WFMin
<1>4. ASSUME NEW q \in S PROVE p <= q
  <2>1. p \in Nat /\ q \in Nat
    OBVIOUS
  <2>2. ~(q < p)
    BY <1>2, <1>3, <2>1, Zenon
  <2> QED
    BY <2>1, <2>2
<1> QED
  BY <1>4

InfoType ==
  [mem_map : [0 .. MAP_ENTRIES - 1 -> Regions \cup {Blank}], mem_map_count : Nat,
   rsdp_addr : Nat, ebda : Nat, boot_drive : Nat]

RsdpFound == boot_info.rsdp_addr \in (IF HasRsdp THEN firmware.rsdps ELSE {0})

Unasked == boot.op \in {"start", "ebda", "rsdp"}

(* The loop has stored and not counted the entries before its register.    *)
FetchingMap ==
  boot.op = "e820" =>
    /\ boot \in [op : {"e820"}, ebx : Nat, bp : Nat]
    /\ boot.bp = boot.ebx /\ boot.bp <= Len(firmware.map)
    /\ MapFits =>
         /\ boot_info.mem_map_count = 0 /\ RsdpFound
         /\ \A i \in 1 .. boot.bp : boot_info.mem_map[i - 1] = firmware.map[i]

(* The gate has been tried if it was closed, and only then.                *)
TryingGate ==
  boot.op = "a20" =>
    /\ boot \in [op : {"a20"}, tries : {0, 1}]
    /\ boot.tries = 1 => a20 = (firmware.gate = "open")
    /\ boot.tries = 0 => firmware.gate # "open" /\ a20 = (firmware.gate = "opens")

BiosInv ==
  /\ firmware \in Firmwares /\ a20 \in BOOLEAN /\ boot_info \in InfoType
  /\ Unasked => boot_info.mem_map_count = 0
  /\ boot.op # "start" => boot_info.boot_drive = firmware.drive
  /\ Unasked \/ boot.op = "e820" => a20 = (firmware.gate = "open")
  /\ FetchingMap
  /\ TryingGate
  /\ InfoComplete
  /\ GateOpen

(* What a machine is, as far as the steps look at it.                      *)
LEMMA MachineFacts ==
  ASSUME firmware \in Firmwares
  PROVE  /\ MAP_ENTRIES \in Nat \ {0} /\ HALF \in Nat /\ HALF > MAP_ENTRIES + 1
         /\ firmware.map \in Seq(Regions)
         /\ firmware.gate \in {"open", "opens", "stuck"}
         /\ firmware.ebda \in Nat /\ firmware.drive \in Nat
         /\ firmware.rsdps \subseteq Nat \ {0}
BY FirmwareAssumption

(* A search finds a signature of its area if there is one.                 *)
LEMMA ScanFinds ==
  ASSUME firmware \in Firmwares, NEW area
  PROVE  /\ area \cap firmware.rsdps = {} => Scan(area) = 0
         /\ area \cap firmware.rsdps # {} => Scan(area) \in firmware.rsdps
PROOF
<1>1. area \cap firmware.rsdps \subseteq Nat
  BY MachineFacts
<1> QED
  BY <1>1, Smallest DEF Scan

(* The two searches together find one if either area has one.              *)
LEMMA SearchFinds ==
  ASSUME firmware \in Firmwares
  PROVE  LET found == IF Scan(EbdaArea) # 0 THEN Scan(EbdaArea) ELSE Scan(BIOS_AREA)
         IN  found \in (IF HasRsdp THEN firmware.rsdps ELSE {0}) /\ found \in Nat
PROOF
<1> DEFINE E == Scan(EbdaArea)
           B == Scan(BIOS_AREA)
<1>1. firmware.rsdps \subseteq Nat \ {0}
  BY MachineFacts
<1>2. EbdaArea \cap firmware.rsdps = {} => E = 0
  BY ScanFinds
<1>3. EbdaArea \cap firmware.rsdps # {} => E \in firmware.rsdps
  BY ScanFinds
<1>4. BIOS_AREA \cap firmware.rsdps = {} => B = 0
  BY ScanFinds
<1>5. BIOS_AREA \cap firmware.rsdps # {} => B \in firmware.rsdps
  BY ScanFinds
<1>6. HasRsdp <=> EbdaArea \cap firmware.rsdps # {} \/ BIOS_AREA \cap firmware.rsdps # {}
  BY DEF HasRsdp
<1> HIDE DEF E, B
<1>7. (IF E # 0 THEN E ELSE B) \in (IF HasRsdp THEN firmware.rsdps ELSE {0})
  BY <1>1, <1>2, <1>3, <1>4, <1>5, <1>6
<1>8. (IF E # 0 THEN E ELSE B) \in Nat
  BY <1>1, <1>7
<1> QED
  BY <1>7, <1>8 DEF E, B

LEMMA BiosInvInit == BiosInit => BiosInv
PROOF
<1> SUFFICES ASSUME BiosInit PROVE BiosInv
  OBVIOUS
<1>1. firmware \in Firmwares /\ a20 \in BOOLEAN /\ a20 = (firmware.gate = "open")
  BY DEF BiosInit
<1>2. boot_info \in InfoType /\ boot_info.mem_map_count = 0
  BY DEF BiosInit, InfoType
<1>3. boot.op = "start"
  BY DEF BiosInit
<1>4. ~Asked
  BY <1>3 DEF Asked
<1>5. FetchingMap /\ TryingGate /\ InfoComplete /\ GateOpen
  BY <1>3, <1>4 DEF FetchingMap, TryingGate, InfoComplete, GateOpen
<1> QED
  BY <1>1, <1>2, <1>3, <1>5 DEF BiosInv
(***************************************************************************)
(* The steps.                                                              *)
(***************************************************************************)
LEMMA startKeeps == BiosInv /\ start => BiosInv'
PROOF
<1> SUFFICES ASSUME BiosInv, start PROVE BiosInv'
  OBVIOUS
<1>1. boot.op = "start" /\ boot' = [op |-> "ebda"] /\ firmware' = firmware /\ a20' = a20
  BY DEF start
<1>2. /\ boot_info' \in InfoType /\ boot_info'.boot_drive = firmware.drive
      /\ boot_info'.mem_map_count = 0
  BY <1>1, MachineFacts DEF start, BiosInv, InfoType, Unasked
<1>3. boot'.op = "ebda" /\ ~Asked'
  BY <1>1 DEF Asked
<1>4. FetchingMap' /\ TryingGate' /\ InfoComplete' /\ GateOpen'
  BY <1>3 DEF FetchingMap, TryingGate, InfoComplete, GateOpen
<1> QED
  BY <1>1, <1>2, <1>3, <1>4 DEF BiosInv, Unasked

LEMMA detect_ebdaKeeps == BiosInv /\ detect_ebda => BiosInv'
PROOF
<1> SUFFICES ASSUME BiosInv, detect_ebda PROVE BiosInv'
  OBVIOUS
<1>1. boot.op = "ebda" /\ boot' = [op |-> "rsdp"] /\ firmware' = firmware /\ a20' = a20
  BY DEF detect_ebda
<1>2. /\ boot_info' \in InfoType /\ boot_info'.boot_drive = firmware.drive
      /\ boot_info'.mem_map_count = 0
  BY <1>1, MachineFacts DEF detect_ebda, BiosInv, InfoType, Unasked
<1>3. boot'.op = "rsdp" /\ ~Asked'
  BY <1>1 DEF Asked
<1>4. FetchingMap' /\ TryingGate' /\ InfoComplete' /\ GateOpen'
  BY <1>3 DEF FetchingMap, TryingGate, InfoComplete, GateOpen
<1> QED
  BY <1>1, <1>2, <1>3, <1>4 DEF BiosInv, Unasked

LEMMA detect_rsdpKeeps == BiosInv /\ detect_rsdp => BiosInv'
PROOF
<1> SUFFICES ASSUME BiosInv, detect_rsdp PROVE BiosInv'
  OBVIOUS
<1> DEFINE found == IF Scan(EbdaArea) # 0 THEN Scan(EbdaArea) ELSE Scan(BIOS_AREA)
<1>1. /\ boot.op = "rsdp" /\ boot' = [op |-> "e820", ebx |-> 0, bp |-> 0]
      /\ firmware' = firmware /\ a20' = a20
  BY DEF detect_rsdp
<1>2. found \in Nat /\ found \in (IF HasRsdp THEN firmware.rsdps ELSE {0})
  BY SearchFinds DEF BiosInv
<1>3. boot_info' = [boot_info EXCEPT !.rsdp_addr = found]
  BY DEF detect_rsdp
<1> HIDE DEF found
<1>4. /\ boot_info' \in InfoType /\ boot_info'.boot_drive = firmware.drive
      /\ boot_info'.mem_map_count = 0 /\ boot_info'.rsdp_addr = found
  BY <1>1, <1>2, <1>3 DEF BiosInv, InfoType, Unasked
<1>5. HasRsdp' <=> HasRsdp
  BY <1>1 DEF HasRsdp, EbdaArea
<1>6. boot'.op = "e820" /\ ~Asked'
  BY <1>1 DEF Asked
<1>7. FetchingMap'
  <2>1. Len(firmware.map) \in Nat
    BY MachineFacts DEF BiosInv
  <2>2. RsdpFound'
    BY <1>1, <1>2, <1>4, <1>5 DEF RsdpFound
  <2>3. boot' \in [op : {"e820"}, ebx : Nat, bp : Nat] /\ boot'.bp = 0 /\ boot'.ebx = 0
    BY <1>1
  <2> QED
    BY <1>1, <1>4, <2>1, <2>2, <2>3 DEF FetchingMap
<1>8. TryingGate' /\ InfoComplete' /\ GateOpen'
  BY <1>6 DEF TryingGate, InfoComplete, GateOpen
<1> QED
  BY <1>1, <1>4, <1>6, <1>7, <1>8 DEF BiosInv, Unasked

(* What is known of an entry is known after it is stored behind it.        *)
LEMMA StoredType ==
  ASSUME BiosInv, NEW slot \in Nat, NEW e \in Regions
  PROVE  /\ Stored(slot, e) \in InfoType
         /\ Stored(slot, e).boot_drive = boot_info.boot_drive
         /\ slot < MAP_ENTRIES =>
              /\ Stored(slot, e).mem_map_count = boot_info.mem_map_count
              /\ Stored(slot, e).rsdp_addr = boot_info.rsdp_addr
              /\ Stored(slot, e).mem_map = [boot_info.mem_map EXCEPT ![slot] = e]
PROOF
<1>1. MAP_ENTRIES \in Nat /\ HALF \in Nat \ {0} /\ boot_info \in InfoType
  BY MachineFacts DEF BiosInv
<1>2. e.base \in Nat /\ e.length \in Nat /\ e.type \in Nat
  BY DEF Regions, Types
<1>3. CASE slot < MAP_ENTRIES
  BY <1>1, <1>3 DEF Stored, InfoType
<1>4. CASE ~(slot < MAP_ENTRIES)
  <2>1. HALF * HALF \in Nat \ {0}
    BY <1>1
  <2>2. e.length % (HALF * HALF) \in Nat
    BY <1>2, <2>1
  <2>3. e.length \div (HALF * HALF) \in Nat
    <3> DEFINE n == HALF * HALF
    <3>1. n \in Nat \ {0}
      BY <2>1
    <3> HIDE DEF n
    <3>2. e.length = n * (e.length \div n) + (e.length % n)
      BY <1>2, <3>1
    <3>3. e.length \div n \in Int /\ e.length % n < n
      BY <1>2, <3>1
    <3>4. e.length \div n <= -1 => n * (e.length \div n) <= -n
      BY <3>1, <3>3
    <3>5. e.length \div n \in Nat
      BY <1>2, <3>1, <3>2, <3>3, <3>4
    <3> QED
      BY <3>5 DEF n
  <2> DEFINE low == e.length % (HALF * HALF)
             high == e.length \div (HALF * HALF)
  <2>4. Stored(slot, e) = [boot_info EXCEPT !.mem_map_count = low, !.rsdp_addr = high,
                                            !.ebda = e.type]
    BY <1>4 DEF Stored
  <2> HIDE DEF low, high
  <2>5. low \in Nat /\ high \in Nat
    BY <2>2, <2>3 DEF low, high
  <2> QED
    BY <1>1, <1>2, <1>4, <2>4, <2>5 DEF InfoType
<1> QED
  BY <1>3, <1>4

(* Counting leaves the entries as they are, and from 0 counts them all.    *)
LEMMA CountedType ==
  ASSUME firmware \in Firmwares, NEW info \in InfoType, NEW n \in Nat
  PROVE  /\ Counted(info, n) \in InfoType
         /\ Counted(info, n).mem_map = info.mem_map
         /\ Counted(info, n).rsdp_addr = info.rsdp_addr
         /\ Counted(info, n).boot_drive = info.boot_drive
         /\ info.mem_map_count = 0 => Counted(info, n).mem_map_count = n
PROOF
<1>1. HALF \in Nat \ {0} /\ info.mem_map_count \in Nat
  BY MachineFacts DEF InfoType
<1>2. info.mem_map_count % HALF \in 0 .. HALF - 1
  BY <1>1
<1>3. info.mem_map_count % HALF <= info.mem_map_count
  BY <1>1
<1>4. info.mem_map_count = 0 => info.mem_map_count % HALF = 0
  BY <1>2, <1>3
<1> DEFINE c == (info.mem_map_count - (info.mem_map_count % HALF)) + n
<1>5. c \in Nat /\ (info.mem_map_count = 0 => c = n)
  BY <1>1, <1>2, <1>3, <1>4
<1>6. Counted(info, n) = [info EXCEPT !.mem_map_count = c]
  BY DEF Counted, InfoType
<1> HIDE DEF c
<1> QED
  BY <1>5, <1>6 DEF InfoType
(* A call of the loop that stores an entry, the last or not.               *)
LEMMA NextEntryKeeps ==
  BiosInv /\ boot.op = "e820" /\ NextEntry /\ UNCHANGED <<firmware, a20>> => BiosInv'
PROOF
<1> SUFFICES ASSUME BiosInv, boot.op = "e820", NextEntry, UNCHANGED <<firmware, a20>>
             PROVE  BiosInv'
  OBVIOUS
<1> DEFINE n == boot.bp
           info == Stored(n, firmware.map[n + 1])
<1>1. /\ MAP_ENTRIES \in Nat /\ firmware.map \in Seq(Regions) /\ Len(firmware.map) \in Nat
      /\ firmware' = firmware /\ a20' = a20 /\ a20 = (firmware.gate = "open")
      /\ boot_info.boot_drive = firmware.drive
  BY MachineFacts DEF BiosInv
<1>2. /\ boot \in [op : {"e820"}, ebx : Nat, bp : Nat] /\ n \in Nat /\ n = boot.ebx
      /\ n < Len(firmware.map)
  BY DEF BiosInv, FetchingMap, NextEntry
<1>3. MapFits =>
        /\ n < MAP_ENTRIES
        /\ boot_info.mem_map_count = 0 /\ RsdpFound
        /\ \A i \in 1 .. n : boot_info.mem_map[i - 1] = firmware.map[i]
  BY <1>1, <1>2 DEF BiosInv, FetchingMap, MapFits
<1>4. firmware.map[n + 1] \in Regions
  BY <1>1, <1>2
<1>5. /\ info \in InfoType /\ info.boot_drive = firmware.drive
      /\ MapFits =>
           /\ info.mem_map_count = 0 /\ info.rsdp_addr = boot_info.rsdp_addr
           /\ info.mem_map = [boot_info.mem_map EXCEPT ![n] = firmware.map[n + 1]]
  BY <1>1, <1>2, <1>3, <1>4, StoredType
<1>6. boot_info' = IF LastOfMap THEN Counted(info, n + 1) ELSE info
  BY <1>2 DEF NextEntry
<1>7. boot' = IF LastOfMap THEN Over ELSE [boot EXCEPT !.ebx = @ + 1, !.bp = @ + 1]
  BY DEF NextEntry
<1>8. MapFits => \A i \in 1 .. n + 1 : info.mem_map[i - 1] = firmware.map[i]
  <2>1. SUFFICES ASSUME MapFits, NEW i \in 1 .. n + 1
                 PROVE  info.mem_map[i - 1] = firmware.map[i]
    OBVIOUS
  <2>2. boot_info.mem_map \in [0 .. MAP_ENTRIES - 1 -> Regions \cup {Blank}]
    BY DEF BiosInv, InfoType
  <2>3. i - 1 \in 0 .. MAP_ENTRIES - 1
    BY <1>1, <1>2, <1>3, <2>1
  <2>4. CASE i = n + 1
    <3>1. i - 1 = n
      BY <1>2, <2>4
    <3> QED
      BY <1>5, <2>1, <2>2, <2>3, <2>4, <3>1
  <2>5. CASE i \in 1 .. n
    <3>1. i - 1 # n
      BY <1>2, <2>5
    <3>2. info.mem_map[i - 1] = boot_info.mem_map[i - 1]
      BY <1>5, <2>1, <2>2, <2>3, <3>1
    <3> QED
      BY <1>3, <2>1, <2>5, <3>2
  <2> QED
    BY <1>2, <2>4, <2>5
<1> HIDE DEF info
<1>9. MapFits' <=> MapFits
  BY <1>1 DEF MapFits
<1>10. HasRsdp' <=> HasRsdp
  BY <1>1 DEF HasRsdp, EbdaArea
<1>11. CASE LastOfMap
  <2>1. n + 1 = Len(firmware.map)
    BY <1>2, <1>11 DEF LastOfMap
  <2>2. /\ boot_info' \in InfoType /\ boot_info'.boot_drive = firmware.drive
        /\ MapFits =>
             /\ boot_info'.mem_map_count = n + 1 /\ boot_info'.rsdp_addr = boot_info.rsdp_addr
             /\ boot_info'.mem_map = info.mem_map
    BY <1>2, <1>5, <1>6, <1>11, CountedType DEF BiosInv
  <2>3. boot' = [op |-> "a20", tries |-> 1]
    BY <1>7, <1>11 DEF Over
  <2>4. InfoComplete'
    <3>1. MapFits => boot_info'.rsdp_addr \in (IF HasRsdp THEN firmware.rsdps ELSE {0})
      BY <1>3, <2>2 DEF RsdpFound
    <3>2. MapFits => \A i \in DOMAIN firmware.map : boot_info'.mem_map[i - 1] = firmware.map[i]
      BY <1>1, <1>8, <2>1, <2>2
    <3> QED
      BY <1>1, <1>9, <1>10, <2>1, <2>2, <3>1, <3>2 DEF InfoComplete
  <2>5. FetchingMap' /\ TryingGate' /\ GateOpen'
    BY <1>1, <2>3 DEF FetchingMap, TryingGate, GateOpen
  <2> QED
    BY <1>1, <2>2, <2>3, <2>4, <2>5 DEF BiosInv, Unasked
<1>12. CASE ~LastOfMap
  <2>1. boot_info' = info
    BY <1>6, <1>12
  <2>2. /\ boot' \in [op : {"e820"}, ebx : Nat, bp : Nat] /\ boot'.op = "e820"
        /\ boot'.bp = n + 1 /\ boot'.ebx = n + 1
    <3>1. boot' = [boot EXCEPT !.ebx = boot.ebx + 1, !.bp = boot.bp + 1]
      BY <1>7, <1>12, Zenon
    <3>2. /\ boot.ebx + 1 \in Nat /\ boot.bp + 1 \in Nat
          /\ boot.ebx + 1 = n + 1 /\ boot.bp + 1 = n + 1
      BY <1>2
    <3> QED
      BY <1>2, <3>1, <3>2
  <2>3. RsdpFound /\ MapFits => RsdpFound'
    BY <1>1, <1>5, <1>10, <2>1 DEF RsdpFound
  <2>4. FetchingMap'
    BY <1>1, <1>2, <1>3, <1>5, <1>8, <1>9, <2>1, <2>2, <2>3 DEF FetchingMap
  <2>5. ~Asked' /\ TryingGate' /\ InfoComplete' /\ GateOpen'
    BY <2>2 DEF Asked, TryingGate, InfoComplete, GateOpen
  <2> QED
    BY <1>1, <1>5, <2>1, <2>2, <2>4, <2>5 DEF BiosInv, Unasked
<1> QED
  BY <1>11, <1>12

(* The call that finds no entry left.                                      *)
LEMMA EndsWithCarryKeeps ==
  BiosInv /\ boot.op = "e820" /\ EndsWithCarry /\ UNCHANGED <<firmware, a20>> => BiosInv'
PROOF
<1> SUFFICES ASSUME BiosInv, boot.op = "e820", EndsWithCarry, UNCHANGED <<firmware, a20>>
             PROVE  BiosInv'
  OBVIOUS
<1> DEFINE n == boot.bp
<1>1. /\ firmware.map \in Seq(Regions) /\ Len(firmware.map) \in Nat
      /\ firmware' = firmware /\ a20' = a20 /\ a20 = (firmware.gate = "open")
      /\ boot_info \in InfoType /\ boot_info.boot_drive = firmware.drive
  BY MachineFacts DEF BiosInv
<1>2. n \in Nat /\ n = Len(firmware.map)
  BY <1>1 DEF BiosInv, FetchingMap, EndsWithCarry
<1>3. MapFits =>
        /\ boot_info.mem_map_count = 0 /\ RsdpFound
        /\ \A i \in 1 .. n : boot_info.mem_map[i - 1] = firmware.map[i]
  BY DEF BiosInv, FetchingMap
<1>4. boot_info' = Counted(boot_info, n) /\ boot' = [op |-> "a20", tries |-> 1]
  BY DEF EndsWithCarry, Over
<1>5. /\ boot_info' \in InfoType /\ boot_info'.boot_drive = firmware.drive
      /\ boot_info'.rsdp_addr = boot_info.rsdp_addr /\ boot_info'.mem_map = boot_info.mem_map
      /\ MapFits => boot_info'.mem_map_count = n
  BY <1>1, <1>2, <1>3, <1>4, CountedType DEF BiosInv
<1>6. (MapFits' <=> MapFits) /\ (HasRsdp' <=> HasRsdp)
  BY <1>1 DEF MapFits, HasRsdp, EbdaArea
<1>7. InfoComplete'
  <2>1. MapFits => boot_info'.rsdp_addr \in (IF HasRsdp THEN firmware.rsdps ELSE {0})
    BY <1>3, <1>5 DEF RsdpFound
  <2>2. MapFits => \A i \in DOMAIN firmware.map : boot_info'.mem_map[i - 1] = firmware.map[i]
    BY <1>1, <1>2, <1>3, <1>5
  <2> QED
    BY <1>1, <1>2, <1>5, <1>6, <2>1, <2>2 DEF InfoComplete
<1>8. FetchingMap' /\ TryingGate' /\ GateOpen'
  BY <1>1, <1>4 DEF FetchingMap, TryingGate, GateOpen
<1> QED
  BY <1>1, <1>4, <1>5, <1>7, <1>8 DEF BiosInv, Unasked
(* The gate: once it is found open, or tried and still closed, it is over. *)
LEMMA open_a20Keeps == BiosInv /\ open_a20 => BiosInv'
PROOF
<1> SUFFICES ASSUME BiosInv, open_a20 PROVE BiosInv'
  OBVIOUS
<1>1. /\ boot.op = "a20" /\ boot \in [op : {"a20"}, tries : {0, 1}]
      /\ boot.tries = 1 => a20 = (firmware.gate = "open")
      /\ boot.tries = 0 => firmware.gate # "open" /\ a20 = (firmware.gate = "opens")
  BY DEF BiosInv, TryingGate, open_a20
<1>2. firmware' = firmware /\ boot_info' = boot_info
  BY DEF open_a20
<1>3. firmware.gate \in {"open", "opens", "stuck"}
  BY MachineFacts DEF BiosInv
<1>4. InfoComplete'
  <2>1. Asked
    BY <1>1 DEF Asked
  <2>2. (MapFits' <=> MapFits) /\ (HasRsdp' <=> HasRsdp)
    BY <1>2 DEF MapFits, HasRsdp, EbdaArea
  <2> QED
    BY <1>2, <2>1, <2>2 DEF BiosInv, InfoComplete
<1>5. CASE a20 /\ boot' = [op |-> "protected"] /\ UNCHANGED a20
  BY <1>1, <1>2, <1>4, <1>5 DEF BiosInv, Unasked, FetchingMap, TryingGate, GateOpen
<1>6. CASE ~a20 /\ boot.tries = 1 /\ a20' = (firmware.gate = "opens")
             /\ boot' = [boot EXCEPT !.tries = 0]
  <2>1. firmware.gate # "open"
    BY <1>1, <1>6
  <2>2. boot' \in [op : {"a20"}, tries : {0, 1}] /\ boot'.op = "a20" /\ boot'.tries = 0
    BY <1>1, <1>6
  <2>3. TryingGate'
    BY <1>2, <1>6, <2>1, <2>2 DEF TryingGate
  <2>4. FetchingMap' /\ GateOpen' /\ a20' \in BOOLEAN
    BY <1>6, <2>2 DEF FetchingMap, GateOpen
  <2> QED
    BY <1>1, <1>2, <1>4, <2>2, <2>3, <2>4 DEF BiosInv, Unasked
<1>7. CASE ~a20 /\ boot.tries = 0 /\ boot' = [op |-> "halt"] /\ UNCHANGED a20
  <2>1. firmware.gate = "stuck"
    BY <1>1, <1>3, <1>7
  <2> QED
    BY <1>1, <1>2, <1>4, <1>7, <2>1
    DEF BiosInv, Unasked, FetchingMap, TryingGate, GateOpen
<1> QED
  BY <1>5, <1>6, <1>7 DEF open_a20

(* What comes after the gate and leaves the answers alone.                 *)
LEMMA OnwardKeeps ==
  ASSUME BiosInv, Asked, boot.op \notin {"a20", "halt"}, Asked', boot'.op \notin {"a20", "halt"},
         UNCHANGED <<firmware, boot_info, a20>>
  PROVE  BiosInv'
PROOF
<1>1. (MapFits' <=> MapFits) /\ (HasRsdp' <=> HasRsdp)
  BY DEF MapFits, HasRsdp, EbdaArea
<1>2. InfoComplete'
  BY <1>1 DEF BiosInv, InfoComplete
<1>3. FetchingMap' /\ TryingGate' /\ ~Unasked'
  BY DEF FetchingMap, TryingGate, Asked, Unasked
<1>4. GateOpen' /\ boot.op # "start" /\ boot'.op # "e820"
  BY DEF BiosInv, GateOpen, Asked
<1> QED
  BY <1>2, <1>3, <1>4 DEF BiosInv

LEMMA BiosInvStutter == BiosInv /\ UNCHANGED biosVars => BiosInv'
BY DEF BiosInv, biosVars, Unasked, FetchingMap, TryingGate, InfoComplete, GateOpen, RsdpFound,
       Asked, MapFits, HasRsdp, EbdaArea

LEMMA BiosInvStep == BiosInv /\ [BiosNext]_biosVars => BiosInv'
PROOF
<1> SUFFICES ASSUME BiosInv, [BiosNext]_biosVars PROVE BiosInv'
  OBVIOUS
<1>1. CASE start
  BY <1>1, startKeeps
<1>2. CASE detect_ebda
  BY <1>2, detect_ebdaKeeps
<1>3. CASE detect_rsdp
  BY <1>3, detect_rsdpKeeps
<1>4. CASE detect_memory_map
  BY <1>4, NextEntryKeeps, EndsWithCarryKeeps DEF detect_memory_map
<1>5. CASE open_a20
  BY <1>5, open_a20Keeps
<1>6. CASE UNCHANGED biosVars
  BY <1>6, BiosInvStutter
<1> QED
  BY <1>1, <1>2, <1>3, <1>4, <1>5, <1>6 DEF BiosNext

(* The collection of the BIOS data keeps what it has: proved of the 16-bit *)
(* part alone, for every machine.                                          *)
THEOREM BiosDataKept == BiosSpec => []BiosInv
BY BiosInvInit, BiosInvStep, PTL DEF BiosSpec

(***************************************************************************)
(* The boot.                                                               *)
(***************************************************************************)
BiosOps == {"start", "ebda", "rsdp", "e820", "a20"}

Labels ==
  {"protected", "error", "check long", "page tables", "paging", "long", "disk", "detect",
   "initialize", "open", "region", "load", "readElf", "kernel", "stop"}

(* No region is chosen before the BIOS has been asked.                     *)
Stage2Inv ==
  /\ BiosInv
  /\ boot.op \in BiosOps => region = None
  /\ KernelRegionUsable

MapEntries == {firmware.map[i] : i \in DOMAIN firmware.map}

LEMMA Stage2InvInit == Init => Stage2Inv
PROOF
<1> SUFFICES ASSUME Init PROVE Stage2Inv
  OBVIOUS
<1>1. BiosInv
  BY BiosInvInit DEF Init
<1>2. region = None /\ "no" \notin DOMAIN boot
  BY DEF Init, BiosInit
<1> QED
  BY <1>1, <1>2 DEF Stage2Inv, KernelRegionUsable

(* A step of the BIOS part neither stops nor chooses.                      *)
LEMMA BiosPart ==
  ASSUME BiosInv, BiosNext
  PROVE  boot.op \in BiosOps /\ "no" \notin DOMAIN boot'
PROOF
<1>1. CASE start
  BY <1>1 DEF start, BiosOps
<1>2. CASE detect_ebda
  BY <1>2 DEF detect_ebda, BiosOps
<1>3. CASE detect_rsdp
  BY <1>3 DEF detect_rsdp, BiosOps
<1>4. CASE detect_memory_map
  <2>1. boot.op = "e820" /\ boot \in [op : {"e820"}, ebx : Nat, bp : Nat]
    BY <1>4 DEF detect_memory_map, BiosInv, FetchingMap
  <2>2. CASE boot' = Over
    BY <2>1, <2>2 DEF Over, BiosOps
  <2>3. CASE boot' = [boot EXCEPT !.ebx = @ + 1, !.bp = @ + 1]
    BY <2>1, <2>3 DEF BiosOps
  <2> QED
    BY <1>4, <2>2, <2>3 DEF detect_memory_map, NextEntry, EndsWithCarry
<1>5. CASE open_a20
  <2>1. boot.op = "a20" /\ boot \in [op : {"a20"}, tries : {0, 1}]
    BY <1>5 DEF open_a20, BiosInv, TryingGate
  <2> QED
    BY <1>5, <2>1 DEF open_a20, BiosOps
<1> QED
  BY <1>1, <1>2, <1>3, <1>4, <1>5 DEF BiosNext

LEMMA BiosStepKeeps == Stage2Inv /\ BiosNext /\ UNCHANGED region => Stage2Inv'
PROOF
<1> SUFFICES ASSUME Stage2Inv, BiosNext, UNCHANGED region PROVE Stage2Inv'
  OBVIOUS
<1>1. BiosInv'
  BY BiosInvStep DEF Stage2Inv
<1>2. region' = None /\ "no" \notin DOMAIN boot'
  BY BiosPart DEF Stage2Inv
<1> QED
  BY <1>1, <1>2 DEF Stage2Inv, KernelRegionUsable

(* A step of stage2_main from one label to another.                        *)
LEMMA GoingOn ==
  ASSUME Stage2Inv, boot.op \in Labels, UNCHANGED <<firmware, boot_info, a20, region>>,
         NEW l \in Labels, boot' = [op |-> l]
  PROVE  Stage2Inv'
PROOF
<1>1. boot'.op = l /\ "no" \notin DOMAIN boot'
  OBVIOUS
<1>2. BiosInv'
  BY <1>1, OnwardKeeps DEF Stage2Inv, Labels, Asked
<1>3. boot'.op \notin BiosOps
  BY <1>1 DEF BiosOps, Labels
<1>4. KernelRegionUsable'
  BY <1>1 DEF Stage2Inv, KernelRegionUsable, MapFits, RamAt
<1> QED
  BY <1>2, <1>3, <1>4 DEF Stage2Inv
(* A step of readElf.                                                      *)
LEMMA LoadingKeeps ==
  ASSUME Stage2Inv, UNCHANGED <<firmware, boot_info, a20, boot, region>>
  PROVE  Stage2Inv'
PROOF
<1>1. BiosInv'
  BY BiosInvStutter DEF Stage2Inv, biosVars
<1> QED
  BY <1>1 DEF Stage2Inv, KernelRegionUsable, MapFits, RamAt

(***************************************************************************)
(* The choice of the region.                                               *)
(***************************************************************************)
(* Of a map that fits, every entry is listed and what is listed is one.    *)
LEMMA ListedEntries ==
  ASSUME BiosInv, Asked, MapFits
  PROVE  /\ \A i \in Listed : boot_info.mem_map[i] \in MapEntries
         /\ \A e \in MapEntries : \E i \in Listed : boot_info.mem_map[i] = e
         /\ Listed \subseteq Nat /\ boot_info.mem_map_count <= MAP_ENTRIES
PROOF
<1>1. /\ firmware.map \in Seq(Regions) /\ Len(firmware.map) \in Nat
      /\ MAP_ENTRIES \in Nat /\ Len(firmware.map) <= MAP_ENTRIES
  BY MachineFacts DEF BiosInv, MapFits
<1>2. /\ boot_info.mem_map_count = Len(firmware.map)
      /\ \A i \in 1 .. Len(firmware.map) : boot_info.mem_map[i - 1] = firmware.map[i]
  BY <1>1 DEF BiosInv, InfoComplete
<1>3. ASSUME NEW i \in Listed PROVE boot_info.mem_map[i] \in MapEntries
  <2>1. i + 1 \in 1 .. Len(firmware.map) /\ (i + 1) - 1 = i
    BY <1>1, <1>2, <1>3 DEF Listed
  <2>2. boot_info.mem_map[i] = firmware.map[i + 1]
    BY <1>2, <2>1
  <2> QED
    BY <1>1, <2>1, <2>2 DEF MapEntries
<1>4. ASSUME NEW e \in MapEntries PROVE \E i \in Listed : boot_info.mem_map[i] = e
  <2>1. PICK k \in 1 .. Len(firmware.map) : e = firmware.map[k]
    BY <1>1 DEF MapEntries
  <2>2. k - 1 \in Listed
    BY <1>1, <1>2, <2>1 DEF Listed
  <2> QED
    BY <1>2, <2>1, <2>2
<1> QED
  BY <1>1, <1>2, <1>3, <1>4 DEF Listed

(* What is usable by the test of the loop is memory of the machine.        *)
LEMMA UsableIsRam ==
  ASSUME NEW e \in MapEntries
  PROVE  /\ Usable(e) => e.base >= MEGABYTE /\ RamAt(e.base)
         /\ e.base >= MEGABYTE /\ e.length >= MEGABYTE /\ e.type = 1 => Usable(e)
BY DEF Usable, RamAt, MapEntries

LEMMA ChooseRegionKeeps == Stage2Inv /\ ChooseRegion => Stage2Inv'
PROOF
<1> SUFFICES ASSUME Stage2Inv, ChooseRegion PROVE Stage2Inv'
  OBVIOUS
<1>1. boot.op = "region" /\ BiosInv /\ Asked /\ UNCHANGED <<firmware, boot_info, a20>>
  BY DEF ChooseRegion, Stage2Inv, Asked, Given
<1>2. boot'.op \in {"load", "stop"}
  BY DEF ChooseRegion, Goto
<1>3. BiosInv' /\ boot'.op \notin BiosOps
  BY <1>1, <1>2, OnwardKeeps DEF Asked, BiosOps
<1>4. (MapFits' <=> MapFits) /\ \A b : RamAt(b)' <=> RamAt(b)
  BY <1>1 DEF MapFits, RamAt
<1>5. ASSUME MapFits PROVE KernelRegionUsable'
  <2>1. /\ \A i \in Listed : boot_info.mem_map[i] \in MapEntries
        /\ \A e \in MapEntries : \E i \in Listed : boot_info.mem_map[i] = e
        /\ Listed \subseteq Nat
    BY <1>1, <1>5, ListedEntries
  <2>2. ~(boot_info.mem_map_count > MAP_ENTRIES)
    <3>1. boot_info.mem_map_count \in Nat /\ MAP_ENTRIES \in Nat
      BY <1>1, MachineFacts DEF BiosInv, InfoType
    <3> QED
      BY <1>1, <1>5, <3>1, ListedEntries
  <2>3. CASE UsableRegions # {}
    <3> DEFINE i == First(UsableRegions)
    <3>1. UsableRegions \subseteq Nat
      BY <2>1 DEF UsableRegions
    <3>2. \E k \in UsableRegions : \A j \in UsableRegions : k <= j
      BY <2>3, <3>1, Smallest
    <3>3. i \in UsableRegions
      BY <3>2 DEF First
    <3>4. /\ region' = [base |-> boot_info.mem_map[i].base, index |-> i]
          /\ boot' = [op |-> "load"]
      BY <2>3 DEF ChooseRegion, Goto
    <3> HIDE DEF i
    <3>5. i \in Listed /\ Usable(boot_info.mem_map[i])
      BY <3>3 DEF UsableRegions
    <3>6. /\ boot_info.mem_map[i].base >= MEGABYTE
          /\ RamAt(boot_info.mem_map[i].base)
      BY <2>1, <3>5, UsableIsRam
    <3> QED
      BY <1>1, <1>4, <3>4, <3>6 DEF KernelRegionUsable
  <2>4. CASE UsableRegions = {}
    <3>1. boot' = [op |-> "stop", no |-> "memory"] /\ region' = region
      BY <2>2, <2>4 DEF ChooseRegion
    <3>2. ASSUME NEW b \in {firmware.map[i].base : i \in DOMAIN firmware.map}
          PROVE  b < MEGABYTE \/ ~RamAt(b)
      <4>1. SUFFICES ASSUME RamAt(b), ~(b < MEGABYTE) PROVE FALSE
        OBVIOUS
      <4>2. PICK e \in MapEntries : e.base = b /\ e.type = 1 /\ e.length >= MEGABYTE
        BY <4>1 DEF RamAt, MapEntries
      <4>3. e.base \in Nat /\ MEGABYTE \in Int
        <5>1. firmware.map \in Seq(Regions)
          BY <1>1, MachineFacts DEF BiosInv
        <5>2. e \in Regions
          BY <5>1, <4>2 DEF MapEntries
        <5>3. LOW_PAGES \in Int /\ PAGE \in Int
          BY BootPagingAssumption, FanAssumption
        <5>4. MEGABYTE = LOW_PAGES * PAGE
          BY Stage2Assumption, Zenon
        <5> QED
          BY <5>2, <5>3, <5>4 DEF Regions
      <4>4. e.base >= MEGABYTE
        BY <4>1, <4>2, <4>3
      <4>5. Usable(e)
        BY <4>2, <4>4, UsableIsRam
      <4> QED
        BY <2>1, <2>4, <4>2, <4>5 DEF UsableRegions
    <3>3. region' # None =>
            /\ region'.base >= MEGABYTE /\ RamAt(region'.base)
            /\ boot_info'.mem_map[region'.index].base = region'.base
      BY <1>1, <1>5, <3>1 DEF Stage2Inv, KernelRegionUsable
    <3> QED
      BY <1>1, <1>4, <3>1, <3>2, <3>3 DEF KernelRegionUsable
  <2> QED
    BY <2>3, <2>4
<1>6. ASSUME ~MapFits PROVE KernelRegionUsable'
  BY <1>4, <1>6 DEF KernelRegionUsable
<1> QED
  BY <1>3, <1>5, <1>6 DEF Stage2Inv
(***************************************************************************)
(* The steps of the whole, and what follows.                               *)
(***************************************************************************)
(* The steps that do nothing to the region and go to a label of their own. *)
LEMMA OthersGoOn ==
  ASSUME Stage2Inv,
         \/ check_cpuid \/ check_long \/ FirstTables \/ LongMode
         \/ Setup \/ FindDisk \/ detect \/ initialize \/ open \/ CallReadElf \/ CallKernel
  PROVE  /\ boot.op \in Labels /\ UNCHANGED <<firmware, boot_info, a20, region>>
         /\ \E l \in Labels : boot' = [op |-> l]
PROOF
<1> USE DEF Goto, Stop, Given, Labels
<1>1. CASE check_cpuid
  BY <1>1 DEF check_cpuid
<1>2. CASE check_long
  BY <1>2 DEF check_long
<1>3. CASE FirstTables
  BY <1>3 DEF FirstTables
<1>4. CASE LongMode
  BY <1>4 DEF LongMode
<1>5. CASE Setup
  BY <1>5 DEF Setup
<1>6. CASE FindDisk
  BY <1>6 DEF FindDisk
<1>7. CASE detect
  BY <1>7 DEF detect
<1>8. CASE initialize
  BY <1>8 DEF initialize
<1>9. CASE open
  BY <1>9 DEF open
<1>10. CASE CallReadElf
  BY <1>10 DEF CallReadElf
<1>11. CASE CallKernel
  BY <1>11 DEF CallKernel
<1> QED
  BY <1>1, <1>2, <1>3, <1>4, <1>5, <1>6, <1>7, <1>8, <1>9, <1>10, <1>11

LEMMA Stage2InvStep == Stage2Inv /\ [Next]_vars => Stage2Inv'
PROOF
<1> SUFFICES ASSUME Stage2Inv, [Next]_vars PROVE Stage2Inv'
  OBVIOUS
<1>1. CASE BiosNext /\ UNCHANGED <<memory, elf, faults, stray, media, region, handed>>
  BY <1>1, BiosStepKeeps
<1>2. CASE \/ check_cpuid \/ check_long \/ FirstTables \/ LongMode
           \/ Setup \/ FindDisk \/ detect \/ initialize \/ open \/ CallReadElf \/ CallKernel
  <2>1. /\ boot.op \in Labels /\ UNCHANGED <<firmware, boot_info, a20, region>>
        /\ \E l \in Labels : boot' = [op |-> l]
    BY <1>2, OthersGoOn
  <2> QED
    BY <2>1, GoingOn
<1>3. CASE ChooseRegion
  BY <1>3, ChooseRegionKeeps
<1>4. CASE Loading
  BY <1>4, LoadingKeeps DEF Loading, Given
<1>5. CASE UNCHANGED vars
  BY <1>5, LoadingKeeps DEF vars, biosVars
<1> QED
  BY <1>1, <1>2, <1>3, <1>4, <1>5 DEF Next

(* The answers, the gate and the region, together: every step of the boot  *)
(* keeps them.                                                             *)
THEOREM Stage2InvHolds == Spec => []Stage2Inv
BY Stage2InvInit, Stage2InvStep, PTL DEF Spec

(* For every machine and medium, what the BIOS reported is in boot_info,   *)
(* whole and in order, until the kernel is called.                         *)
THEOREM AnswersKept == Spec => []InfoComplete
PROOF
<1>1. Stage2Inv => InfoComplete
  BY DEF Stage2Inv, BiosInv
<1> QED
  BY <1>1, Stage2InvHolds, PTL

(* Protected mode and all that follows it run with the A20 gate open, and  *)
(* the boot halts for a gate only if it cannot be opened.                  *)
THEOREM GateIsOpen == Spec => []GateOpen
PROOF
<1>1. Stage2Inv => GateOpen
  BY DEF Stage2Inv, BiosInv
<1> QED
  BY <1>1, Stage2InvHolds, PTL

(* The kernel is loaded into memory the BIOS reported as usable, and the   *)
(* boot stops for want of memory only if there is none.                    *)
THEOREM RegionIsUsable == Spec => []KernelRegionUsable
PROOF
<1>1. Stage2Inv => KernelRegionUsable
  BY DEF Stage2Inv
<1> QED
  BY <1>1, Stage2InvHolds, PTL

(***************************************************************************)
(* The heap: the file system object, then the page tables of the kernel.   *)
(***************************************************************************)
LEMMA RequestsMade ==
  PageRequest \in Requests /\ [size |-> FS_SIZE, align |-> 1] \in Requests
BY Stage2Assumption, Zenon DEF PageRequest

LEMMA readElfKeepsHeap == HeapInv /\ readElf => HeapInv'
PROOF
<1> SUFFICES ASSUME HeapInv, readElf PROVE HeapInv'
  OBVIOUS
<1>1. CASE UNCHANGED memory
  BY <1>1 DEF memory, HeapInv
<1>2. CASE MapPage
  <2>1. SoundMemory(MapOne(Memory, elf.phdr, elf.mapped))
    BY RequestsMade, MemoryIsSound, MapsSound DEF MapOne
  <2>2. Becomes(MapOne(Memory, elf.phdr, elf.mapped))
    BY <1>2 DEF MapPage, Continue
  <2> QED
    BY <2>1, <2>2, BecomesSound
<1>3. CASE Copy
  <2>1. PICK cells : Becomes(Write(Memory, elf.phdr.vaddr, cells))
    BY <1>3 DEF Copy, Continue
  <2> QED
    BY <2>1, MemoryIsSound, WriteSound, BecomesSound
<1>4. CASE Clear
  <2>1. PICK a, cells : Becomes(Write(Memory, a, cells))
    BY <1>4 DEF Clear, Continue
  <2> QED
    BY <2>1, MemoryIsSound, WriteSound, BecomesSound
<1>5. ReadHeader \/ ReadPhdr \/ SkipSegment \/ LoadSegment \/ Return => UNCHANGED memory
  BY DEF ReadHeader, ReadPhdr, SkipSegment, LoadSegment, Return
<1> QED
  BY <1>1, <1>2, <1>3, <1>4, <1>5 DEF readElf

LEMMA detectKeepsHeap == HeapInv /\ detect => HeapInv'
PROOF
<1> SUFFICES ASSUME HeapInv, detect PROVE HeapInv'
  OBVIOUS
<1> DEFINE r == [size |-> FS_SIZE, align |-> 1]
<1>1. CASE kmalloc(FS_SIZE, 1)
  <2>1. kmalloc(r.size, r.align)
    BY <1>1
  <2> QED
    BY <2>1, RequestsMade, KmallocKeepsSound
<1>2. CASE UNCHANGED <<heap_offset, blocks>>
  BY <1>2 DEF HeapInv
<1> QED
  BY <1>1, <1>2 DEF detect

LEMMA Stage2HeapStep == HeapInv /\ [Next]_vars => HeapInv'
PROOF
<1> SUFFICES ASSUME HeapInv, [Next]_vars PROVE HeapInv'
  OBVIOUS
<1>1. CASE UNCHANGED <<heap_offset, blocks>>
  BY <1>1 DEF HeapInv
<1>2. CASE detect
  BY <1>2, detectKeepsHeap
<1>3. CASE Loading
  BY <1>3, readElfKeepsHeap DEF Loading
<1>4. BiosNext /\ UNCHANGED <<memory, elf, faults, stray, media, region, handed>>
        => UNCHANGED <<heap_offset, blocks>>
  BY DEF memory
<1>5. check_cpuid \/ check_long \/ FindDisk \/ initialize \/ open \/ ChooseRegion
        \/ CallReadElf \/ CallKernel => UNCHANGED <<heap_offset, blocks>>
  BY DEF memory, check_cpuid, check_long, FindDisk, initialize, open, ChooseRegion,
         CallReadElf, CallKernel
<1>6. FirstTables \/ LongMode \/ Setup => UNCHANGED <<heap_offset, blocks>>
  BY DEF FirstTables, setup_page_tables, LongMode, enable_paging_and_longmode,
         Setup, setup_paging
<1>7. UNCHANGED vars => UNCHANGED <<heap_offset, blocks>>
  BY DEF vars, memory
<1> QED
  BY <1>1, <1>2, <1>3, <1>4, <1>5, <1>6, <1>7 DEF Next

(* The boot uses the heap as KernelHeap says, several blocks to a step.    *)
THEOREM Stage2HeapSound == Spec => []HeapInv
PROOF
<1>1. Init => HeapInv
  BY HeapInvInit DEF Init, BootPagingInit
<1> QED
  BY <1>1, Stage2HeapStep, PTL DEF Spec

(* No page table of the boot loader lies over another one or over the file *)
(* system object, for any kernel, whether or not the heap runs out.        *)
THEOREM TablesDisjoint == Spec => []BlocksDisjoint
PROOF
<1>1. HeapInv => BlocksDisjoint
  BY SoundHeap
<1> QED
  BY <1>1, Stage2HeapSound, PTL

(* Every page table the boot loader makes starts on a page and lies in its *)
(* heap.                                                                   *)
THEOREM TablesInHeap == Spec => []BlocksInHeap
PROOF
<1>1. HeapInv => BlocksInHeap
  BY SoundHeap
<1> QED
  BY <1>1, Stage2HeapSound, PTL
(***************************************************************************)
(* The volume.                                                             *)
(***************************************************************************)
LEMMA MediumFacts ==
  ASSUME firmware \in Firmwares, media \in Media(firmware)
  PROVE  /\ media.cpu \in {"no cpuid", "32 bit", "64 bit"} /\ media.disk \in BOOLEAN
         /\ VolumeFits(media.volume)
         /\ media.kernel # Missing =>
              /\ media.kernel.size \in Nat /\ media.kernel.phdrs \in Seq(PhdrType)
              /\ \A i \in DOMAIN media.kernel.phdrs :
                   LET ph == media.kernel.phdrs[i]
                   IN  /\ ph.filesz <= ph.memsz
                       /\ ph.vaddr + ph.memsz <= Fan * Fan * Fan * Fan * PAGE
BY Stage2Assumption, Zenon DEF InAddressSpace

LEMMA Limits == MaxFaults \in Nat /\ LIMIT \in Nat /\ WORD \in Nat /\ FS_SIZE \in 1 .. HeapSize - 1
BY Stage2Assumption, Zenon

(* An unsigned difference.                                                 *)
LEMMA Unsigned ==
  ASSUME NEW w \in Nat, NEW t \in 0 .. w - 1, NEW o \in 0 .. w
  PROVE  /\ o <= t => (t - o) % w = t - o
         /\ o > t => (t - o) % w = (t - o) + w
PROOF
<1>1. CASE o <= t
  <2>1. t - o \in 0 .. w - 1
    BY <1>1
  <2> QED
    BY <1>1, <2>1
<1>2. CASE o > t
  <2>1. (t - o) + w \in 0 .. w - 1
    BY <1>2
  <2>2. (t - o) % w = ((t - o) + w) % w
    OBVIOUS
  <2> QED
    BY <1>2, <2>1, <2>2
<1> QED
  BY <1>1, <1>2

(* The unsigned count of clusters is below the limit exactly for the       *)
(* volumes that hold their metadata and have fewer clusters than that.     *)
LEMMA ClustersAreCounted ==
  ASSUME NEW bs, VolumeFits(bs),
         bs.bytes_per_sector \in PowersOfTwo, bs.sectors_per_cluster \in PowersOfTwo
  PROVE  Clusters(bs) < LIMIT <=>
           /\ Overhead(bs) <= TotalSectors(bs)
           /\ TotalSectors(bs) - Overhead(bs) < LIMIT * bs.sectors_per_cluster
PROOF
<1> DEFINE o == Overhead(bs)
           t == TotalSectors(bs)
           s == bs.sectors_per_cluster
           x == (t - o) % WORD
<1>1. /\ s \in 1 .. 255 /\ t \in 0 .. WORD - 1 /\ o \in Nat /\ o + (LIMIT * s) <= WORD
      /\ LIMIT \in Nat /\ WORD \in Nat
  BY Limits DEF VolumeFits
<1>2. Clusters(bs) = x \div s
  BY DEF Clusters
<1> HIDE DEF o, t, s
<1>3. LIMIT * s \in Nat
  BY <1>1
<1>4. o \in 0 .. WORD
  BY <1>1, <1>3
<1>5. /\ o <= t => x = t - o
      /\ o > t => x = (t - o) + WORD
  BY <1>1, <1>4, Unsigned
<1> HIDE DEF x
<1>6. x \in Nat
  BY <1>1, <1>5
<1>7. x \div s < LIMIT <=> x < LIMIT * s
  BY <1>1, <1>6, BelowProduct
<1>8. x < LIMIT * s <=> o <= t /\ t - o < LIMIT * s
  BY <1>1, <1>3, <1>5
<1> QED
  BY <1>2, <1>7, <1>8 DEF o, t, s

LEMMA DetectedIsFat12 ==
  ASSUME firmware \in Firmwares, media \in Media(firmware)
  PROVE  /\ Detected(media.volume) => IsFat12(media.volume)
         /\ IsFat12(media.volume) /\ Accepted(media.volume) => Detected(media.volume)
PROOF
<1>1. VolumeFits(media.volume)
  BY MediumFacts
<1> QED
  BY <1>1, ClustersAreCounted DEF Detected, IsFat12, Accepted

Before ==
  BiosOps \cup {"protected", "check long", "page tables", "paging", "long", "disk", "detect"}

(* What the steps up to the mount leave: the heap is given away from       *)
(* detect on.                                                              *)
MountInv ==
  /\ media \in Media(firmware)
  /\ boot.op \in Before => heap_offset = 0
  /\ boot.op = "initialize" \/ Mounted => Detected(media.volume)
  /\ boot.op \in {"initialize", "open", "region"} => heap_offset # 0
  /\ boot.op = "stop" /\ heap_offset = 0 /\ faults = 0 /\ media.disk
       => ~(Detected(media.volume) /\ Accepted(media.volume))

(* The first block of the heap finds room.                                 *)
LEMMA FirstBlock ==
  ASSUME heap_offset = 0, kmalloc(FS_SIZE, 1)
  PROVE  heap_offset' = FS_SIZE /\ heap_offset' # 0
PROOF
<1> DEFINE r == [size |-> FS_SIZE, align |-> 1]
<1>1. /\ FS_SIZE \in 1 .. HeapSize - 1 /\ r \in Requests
      /\ r.size = FS_SIZE /\ r.align = 1
  BY Limits, RequestsMade
<1> HIDE DEF r
<1>2. /\ HeapBase \in Nat \ {0} /\ HeapSize \in Nat /\ W \in Nat
      /\ HeapBase + HeapSize + FS_SIZE + 1 < W
  BY <1>1, HeapAssumption
<1>3. HeapBase + 0 \in Nat /\ HeapBase + 0 + 1 < W
  BY <1>1, <1>2
<1>4. AlignUp(HeapBase + 0, 1) = HeapBase
  <2>1. /\ AlignUp(HeapBase + 0, 1) \in Nat
        /\ HeapBase + 0 <= AlignUp(HeapBase + 0, 1)
        /\ AlignUp(HeapBase + 0, 1) <= HeapBase + 0 + 1 - 1
    BY <1>2, <1>3, AlignUpNext
  <2> QED
    BY <1>2, <2>1
<1>5. NextOffset(0, FS_SIZE, 1) = FS_SIZE
  <2>1. NextOffset(0, FS_SIZE, 1) = (HeapBase - HeapBase + FS_SIZE) % W
    BY <1>4 DEF NextOffset
  <2>2. HeapBase - HeapBase + FS_SIZE = FS_SIZE /\ FS_SIZE \in 0 .. W - 1
    BY <1>1, <1>2
  <2> QED
    BY <1>2, <2>1, <2>2
<1>6. Fits(0, FS_SIZE, 1)
  BY <1>1, <1>2, <1>5 DEF Fits
<1>7. heap_offset' = FS_SIZE
  BY <1>5, <1>6 DEF kmalloc
<1> QED
  BY <1>1, <1>7

(* Where the steps of the BIOS part lead.                                  *)
LEMMA BiosLeads ==
  ASSUME BiosInv, BiosNext
  PROVE  boot.op \in BiosOps /\ boot'.op \in BiosOps \cup {"protected", "halt"} /\ UNCHANGED firmware
PROOF
<1>1. CASE start
  BY <1>1 DEF start, BiosOps
<1>2. CASE detect_ebda
  BY <1>2 DEF detect_ebda, BiosOps
<1>3. CASE detect_rsdp
  BY <1>3 DEF detect_rsdp, BiosOps
<1>4. CASE detect_memory_map
  <2>1. boot.op = "e820" /\ boot \in [op : {"e820"}, ebx : Nat, bp : Nat] /\ UNCHANGED firmware
    BY <1>4 DEF detect_memory_map, BiosInv, FetchingMap
  <2>2. CASE boot' = Over
    BY <2>1, <2>2 DEF Over, BiosOps
  <2>3. CASE boot' = [boot EXCEPT !.ebx = @ + 1, !.bp = @ + 1]
    BY <2>1, <2>3 DEF BiosOps
  <2> QED
    BY <1>4, <2>1, <2>2, <2>3 DEF detect_memory_map, NextEntry, EndsWithCarry
<1>5. CASE open_a20
  <2>1. boot.op = "a20" /\ boot \in [op : {"a20"}, tries : {0, 1}]
    BY <1>5 DEF open_a20, BiosInv, TryingGate
  <2> QED
    BY <1>5, <2>1 DEF open_a20, BiosOps
<1> QED
  BY <1>1, <1>2, <1>3, <1>4, <1>5 DEF BiosNext

(* Where each of the other steps leads, and what none of them changes.     *)
LEMMA Leads ==
  /\ check_cpuid => boot.op = "protected" /\ boot'.op \in {"error", "check long"}
  /\ check_long => boot.op = "check long" /\ boot'.op \in {"error", "page tables"}
  /\ FirstTables => boot.op = "page tables" /\ boot'.op = "paging"
  /\ LongMode => boot.op = "paging" /\ boot'.op = "long"
  /\ Setup => boot.op = "long" /\ boot'.op = "disk"
  /\ FindDisk => boot.op = "disk" /\ boot'.op = (IF media.disk THEN "detect" ELSE "stop")
  /\ detect => boot.op = "detect" /\ boot'.op \in {"initialize", "stop"}
  /\ initialize => boot.op = "initialize" /\ boot'.op \in {"open", "stop"}
  /\ open => boot.op = "open" /\ boot'.op \in {"open", "region", "stop"}
  /\ ChooseRegion => boot.op = "region" /\ boot'.op \in {"load", "stop"}
  /\ CallReadElf => boot.op = "load" /\ boot'.op = "readElf"
  /\ CallKernel => boot.op = "readElf" /\ boot'.op = "kernel"
PROOF
<1>1. ASSUME check_cpuid PROVE boot.op = "protected" /\ boot'.op \in {"error", "check long"}
  <2>1. PICK l \in {"error", "check long"} : boot' = [op |-> l]
    BY <1>1 DEF check_cpuid, Goto
  <2> QED
    BY <1>1, <2>1 DEF check_cpuid
<1>2. ASSUME check_long PROVE boot.op = "check long" /\ boot'.op \in {"error", "page tables"}
  <2>1. PICK l \in {"error", "page tables"} : boot' = [op |-> l]
    BY <1>2 DEF check_long, Goto
  <2> QED
    BY <1>2, <2>1 DEF check_long
<1>3. ASSUME FirstTables PROVE boot.op = "page tables" /\ boot'.op = "paging"
  <2>1. boot.op = "page tables" /\ boot' = [op |-> "paging"]
    BY <1>3, Zenon DEF FirstTables, Goto
  <2> QED
    BY <2>1
<1>4. LongMode => boot.op = "paging" /\ boot'.op = "long"
  BY DEF LongMode, Goto
<1>5. Setup => boot.op = "long" /\ boot'.op = "disk"
  BY DEF Setup, Goto
<1>6. FindDisk => boot.op = "disk" /\ boot'.op = (IF media.disk THEN "detect" ELSE "stop")
  BY DEF FindDisk, Goto, Stop
<1>7. detect => boot.op = "detect" /\ boot'.op \in {"initialize", "stop"}
  BY DEF detect, Goto, Stop
<1>8. initialize => boot.op = "initialize" /\ boot'.op \in {"open", "stop"}
  BY DEF initialize, Goto, Stop
<1>9. open => boot.op = "open" /\ boot'.op \in {"open", "region", "stop"}
  BY DEF open, Goto, Stop
<1>10. ChooseRegion => boot.op = "region" /\ boot'.op \in {"load", "stop"}
  BY DEF ChooseRegion, Goto
<1>11. CallReadElf => boot.op = "load" /\ boot'.op = "readElf"
  BY DEF CallReadElf, Goto
<1>12. CallKernel => boot.op = "readElf" /\ boot'.op = "kernel"
  BY DEF CallKernel, Goto
<1> QED
  BY <1>1, <1>2, <1>3, <1>4, <1>5, <1>6, <1>7, <1>8, <1>9, <1>10, <1>11, <1>12

(* Sectors fail one at a time, and no more than the bound says; a header   *)
(* that is none has one that failed behind it.                             *)
FaultsCounted == faults \in 0 .. MaxFaults /\ stray \in BOOLEAN /\ (stray => faults > 0)

LEMMA readElfFaults ==
  ASSUME readElf, stray \in BOOLEAN
  PROVE  /\ SectorRead \/ SectorFails
         /\ stray' \in BOOLEAN /\ (stray => stray') /\ (stray' => stray \/ faults' > 0)
PROOF
<1> USE DEF SectorRead
<1>1. CASE ReadPhdr
  <2> DEFINE right == elf.file.phdrs[elf.done + 1]
  <2>1. SectorRead \/ SectorFails
    BY <1>1 DEF ReadPhdr
  <2>2. PICK got : /\ got = right \/ faults' > 0
                   /\ stray' = (stray \/ got \notin {right, elf.phdr, NoSegment})
    BY <1>1 DEF ReadPhdr
  <2>3. stray' \in BOOLEAN /\ (stray => stray') /\ (stray' => stray \/ got # right)
    BY <2>2, Zenon
  <2> QED
    BY <2>1, <2>2, <2>3
<1>2. CASE ReadHeader
  BY <1>2 DEF ReadHeader
<1>3. CASE SkipSegment \/ LoadSegment \/ MapPage \/ Clear \/ Return
  BY <1>3 DEF SkipSegment, LoadSegment, MapPage, Clear, Return
<1>4. CASE Copy
  BY <1>4 DEF Copy
<1> QED
  BY <1>1, <1>2, <1>3, <1>4 DEF readElf

LEMMA StraysStay == ASSUME readElf, stray PROVE stray'
BY DEF readElf, ReadHeader, ReadPhdr, SkipSegment, LoadSegment, MapPage, Copy, Clear, Return

LEMMA FaultsStep == FaultsCounted /\ [Next]_vars => FaultsCounted'
PROOF
<1> SUFFICES ASSUME FaultsCounted, [Next]_vars PROVE FaultsCounted'
  OBVIOUS
<1>1. MaxFaults \in Nat
  BY Limits
<1>2. /\ SectorRead \/ SectorFails
      /\ stray' \in BOOLEAN /\ (stray' => stray \/ faults' > 0)
  <2> USE DEF SectorRead, Given, FaultsCounted
  <2>1. CASE BiosNext /\ UNCHANGED <<memory, elf, faults, stray, media, region, handed>>
    BY <2>1
  <2>2. CASE check_cpuid \/ check_long \/ FirstTables \/ LongMode \/ Setup \/ FindDisk
    <3>1. UNCHANGED <<faults, stray>>
      BY <2>2 DEF check_cpuid, check_long, FirstTables, LongMode, Setup, FindDisk
    <3> QED
      BY <3>1
  <2>3. CASE detect \/ initialize \/ open
    BY <2>3 DEF detect, initialize, open
  <2>4. CASE ChooseRegion \/ CallReadElf \/ CallKernel
    BY <2>4 DEF ChooseRegion, CallReadElf, CallKernel
  <2>5. CASE Loading
    BY <2>5, readElfFaults DEF Loading
  <2>6. CASE UNCHANGED vars
    BY <2>6 DEF vars
  <2> QED
    BY <2>1, <2>2, <2>3, <2>4, <2>5, <2>6 DEF Next
<1> QED
  BY <1>1, <1>2 DEF FaultsCounted, SectorRead, SectorFails

LEMMA FaultsAreCounted == Spec => []FaultsCounted
PROOF
<1>1. Init => FaultsCounted
  <2>1. 0 \in 0 .. MaxFaults
    BY Limits
  <2> QED
    BY <2>1, Zenon DEF Init, FaultsCounted
<1> QED
  BY <1>1, FaultsStep, PTL DEF Spec

LEMMA MountInvInit == Init => MountInv
BY DEF Init, BiosInit, BootPagingInit, HeapInit, MountInv, Mounted

LEMMA MountInvStep ==
  Stage2Inv /\ FaultsCounted /\ MountInv /\ [Next]_vars => MountInv'
PROOF
<1> SUFFICES ASSUME Stage2Inv, FaultsCounted, MountInv, [Next]_vars PROVE MountInv'
  OBVIOUS
<1> DEFINE Same == UNCHANGED <<firmware, media, heap_offset>>
<1>1. CASE BiosNext /\ UNCHANGED <<memory, elf, faults, stray, media, region, handed>>
  <2>1. /\ boot.op \in BiosOps /\ boot'.op \in BiosOps \cup {"protected", "halt"}
        /\ UNCHANGED firmware
    BY <1>1, BiosLeads DEF Stage2Inv
  <2> QED
    BY <1>1, <2>1 DEF memory, MountInv, Mounted, Before, BiosOps
<1>2. CASE check_cpuid \/ check_long \/ FirstTables \/ LongMode \/ Setup
  <2>1. Same
    BY <1>2 DEF check_cpuid, check_long, FirstTables, setup_page_tables, LongMode,
                enable_paging_and_longmode, Setup, setup_paging, Given, memory
  <2>2. /\ boot.op \in Before
        /\ boot'.op \in {"error", "check long", "page tables", "paging", "long", "disk"}
    BY <1>2, Leads DEF Before
  <2> QED
    BY <2>1, <2>2 DEF MountInv, Mounted, Before, BiosOps
<1>3. CASE FindDisk
  <2>1. /\ Same /\ boot.op \in Before /\ boot'.op = (IF media.disk THEN "detect" ELSE "stop")
    BY <1>3 DEF FindDisk, Goto, Stop, Given, memory, Before
  <2> QED
    BY <2>1 DEF MountInv, Mounted, Before, BiosOps
<1>4. CASE detect
  <2>1. boot.op = "detect" /\ heap_offset = 0 /\ UNCHANGED <<firmware, media>>
    BY <1>4 DEF detect, MountInv, Before, Given
  <2>2. CASE SectorRead /\ Detected(media.volume) /\ kmalloc(FS_SIZE, 1) /\ Goto("initialize")
    <3>1. heap_offset' # 0
      BY <2>1, <2>2, FirstBlock
    <3>2. boot'.op = "initialize"
      BY <2>2 DEF Goto
    <3> QED
      BY <2>1, <2>2, <3>1, <3>2 DEF MountInv, Mounted, Before, BiosOps
  <2>3. CASE SectorRead /\ ~Detected(media.volume) /\ Stop
    <3>1. boot'.op = "stop"
      BY <2>3 DEF Stop
    <3> QED
      BY <2>1, <2>3, <3>1 DEF MountInv, Mounted, Before, BiosOps
  <2>4. CASE SectorFails /\ Stop
    <3>1. boot'.op = "stop" /\ faults' = faults + 1 /\ faults \in Nat
      BY <2>4, Limits DEF Stop, SectorFails, FaultsCounted
    <3> QED
      BY <2>1, <3>1 DEF MountInv, Mounted, Before, BiosOps
  <2> QED
    BY <1>4, <2>2, <2>3, <2>4 DEF detect
<1>5. CASE initialize \/ open
  <2>1. /\ Same /\ boot.op \in {"initialize", "open"} /\ boot'.op \in {"open", "region", "stop"}
    BY <1>5 DEF initialize, open, Goto, Stop, Given, memory
  <2> QED
    BY <2>1 DEF MountInv, Mounted, Before, BiosOps
<1>6. CASE ChooseRegion
  <2>1. Same /\ boot.op = "region" /\ boot'.op \in {"load", "stop"}
    BY <1>6 DEF ChooseRegion, Goto, Given, memory
  <2> QED
    BY <2>1 DEF MountInv, Mounted, Before, BiosOps
<1>7. CASE CallReadElf \/ CallKernel
  <2>1. Same /\ boot.op \in {"load", "readElf"} /\ boot'.op \in {"readElf", "kernel"}
    BY <1>7 DEF CallReadElf, CallKernel, Goto, Given, memory
  <2> QED
    BY <2>1 DEF MountInv, Mounted, Before, BiosOps
<1>8. CASE Loading
  <2>1. UNCHANGED <<firmware, media, boot>> /\ boot.op = "readElf"
    BY <1>8 DEF Loading, Given
  <2> QED
    BY <2>1 DEF MountInv, Mounted, Before, BiosOps
<1>9. CASE UNCHANGED vars
  BY <1>9 DEF vars, biosVars, memory, MountInv, Mounted
<1> QED
  BY <1>1, <1>2, <1>3, <1>4, <1>5, <1>6, <1>7, <1>8, <1>9 DEF Next

LEMMA MountInvHolds == Spec => []MountInv
BY MountInvInit, MountInvStep, Stage2InvHolds, FaultsAreCounted, PTL DEF Spec

(* For every volume whose fields have the widths of the boot sector: what  *)
(* detect and initialize mount is FAT12 by its clusters, and a volume that *)
(* is FAT12 and gives its size in 16 bits is refused only if a sector      *)
(* cannot be read.                                                         *)
THEOREM MountsWhatIsFat12 == Spec => []MountsFat12
PROOF
<1>1. Stage2Inv /\ MountInv => MountsFat12
  <2> SUFFICES ASSUME Stage2Inv, MountInv PROVE MountsFat12
    OBVIOUS
  <2>1. firmware \in Firmwares /\ media \in Media(firmware)
    BY DEF Stage2Inv, BiosInv, MountInv
  <2> QED
    BY <2>1, DetectedIsFat12 DEF MountInv, MountsFat12
<1> QED
  BY <1>1, Stage2InvHolds, MountInvHolds, PTL

(***************************************************************************)
(* The memory: invariants.                                                 *)
(***************************************************************************)
BeforeLong == BiosOps \cup {"protected", "error", "halt", "check long", "page tables", "paging"}

(* Before long mode there are no tables, or those of the assembly code.    *)
EarlyPaging ==
  /\ boot.op \in BeforeLong => cr3 = Nowhere
  /\ boot.op \in BeforeLong \cup {"long"} => Unowned(mem)
  /\ boot.op \in {"paging", "long"} => BootIdentity(mem)
  /\ boot.op = "long" => cr3 = Page_table_l4

(* From stage2_main on there are the loader's own.                         *)
LatePaging ==
  boot.op \notin BeforeLong \cup {"long"} => cr3 = Pml4 /\ (stray \/ LowIdentity(mem))

CellType == Nat \cup {Zero, Wrong}

RamTyped(r) == \A c \in DOMAIN r : r[c] \in CellType

(* Tables are tables and units are units, for every kernel.                *)
MemoryInv == TablesTyped(mem) /\ RamTyped(ram) /\ EarlyPaging

(* The program headers readElf may look at.                                *)
Named == {media.kernel.phdrs[i] : i \in DOMAIN media.kernel.phdrs} \cup {NoSegment}

Taken == Named \cup (IF stray THEN Strays ELSE {})

ElfInv ==
  \/ elf.op \in {"idle", "returned", "fault"}
  \/ elf = [op |-> "header", file |-> media.kernel, data |-> region.base]
  \/ /\ elf \in [op : {"segments", "segment", "map", "clear"}, file : {media.kernel},
                 data : {region.base}, done : Nat, base : Nat \cup {Nowhere},
                 phdr : Taken, mapped : Nat]
     /\ elf.op \in {"map", "clear"} => elf.phdr.load

LoadInv ==
  /\ media \in Media(firmware)
  /\ boot.op \in {"region", "load", "readElf"} => media.kernel # Missing
  /\ boot.op \in {"load", "readElf"} => region.base \in Nat /\ region.base >= MEGABYTE
  /\ boot.op = "readElf" => ElfInv

LEMMA StraysAre == \A ph \in Strays : ph \in PhdrType /\ InAddressSpace(ph)
BY Stage2Assumption, Zenon

(***************************************************************************)
(* What readElf works on.                                                  *)
(***************************************************************************)
LEMMA ElfInvStep ==
  ASSUME firmware \in Firmwares, media \in Media(firmware), media.kernel # Missing,
         region.base \in Nat, ElfInv, readElf, UNCHANGED <<media, region>>
  PROVE  ElfInv'
PROOF
<1>1. /\ media.kernel.phdrs \in Seq(PhdrType) /\ NoSegment \in Named /\ Named \subseteq Taken'
      /\ media' = media /\ region' = region /\ Named' = Named
  BY MediumFacts DEF Named, Taken
<1>2. \A ph \in Taken' : ph \in PhdrType
  <2>1. NoSegment \in PhdrType
    BY DEF PhdrType, NoSegment
  <2>2. \A ph \in Strays : ph \in PhdrType
    BY StraysAre
  <2> QED
    BY <1>1, <2>1, <2>2 DEF Named, Taken
<1>3. stray => stray'
  BY StraysStay
<1> DEFINE Scans(o) == [op : {o}, file : {media.kernel}, data : {region.base}, done : Nat,
                        base : Nat \cup {Nowhere}, phdr : Taken', mapped : Nat]
<1>20. Taken \subseteq Taken'
  BY <1>1, <1>3 DEF Taken
<1>21. ElfInv /\ elf.op \in {"segments", "segment", "map", "clear"} => elf \in Scans(elf.op)
  BY <1>20 DEF ElfInv
<1> HIDE DEF Taken
<1>4. ASSUME NEW o \in {"segments", "segment"}, elf' \in Scans(o) PROVE ElfInv'
  <2>1. elf'.op = o
    BY <1>4
  <2> QED
    BY <1>1, <1>4, <2>1 DEF ElfInv
<1>5. ASSUME NEW o \in {"map", "clear"}, elf' \in Scans(o), elf'.phdr.load PROVE ElfInv'
  BY <1>1, <1>5 DEF ElfInv
<1>6. ASSUME elf'.op \in {"returned", "fault"} PROVE ElfInv'
  BY <1>6 DEF ElfInv
<1>7. CASE ReadHeader
  <2>1. elf = [op |-> "header", file |-> media.kernel, data |-> region.base]
    BY <1>7 DEF ElfInv, ReadHeader
  <2>2. CASE elf' = [op |-> "segments", file |-> elf.file, data |-> elf.data, done |-> 0,
                     base |-> Nowhere, phdr |-> NoSegment, mapped |-> 0]
    <3>1. elf' \in Scans("segments")
      BY <1>1, <2>1, <2>2
    <3> QED
      BY <1>4, <3>1
  <2>3. CASE elf' = [op |-> "returned", entry |-> 0, phys_base |-> 0]
    BY <1>6, <2>3
  <2> QED
    BY <1>7, <2>2, <2>3 DEF ReadHeader
<1>8. CASE ReadPhdr
  <2>1. elf \in Scans("segments") /\ elf.done + 1 <= Len(elf.file.phdrs)
    BY <1>21, <1>8 DEF ReadPhdr
  <2>2. elf.file.phdrs[elf.done + 1] \in Named
    BY <1>1, <2>1 DEF Named
  <2>3. PICK ph \in Taken' : elf' = [elf EXCEPT !.op = "segment", !.phdr = ph]
    <3>1. PICK got : /\ got \in {elf.file.phdrs[elf.done + 1], elf.phdr, NoSegment} \cup Strays
                     /\ elf' = [elf EXCEPT !.op = "segment", !.phdr = got]
                     /\ stray' = (stray \/ got \notin {elf.file.phdrs[elf.done + 1], elf.phdr, NoSegment})
      BY <1>8 DEF ReadPhdr
    <3>2. got \in Taken'
      <4>1. CASE got \notin {elf.file.phdrs[elf.done + 1], elf.phdr, NoSegment}
        BY <3>1, <4>1 DEF Taken
      <4>2. CASE got \in {elf.file.phdrs[elf.done + 1], elf.phdr, NoSegment}
        BY <1>1, <2>1, <2>2, <4>2
      <4> QED
        BY <3>1, <4>1, <4>2
    <3> QED
      BY <3>1, <3>2
  <2>4. elf' \in Scans("segment")
    BY <2>1, <2>3
  <2> QED
    BY <1>4, <2>4
<1>9. CASE SkipSegment
  <2>1. elf \in Scans("segment") /\ elf' = [elf EXCEPT !.op = "segments", !.done = @ + 1]
    BY <1>21, <1>9 DEF SkipSegment
  <2>2. elf' \in Scans("segments")
    <3>1. elf.done \in Nat /\ elf.done + 1 \in Nat
      BY <2>1
    <3> QED
      BY <2>1, <3>1
  <2> QED
    BY <1>4, <2>2
<1>10. CASE LoadSegment
  <2>1. /\ elf \in Scans("segment") /\ elf.phdr.load
        /\ elf' = [elf EXCEPT !.op = "map", !.mapped = 0, !.base = LowerBase(elf.base, Phys(elf.phdr))]
    BY <1>21, <1>10 DEF LoadSegment
  <2>2. Phys(elf.phdr) \in Nat
    BY <1>2, <2>1 DEF Phys, PhdrType
  <2>3. LowerBase(elf.base, Phys(elf.phdr)) \in Nat \cup {Nowhere}
    BY <2>1, <2>2 DEF LowerBase
  <2>4. elf' \in Scans("map") /\ elf'.phdr.load
    BY <2>1, <2>3
  <2> QED
    BY <1>5, <2>4
<1>11. CASE MapPage
  <2>1. elf \in Scans("map") /\ elf.phdr.load
    BY <1>21, <1>11 DEF MapPage, ElfInv
  <2>2. elf' = [op |-> "fault"] \/ elf' = [elf EXCEPT !.mapped = @ + 1]
    BY <1>11 DEF MapPage, Continue
  <2>3. elf' = [elf EXCEPT !.mapped = @ + 1] => elf' \in Scans("map") /\ elf'.phdr.load
    BY <2>1
  <2> QED
    BY <1>5, <1>6, <2>2, <2>3
<1>12. CASE Copy
  <2>1. elf \in Scans("map") /\ elf.phdr.load
    BY <1>21, <1>12 DEF Copy, ElfInv
  <2>2. elf' = [op |-> "fault"] \/ elf' = [elf EXCEPT !.op = "clear"]
    BY <1>12 DEF Copy, Continue
  <2>3. elf' = [elf EXCEPT !.op = "clear"] => elf' \in Scans("clear") /\ elf'.phdr.load
    BY <2>1
  <2> QED
    BY <1>5, <1>6, <2>2, <2>3
<1>13. CASE Clear
  <2>1. elf \in Scans("clear")
    BY <1>21, <1>13 DEF Clear
  <2>2. elf' = [op |-> "fault"] \/ elf' = [elf EXCEPT !.op = "segments", !.done = @ + 1]
    BY <1>13 DEF Clear, Continue
  <2>3. elf' = [elf EXCEPT !.op = "segments", !.done = @ + 1] => elf' \in Scans("segments")
    <3>1. elf.done \in Nat /\ elf.done + 1 \in Nat
      BY <2>1
    <3> QED
      BY <2>1, <3>1
  <2> QED
    BY <1>4, <1>6, <2>2, <2>3
<1>14. CASE Return
  BY <1>6, <1>14 DEF Return
<1> QED
  BY <1>7, <1>8, <1>9, <1>10, <1>11, <1>12, <1>13, <1>14 DEF readElf

LEMMA LoadInvInit == Init => LoadInv
BY DEF Init, BiosInit, LoadInv

(* The region the loop takes starts above the first megabyte.              *)
LEMMA RegionAbove ==
  ASSUME Stage2Inv, ChooseRegion
  PROVE  boot'.op = "stop" \/ (boot'.op = "load" /\ region'.base \in Nat /\ region'.base >= MEGABYTE)
PROOF
<1>1. MEGABYTE \in Nat
  <2>1. MEGABYTE = LOW_PAGES * PAGE
    BY Stage2Assumption, Zenon
  <2> QED
    BY <2>1, Frames
<1>2. boot_info \in InfoType
  BY DEF Stage2Inv, BiosInv
<1>3. CASE UsableRegions # {} /\ Goto("load") /\
             region' = [base  |-> boot_info.mem_map[First(UsableRegions)].base,
                        index |-> First(UsableRegions)]
  <2>1. UsableRegions \subseteq 0 .. MAP_ENTRIES - 1
    BY DEF UsableRegions, Listed
  <2>2. MAP_ENTRIES \in Nat
    BY MachineFacts DEF Stage2Inv, BiosInv
  <2>3. \E k \in UsableRegions : \A j \in UsableRegions : k <= j
    <3>1. UsableRegions \subseteq Nat
      BY <2>1, <2>2
    <3> QED
      BY <1>3, <3>1, Smallest, Zenon
  <2>4. First(UsableRegions) \in UsableRegions
    BY <2>3 DEF First
  <2>5. PICK i \in UsableRegions : i = First(UsableRegions)
    BY <2>4
  <2>6. boot_info.mem_map[i] \in Regions \cup {Blank} /\ Usable(boot_info.mem_map[i])
    BY <1>2, <2>1, <2>5 DEF InfoType, UsableRegions
  <2>7. boot_info.mem_map[i].base \in Nat /\ boot_info.mem_map[i].base >= MEGABYTE
    BY <2>6 DEF Regions, Blank, Usable
  <2> QED
    BY <1>3, <2>5, <2>7 DEF Goto
<1>4. CASE region' = [base |-> MEGABYTE, index |-> MAP_ENTRIES] /\ Goto("load")
  BY <1>1, <1>4 DEF Goto
<1>5. CASE boot' = [op |-> "stop", no |-> "memory"]
  BY <1>5
<1> QED
  BY <1>3, <1>4, <1>5 DEF ChooseRegion

LEMMA LoadInvStep == Stage2Inv /\ LoadInv /\ [Next]_vars => LoadInv'
PROOF
<1> SUFFICES ASSUME Stage2Inv, LoadInv, [Next]_vars PROVE LoadInv'
  OBVIOUS
<1> DEFINE Others == {"region", "load", "readElf"}
<1>1. firmware \in Firmwares /\ media \in Media(firmware)
  BY DEF Stage2Inv, BiosInv, LoadInv
<1>2. ASSUME UNCHANGED <<firmware, media>>, boot'.op \notin Others PROVE LoadInv'
  BY <1>1, <1>2 DEF LoadInv
<1>3. CASE BiosNext /\ UNCHANGED <<memory, elf, faults, stray, media, region, handed>>
  <2>1. boot'.op \in BiosOps \cup {"protected", "halt"} /\ UNCHANGED firmware
    BY <1>3, BiosLeads DEF Stage2Inv
  <2> QED
    BY <1>2, <1>3, <2>1 DEF BiosOps
<1>4. CASE \/ check_cpuid \/ check_long \/ FirstTables \/ LongMode \/ Setup \/ FindDisk
           \/ detect \/ initialize \/ CallKernel
  <2>1. UNCHANGED <<firmware, media>>
    BY <1>4 DEF check_cpuid, check_long, FirstTables, LongMode, Setup, FindDisk, detect,
                initialize, CallKernel, Given
  <2>2. boot'.op \notin Others
    BY <1>4, Leads
  <2> QED
    BY <1>2, <2>1, <2>2
<1>5. CASE open
  <2>1. UNCHANGED <<firmware, media>> /\ boot'.op \in {"open", "region", "stop"}
    BY <1>5, Leads DEF open, Given
  <2>2. boot'.op = "region" => media.kernel # Missing
    BY <1>5 DEF open, Goto, Stop
  <2> QED
    BY <1>1, <2>1, <2>2 DEF LoadInv
<1>6. CASE ChooseRegion
  <2>1. UNCHANGED <<firmware, media>> /\ boot.op = "region"
    BY <1>6, Leads DEF ChooseRegion, Given
  <2>2. boot'.op = "stop" \/ (boot'.op = "load" /\ region'.base \in Nat /\ region'.base >= MEGABYTE)
    BY <1>6, RegionAbove
  <2> QED
    BY <1>1, <2>1, <2>2 DEF LoadInv
<1>7. CASE CallReadElf
  <2>1. /\ UNCHANGED <<firmware, media, region>> /\ boot.op = "load" /\ boot'.op = "readElf"
        /\ elf' = [op |-> "header", file |-> media.kernel, data |-> region.base]
    BY <1>7, Leads DEF CallReadElf, Given
  <2>2. ElfInv'
    BY <2>1 DEF ElfInv
  <2> QED
    BY <1>1, <2>1, <2>2 DEF LoadInv
<1>8. CASE Loading
  <2>1. UNCHANGED <<firmware, media, region, boot>> /\ boot.op = "readElf" /\ readElf
    BY <1>8 DEF Loading, Given
  <2>2. ElfInv'
    BY <1>1, <2>1, ElfInvStep DEF LoadInv
  <2> QED
    BY <1>1, <2>1, <2>2 DEF LoadInv
<1>9. CASE UNCHANGED vars
  <2>1. UNCHANGED <<firmware, media, region, boot, elf, stray>>
    BY <1>9 DEF vars, biosVars
  <2>2. ElfInv' <=> ElfInv
    BY <2>1 DEF ElfInv, Named, Taken
  <2> QED
    BY <2>1, <2>2 DEF LoadInv
<1> QED
  BY <1>3, <1>4, <1>5, <1>6, <1>7, <1>8, <1>9 DEF Next

LEMMA LoadInvHolds == Spec => []LoadInv
BY LoadInvInit, LoadInvStep, Stage2InvHolds, PTL DEF Spec

(***************************************************************************)
(* The tables, step by step.                                               *)
(***************************************************************************)
(* The kernel is linked above the first megabyte, as its linker script     *)
(* says.                                                                   *)
KernelsHigh ==
  \A f \in Firmwares : \A m \in Media(f) :
    m.kernel # Missing =>
      \A i \in DOMAIN m.kernel.phdrs :
        m.kernel.phdrs[i].load => m.kernel.phdrs[i].vaddr >= MEGABYTE

(* A segment that is to be mapped.                                         *)
LEMMA SegmentFacts ==
  ASSUME firmware \in Firmwares, media \in Media(firmware), media.kernel # Missing,
         NEW ph \in Named, ph.load
  PROVE  /\ ph \in PhdrType /\ ph.filesz <= ph.memsz
         /\ ph.vaddr + ph.memsz <= Fan * Fan * Fan * Fan * PAGE
         /\ KernelsHigh => ph.vaddr >= MEGABYTE
PROOF
<1>1. ph # NoSegment
  BY DEF NoSegment
<1>2. PICK i \in DOMAIN media.kernel.phdrs : ph = media.kernel.phdrs[i]
  BY <1>1 DEF Named
<1>3. /\ media.kernel.phdrs \in Seq(PhdrType) /\ ph.filesz <= ph.memsz
      /\ ph.vaddr + ph.memsz <= Fan * Fan * Fan * Fan * PAGE
  BY <1>2, MediumFacts
<1>4. ph \in PhdrType
  BY <1>2, <1>3
<1>5. KernelsHigh => ph.vaddr >= MEGABYTE
  BY <1>2, Zenon DEF KernelsHigh
<1> QED
  BY <1>3, <1>4, <1>5

LEMMA Megabyte == MEGABYTE = LOW_PAGES * PAGE /\ MEGABYTE \in Nat /\ MEGABYTE # 0
PROOF
<1>1. MEGABYTE = LOW_PAGES * PAGE
  BY Stage2Assumption, Zenon
<1>2. LOW_PAGES \in Nat \ {0} /\ PAGE \in Nat \ {0}
  BY Frames
<1>3. \A a, b \in Nat \ {0} : a * b \in Nat \ {0}
  OBVIOUS
<1> QED
  BY <1>1, <1>2, <1>3

(* Mapping a page of the kernel leaves the first megabyte where it is.     *)
LEMMA MapOneLow ==
  ASSUME KernelsHigh, firmware \in Firmwares, media \in Media(firmware), media.kernel # Missing,
         NEW ph \in Named, ph.load, elf.data \in Nat, elf.data >= MEGABYTE,
         NEW n \in Nat, n < Pages(ph),
         NEW s, SoundMemory(s), LowIdentity(s.mem)
  PROVE  LowIdentity(MapOne(s, ph, n).mem)
PROOF
<1> DEFINE B == Fan * Fan * Fan * Fan
<1>1. /\ ph \in PhdrType /\ ph.vaddr + ph.memsz <= B * PAGE /\ ph.vaddr >= MEGABYTE
  BY SegmentFacts
<1>2. /\ ph.vaddr \in Nat /\ ph.memsz \in Nat /\ ph.paddr \in Nat
  BY <1>1 DEF PhdrType
<1>3. PICK v \in Nat : v = ph.vaddr
  BY <1>2
<1>4. PICK m \in Nat : m = ph.memsz
  BY <1>2
<1>5. PICK q \in Nat : q = Phys(ph)
  BY <1>2 DEF Phys
<1>6. B \in Nat
  <2>1. \A a, b \in Nat : a * b \in Nat
    OBVIOUS
  <2> QED
    BY <2>1, Powers, Zenon
<1>7. PAGE \in Nat \ {0} /\ Fan \in Nat \ {0} /\ LOW_PAGES \in Nat /\ LOW_PAGES <= Fan
  BY Frames
<1>8. LOW_PAGES * PAGE <= q /\ LOW_PAGES * PAGE <= v /\ v # 0
  BY <1>1, <1>2, <1>3, <1>5, Megabyte DEF Phys
<1>9. v + m <= B * PAGE
  BY <1>1, <1>3, <1>4
<1> HIDE DEF B
<1>10. LOW_PAGES <= q \div PAGE /\ q \div PAGE \in Nat /\ LOW_PAGES <= v \div PAGE /\ v \div PAGE \in Nat
  BY <1>7, <1>8, FirstOfPages
<1>11. PageRequest \in Requests
  BY RequestsMade
<1>12. CASE InLargePages(ph)
  <2>1. v % (PAGE * Fan) = 0 /\ n < m \div (PAGE * Fan)
    BY <1>3, <1>4, <1>12 DEF InLargePages, Pages, LARGE
  <2>2. (v \div PAGE) + n * Fan \in Nat /\ (v \div PAGE) + n * Fan < B
    BY <1>6, <1>7, <1>9, <2>1, LargePages
  <2>3. Fan <= v \div PAGE
    BY <1>7, <1>8, <2>1, FirstLarge
  <2>4. PICK k \in Nat : k = n * Fan
    BY <1>7
  <2>5. /\ Fan <= (v \div PAGE) + k /\ LOW_PAGES <= (q \div PAGE) + k /\ (q \div PAGE) + k \in Nat
    BY <1>7, <1>10, <2>3
  <2>6. LowIdentity(Store(DirectoryOf(s, (v \div PAGE) + k), Index2((v \div PAGE) + k),
                          Large((q \div PAGE) + k)).mem)
    BY <1>11, <2>2, <2>4, <2>5, StoreTwoMLow DEF B
  <2> QED
    BY <1>3, <1>5, <1>12, <2>4, <2>6 DEF MapOne, map_2m
<1>13. CASE ~InLargePages(ph)
  <2>1. n < (m + PAGE - 1) \div PAGE
    BY <1>4, <1>13 DEF Pages
  <2>2. (v \div PAGE) + n \in Nat /\ (v \div PAGE) + n < B
    BY <1>6, <1>7, <1>9, <2>1, SmallPages
  <2>3. /\ LOW_PAGES <= (v \div PAGE) + n /\ LOW_PAGES <= (q \div PAGE) + n /\ (q \div PAGE) + n \in Nat
    BY <1>7, <1>10
  <2>4. LowIdentity(Store(get_or_create_table(DirectoryOf(s, (v \div PAGE) + n),
                                              Index2((v \div PAGE) + n)),
                          Index1((v \div PAGE) + n), Link((q \div PAGE) + n)).mem)
    BY <1>11, <2>2, <2>3, StoreFourKLow DEF B
  <2> QED
    BY <1>3, <1>5, <1>13, <2>4 DEF MapOne, map_4k
<1> QED
  BY <1>12, <1>13

(* What readElf does to the tables.                                        *)
LEMMA readElfTables ==
  ASSUME HeapInv, readElf
  PROVE  /\ UNCHANGED cr3
         /\ mem' = mem \/ /\ elf.op = "map" /\ elf.mapped < Pages(elf.phdr)
                          /\ mem' = MapOne(Memory, elf.phdr, elf.mapped).mem
PROOF
<1>1. SoundMemory(Memory) /\ Memory.mem = mem
  BY MemoryIsSound DEF Memory
<1>2. ASSUME NEW a, NEW values PROVE Write(Memory, a, values).mem = mem
  BY <1>1 DEF Write, SoundMemory
<1>3. CASE MapPage
  BY <1>3 DEF MapPage, Continue, Becomes
<1>4. CASE Copy
  <2>1. PICK values : Becomes(Write(Memory, elf.phdr.vaddr, values))
    BY <1>4 DEF Copy, Continue
  <2> QED
    BY <1>2, <2>1 DEF Becomes
<1>5. CASE Clear
  <2>1. PICK a, values : Becomes(Write(Memory, a, values))
    BY <1>5 DEF Clear, Continue
  <2> QED
    BY <1>2, <2>1 DEF Becomes
<1>6. ReadHeader \/ ReadPhdr \/ SkipSegment \/ LoadSegment \/ Return => UNCHANGED memory
  BY DEF ReadHeader, ReadPhdr, SkipSegment, LoadSegment, Return
<1> QED
  BY <1>3, <1>4, <1>5, <1>6 DEF readElf, memory

LEMMA LoadingLow ==
  ASSUME KernelsHigh, Stage2Inv, HeapInv, LoadInv, Loading, LowIdentity(mem), ~stray
  PROVE  LowIdentity(mem') /\ UNCHANGED <<boot, cr3>>
PROOF
<1>1. /\ firmware \in Firmwares /\ media \in Media(firmware) /\ media.kernel # Missing
      /\ region.base \in Nat /\ region.base >= MEGABYTE /\ ElfInv /\ readElf
      /\ UNCHANGED boot
  BY DEF Loading, Given, Stage2Inv, BiosInv, LoadInv
<1>2. CASE mem' = mem
  BY <1>1, <1>2, readElfTables
<1>3. CASE /\ elf.op = "map" /\ elf.mapped < Pages(elf.phdr)
           /\ mem' = MapOne(Memory, elf.phdr, elf.mapped).mem
  <2>1. elf.phdr \in Named /\ elf.phdr.load /\ elf.mapped \in Nat /\ elf.data = region.base
    BY <1>1, <1>3 DEF ElfInv, Taken
  <2>2. SoundMemory(Memory) /\ LowIdentity(Memory.mem)
    BY MemoryIsSound DEF Memory
  <2>3. LowIdentity(MapOne(Memory, elf.phdr, elf.mapped).mem)
    BY <1>1, <1>3, <2>1, <2>2, MapOneLow
  <2> QED
    BY <1>1, <1>3, <2>3, readElfTables
<1> QED
  BY <1>1, <1>2, <1>3, readElfTables

(***************************************************************************)
(* What stands in memory.                                                  *)
(***************************************************************************)
Cells(w) == \E n \in Nat : w \in [1 .. n -> CellType]

(* Of a set of numbers up to n there is a largest.                         *)
LEMMA Largest ==
  ASSUME NEW n \in Nat, NEW S, S \subseteq 1 .. n, S # {}
  PROVE  \E j \in S : \A k \in S : k <= j
PROOF
<1> DEFINE T == {n - k : k \in S}
<1>1. T \subseteq Nat
  <2>1. \A k \in S : n - k \in Nat
    OBVIOUS
  <2> QED
    BY <2>1
<1>2. T # {}
  <2>1. PICK e \in S : TRUE
    OBVIOUS
  <2>2. n - e \in T
    OBVIOUS
  <2> QED
    BY <2>2
<1>3. PICK p \in T : \A q \in T : p <= q
  BY <1>1, <1>2, Smallest
<1>4. PICK j \in S : p = n - j
  OBVIOUS
<1>5. \A k \in S : n - j <= n - k
  BY <1>3, <1>4
<1> QED
  BY <1>5

LEMMA WriteTyped ==
  ASSUME NEW s, SoundMemory(s), RamTyped(s.ram), NEW a, NEW values, Cells(values)
  PROVE  RamTyped(Write(s, a, values).ram)
PROOF
<1> DEFINE to(j)   == Physical(s.mem, a + j - 1)
           hits(c) == {j \in DOMAIN values : to(j) = c}
           last(c) == CHOOSE j \in hits(c) : \A k \in hits(c) : k <= j
           new     == [c \in DOMAIN s.ram \cup {to(j) : j \in DOMAIN values} |->
                         IF hits(c) = {} THEN s.ram[c] ELSE values[last(c)]]
<1>1. Write(s, a, values).ram \in {s.ram, new}
  BY DEF Write, SoundMemory
<1>2. PICK n \in Nat : values \in [1 .. n -> CellType]
  BY DEF Cells
<1>3. ASSUME NEW c \in DOMAIN new PROVE new[c] \in CellType
  <2>1. CASE hits(c) = {}
    <3>1. c \in DOMAIN s.ram
      BY <1>3, <2>1
    <3> QED
      BY <2>1, <3>1 DEF RamTyped
  <2>2. CASE hits(c) # {}
    <3>1. hits(c) \subseteq 1 .. n
      BY <1>2
    <3> HIDE DEF hits
    <3>2. \E j \in hits(c) : \A k \in hits(c) : k <= j
      BY <2>2, <3>1, Largest
    <3>3. last(c) \in hits(c)
      BY <3>2
    <3> HIDE DEF last
    <3>4. values[last(c)] \in CellType
      BY <1>2, <3>1, <3>3
    <3> QED
      BY <1>3, <2>2, <3>4
  <2> QED
    BY <2>1, <2>2
<1> HIDE DEF new
<1> QED
  BY <1>1, <1>3 DEF RamTyped

LEMMA ArrivesTyped ==
  ASSUME NEW file, file.size \in Nat, NEW offset \in Nat, NEW n \in Nat, NEW lost,
         NEW got \in Arrives(file, offset, n, lost)
  PROVE  Cells(got)
PROOF
<1> DEFINE most  == IF n <= file.size THEN n ELSE file.size
           whole == IF offset <= file.size THEN {Intact(file, offset, n)}
                    ELSE {Garbled(k) : k \in {0, most}}
           cut   == UNION {{SubSeq(w, 1, k) : k \in 0 .. Len(w)} : w \in whole}
<1>1. ASSUME NEW k \in Nat PROVE Cells(Garbled(k))
  <2>1. Garbled(k) \in [1 .. k -> CellType]
    BY DEF Garbled, CellType
  <2> QED
    BY <2>1 DEF Cells
<1>2. ASSUME NEW w \in whole PROVE Cells(w)
  <2>1. CASE offset <= file.size /\ w = Intact(file, offset, n)
    <3> DEFINE size == IF offset + n <= file.size THEN n ELSE file.size - offset
    <3>1. size \in Nat
      BY <2>1
    <3>2. w = [j \in 1 .. size |-> offset + j - 1]
      BY <2>1 DEF Intact
    <3> HIDE DEF size
    <3>3. \A j \in 1 .. size : offset + j - 1 \in Nat
      BY <3>1
    <3>4. w \in [1 .. size -> CellType]
      BY <3>2, <3>3 DEF CellType
    <3> QED
      BY <3>1, <3>4 DEF Cells
  <2>2. CASE w \in {Garbled(k) : k \in {0, most}}
    <3>1. PICK k \in {0, most} : w = Garbled(k)
      BY <2>2
    <3>2. k \in Nat
      BY <3>1
    <3> QED
      BY <1>1, <3>1, <3>2
  <2> QED
    BY <1>2, <2>1, <2>2
<1> HIDE DEF whole
<1>3. ASSUME NEW w \in whole, NEW k \in 0 .. Len(w) PROVE Cells(SubSeq(w, 1, k))
  <2>1. PICK m \in Nat : w \in [1 .. m -> CellType]
    BY <1>2 DEF Cells
  <2>2. w \in Seq(CellType) /\ Len(w) = m
    BY <2>1
  <2>3. k \in Nat /\ k <= m
    BY <2>2
  <2>4. PICK c : c = SubSeq(w, 1, k)
    OBVIOUS
  <2>5. c \in Seq(CellType) /\ Len(c) = k
    BY <2>2, <2>3, <2>4
  <2>6. c \in [1 .. k -> CellType]
    BY <2>5
  <2> QED
    BY <2>3, <2>4, <2>6 DEF Cells
<1>4. ASSUME NEW w \in whole PROVE Cells(Garbled(Len(w)))
  <2>1. PICK m \in Nat : w \in [1 .. m -> CellType]
    BY <1>2 DEF Cells
  <2>2. Len(w) = m
    BY <2>1
  <2> QED
    BY <1>1, <2>2
<1>5. \/ got \in whole
      \/ \E w \in whole : \E k \in 0 .. Len(w) : got = SubSeq(w, 1, k)
      \/ \E w \in whole : got = Garbled(Len(w))
  BY DEF Arrives, whole
<1> QED
  BY <1>2, <1>3, <1>4, <1>5

LEMMA MapOneTyped ==
  ASSUME NEW ph \in PhdrType, elf.data \in Nat, NEW n \in Nat,
         NEW s, SoundMemory(s), TablesTyped(s.mem)
  PROVE  TablesTyped(MapOne(s, ph, n).mem)
PROOF
<1>1. PICK q \in Nat : q = Phys(ph)
  BY DEF Phys, PhdrType
<1>2. PAGE \in Nat \ {0} /\ Fan \in Nat /\ PageRequest \in Requests
  BY Frames, RequestsMade
<1>3. PICK k \in Nat : k = q \div PAGE
  BY <1>2, Division
<1>4. Link(k + n) \in EntryType /\ Large(k + n * Fan) \in EntryType
  <2>1. n * Fan \in Nat
    BY <1>2
  <2> QED
    BY <2>1 DEF Link, Large, EntryType
<1>5. ASSUME NEW v PROVE SoundMemory(DirectoryOf(s, v)) /\ TablesTyped(DirectoryOf(s, v).mem)
  <2> DEFINE s0 == [s EXCEPT !.at = Pml4]
             s1 == get_or_create_table(s0, Index4(v))
  <2>1. SoundMemory(s0) /\ TablesTyped(s0.mem)
    BY DEF SoundMemory
  <2>2. SoundMemory(s1) /\ TablesTyped(s1.mem)
    BY <1>2, <2>1, GetOrCreateSound, GetOrCreateTyped
  <2> HIDE DEF s0, s1
  <2>3. SoundMemory(get_or_create_table(s1, Index3(v))) /\ TablesTyped(get_or_create_table(s1, Index3(v)).mem)
    BY <1>2, <2>2, GetOrCreateSound, GetOrCreateTyped
  <2> QED
    BY <2>3 DEF DirectoryOf, s1, s0
<1>6. ASSUME NEW v
      PROVE  /\ SoundMemory(get_or_create_table(DirectoryOf(s, v), Index2(v)))
             /\ TablesTyped(get_or_create_table(DirectoryOf(s, v), Index2(v)).mem)
  BY <1>2, <1>5, GetOrCreateSound, GetOrCreateTyped
<1>7. TablesTyped(map_2m(s, ph.vaddr, q, n).mem)
  BY <1>3, <1>4, <1>5, StoreTyped DEF map_2m
<1>8. TablesTyped(map_4k(s, ph.vaddr, q, n).mem)
  BY <1>3, <1>4, <1>6, StoreTyped DEF map_4k
<1> QED
  BY <1>1, <1>7, <1>8 DEF MapOne

LEMMA MapOneRam ==
  ASSUME NEW ph, NEW n, NEW s, SoundMemory(s)
  PROVE  MapOne(s, ph, n).ram = s.ram
PROOF
<1>1. PageRequest \in Requests
  BY RequestsMade
<1>2. ASSUME NEW t, SoundMemory(t), NEW i
      PROVE  get_or_create_table(t, i).ram = t.ram /\ SoundMemory(get_or_create_table(t, i))
  <2>1. SoundMemory(NewTable(t)) /\ NewTable(t).ram = t.ram
    BY <1>1, <1>2, NewTableSound DEF NewTable, SoundMemory
  <2> QED
    BY <1>1, <1>2, <2>1, GetOrCreateSound DEF get_or_create_table, SoundMemory
<1>3. ASSUME NEW t, SoundMemory(t), NEW i, NEW e PROVE Store(t, i, e).ram = t.ram
  BY <1>3 DEF Store, SoundMemory
<1>4. ASSUME NEW v PROVE DirectoryOf(s, v).ram = s.ram /\ SoundMemory(DirectoryOf(s, v))
  <2>1. SoundMemory([s EXCEPT !.at = Pml4]) /\ [s EXCEPT !.at = Pml4].ram = s.ram
    BY DEF SoundMemory
  <2> QED
    BY <1>2, <2>1 DEF DirectoryOf
<1>5. ASSUME NEW virt, NEW phys
      PROVE  map_4k(s, virt, phys, n).ram = s.ram /\ map_2m(s, virt, phys, n).ram = s.ram
  BY <1>2, <1>3, <1>4 DEF map_4k, map_2m
<1> QED
  BY <1>5 DEF MapOne

LEMMA readElfTyped ==
  ASSUME Stage2Inv, HeapInv, LoadInv, TablesTyped(mem), RamTyped(ram), Loading
  PROVE  TablesTyped(mem') /\ RamTyped(ram') /\ UNCHANGED boot
PROOF
<1>1. /\ firmware \in Firmwares /\ media \in Media(firmware) /\ media.kernel # Missing
      /\ region.base \in Nat /\ ElfInv /\ readElf /\ UNCHANGED boot
  BY DEF Loading, Stage2Inv, BiosInv, LoadInv
<1>2. SoundMemory(Memory) /\ Memory.mem = mem /\ Memory.ram = ram
  BY MemoryIsSound DEF Memory
<1>3. ASSUME elf.op \in {"map", "clear"}
      PROVE  /\ elf.phdr \in PhdrType /\ elf.data \in Nat
             /\ elf.file = media.kernel /\ elf.file.size \in Nat /\ elf.mapped \in Nat
  <2>1. /\ elf.phdr \in Taken /\ elf.phdr.load /\ elf.data = region.base
        /\ elf.file = media.kernel /\ elf.mapped \in Nat
    BY <1>1, <1>3 DEF ElfInv
  <2>2. elf.phdr \in Named \/ elf.phdr \in Strays
    BY <2>1 DEF Taken
  <2> QED
    BY <1>1, <2>1, <2>2, SegmentFacts, StraysAre, MediumFacts
<1>4. TablesTyped(mem')
  <2>1. CASE mem' = mem
    BY <2>1
  <2>2. CASE elf.op = "map" /\ mem' = MapOne(Memory, elf.phdr, elf.mapped).mem
    BY <1>2, <1>3, <2>2, MapOneTyped
  <2> QED
    BY <1>1, <2>1, <2>2, readElfTables
<1>5. ASSUME NEW a, NEW w, Cells(w), Becomes(Write(Memory, a, w)) PROVE RamTyped(ram')
  <2>1. RamTyped(Write(Memory, a, w).ram)
    BY <1>2, <1>5, WriteTyped
  <2> QED
    BY <1>5, <2>1 DEF Becomes
<1>6. CASE ram' = ram
  BY <1>1, <1>4, <1>6
<1>7. CASE Copy
  <2>1. PICK got \in Arrives(elf.file, elf.phdr.offset, elf.phdr.filesz, faults' > 0) :
          Becomes(Write(Memory, elf.phdr.vaddr, got))
    BY <1>7 DEF Copy, Continue
  <2>2. elf.phdr.offset \in Nat /\ elf.phdr.filesz \in Nat /\ elf.file.size \in Nat
    BY <1>3, <1>7 DEF Copy, PhdrType
  <2>3. Cells(got)
    BY <2>2, ArrivesTyped
  <2> QED
    BY <1>1, <1>4, <1>5, <2>1, <2>3
<1>8. CASE Clear
  <2> DEFINE n == elf.phdr.memsz - elf.phdr.filesz
  <2>1. Becomes(Write(Memory, elf.phdr.vaddr + elf.phdr.filesz, Zeros(n)))
    BY <1>8 DEF Clear, Continue
  <2>2. n \in Int
    BY <1>3, <1>8 DEF Clear, PhdrType
  <2> HIDE DEF n
  <2>3. PICK k \in Nat : 1 .. n = 1 .. k
    <3>1. CASE n \in Nat
      BY <3>1
    <3>2. CASE n \notin Nat
      <4>1. 1 .. n = 1 .. 0
        BY <2>2, <3>2
      <4> QED
        BY <4>1
    <3> QED
      BY <3>1, <3>2
  <2>4. Zeros(n) \in [1 .. k -> CellType]
    BY <2>3 DEF Zeros, CellType
  <2>5. Cells(Zeros(n))
    BY <2>4 DEF Cells
  <2> QED
    BY <1>1, <1>4, <1>5, <2>1, <2>5
<1>9. CASE MapPage
  <2>1. ram' = MapOne(Memory, elf.phdr, elf.mapped).ram
    BY <1>9 DEF MapPage, Continue, Becomes
  <2> QED
    BY <1>2, <1>6, <2>1, MapOneRam
<1>10. ReadHeader \/ ReadPhdr \/ SkipSegment \/ LoadSegment \/ Return => ram' = ram
  BY DEF ReadHeader, ReadPhdr, SkipSegment, LoadSegment, Return, memory
<1> QED
  BY <1>1, <1>6, <1>7, <1>8, <1>9, <1>10 DEF readElf

(***************************************************************************)
(* The steps of the whole, as far as memory goes.                          *)
(***************************************************************************)
LEMMA MemoryInvInit == Init => MemoryInv /\ LatePaging
PROOF
<1> SUFFICES ASSUME Init PROVE MemoryInv /\ LatePaging
  OBVIOUS
<1>1. /\ boot.op = "start" /\ cr3 = Nowhere
      /\ mem = [f \in TableFrames |-> EmptyTable] /\ ram = << >>
  BY DEF Init, BiosInit, BootPagingInit
<1>2. Absent \in EntryType /\ Absent.to \notin Own
  BY Frames DEF Absent, EntryType, Own, Nowhere
<1>3. TablesTyped(mem) /\ Unowned(mem) /\ RamTyped(ram)
  BY <1>1, <1>2 DEF EmptyTable, TablesTyped, Unowned, RamTyped
<1> QED
  BY <1>1, <1>3 DEF MemoryInv, EarlyPaging, LatePaging, BeforeLong, BiosOps

(* The steps after stage2_main has its tables, but those of readElf.       *)
LEMMA MainSteps ==
  ASSUME FindDisk \/ detect \/ initialize \/ open \/ ChooseRegion \/ CallReadElf \/ CallKernel
  PROVE  /\ UNCHANGED <<mem, cr3, ram>>
         /\ boot.op \notin BeforeLong \cup {"long"} /\ boot'.op \notin BeforeLong \cup {"long"}
PROOF
<1>1. UNCHANGED <<mem, cr3, ram>>
  BY DEF FindDisk, detect, initialize, open, ChooseRegion, CallReadElf, CallKernel, memory
<1>2. /\ boot.op \in {"disk", "detect", "initialize", "open", "region", "load", "readElf"}
      /\ boot'.op \in {"detect", "stop", "initialize", "open", "region", "load", "readElf", "kernel"}
  BY Leads
<1> QED
  BY <1>1, <1>2 DEF BeforeLong, BiosOps

LEMMA EarlySteps ==
  ASSUME Stage2Inv,
         \/ BiosNext /\ UNCHANGED <<memory, elf, faults, stray, media, region, handed>>
         \/ check_cpuid \/ check_long
  PROVE  UNCHANGED <<mem, cr3, ram>> /\ boot.op \in BeforeLong /\ boot'.op \in BeforeLong \ {"paging"}
PROOF
<1>1. CASE BiosNext /\ UNCHANGED <<memory, elf, faults, stray, media, region, handed>>
  <2>1. boot.op \in BiosOps /\ boot'.op \in BiosOps \cup {"protected", "halt"}
    BY <1>1, BiosLeads DEF Stage2Inv
  <2>2. UNCHANGED <<mem, cr3, ram>>
    BY <1>1 DEF memory
  <2> QED
    BY <2>1, <2>2 DEF BeforeLong, BiosOps
<1>2. CASE check_cpuid \/ check_long
  <2>1. UNCHANGED <<mem, cr3, ram>>
    BY <1>2 DEF check_cpuid, check_long, memory
  <2> QED
    BY <1>2, <2>1, Leads DEF BeforeLong, BiosOps
<1> QED
  BY <1>1, <1>2

LEMMA MemoryInvStep ==
  Stage2Inv /\ HeapInv /\ LoadInv /\ MemoryInv /\ [Next]_vars => MemoryInv'
PROOF
<1> SUFFICES ASSUME Stage2Inv, HeapInv, LoadInv, MemoryInv, [Next]_vars PROVE MemoryInv'
  OBVIOUS
<1> USE DEF MemoryInv
<1>1. CASE \/ BiosNext /\ UNCHANGED <<memory, elf, faults, stray, media, region, handed>>
           \/ check_cpuid \/ check_long
  BY <1>1, EarlySteps DEF EarlyPaging, BeforeLong, BiosOps
<1>2. CASE FirstTables
  <2>1. setup_page_tables /\ boot.op = "page tables" /\ boot'.op = "paging"
    BY <1>2, Leads DEF FirstTables
  <2>2. Unowned(mem) /\ cr3 = Nowhere
    BY <2>1 DEF EarlyPaging, BeforeLong
  <2>3. TablesTyped(mem') /\ Unowned(mem') /\ BootIdentity(mem') /\ UNCHANGED cr3
    BY <2>1, <2>2, FirstTablesMade
  <2>4. ram' = ram
    BY <2>1 DEF setup_page_tables
  <2> QED
    BY <2>1, <2>2, <2>3, <2>4 DEF EarlyPaging, BeforeLong, BiosOps
<1>3. CASE LongMode
  <2>1. boot.op = "paging" /\ boot'.op = "long" /\ UNCHANGED <<mem, ram>> /\ cr3' = Page_table_l4
    BY <1>3, Leads DEF LongMode, enable_paging_and_longmode
  <2> QED
    BY <2>1 DEF EarlyPaging, BeforeLong, BiosOps
<1>4. CASE Setup
  <2>1. boot.op = "long" /\ boot'.op = "disk" /\ setup_paging
    BY <1>4, Leads DEF Setup
  <2>2. LowIdentity(mem') /\ ram' = ram
    BY <2>1, IdentityMade DEF EarlyPaging, setup_paging
  <2> QED
    BY <2>1, <2>2 DEF EarlyPaging, BeforeLong, BiosOps, LowIdentity
<1>5. CASE FindDisk \/ detect \/ initialize \/ open \/ ChooseRegion \/ CallReadElf \/ CallKernel
  BY <1>5, MainSteps DEF EarlyPaging, BeforeLong, BiosOps
<1>6. CASE Loading
  <2>1. boot.op = "readElf"
    BY <1>6 DEF Loading
  <2>2. TablesTyped(mem') /\ RamTyped(ram') /\ UNCHANGED boot
    BY <1>6, readElfTyped
  <2> QED
    BY <2>1, <2>2 DEF EarlyPaging, BeforeLong, BiosOps
<1>7. CASE UNCHANGED vars
  BY <1>7 DEF vars, biosVars, memory, EarlyPaging
<1> QED
  BY <1>1, <1>2, <1>3, <1>4, <1>5, <1>6, <1>7 DEF Next

LEMMA MemoryInvHolds == Spec => []MemoryInv
PROOF
<1>1. Init => MemoryInv
  BY MemoryInvInit
<1> QED
  BY <1>1, MemoryInvStep, Stage2InvHolds, Stage2HeapSound, LoadInvHolds, PTL DEF Spec

LEMMA LatePagingStep ==
  ASSUME KernelsHigh
  PROVE  Stage2Inv /\ HeapInv /\ LoadInv /\ MemoryInv /\ LatePaging /\ [Next]_vars => LatePaging'
PROOF
<1> SUFFICES ASSUME Stage2Inv, HeapInv, LoadInv, MemoryInv, LatePaging, [Next]_vars PROVE LatePaging'
  OBVIOUS
<1>1. CASE \/ BiosNext /\ UNCHANGED <<memory, elf, faults, stray, media, region, handed>>
           \/ check_cpuid \/ check_long
  BY <1>1, EarlySteps DEF LatePaging
<1>2. CASE FirstTables \/ LongMode
  BY <1>2, Leads DEF LatePaging, BeforeLong
<1>3. CASE Setup
  <2>1. boot.op = "long" /\ setup_paging
    BY <1>3 DEF Setup
  <2> QED
    BY <2>1, IdentityMade DEF MemoryInv, EarlyPaging, LatePaging
<1>4. CASE FindDisk \/ detect \/ initialize \/ open \/ ChooseRegion \/ CallReadElf \/ CallKernel
  <2>1. UNCHANGED stray
    BY <1>4 DEF FindDisk, detect, initialize, open, ChooseRegion, CallReadElf, CallKernel
  <2> QED
    BY <1>4, <2>1, MainSteps DEF LatePaging
<1>5. CASE Loading
  <2>1. cr3 = Pml4 /\ (stray \/ LowIdentity(mem)) /\ readElf
    BY <1>5 DEF Loading, LatePaging, BeforeLong, BiosOps
  <2>2. UNCHANGED cr3
    BY <2>1, readElfTables
  <2>3. stray => stray'
    BY <2>1, StraysStay
  <2>4. CASE ~stray
    BY <1>5, <2>1, <2>4, LoadingLow DEF LatePaging
  <2> QED
    BY <2>1, <2>2, <2>3, <2>4 DEF LatePaging
<1>6. CASE UNCHANGED vars
  BY <1>6 DEF vars, biosVars, memory, LatePaging
<1> QED
  BY <1>1, <1>2, <1>3, <1>4, <1>5, <1>6 DEF Next

(* For every kernel linked above the first megabyte, whatever its segments *)
(* and however little room the heap has for their tables: from the first   *)
(* page table on, the first megabyte stays where it is, whatever sectors   *)
(* fail, until the bytes of another one are taken for a program header.    *)
THEOREM LowMegabyteStays == ASSUME KernelsHigh PROVE Spec => []IdentityKept
PROOF
<1>1. Spec => []LatePaging
  <2>1. Stage2Inv /\ HeapInv /\ LoadInv /\ MemoryInv /\ LatePaging /\ [Next]_vars => LatePaging'
    BY LatePagingStep
  <2>2. Init => LatePaging
    BY MemoryInvInit
  <2> QED
    BY <2>1, <2>2, Stage2InvHolds, Stage2HeapSound, LoadInvHolds, MemoryInvHolds, PTL DEF Spec
<1>2. MemoryInv /\ LatePaging => IdentityKept
  <2> SUFFICES ASSUME MemoryInv, LatePaging, cr3 # Nowhere, ~stray, NEW p \in 0 .. LOW_PAGES - 1
               PROVE  Walk(mem, cr3, p) = p
    BY DEF IdentityKept
  <2>1. CASE boot.op = "long"
    BY <2>1, BootWalk DEF MemoryInv, EarlyPaging
  <2>2. CASE boot.op # "long"
    BY <2>2, LowWalk DEF MemoryInv, EarlyPaging, LatePaging
  <2> QED
    BY <2>1, <2>2
<1> QED
  BY <1>1, <1>2, MemoryInvHolds, PTL

(* Whatever the kernel, the medium and the sectors that fail, the tables   *)
(* and what readElf writes are of their types.                             *)
THEOREM TypeCorrect == Spec => []TypeOK
PROOF
<1>1. Stage2Inv /\ MemoryInv /\ FaultsCounted => TypeOK
  <2> SUFFICES ASSUME Stage2Inv, MemoryInv, FaultsCounted PROVE TypeOK
    OBVIOUS
  <2>1. BiosTypeOK
    BY DEF Stage2Inv, BiosInv, InfoType, FetchingMap, BiosTypeOK
  <2> QED
    BY <2>1 DEF MemoryInv, TablesTyped, EntryType, RamTyped, CellType, FaultsCounted, TypeOK
<1> QED
  BY <1>1, Stage2InvHolds, MemoryInvHolds, FaultsAreCounted, PTL

(* The heap's offset and blocks stay what they are, for every kernel.      *)
THEOREM HeapTyped == Spec => []HeapTypeOK
PROOF
<1>1. HeapInv => HeapTypeOK
  BY SoundHeap
<1> QED
  BY <1>1, Stage2HeapSound, PTL

(***************************************************************************)
(* A kernel as a linker makes it: its segments lie above the first         *)
(* megabyte, all equally far from their physical addresses, and do not     *)
(* overlap; and memory that starts with a page.  The rest of the module is *)
(* about such a kernel, when the heap has room for its tables: there is    *)
(* one frame for each page then, whichever segment maps it, so the tables  *)
(* are a tree that maps pages to these frames (Built), and a byte once in  *)
(* place is never written again.                                           *)
(***************************************************************************)
Addresses(ph) == ph.vaddr .. ph.vaddr + ph.memsz - 1

Linked ==
  /\ region.base % PAGE = 0
  /\ \A ph, other \in Segments :
       /\ ph.vaddr >= MEGABYTE /\ ph.vaddr % PAGE = ph.paddr % PAGE
       /\ ph.vaddr - ph.paddr = other.vaddr - other.paddr
       /\ ph = other
            \/ Addresses(ph) \cap Addresses(other) = {}

Roomy == TablesNeeded <= TablesLeft

Cell(ph, j) == region.base + ph.paddr + j

(* How many pages a page lies above its frame.                             *)
ShiftOf(S, b) == CHOOSE s \in Int : \A ph \in S : ph.vaddr = b + ph.paddr + s * PAGE

Shift == ShiftOf(Segments, region.base)

FrameOf == [v \in VPages |-> IF v < LOW_PAGES THEN v ELSE v - Shift]

InLarge(ph) == \A n \in {ph.vaddr, region.base + ph.paddr, ph.memsz} : n % LARGE = 0

(* The blocks of pages that large pages map.                               *)
BigPages == {v \in VPages : \E ph \in Segments : InLarge(ph) /\ (v \div Fan) * LARGE \in Addresses(ph)}

(* What the first n pages of a segment are that map_4k or map_2m maps.     *)
Touched(ph, n, v) ==
  IF InLarge(ph)
  THEN ph.vaddr \div LARGE <= v \div Fan /\ v \div Fan < (ph.vaddr \div LARGE) + n
  ELSE ph.vaddr \div PAGE <= v /\ v < (ph.vaddr \div PAGE) + n

Booting == firmware \in Firmwares /\ media \in Media(firmware) /\ region.base \in Nat

LEMMA SegmentIs ==
  ASSUME Booting, NEW ph \in Segments
  PROVE  /\ ph \in PhdrType /\ ph.load /\ ph.filesz <= ph.memsz
         /\ ph.vaddr + ph.memsz <= Fan * Fan * Fan * Fan * PAGE
PROOF
<1>1. media.kernel # Missing
  BY DEF Segments, Phdrs
<1>2. ph \in Named /\ ph.load
  BY <1>1 DEF Segments, Phdrs, Named
<1> QED
  BY <1>1, <1>2, SegmentFacts DEF Booting

LEMMA SegmentNumbers ==
  ASSUME Booting, NEW ph \in Segments
  PROVE  /\ ph.vaddr \in Nat /\ ph.paddr \in Nat /\ ph.memsz \in Nat /\ ph.filesz \in Nat
         /\ ph.offset \in Nat
BY SegmentIs DEF PhdrType

LEMMA PhdrIsSegment ==
  ASSUME media.kernel # Missing, NEW ph \in Named, ph.load
  PROVE  ph \in Segments
PROOF
<1>1. ph # NoSegment
  BY DEF NoSegment
<1> QED
  BY <1>1 DEF Named, Segments, Phdrs

Shifted(v, b, p, P) == \E s \in Int : v = b + p + s * P

LEMMA Congruent ==
  ASSUME NEW P \in Nat \ {0}, NEW v \in Nat, NEW p \in Nat, NEW b \in Nat,
         v % P = p % P, b % P = 0
  PROVE  Shifted(v, b, p, P)
PROOF
<1>1. PICK q \in Nat : v = P * q + (v % P)
  BY Division
<1>2. PICK r \in Nat : p = P * r + (p % P)
  BY Division
<1>3. PICK c \in Nat : b = P * c
  <2>1. b = P * (b \div P) + (b % P) /\ b \div P \in Nat
    BY Division
  <2>2. PICK c \in Nat : c = b \div P
    BY <2>1
  <2> QED
    BY <2>1, <2>2
<1>4. PICK k \in Nat : k = v % P
  BY Division
<1>5. q - r - c \in Int /\ (q - r - c) * P = P * q - P * r - P * c
  BY <1>1, <1>2, <1>3
<1>6. PICK x \in Int : x = P * q
  BY <1>1
<1>7. PICK y \in Int : y = P * r
  BY <1>2
<1>8. v = b + p + (q - r - c) * P
  BY <1>1, <1>2, <1>3, <1>4, <1>5, <1>6, <1>7
<1> QED
  BY <1>5, <1>8 DEF Shifted

LEMMA ShiftIs ==
  ASSUME Booting, Linked
  PROVE  Shift \in Int /\ \A ph \in Segments : ph.vaddr = region.base + ph.paddr + Shift * PAGE
PROOF
<1>1. \E s \in Int : \A ph \in Segments : ph.vaddr = region.base + ph.paddr + s * PAGE
  <2>1. CASE Segments = {}
    BY <2>1
  <2>2. CASE Segments # {}
    <3>1. PICK one \in Segments : TRUE
      BY <2>2
    <3>2. PICK b \in Nat : b = region.base
      BY DEF Booting
    <3>3. one.vaddr \in Nat /\ one.paddr \in Nat
      BY SegmentNumbers
    <3>4. one.vaddr % PAGE = one.paddr % PAGE /\ b % PAGE = 0
      BY <3>2 DEF Linked
    <3>5. PICK s \in Int : one.vaddr = b + one.paddr + s * PAGE
      <4>1. PICK P \in Nat \ {0} : P = PAGE
        BY Frames
      <4>2. PICK v \in Nat : v = one.vaddr
        BY <3>3
      <4>3. PICK p \in Nat : p = one.paddr
        BY <3>3
      <4>4. v % P = p % P /\ b % P = 0
        BY <3>4, <4>1, <4>2, <4>3
      <4>7. Shifted(v, b, p, P)
        BY <3>2, <4>1, <4>2, <4>3, <4>4, Congruent
      <4>5. PICK s \in Int : v = b + p + s * P
        BY <4>7 DEF Shifted
      <4>6. one.vaddr = b + one.paddr + s * PAGE
        BY <4>1, <4>2, <4>3, <4>5
      <4> QED
        BY <4>5, <4>6
    <3>6. ASSUME NEW ph \in Segments PROVE ph.vaddr = b + ph.paddr + s * PAGE
      <4>1. ph.vaddr \in Nat /\ ph.paddr \in Nat
        BY SegmentNumbers
      <4>2. ph.vaddr - ph.paddr = one.vaddr - one.paddr
        BY DEF Linked
      <4>3. PICK z \in Int : z = s * PAGE
        BY <3>5, Frames
      <4> QED
        BY <3>2, <3>3, <3>5, <4>1, <4>2, <4>3
    <3> QED
      BY <3>2, <3>5, <3>6
  <2> QED
    BY <2>1, <2>2
<1> QED
  BY <1>1 DEF Shift, ShiftOf

(* One address and its cell, any page apart.                               *)
Away(a, c, s, P) == a = c + s * P

LEMMA SameOffset ==
  ASSUME NEW P \in Nat \ {0}, NEW a \in Nat, NEW c \in Nat, NEW s \in Int, Away(a, c, s, P)
  PROVE  (a \div P) - s = c \div P /\ a % P = c % P /\ c \div P \in Nat
           /\ (c \div P) * P + (a % P) = c
PROOF
<1>1. PICK q \in Nat, r \in 0 .. P - 1 : c = P * q + r
  BY Division
<1>2. a = P * (q + s) + r
  <2>1. P * (q + s) = P * q + s * P
    OBVIOUS
  <2>2. PICK x \in Int : x = P * q
    OBVIOUS
  <2>3. PICK y \in Int : y = s * P
    OBVIOUS
  <2>4. a = c + y
    BY <2>3 DEF Away
  <2> QED
    BY <1>1, <2>1, <2>2, <2>3, <2>4
<1>3. q + s \in Nat
  <2>1. ASSUME q + s < 0 PROVE FALSE
    <3>1. P * (q + s) <= P * (-1)
      BY <2>1
    <3>2. PICK x \in Int : x = P * (q + s)
      OBVIOUS
    <3> QED
      BY <1>1, <1>2, <3>1, <3>2
  <2> QED
    BY <2>1
<1>4. a \div P = q + s /\ a % P = r
  <2>1. PICK k \in Nat : k = q + s
    BY <1>3
  <2>2. (P * k + r) \div P = k /\ (P * k + r) % P = r
    BY <1>1, QuotientIs
  <2> QED
    BY <1>2, <2>1, <2>2
<1>5. c \div P = q /\ c % P = r
  BY <1>1, QuotientIs
<1>6. q * P = P * q
  OBVIOUS
<1> QED
  BY <1>1, <1>4, <1>5, <1>6

LEMMA Sizes ==
  /\ PAGE \in Nat \ {0} /\ Fan \in Nat \ {0} /\ LARGE \in Nat \ {0} /\ LARGE = PAGE * Fan
  /\ LOW_PAGES \in 1 .. Fan /\ PAGE * Fan \in Nat \ {0}
PROOF
<1>1. PAGE \in Nat \ {0} /\ LOW_PAGES \in 1 .. Fan /\ Fan \in Nat
  BY Frames
<1>2. Fan # 0
  BY <1>1
<1>3. PAGE * Fan \in Nat \ {0}
  BY <1>1, <1>2
<1> QED
  BY <1>1, <1>2, <1>3 DEF LARGE

(* The page an address of a segment is in is to go where the cell of the   *)
(* address is.                                                             *)
LEMMA PageOfAddress ==
  ASSUME Booting, Linked, NEW ph \in Segments, NEW a \in Addresses(ph)
  PROVE  /\ a \in Nat /\ a \div PAGE \in VPages /\ a \div PAGE >= LOW_PAGES
         /\ a \div PAGE \in PagesOf(ph)
         /\ FrameOf[a \div PAGE] \in Nat
         /\ FrameOf[a \div PAGE] * PAGE + (a % PAGE) = Cell(ph, a - ph.vaddr)
         /\ FrameOf[a \div PAGE] = Cell(ph, a - ph.vaddr) \div PAGE
PROOF
<1>1. PICK P \in Nat \ {0} : P = PAGE
  BY Sizes
<1>2. PICK b \in Nat, v \in Nat, p \in Nat, m \in Nat :
        b = region.base /\ v = ph.vaddr /\ p = ph.paddr /\ m = ph.memsz
  BY SegmentNumbers DEF Booting
<1>3. a \in v .. v + m - 1 /\ a \in Nat /\ a - v \in Nat
  BY <1>2 DEF Addresses
<1>4. PICK s \in Int : s = Shift /\ v = b + p + s * P
  BY <1>1, <1>2, ShiftIs
<1>5. PICK c \in Nat : c = b + p + (a - v)
  BY <1>3
<1>6. Cell(ph, a - ph.vaddr) = c
  BY <1>2, <1>5 DEF Cell
<1>7. a = c + s * P
  <2>1. PICK x \in Int : x = s * P
    OBVIOUS
  <2> QED
    BY <1>3, <1>4, <1>5, <2>1
<1>8. (a \div P) - s = c \div P /\ a % P = c % P /\ c \div P \in Nat /\ (c \div P) * P + (a % P) = c
  <2>1. Away(a, c, s, P)
    BY <1>7 DEF Away
  <2> QED
    BY <1>1, <1>3, <1>4, <1>5, <2>1, SameOffset
<1>9. a \div P \in Nat /\ a \div P >= LOW_PAGES
  <2>1. LOW_PAGES \in Nat /\ LOW_PAGES * P <= v
    BY <1>1, <1>2, Sizes, Megabyte DEF Linked
  <2>2. LOW_PAGES * P <= a
    <3>1. PICK x \in Nat : x = LOW_PAGES * P
      BY <2>1
    <3> QED
      BY <1>3, <2>1, <3>1
  <2> QED
    BY <1>3, <2>1, <2>2, FirstOfPages
<1>10. a \div P \in VPages
  <2>1. PICK B \in Nat : B = Fan * Fan * Fan * Fan
    BY Powers
  <2>2. v + m <= B * P
    BY <1>1, <1>2, <2>1, SegmentIs
  <2>3. PICK x \in Nat : x = B * P
    OBVIOUS
  <2>4. a < B * P
    BY <1>3, <2>2, <2>3
  <2>5. a \div P < B
    BY <1>3, <2>4, BelowProduct
  <2> QED
    BY <1>9, <2>1, <2>5 DEF VPages
<1>11. a \div P \in PagesOf(ph)
  <2>1. v \div P <= a \div P
    BY <1>3, QuotientsOrdered
  <2>2. v + m - 1 \in Nat /\ a <= v + m - 1
    BY <1>3
  <2>3. a \div P <= (v + m - 1) \div P
    <3>1. PICK z \in Nat : z = v + m - 1
      BY <2>2
    <3> QED
      BY <1>3, <2>2, <3>1, QuotientsOrdered
  <2>4. v \div P \in Nat /\ (v + m - 1) \div P \in Nat
    BY <2>2, Division
  <2> QED
    BY <1>1, <1>2, <1>9, <2>1, <2>3, <2>4 DEF PagesOf
<1>12. FrameOf[a \div P] = (a \div P) - s
  <2>1. ~(a \div P < LOW_PAGES)
    BY <1>9, Sizes
  <2> QED
    BY <1>4, <1>10, <2>1 DEF FrameOf
<1>13. PICK f \in Nat : f = c \div P
  BY <1>8
<1>14. FrameOf[a \div P] = f /\ f * P + (a % P) = c
  BY <1>8, <1>12, <1>13
<1>15. a \div PAGE = a \div P /\ a % PAGE = a % P
  BY <1>1
<1>16. FrameOf[a \div PAGE] = f
  BY <1>14, <1>15
<1>17. f * PAGE + (a % PAGE) = Cell(ph, a - ph.vaddr)
  BY <1>1, <1>6, <1>14
<1>18. f = Cell(ph, a - ph.vaddr) \div PAGE
  BY <1>1, <1>6, <1>13
<1> QED
  BY <1>3, <1>9, <1>10, <1>11, <1>13, <1>15, <1>16, <1>17, <1>18

LEMMA WholeBlocks ==
  ASSUME NEW L \in Nat \ {0}, NEW a \in Nat, NEW v \in Nat, NEW m \in Nat, v % L = 0, m % L = 0
  PROVE  (a \div L) * L \in v .. v + m - 1 <=> a \in v .. v + m - 1
PROOF
<1>1. PICK k \in Nat : k = a \div L
  BY Division
<1>2. PICK q \in Nat : v = q * L
  <2>1. v = L * (v \div L) + (v % L) /\ v \div L \in Nat
    BY Division
  <2>2. PICK q \in Nat : q = v \div L
    BY <2>1
  <2>3. L * q = q * L
    OBVIOUS
  <2> QED
    BY <2>1, <2>2, <2>3
<1>3. PICK n \in Nat : m = n * L
  <2>1. m = L * (m \div L) + (m % L) /\ m \div L \in Nat
    BY Division
  <2>2. PICK n \in Nat : n = m \div L
    BY <2>1
  <2>3. L * n = n * L
    OBVIOUS
  <2> QED
    BY <2>1, <2>2, <2>3
<1>4. (k < q <=> a < q * L) /\ (k < q + n <=> a < (q + n) * L)
  <2>1. q + n \in Nat
    OBVIOUS
  <2> QED
    BY <1>1, <2>1, BelowProduct
<1>5. (k < q <=> k * L < q * L) /\ (k < q + n <=> k * L < (q + n) * L)
  <2>1. (L * k + 0) \div L = k
    <3>1. 0 \in 0 .. L - 1
      OBVIOUS
    <3> QED
      BY <3>1, QuotientIs
  <2>2. L * k + 0 = k * L /\ k * L \in Nat /\ q + n \in Nat
    OBVIOUS
  <2> QED
    BY <2>1, <2>2, BelowProduct
<1>6. PICK x \in Nat, y \in Nat, z \in Nat : x = k * L /\ y = q * L /\ z = (q + n) * L
  <2>1. k * L \in Nat /\ q * L \in Nat /\ (q + n) * L \in Nat
    OBVIOUS
  <2> QED
    BY <2>1
<1>7. z = v + m /\ y = v
  BY <1>2, <1>3, <1>6
<1>8. a \in v .. v + m - 1 <=> ~(a < y) /\ a < z
  BY <1>6, <1>7
<1>9. x \in v .. v + m - 1 <=> ~(x < y) /\ x < z
  BY <1>6, <1>7
<1> QED
  BY <1>1, <1>4, <1>5, <1>6, <1>8, <1>9

(* The block of an address lies in a segment in large pages if the address *)
(* does.                                                                   *)
LEMMA BlockOfAddress ==
  ASSUME Booting, NEW ph \in Segments, InLarge(ph), NEW a \in Nat
  PROVE  ((a \div PAGE) \div Fan) * LARGE \in Addresses(ph) <=> a \in Addresses(ph)
PROOF
<1>1. (a \div PAGE) \div Fan = a \div LARGE
  BY Sizes, QuotientOfQuotient
<1>2. ph.vaddr \in Nat /\ ph.memsz \in Nat /\ ph.vaddr % LARGE = 0 /\ ph.memsz % LARGE = 0
  BY SegmentNumbers DEF InLarge
<1> QED
  BY <1>1, <1>2, Sizes, WholeBlocks DEF Addresses

LEMMA LayoutIs ==
  ASSUME Booting, Linked
  PROVE  Layout(FrameOf, BigPages)
PROOF
<1>1. Shift \in Int
  BY ShiftIs
<1>2. \A v \in VPages : v \in Nat
  BY Powers DEF VPages
<1>3. FrameOf \in [VPages -> Int]
  BY <1>1, <1>2 DEF FrameOf
<1>4. ASSUME NEW v \in VPages, v < LOW_PAGES PROVE FrameOf[v] = v
  BY <1>4 DEF FrameOf
<1>5. ASSUME NEW v \in VPages, v \div Fan = 0 PROVE v \notin BigPages
  <2> SUFFICES ASSUME v \in BigPages PROVE FALSE
    OBVIOUS
  <2>1. PICK ph \in Segments : (v \div Fan) * LARGE \in Addresses(ph)
    BY DEF BigPages
  <2>2. (v \div Fan) * LARGE = 0
    BY <1>5, Sizes
  <2>3. ph.vaddr \in Nat /\ ph.vaddr >= MEGABYTE /\ ph.memsz \in Nat
    BY SegmentNumbers DEF Linked
  <2> QED
    BY <2>1, <2>2, <2>3, Megabyte DEF Addresses
<1>6. ASSUME NEW v \in BigPages PROVE FrameOf[v] = FrameOf[v - Index1(v)] + Index1(v)
  <2>1. v \in VPages /\ v \in Nat
    BY <1>2 DEF BigPages
  <2>2. v \div Fan # 0
    BY <1>5, <2>1
  <2>3. PICK q \in Nat \ {0}, i \in Slots : q = v \div Fan /\ i = Index1(v)
    BY <2>1, <2>2, PageFromIndexes
  <2>4. v = Fan * q + i
    BY <2>1, <2>3, PageFromIndexes
  <2>5. Fan * q >= Fan /\ Fan * q \in Nat /\ i \in Nat
    <3>1. Fan * 1 <= Fan * q
      BY <2>3, Sizes
    <3> QED
      BY <2>3, <3>1, Sizes DEF Slots
  <2>6. PICK w \in Nat : w = Fan * q
    BY <2>5
  <2>7. v = w + i /\ w >= LOW_PAGES /\ v >= LOW_PAGES /\ w <= v
    BY <2>4, <2>5, <2>6, Sizes
  <2>8. w \in VPages
    <3>1. PICK B \in Nat : B = Fan * Fan * Fan * Fan
      BY Powers
    <3> QED
      BY <2>1, <2>7, <3>1 DEF VPages
  <2>9. v - Index1(v) = w /\ Index1(v) = i
    BY <2>3, <2>5, <2>7
  <2>10. FrameOf[v] = v - Shift /\ FrameOf[w] = w - Shift
    BY <2>1, <2>7, <2>8, Sizes DEF FrameOf
  <2> QED
    BY <1>1, <2>5, <2>7, <2>9, <2>10
<1>7. BigPages \subseteq VPages
  BY DEF BigPages
<1>8. ASSUME NEW v \in VPages, NEW w \in VPages, v \div Fan = w \div Fan, v \in BigPages
      PROVE  w \in BigPages
  BY <1>8 DEF BigPages
<1> QED
  BY <1>3, <1>4, <1>5, <1>6, <1>7, <1>8 DEF Layout

LEMMA PagesOn ==
  ASSUME NEW P \in Nat \ {0}, NEW x \in Nat, NEW k \in Nat
  PROVE  x + k * P \in Nat /\ (x + k * P) \div P = (x \div P) + k /\ (x + k * P) % P = x % P
PROOF
<1>1. PICK q \in Nat, r \in 0 .. P - 1 : x = P * q + r
  BY Division
<1>2. P * (q + k) + r = x + k * P /\ k * P \in Nat
  <2>1. P * (q + k) = P * q + k * P
    OBVIOUS
  <2>2. PICK y \in Nat : y = P * q
    OBVIOUS
  <2>3. PICK z \in Nat : z = k * P
    OBVIOUS
  <2> QED
    BY <1>1, <2>1, <2>2, <2>3
<1>3. PICK n \in Nat : n = q + k
  OBVIOUS
<1>4. (P * n + r) \div P = n /\ (P * n + r) % P = r
  BY <1>1, <1>3, QuotientIs
<1>5. x \div P = q /\ x % P = r
  BY <1>1, QuotientIs
<1> QED
  BY <1>1, <1>2, <1>3, <1>4, <1>5

(* The k-th page from the first on, as long as the segment goes on.        *)
LEMMA PageOfSegment ==
  ASSUME Booting, Linked, NEW ph \in Segments, NEW k \in Nat, k * PAGE < ph.memsz,
         NEW v, v = (ph.vaddr \div PAGE) + k
  PROVE  /\ v \in VPages /\ v \in PagesOf(ph) /\ FrameOf[v] \in Nat
         /\ FrameOf[v] = ((region.base + ph.paddr) \div PAGE) + k
         /\ ph.vaddr + k * PAGE \in Addresses(ph) /\ (ph.vaddr + k * PAGE) \div PAGE = v
PROOF
<1>1. PICK P \in Nat \ {0} : P = PAGE
  BY Sizes
<1>2. PICK x \in Nat, p \in Nat, m \in Nat :
        x = ph.vaddr /\ p = region.base + ph.paddr /\ m = ph.memsz
  BY SegmentNumbers DEF Booting
<1>3. PICK d \in Nat : d = k * P
  OBVIOUS
<1>4. d < m
  BY <1>1, <1>2, <1>3
<1>5. x + d \in Addresses(ph)
  BY <1>2, <1>3, <1>4 DEF Addresses
<1>6. (x + d) \div P = (x \div P) + k /\ (p + d) \div P = (p \div P) + k
  <2>1. (x + k * P) \div P = (x \div P) + k
    BY <1>1, <1>2, PagesOn
  <2>2. (p + k * P) \div P = (p \div P) + k
    BY <1>1, <1>2, PagesOn
  <2> QED
    BY <1>3, <2>1, <2>2, Zenon
<1>7. (x + d) \div P = v
  BY <1>1, <1>2, <1>6
<1>8. Cell(ph, (x + d) - ph.vaddr) = p + d
  <2>1. (x + d) - ph.vaddr = d
    BY <1>2, <1>3
  <2>2. region.base + ph.paddr + d = p + d
    BY <1>2, <1>3
  <2> QED
    BY <2>1, <2>2 DEF Cell
<1>9. /\ (x + d) \div PAGE \in VPages /\ (x + d) \div PAGE \in PagesOf(ph)
      /\ FrameOf[(x + d) \div PAGE] \in Nat
      /\ FrameOf[(x + d) \div PAGE] = Cell(ph, (x + d) - ph.vaddr) \div PAGE
  BY <1>5, PageOfAddress
<1>10. v \in VPages /\ v \in PagesOf(ph) /\ FrameOf[v] \in Nat /\ FrameOf[v] = (p + d) \div P
  BY <1>1, <1>7, <1>8, <1>9
<1>11. FrameOf[v] = ((region.base + ph.paddr) \div PAGE) + k
  BY <1>1, <1>2, <1>6, <1>10
<1>12. ph.vaddr + k * PAGE = x + d
  BY <1>1, <1>2, <1>3
<1> QED
  BY <1>1, <1>5, <1>7, <1>10, <1>11, <1>12

(***************************************************************************)
(* The heap has room for the tables.                                       *)
(***************************************************************************)
AllPages == UNION {PagesOf(ph) : ph \in Segments}

Needed ==
  ({<<Index4(v)>> : v \in AllPages} \cup {<<Index4(v), Index3(v)>> : v \in AllPages}
     \cup {<<Index4(v), Index3(v), Index2(v)>> : v \in AllPages}) \ {<<0>>, <<0, 0>>, <<0, 0, 0>>}

(* The first whole page behind the file system object.                     *)
FirstPage == (HeapBase + FS_SIZE + PAGE - 1) \div PAGE

LEMMA PagesAreFinite ==
  ASSUME Booting, Linked
  PROVE  IsFiniteSet(AllPages)
PROOF
<1>1. PICK B \in Nat : B = Fan * Fan * Fan * Fan
  BY Powers
<1>2. ASSUME NEW ph \in Segments PROVE PagesOf(ph) \subseteq 0 .. B
  <2>1. PICK P \in Nat \ {0} : P = PAGE
    BY Sizes
  <2>2. PICK x \in Nat, m \in Nat : x = ph.vaddr /\ m = ph.memsz
    BY SegmentNumbers
  <2>3. x + m - 1 \in Nat /\ x + m - 1 < B * P
    <3>1. x >= MEGABYTE /\ x + m <= B * P
      BY <1>1, <2>1, <2>2, SegmentIs DEF Linked
    <3>2. PICK y \in Nat : y = B * P
      OBVIOUS
    <3> QED
      BY <2>2, <3>1, <3>2, Megabyte
  <2>4. PICK z \in Nat : z = x + m - 1
    BY <2>3
  <2>5. z \div P < B /\ z \div P \in Nat /\ x \div P \in Nat
    BY <2>3, <2>4, BelowProduct, Division
  <2>6. PagesOf(ph) = (x \div P) .. (z \div P)
    BY <2>1, <2>2, <2>4 DEF PagesOf
  <2> QED
    BY <2>5, <2>6
<1>3. AllPages \subseteq 0 .. B
  BY <1>2 DEF AllPages
<1>4. IsFiniteSet(0 .. B)
  BY <1>1, FS_Interval
<1> QED
  BY <1>3, <1>4, FS_Subset

LEMMA NeededIsFinite ==
  ASSUME Booting, Linked
  PROVE  IsFiniteSet(Needed)
PROOF
<1> DEFINE f3 == [v \in AllPages |-> <<Index4(v)>>]
           f2 == [v \in AllPages |-> <<Index4(v), Index3(v)>>]
           f1 == [v \in AllPages |-> <<Index4(v), Index3(v), Index2(v)>>]
<1>1. IsFiniteSet(AllPages)
  BY PagesAreFinite
<1>2. ASSUME NEW f, f = [v \in AllPages |-> f[v]] PROVE IsFiniteSet({f[v] : v \in AllPages})
  <2>1. f \in Surjection(AllPages, {f[v] : v \in AllPages})
    BY <1>2 DEF Surjection
  <2> QED
    BY <1>1, <2>1, FS_Surjection
<1>3. /\ IsFiniteSet({f3[v] : v \in AllPages}) /\ IsFiniteSet({f2[v] : v \in AllPages})
      /\ IsFiniteSet({f1[v] : v \in AllPages})
  <2>1. f3 = [v \in AllPages |-> f3[v]] /\ f2 = [v \in AllPages |-> f2[v]]
          /\ f1 = [v \in AllPages |-> f1[v]]
    OBVIOUS
  <2> HIDE DEF f3, f2, f1
  <2> QED
    BY <1>2, <2>1
<1>4. /\ {f3[v] : v \in AllPages} = {<<Index4(v)>> : v \in AllPages}
      /\ {f2[v] : v \in AllPages} = {<<Index4(v), Index3(v)>> : v \in AllPages}
      /\ {f1[v] : v \in AllPages} = {<<Index4(v), Index3(v), Index2(v)>> : v \in AllPages}
  OBVIOUS
<1> DEFINE a == {f3[v] : v \in AllPages}
           b == {f2[v] : v \in AllPages}
           c == {f1[v] : v \in AllPages}
<1>5. Needed \subseteq (a \cup b) \cup c
  BY <1>4 DEF Needed
<1> HIDE DEF a, b, c
<1>6. IsFiniteSet(a) /\ IsFiniteSet(b) /\ IsFiniteSet(c)
  BY <1>3 DEF a, b, c
<1>7. IsFiniteSet((a \cup b) \cup c)
  BY <1>6, FS_Union
<1> QED
  BY <1>5, <1>7, FS_Subset

LEMMA RoomIs ==
  ASSUME Booting, Linked, Roomy
  PROVE  Room(Needed, FirstPage) /\ HeapBase + FS_SIZE <= FirstPage * PAGE
PROOF
<1>1. PICK n \in Nat : n = Cardinality(Needed)
  BY NeededIsFinite, FS_CardinalityType
<1>2. n <= TablesLeft
  BY <1>1 DEF Roomy, TablesNeeded, Needed, AllPages
<1>3. PICK P \in Nat \ {0} : P = PAGE
  BY Sizes
<1>4. /\ HeapBase \in Nat \ {0} /\ HeapSize \in Nat /\ FS_SIZE \in Nat \ {0}
  BY HeapAssumption, Limits
<1>5. PICK e \in Nat : e = HeapBase + FS_SIZE + P - 1
  BY <1>4
<1>6. PICK q \in Nat, r \in 0 .. P - 1 : e = P * q + r /\ q = e \div P /\ r = e % P
  BY Division
<1>7. FirstPage = q
  BY <1>3, <1>5, <1>6 DEF FirstPage
<1>8. PICK h \in Nat : h = P * q
  OBVIOUS
<1>9. e - (e % P) = h
  <2>1. e = h + r
    BY <1>6, <1>8, Zenon
  <2>2. e - r = h
    BY <1>6, <1>8, <2>1
  <2> QED
    BY <1>6, <2>2
<1>10. PICK x \in Int : x = HeapBase + HeapSize - 1 - h
  BY <1>4
<1>11. TablesLeft = x \div P
  BY <1>3, <1>5, <1>9, <1>10 DEF TablesLeft
<1>12. x = P * (x \div P) + (x % P) /\ x % P \in 0 .. P - 1 /\ x \div P \in Int
  OBVIOUS
<1>13. PICK t \in Int : t = x \div P
  BY <1>12
<1>14. P * n <= P * t
  BY <1>2, <1>11, <1>13
<1>15. PICK y \in Int, z \in Nat : y = P * t /\ z = P * n
  <2>1. P * t \in Int /\ P * n \in Nat
    OBVIOUS
  <2> QED
    BY <2>1
<1>16. z <= x
  <2>1. x % P \in Nat
    BY <1>12
  <2>2. PICK o \in Nat : o = x % P
    BY <2>1
  <2> QED
    BY <1>12, <1>13, <1>14, <1>15, <2>2
<1>17. h + z < HeapBase + HeapSize
  BY <1>4, <1>10, <1>16
<1>18. (q + n) * P = h + z
  BY <1>8, <1>15
<1>19. (FirstPage + Cardinality(Needed)) * PAGE < HeapBase + HeapSize
  BY <1>1, <1>3, <1>7, <1>17, <1>18
<1>20. HeapBase + FS_SIZE <= h /\ h = q * P
  BY <1>4, <1>5, <1>6, <1>8
<1> QED
  BY <1>3, <1>6, <1>7, <1>19, <1>20, NeededIsFinite DEF Room

(* The tables on the way to a page of the image are among those.           *)
LEMMA WayIs ==
  ASSUME NEW v \in AllPages, NEW lowest \in 1 .. 2
  PROVE  Way(Needed, v, lowest)
PROOF
<1>1. <<Index4(v)>> \in Needed \cup FirstNames /\ <<Index4(v), Index3(v)>> \in Needed \cup FirstNames
        /\ <<Index4(v), Index3(v), Index2(v)>> \in Needed \cup FirstNames
  BY Zenon DEF Needed, FirstNames
<1>2. \A l \in lowest .. 3 : l = 1 \/ l = 2 \/ l = 3
  OBVIOUS
<1> QED
  BY <1>1, <1>2, NamesAre DEF Way

(***************************************************************************)
(* The memory of the loader while it has tables for all it maps.           *)
(***************************************************************************)
Built(s) == \E F : Grown(s, F, FrameOf, BigPages, Needed, FirstPage)

Found(m, v) == Walk(m, Pml4, v) # Nowhere

LEMMA HeldIsFound ==
  ASSUME Booting, Linked, NEW s, NEW F, Grown(s, F, FrameOf, BigPages, Needed, FirstPage),
         NEW v \in VPages
  PROVE  /\ Held(s.mem, F, BigPages, v) <=> Found(s.mem, v)
         /\ Found(s.mem, v) => Walk(s.mem, Pml4, v) = FrameOf[v] /\ FrameOf[v] \in Nat
PROOF
<1>1. Tree(s.mem, F, FrameOf, BigPages) /\ Layout(FrameOf, BigPages)
  BY LayoutIs DEF Grown
<1>2. /\ Held(s.mem, F, BigPages, v) => FrameOf[v] \in Nat
      /\ Walk(s.mem, Pml4, v) = IF Held(s.mem, F, BigPages, v) THEN FrameOf[v] ELSE Nowhere
  BY <1>1, WalkIs
<1> QED
  BY <1>2, NoTable DEF Found

LEMMA FoundIs ==
  ASSUME Booting, Linked, NEW s, Built(s), NEW v \in VPages, Found(s.mem, v)
  PROVE  Walk(s.mem, Pml4, v) = FrameOf[v] /\ FrameOf[v] \in Nat
PROOF
<1>1. PICK F : Grown(s, F, FrameOf, BigPages, Needed, FirstPage)
  BY DEF Built
<1> QED
  BY <1>1, HeldIsFound

(* A page has small tables or large ones.                                  *)
LEMMA SmallPage ==
  ASSUME Booting, Linked, NEW ph \in Segments, ~InLarge(ph), NEW a \in Addresses(ph)
  PROVE  a \div PAGE \notin BigPages
PROOF
<1> SUFFICES ASSUME a \div PAGE \in BigPages PROVE FALSE
  OBVIOUS
<1>1. PICK other \in Segments :
        InLarge(other) /\ ((a \div PAGE) \div Fan) * LARGE \in Addresses(other)
  BY DEF BigPages
<1>2. a \in Nat
  BY PageOfAddress
<1>3. a \in Addresses(other)
  BY <1>1, <1>2, BlockOfAddress
<1>4. ph = other
  BY <1>3 DEF Linked
<1> QED
  BY <1>1, <1>4

LEMMA LargePage ==
  ASSUME Booting, Linked, NEW ph \in Segments, InLarge(ph), NEW a \in Addresses(ph)
  PROVE  a \div PAGE \in BigPages /\ (a \div PAGE) \div Fan = a \div LARGE
PROOF
<1>1. a \in Nat /\ a \div PAGE \in VPages
  BY PageOfAddress
<1>2. ((a \div PAGE) \div Fan) * LARGE \in Addresses(ph)
  BY <1>1, BlockOfAddress
<1>3. (a \div PAGE) \div Fan = a \div LARGE
  BY <1>1, Sizes, QuotientOfQuotient
<1> QED
  BY <1>1, <1>2, <1>3 DEF BigPages

LEMMA StartOfBlock ==
  ASSUME NEW P \in Nat \ {0}, NEW F \in Nat \ {0}, NEW a \in Nat, a % (P * F) = 0
  PROVE  (a \div P) % F = 0
PROOF
<1>1. PICK L \in Nat \ {0} : L = P * F
  OBVIOUS
<1>2. PICK q \in Nat : a = L * q
  <2>1. a = L * (a \div L) + (a % L) /\ a \div L \in Nat /\ a % L = 0
    BY <1>1, Division
  <2>2. PICK q \in Nat : q = a \div L
    BY <2>1
  <2> QED
    BY <2>1, <2>2
<1>3. PICK k \in Nat : k = F * q
  OBVIOUS
<1>4. a = P * k + 0
  <2>1. (P * F) * q = P * (F * q)
    OBVIOUS
  <2> QED
    BY <1>1, <1>2, <1>3, <2>1
<1>5. a \div P = k
  <2>1. 0 \in 0 .. P - 1
    OBVIOUS
  <2>2. (P * k + 0) \div P = k
    BY <2>1, QuotientIs
  <2> QED
    BY <1>4, <2>2
<1>6. (F * q + 0) % F = 0
  <2>1. 0 \in 0 .. F - 1
    OBVIOUS
  <2> QED
    BY <2>1, QuotientIs
<1>7. F * q + 0 = k
  BY <1>3
<1> QED
  BY <1>5, <1>6, <1>7

(* The pages counted are pages of the segment.                             *)
LEMMA CountedPages ==
  ASSUME Booting, Linked, elf.data = region.base, NEW ph \in Segments, NEW n \in Nat, n < Pages(ph)
  PROVE  /\ InLargePages(ph) <=> InLarge(ph)
         /\ Phys(ph) = region.base + ph.paddr
         /\ ~InLarge(ph) => n * PAGE < ph.memsz
         /\ InLarge(ph) => n * LARGE < ph.memsz
PROOF
<1>1. Phys(ph) = region.base + ph.paddr
  BY DEF Phys
<1>2. InLargePages(ph) <=> InLarge(ph)
  BY <1>1 DEF InLarge, InLargePages
<1>3. PICK P \in Nat \ {0}, L \in Nat \ {0}, m \in Nat : P = PAGE /\ L = LARGE /\ m = ph.memsz
  BY Sizes, SegmentNumbers
<1>4. CASE ~InLarge(ph)
  <2>1. n < (m + P - 1) \div P
    BY <1>2, <1>3, <1>4 DEF Pages
  <2>2. PICK k \in Nat : k = m + P - 1
    BY <1>3
  <2>3. PICK q \in Nat : q = k \div P
    BY <1>3, <2>2, Division
  <2>4. (n + 1) * P <= k
    <3>1. n + 1 <= q /\ n + 1 \in Nat /\ (n + 1) * P \in Nat
      BY <2>1, <2>2, <2>3, <1>3
    <3>2. ~(q < n + 1)
      BY <3>1, <2>3
    <3> QED
      BY <1>3, <2>2, <2>3, <3>1, <3>2, BelowProduct
  <2>5. (n + 1) * P = n * P + P /\ n * P \in Nat
    BY <1>3
  <2>6. PICK d \in Nat : d = n * P
    BY <2>5
  <2>7. d < m
    BY <1>3, <2>2, <2>4, <2>5, <2>6
  <2> QED
    BY <1>1, <1>2, <1>3, <1>4, <2>6, <2>7
<1>5. CASE InLarge(ph)
  <2>1. n < m \div L
    BY <1>2, <1>3, <1>5 DEF Pages
  <2>2. PICK q \in Nat : q = m \div L
    BY <1>3, Division
  <2>3. (n + 1) * L <= m
    <3>1. n + 1 <= q /\ n + 1 \in Nat /\ (n + 1) * L \in Nat
      BY <2>1, <2>2, <1>3
    <3>2. PICK k \in Nat : k = n + 1
      BY <3>1
    <3>3. ~(m \div L < k)
      BY <2>2, <3>1, <3>2
    <3>4. ~(m < k * L)
      BY <1>3, <3>2, <3>3, BelowProduct
    <3> QED
      BY <1>3, <3>1, <3>2, <3>4
  <2>4. (n + 1) * L = n * L + L /\ n * L \in Nat
    BY <1>3
  <2>5. PICK d \in Nat : d = n * L
    BY <2>4
  <2>6. d < m
    BY <1>3, <2>3, <2>4, <2>5
  <2> QED
    BY <1>1, <1>2, <1>3, <1>5, <2>5, <2>6
<1> QED
  BY <1>4, <1>5

(* Mapping a page of a segment: what was found is still found, and so is   *)
(* the page, or all pages of the block.                                    *)
LEMMA MapOnePlaces ==
  ASSUME Booting, Linked, Roomy, elf.data = region.base, NEW ph \in Segments,
         NEW n \in Nat, n < Pages(ph), NEW s, Built(s), NEW r, r = MapOne(s, ph, n)
  PROVE  /\ Built(r) /\ r.at # Nowhere
         /\ \A w \in VPages : Found(s.mem, w) => Found(r.mem, w)
         /\ \A w \in VPages : Touched(ph, n + 1, w) /\ ~Touched(ph, n, w) => Found(r.mem, w)
PROOF
<1>1. PICK F : Grown(s, F, FrameOf, BigPages, Needed, FirstPage)
  BY DEF Built
<1>2. Layout(FrameOf, BigPages) /\ Room(Needed, FirstPage) /\ PageRequest \in Requests
  BY LayoutIs, RoomIs, RequestsMade
<1>3. ASSUME NEW G, Grown(r, G, FrameOf, BigPages, Needed, FirstPage), r.at \in TableFrames,
             Keeps(s.mem, F, r.mem, G, BigPages),
             \A w \in VPages : Touched(ph, n + 1, w) /\ ~Touched(ph, n, w) => Held(r.mem, G, BigPages, w)
      PROVE  /\ Built(r) /\ r.at # Nowhere
             /\ \A w \in VPages : Found(s.mem, w) => Found(r.mem, w)
             /\ \A w \in VPages : Touched(ph, n + 1, w) /\ ~Touched(ph, n, w) => Found(r.mem, w)
  <2>1. Built(r)
    BY <1>3 DEF Built
  <2>2. r.at # Nowhere
    BY <1>3, NoTable
  <2>3. ASSUME NEW w \in VPages, Found(s.mem, w) PROVE Found(r.mem, w)
    <3>1. Held(s.mem, F, BigPages, w)
      BY <1>1, <2>3, HeldIsFound
    <3>2. Held(r.mem, G, BigPages, w)
      BY <1>3, <3>1 DEF Keeps
    <3> QED
      BY <1>3, <3>2, HeldIsFound
  <2>4. ASSUME NEW w \in VPages, Touched(ph, n + 1, w), ~Touched(ph, n, w) PROVE Found(r.mem, w)
    <3>1. Held(r.mem, G, BigPages, w)
      BY <1>3, <2>4
    <3> QED
      BY <1>3, <3>1, HeldIsFound
  <2> QED
    BY <2>1, <2>2, <2>3, <2>4
<1>4. /\ InLargePages(ph) <=> InLarge(ph)
      /\ Phys(ph) = region.base + ph.paddr
      /\ ~InLarge(ph) => n * PAGE < ph.memsz
      /\ InLarge(ph) => n * LARGE < ph.memsz
  BY CountedPages
<1>5. CASE ~InLarge(ph)
  <2>1. PICK v : v = (ph.vaddr \div PAGE) + n
    OBVIOUS
  <2>2. /\ v \in VPages /\ v \in PagesOf(ph) /\ FrameOf[v] \in Nat
        /\ FrameOf[v] = ((region.base + ph.paddr) \div PAGE) + n
        /\ ph.vaddr + n * PAGE \in Addresses(ph) /\ (ph.vaddr + n * PAGE) \div PAGE = v
    BY <1>4, <1>5, <2>1, PageOfSegment
  <2>3. v \notin BigPages
    <3>1. PICK a \in Addresses(ph) : a \div PAGE = v
      BY <2>2
    <3> QED
      BY <1>5, <3>1, SmallPage
  <2>4. Way(Needed, v, 1)
    <3>1. v \in AllPages /\ 1 \in 1 .. 2
      BY <2>2 DEF AllPages
    <3> QED
      BY <3>1, WayIs
  <2>5. r = Store(get_or_create_table(DirectoryOf(s, v), Index2(v)), Index1(v), Link(FrameOf[v]))
    <3>1. r = map_4k(s, ph.vaddr, region.base + ph.paddr, n)
      BY <1>4, <1>5 DEF MapOne
    <3> QED
      BY <2>1, <2>2, <3>1 DEF map_4k
  <2>6. PICK G : /\ Grown(r, G, FrameOf, BigPages, Needed, FirstPage) /\ r.at \in TableFrames
                 /\ Keeps(s.mem, F, r.mem, G, BigPages) /\ Held(r.mem, G, BigPages, v)
    BY <1>1, <1>2, <2>2, <2>3, <2>4, <2>5, SmallPageTree
  <2>7. ASSUME NEW w \in VPages, Touched(ph, n + 1, w), ~Touched(ph, n, w) PROVE w = v
    <3>1. PICK q \in Nat : q = ph.vaddr \div PAGE
      BY Sizes, SegmentNumbers, Division
    <3>2. w \in Nat
      BY Powers DEF VPages
    <3> QED
      BY <1>5, <2>1, <2>7, <3>1, <3>2 DEF Touched
  <2> QED
    BY <1>3, <2>6, <2>7
<1>6. CASE InLarge(ph)
  <2>1. PICK v : v = (ph.vaddr \div PAGE) + n * Fan
    OBVIOUS
  <2>2. PICK k \in Nat : k = n * Fan
    BY Sizes
  <2>3. k * PAGE = n * LARGE
    <3>1. PICK P \in Nat, f \in Nat : P = PAGE /\ f = Fan
      BY Sizes
    <3>2. (n * f) * P = n * (P * f)
      BY <3>1
    <3> QED
      BY <2>2, <3>1, <3>2, Sizes
  <2>4. k * PAGE < ph.memsz /\ v = (ph.vaddr \div PAGE) + k
    BY <1>4, <1>6, <2>1, <2>2, <2>3
  <2>5. /\ v \in VPages /\ v \in PagesOf(ph) /\ FrameOf[v] \in Nat
        /\ FrameOf[v] = ((region.base + ph.paddr) \div PAGE) + k
        /\ ph.vaddr + k * PAGE \in Addresses(ph) /\ (ph.vaddr + k * PAGE) \div PAGE = v
    BY <2>4, PageOfSegment
  <2>6. PICK a \in Addresses(ph) : a = ph.vaddr + n * LARGE /\ a \div PAGE = v
    BY <2>3, <2>5
  <2>7. v \in BigPages /\ v \div Fan = a \div LARGE
    BY <1>6, <2>6, LargePage
  <2>8. /\ a \in Nat /\ a \div LARGE = (ph.vaddr \div LARGE) + n
        /\ a % LARGE = 0
    <3>1. ph.vaddr \in Nat /\ ph.vaddr % LARGE = 0
      BY <1>6, SegmentNumbers DEF InLarge
    <3>2. /\ ph.vaddr + n * LARGE \in Nat
          /\ (ph.vaddr + n * LARGE) \div LARGE = (ph.vaddr \div LARGE) + n
          /\ (ph.vaddr + n * LARGE) % LARGE = ph.vaddr % LARGE
      BY <3>1, Sizes, PagesOn
    <3> QED
      BY <2>6, <3>1, <3>2
  <2>9. Index1(v) = 0
    BY <2>6, <2>8, Sizes, StartOfBlock DEF Index1
  <2>10. Way(Needed, v, 2)
    <3>1. v \in AllPages /\ 2 \in 1 .. 2
      BY <2>5 DEF AllPages
    <3> QED
      BY <3>1, WayIs
  <2>11. r = Store(DirectoryOf(s, v), Index2(v), Large(FrameOf[v]))
    <3>1. r = map_2m(s, ph.vaddr, region.base + ph.paddr, n)
      BY <1>4, <1>6 DEF MapOne
    <3> QED
      BY <2>1, <2>2, <2>5, <3>1 DEF map_2m
  <2>12. PICK G : /\ Grown(r, G, FrameOf, BigPages, Needed, FirstPage) /\ r.at \in TableFrames
                  /\ Keeps(s.mem, F, r.mem, G, BigPages)
                  /\ \A w \in VPages : w \div Fan = v \div Fan => Held(r.mem, G, BigPages, w)
    BY <1>1, <1>2, <2>5, <2>7, <2>9, <2>10, <2>11, LargePageTree
  <2>13. ASSUME NEW w \in VPages, Touched(ph, n + 1, w), ~Touched(ph, n, w)
         PROVE  w \div Fan = v \div Fan
    <3>1. PICK q \in Nat : q = ph.vaddr \div LARGE
      BY Sizes, SegmentNumbers, Division
    <3>2. PICK x \in Nat : x = w \div Fan
      <4>1. w \in Nat
        BY Powers DEF VPages
      <4> QED
        BY <4>1, Sizes, Division
    <3> QED
      BY <1>6, <2>7, <2>8, <2>13, <3>1, <3>2 DEF Touched
  <2> QED
    BY <1>3, <2>12, <2>13
<1> QED
  BY <1>5, <1>6

(* What is counted reaches every address, but for a segment across a page  *)
(* boundary.                                                               *)
LEMMA CountedAreAll ==
  ASSUME Booting, Linked, elf.data = region.base, NEW ph \in Segments, ~Straddles(ph),
         NEW a \in Addresses(ph)
  PROVE  Touched(ph, Pages(ph), a \div PAGE)
PROOF
<1>1. InLargePages(ph) <=> InLarge(ph)
  BY DEF InLarge, InLargePages, Phys
<1>2. PICK P \in Nat \ {0}, L \in Nat \ {0}, v \in Nat, m \in Nat :
        P = PAGE /\ L = LARGE /\ v = ph.vaddr /\ m = ph.memsz
  BY Sizes, SegmentNumbers
<1>3. a \in Nat /\ v <= a /\ a < v + m
  BY <1>2 DEF Addresses
<1>4. CASE InLarge(ph)
  <2>1. (a \div PAGE) \div Fan = a \div L
    BY <1>2, <1>4, LargePage
  <2>2. v \div L <= a \div L
    BY <1>2, <1>3, QuotientsOrdered
  <2>3. PICK k \in Nat : k = m \div L
    BY <1>2, Division
  <2>4. m = k * L
    <3>1. m = L * (m \div L) + (m % L) /\ m % L = 0
      BY <1>2, <1>4, Division DEF InLarge
    <3> QED
      BY <1>2, <2>3, <3>1
  <2>5. (v + k * L) \div L = (v \div L) + k
    BY <1>2, <2>3, PagesOn
  <2>6. v % L = 0
    BY <1>2, <1>4 DEF InLarge
  <2>7. PICK q \in Nat : q = v \div L /\ v = L * q
    <3>1. v = L * (v \div L) + (v % L) /\ v \div L \in Nat
      BY <1>2, Division
    <3>2. PICK q \in Nat : q = v \div L
      BY <3>1
    <3> QED
      BY <1>2, <2>6, <3>1, <3>2
  <2>8. PICK e \in Nat : e = (q + k) * L
    BY <1>2, <2>3, <2>7
  <2>9. a < (q + k) * L
    <3>1. (q + k) * L = q * L + k * L /\ q * L = L * q
      BY <1>2, <2>3, <2>7
    <3>2. e = v + m
      BY <1>2, <2>4, <2>7, <2>8, <3>1
    <3> QED
      BY <1>3, <2>8, <3>2
  <2>10. PICK o \in Nat : o = q + k
    BY <2>3, <2>7
  <2>11. a \div L < o
    BY <1>2, <1>3, <2>9, <2>10, BelowProduct
  <2>12. Pages(ph) = k
    BY <1>1, <1>2, <1>4, <2>3 DEF Pages
  <2>13. ph.vaddr \div LARGE = q
    BY <1>2, <2>7
  <2> QED
    BY <1>4, <2>1, <2>2, <2>7, <2>10, <2>11, <2>12, <2>13 DEF Touched
<1>5. CASE ~InLarge(ph)
  <2>1. v \div P <= a \div P
    BY <1>2, <1>3, QuotientsOrdered
  <2>2. PICK k \in Nat : k = (m + P - 1) \div P
    <3>1. PICK z \in Nat : z = m + P - 1
      BY <1>2
    <3> QED
      BY <1>2, <3>1, Division
  <2>3. (v % P) + m <= k * P
    BY <1>2, <2>2 DEF Straddles
  <2>4. PICK q \in Nat, i \in Nat : q = v \div P /\ i = v % P /\ v = P * q + i
    <3>0. P \in Nat \ {0} /\ v \in Nat
      BY <1>2
    <3>1. v = P * (v \div P) + (v % P) /\ v \div P \in Nat /\ v % P \in Nat
      <4>1. v = P * (v \div P) + (v % P) /\ v \div P \in Nat /\ v % P \in 0 .. P - 1
        BY <3>0, Division
      <4>2. v % P \in Nat
        BY <3>0, <4>1
      <4> QED
        BY <4>1, <4>2
    <3>2. PICK q \in Nat, i \in Nat : q = v \div P /\ i = v % P
      BY <3>1
    <3> QED
      BY <1>2, <3>1, <3>2
  <2>5. PICK x \in Nat, y \in Nat, e \in Nat : x = k * P /\ y = P * q /\ e = (q + k) * P
    <3>0. P \in Nat /\ k \in Nat /\ q \in Nat
      BY <1>2, <2>2, <2>4
    <3>1. k * P \in Nat /\ P * q \in Nat /\ (q + k) * P \in Nat
      BY <3>0
    <3> QED
      BY <3>1
  <2>6. e = x + y
    <3>1. (q + k) * P = P * q + k * P
      BY <1>2, <2>2, <2>4
    <3> QED
      BY <2>5, <3>1
  <2>7. v = y + i /\ i + m <= x
    BY <2>3, <2>4, <2>5
  <2>8. a < e
    <3>1. a \in Nat /\ m \in Nat /\ i \in Nat /\ x \in Nat /\ y \in Nat /\ e \in Nat
      BY <1>2, <1>3, <2>4, <2>5
    <3> QED
      BY <1>3, <2>6, <2>7, <3>1
  <2>9. PICK o \in Nat : o = q + k
    BY <2>2, <2>4
  <2>10. a \div P < o
    BY <1>2, <1>3, <2>5, <2>8, <2>9, BelowProduct
  <2>11. Pages(ph) = k
    BY <1>1, <1>2, <1>5, <2>2 DEF Pages
  <2>12. ph.vaddr \div PAGE = q /\ a \div PAGE = a \div P
    BY <1>2, <2>4
  <2> QED
    BY <1>5, <2>1, <2>4, <2>9, <2>10, <2>11, <2>12 DEF Touched
<1> QED
  BY <1>4, <1>5

(***************************************************************************)
(* What a write does.                                                      *)
(***************************************************************************)
LEMMA AddressLeads ==
  ASSUME Booting, Linked, cr3 = Pml4, NEW s, Built(s), NEW ph \in Segments, NEW a \in Addresses(ph)
  PROVE  /\ Mapped(s.mem, a) <=> Found(s.mem, a \div PAGE)
         /\ Mapped(s.mem, a) => Physical(s.mem, a) = Cell(ph, a - ph.vaddr)
PROOF
<1>1. Mapped(s.mem, a) <=> Found(s.mem, a \div PAGE)
  BY DEF Mapped, Found
<1>2. a \div PAGE \in VPages /\ FrameOf[a \div PAGE] * PAGE + (a % PAGE) = Cell(ph, a - ph.vaddr)
  BY PageOfAddress
<1>3. ASSUME Mapped(s.mem, a) PROVE Physical(s.mem, a) = Cell(ph, a - ph.vaddr)
  <2>1. Walk(s.mem, Pml4, a \div PAGE) = FrameOf[a \div PAGE]
    BY <1>1, <1>2, <1>3, FoundIs
  <2> QED
    BY <1>2, <2>1 DEF Physical
<1> QED
  BY <1>1, <1>3

LEMMA CellsApart ==
  ASSUME Booting, Linked, NEW ph \in Segments, NEW other \in Segments,
         NEW j \in 0 .. ph.memsz - 1, NEW i \in 0 .. other.memsz - 1, Cell(ph, j) = Cell(other, i)
  PROVE  ph = other /\ i = j
PROOF
<1>1. /\ ph.vaddr \in Nat /\ ph.paddr \in Nat /\ ph.memsz \in Nat
      /\ other.vaddr \in Nat /\ other.paddr \in Nat /\ other.memsz \in Nat /\ region.base \in Nat
  BY SegmentNumbers DEF Booting
<1>2. ph.paddr + j = other.paddr + i
  <2>1. PICK b \in Nat : b = region.base
    BY <1>1
  <2>2. b + ph.paddr + j = b + other.paddr + i
    BY <2>1 DEF Cell
  <2> QED
    BY <1>1, <2>1, <2>2
<1>3. ph.vaddr - ph.paddr = other.vaddr - other.paddr
  BY DEF Linked
<1>4. ph.vaddr + j = other.vaddr + i
  BY <1>1, <1>2, <1>3
<1>5. ph.vaddr + j \in Addresses(ph) /\ other.vaddr + i \in Addresses(other)
  BY <1>1 DEF Addresses
<1>6. ph = other
  BY <1>4, <1>5 DEF Linked
<1> QED
  BY <1>1, <1>2, <1>6

(* n units from unit k of a segment on.                                    *)
Wrote(s, r, ph, k, n, values) ==
  /\ \A j \in 1 .. n : /\ Cell(ph, k + j - 1) \in DOMAIN r.ram
                       /\ r.ram[Cell(ph, k + j - 1)] = values[j]
  /\ DOMAIN r.ram = DOMAIN s.ram \cup {Cell(ph, k + j - 1) : j \in 1 .. n}
  /\ \A c \in DOMAIN s.ram :
       (\A j \in 1 .. n : c # Cell(ph, k + j - 1)) => r.ram[c] = s.ram[c]

AllFound(m, ph, k, n) == \A j \in 1 .. n : Found(m, (ph.vaddr + k + j - 1) \div PAGE)

LEMMA WriteIs ==
  ASSUME Booting, Linked, cr3 = Pml4, NEW s, Built(s), s.at # Nowhere, NEW ph \in Segments,
         NEW k \in Nat, NEW n \in Nat, k + n <= ph.memsz, NEW values, DOMAIN values = 1 .. n,
         NEW r, r = Write(s, ph.vaddr + k, values)
  PROVE  /\ Built(r) /\ r.mem = s.mem
         /\ r.at = Nowhere <=> ~AllFound(s.mem, ph, k, n)
         /\ r.at = Nowhere => r.ram = s.ram
         /\ r.at # Nowhere => Wrote(s, r, ph, k, n, values)
PROOF
<1>1. PICK F : Grown(s, F, FrameOf, BigPages, Needed, FirstPage)
  BY DEF Built
<1>2. SoundMemory(s) /\ SoundMemory(r)
  BY <1>1, WriteSound DEF Grown
<1>3. r.mem = s.mem /\ r.offset = s.offset /\ r.blocks = s.blocks
  BY <1>2 DEF Write, SoundMemory
<1>4. Built(r)
  <2>1. Grown(r, F, FrameOf, BigPages, Needed, FirstPage)
    BY <1>1, <1>2, <1>3 DEF Grown
  <2> QED
    BY <2>1 DEF Built
<1>5. ASSUME NEW j \in 1 .. n
      PROVE  /\ (ph.vaddr + k) + j - 1 = ph.vaddr + k + j - 1
             /\ ph.vaddr + k + j - 1 \in Addresses(ph)
             /\ (ph.vaddr + k + j - 1) - ph.vaddr = k + j - 1
             /\ k + j - 1 \in 0 .. ph.memsz - 1
  <2>1. ph.vaddr \in Nat /\ ph.memsz \in Nat
    BY SegmentNumbers
  <2> QED
    BY <2>1 DEF Addresses
<1> DEFINE to(j)   == Physical(s.mem, (ph.vaddr + k) + j - 1)
           hits(c) == {j \in DOMAIN values : to(j) = c}
           last(c) == CHOOSE j \in hits(c) : \A i \in hits(c) : i <= j
           new     == [c \in DOMAIN s.ram \cup {to(j) : j \in DOMAIN values} |->
                         IF hits(c) = {} THEN s.ram[c] ELSE values[last(c)]]
<1>6. \A j \in 1 .. n : Mapped(s.mem, (ph.vaddr + k) + j - 1)
                          <=> Found(s.mem, (ph.vaddr + k + j - 1) \div PAGE)
  BY <1>5, AddressLeads
<1>7. CASE ~AllFound(s.mem, ph, k, n)
  <2>1. \E j \in DOMAIN values : ~Mapped(s.mem, (ph.vaddr + k) + j - 1)
    BY <1>6, <1>7 DEF AllFound
  <2>2. r = [s EXCEPT !.at = Nowhere]
    BY <2>1 DEF Write
  <2>3. r.at = Nowhere /\ r.ram = s.ram
    BY <1>2, <2>2 DEF SoundMemory
  <2> QED
    BY <1>3, <1>4, <1>7, <2>3
<1>8. CASE AllFound(s.mem, ph, k, n)
  <2>1. ~\E j \in DOMAIN values : ~Mapped(s.mem, (ph.vaddr + k) + j - 1)
    BY <1>6, <1>8 DEF AllFound
  <2>2. r = [s EXCEPT !.ram = new]
    BY <2>1 DEF Write
  <2>3. r.at = s.at /\ r.ram = new
    BY <1>2, <2>2 DEF SoundMemory
  <2>4. ASSUME NEW j \in 1 .. n PROVE to(j) = Cell(ph, k + j - 1)
    <3>1. Mapped(s.mem, (ph.vaddr + k) + j - 1)
      BY <2>1
    <3> QED
      BY <1>5, <3>1, AddressLeads
  <2>5. ASSUME NEW j \in 1 .. n, NEW i \in 1 .. n, Cell(ph, k + j - 1) = Cell(ph, k + i - 1)
        PROVE  i = j
    <3>1. k + j - 1 \in 0 .. ph.memsz - 1 /\ k + i - 1 \in 0 .. ph.memsz - 1
      BY <1>5
    <3>2. k + i - 1 = k + j - 1
      BY <2>5, <3>1, CellsApart
    <3> QED
      BY <3>2
  <2> HIDE DEF to
  <2>6. ASSUME NEW j \in 1 .. n PROVE hits(Cell(ph, k + j - 1)) = {j}
    BY <2>4, <2>5
  <2>7. {to(j) : j \in DOMAIN values} = {Cell(ph, k + j - 1) : j \in 1 .. n}
    BY <2>4
  <2>8. DOMAIN r.ram = DOMAIN s.ram \cup {Cell(ph, k + j - 1) : j \in 1 .. n}
    BY <2>3, <2>7
  <2>9. ASSUME NEW j \in 1 .. n
        PROVE  Cell(ph, k + j - 1) \in DOMAIN r.ram /\ r.ram[Cell(ph, k + j - 1)] = values[j]
    <3>1. PICK c : c = Cell(ph, k + j - 1)
      OBVIOUS
    <3>2. c \in DOMAIN r.ram /\ hits(c) = {j}
      BY <2>6, <2>8, <3>1
    <3>3. last(c) = j
      <4> HIDE DEF hits
      <4> QED
        BY <3>2
    <3>4. new[c] = values[last(c)]
      <4>1. c \in DOMAIN s.ram \cup {to(i) : i \in DOMAIN values}
        BY <2>7, <3>1
      <4>2. hits(c) # {}
        BY <3>2
      <4> HIDE DEF hits, last
      <4> QED
        BY <4>1, <4>2
    <3> QED
      BY <2>3, <3>1, <3>2, <3>3, <3>4
  <2>10. ASSUME NEW c \in DOMAIN s.ram, \A j \in 1 .. n : c # Cell(ph, k + j - 1)
         PROVE  r.ram[c] = s.ram[c]
    <3>1. hits(c) = {}
      BY <2>4, <2>10
    <3> HIDE DEF hits
    <3> QED
      BY <2>3, <3>1
  <2>11. Wrote(s, r, ph, k, n, values)
    BY <2>8, <2>9, <2>10 DEF Wrote
  <2> QED
    BY <1>3, <1>4, <1>8, <2>3, <2>11
<1> QED
  BY <1>7, <1>8

(***************************************************************************)
(* What is so while readElf works: e is where it is, s the memory, f the   *)
(* number of sectors that failed.                                          *)
(***************************************************************************)
Count(ph) == IF InLarge(ph) THEN ph.memsz \div LARGE ELSE (ph.memsz + PAGE - 1) \div PAGE

MappedPages(m, ph, n) == \A v \in VPages : Touched(ph, n, v) => Found(m, v)

Reached(m, ph, n) == \A j \in 0 .. n - 1 : Found(m, (ph.vaddr + j) \div PAGE)

InPlace(r, ph, n) == \A j \in 0 .. n - 1 : Cell(ph, j) \in DOMAIN r /\ r[Cell(ph, j)] = Content(ph, j)

Placed(s, ph) ==
  /\ Whole \/ ~Straddles(ph) => Reached(s.mem, ph, ph.memsz)
  /\ Whole => InPlace(s.ram, ph, ph.memsz)

NamedCells ==
  UNION {(region.base + ph.paddr) .. (region.base + ph.paddr + ph.memsz - 1) : ph \in Segments}

BaseBelow(e, ph) == e.base # Nowhere /\ e.base <= region.base + ph.paddr

Done(e, s, n) ==
  \A i \in 1 .. n :
    media.kernel.phdrs[i].load => Placed(s, media.kernel.phdrs[i]) /\ BaseBelow(e, media.kernel.phdrs[i])

(* As long as no sector fails, the headers are looked at one by one, and   *)
(* the segments of those behind it are in place.                           *)
InStep(e, s) ==
  /\ e.op \in {"segments", "segment", "map", "clear"} =>
       /\ e.done <= Len(media.kernel.phdrs) /\ Done(e, s, e.done)
       /\ e.base = Nowhere \/ e.base >= region.base
  /\ e.op \in {"segment", "map", "clear"} =>
       e.done < Len(media.kernel.phdrs) /\ e.phdr = media.kernel.phdrs[e.done + 1]
  /\ e.op \in {"map", "clear"} => BaseBelow(e, e.phdr)
  /\ e.op = "clear" /\ Whole => Reached(s.mem, e.phdr, e.phdr.filesz) /\ InPlace(s.ram, e.phdr, e.phdr.filesz)
  /\ e.op = "returned" =>
       /\ e.entry = media.kernel.entry
       /\ (\E ph \in Segments : ph.paddr = 0) => e.phys_base = region.base
       /\ \A ph \in Segments : Placed(s, ph)

Loads(e, s, f) ==
  /\ Built(s) /\ DOMAIN s.ram \subseteq NamedCells
  /\ e.op # "idle"
  /\ e.op = "fault" => \E ph \in Segments : Straddles(ph)
  /\ e.op = "map" => e.mapped <= Count(e.phdr) /\ MappedPages(s.mem, e.phdr, e.mapped)
  /\ e.op = "clear" => MappedPages(s.mem, e.phdr, Count(e.phdr))
  /\ f = 0 /\ media.kernel.magic => InStep(e, s)

SameMemory(s, t) == s.mem = t.mem /\ s.offset = t.offset /\ s.blocks = t.blocks /\ s.ram = t.ram

LEMMA SameLoads ==
  ASSUME NEW s, NEW t, SoundMemory(t), SameMemory(s, t), NEW e, NEW f, Loads(e, s, f)
  PROVE  Loads(e, t, f)
PROOF
<1>1. Built(t)
  <2>1. PICK F : Grown(s, F, FrameOf, BigPages, Needed, FirstPage)
    BY DEF Loads, Built
  <2>2. Grown(t, F, FrameOf, BigPages, Needed, FirstPage)
    BY <2>1 DEF Grown, SameMemory
  <2> QED
    BY <2>2 DEF Built
<1>2. InStep(e, s) => InStep(e, t)
  <2>1. \A ph : Placed(t, ph) <=> Placed(s, ph)
    BY DEF SameMemory, Placed
  <2>2. \A n : Done(e, s, n) => Done(e, t, n)
    BY <2>1 DEF Done
  <2> QED
    BY <2>1, <2>2 DEF InStep, SameMemory
<1> QED
  BY <1>1, <1>2 DEF Loads, SameMemory

LEMMA CountIs ==
  ASSUME elf.data = region.base, NEW ph
  PROVE  Pages(ph) = Count(ph)
PROOF
<1>1. InLargePages(ph) <=> InLarge(ph)
  BY DEF InLarge, InLargePages, Phys
<1> QED
  BY <1>1 DEF Pages, Count

LEMMA BecomesIs ==
  ASSUME NEW s, SoundMemory(s), Becomes(s)
  PROVE  SoundMemory(Memory') /\ SameMemory(s, Memory') /\ cr3' = cr3
PROOF
<1>1. Memory' = [mem |-> mem', offset |-> heap_offset', blocks |-> blocks', ram |-> ram', at |-> Pml4]
  BY DEF Memory
<1> QED
  BY <1>1 DEF Becomes, SoundMemory, SameMemory

LEMMA MemoryStays ==
  ASSUME UNCHANGED memory
  PROVE  Memory' = Memory /\ cr3' = cr3
BY DEF memory, Memory

(***************************************************************************)
(* A step of readElf.                                                      *)
(***************************************************************************)
Working ==
  /\ Booting /\ Linked /\ Roomy /\ media.kernel # Missing /\ ElfInv /\ ~stray /\ cr3 = Pml4
  /\ faults \in Nat /\ SoundMemory(Memory) /\ Loads(elf, Memory, faults)

ScanType(ops) ==
  [op : ops, file : {media.kernel}, data : {region.base}, done : Nat, base : Nat \cup {Nowhere},
   phdr : Named, mapped : Nat]

LEMMA Scanning ==
  ASSUME Working, NEW o \in {"segments", "segment", "map", "clear"}, elf.op = o
  PROVE  /\ elf \in ScanType({o}) /\ elf.data = region.base /\ elf.file = media.kernel
         /\ o \in {"map", "clear"} => elf.phdr \in Segments
PROOF
<1>1. /\ elf \in [op : {"segments", "segment", "map", "clear"}, file : {media.kernel},
                  data : {region.base}, done : Nat, base : Nat \cup {Nowhere},
                  phdr : Named, mapped : Nat]
      /\ elf.op \in {"map", "clear"} => elf.phdr.load
  <2>1. Taken = Named
    BY DEF Working, Taken
  <2> QED
    BY <2>1 DEF Working, ElfInv
<1>2. elf \in ScanType({o})
  BY <1>1 DEF ScanType
<1>3. o \in {"map", "clear"} => elf.phdr \in Segments
  <2> SUFFICES ASSUME o \in {"map", "clear"} PROVE elf.phdr \in Segments
    OBVIOUS
  <2>1. elf.phdr \in Named /\ elf.phdr.load
    BY <1>1
  <2> QED
    BY <2>1, PhdrIsSegment DEF Working
<1> QED
  BY <1>1, <1>2, <1>3

LEMMA PhdrsAre ==
  ASSUME Booting, media.kernel # Missing
  PROVE  /\ media.kernel.phdrs \in Seq(PhdrType) /\ Len(media.kernel.phdrs) \in Nat
         /\ media.kernel.size \in Nat
         /\ \A i \in 1 .. Len(media.kernel.phdrs) :
              media.kernel.phdrs[i] \in Named
                /\ (media.kernel.phdrs[i].load => media.kernel.phdrs[i] \in Segments)
         /\ \A ph \in Segments : \E i \in 1 .. Len(media.kernel.phdrs) :
              ph = media.kernel.phdrs[i] /\ ph.load
PROOF
<1>1. media.kernel.phdrs \in Seq(PhdrType) /\ media.kernel.size \in Nat
  BY MediumFacts DEF Booting
<1>2. Len(media.kernel.phdrs) \in Nat /\ DOMAIN media.kernel.phdrs = 1 .. Len(media.kernel.phdrs)
  BY <1>1
<1>3. \A i \in 1 .. Len(media.kernel.phdrs) :
        media.kernel.phdrs[i] \in Named
          /\ (media.kernel.phdrs[i].load => media.kernel.phdrs[i] \in Segments)
  BY <1>2, PhdrIsSegment DEF Named
<1>4. \A ph \in Segments : \E i \in 1 .. Len(media.kernel.phdrs) :
        ph = media.kernel.phdrs[i] /\ ph.load
  BY <1>2 DEF Segments, Phdrs
<1> QED
  BY <1>1, <1>2, <1>3, <1>4

(* What is in place stays there.                                           *)
Keeping(s, r) ==
  \A ph \in Segments : \A n \in 0 .. ph.memsz :
    /\ Reached(s.mem, ph, n) => Reached(r.mem, ph, n)
    /\ Whole /\ InPlace(s.ram, ph, n) => InPlace(r.ram, ph, n)

LEMMA KeepingDone ==
  ASSUME Booting, media.kernel # Missing, NEW s, NEW r, Keeping(s, r), NEW e, NEW d, e.base = d.base,
         NEW n \in 0 .. Len(media.kernel.phdrs), Done(e, s, n)
  PROVE  Done(d, r, n)
PROOF
<1>1. ASSUME NEW i \in 1 .. n, media.kernel.phdrs[i].load
      PROVE  Placed(r, media.kernel.phdrs[i]) /\ BaseBelow(d, media.kernel.phdrs[i])
  <2>1. PICK ph \in Segments : ph = media.kernel.phdrs[i]
    <3>1. i \in 1 .. Len(media.kernel.phdrs)
      BY PhdrsAre
    <3> QED
      BY <1>1, <3>1, PhdrsAre
  <2>2. Placed(s, ph) /\ BaseBelow(e, ph)
    BY <1>1, <2>1 DEF Done
  <2>3. ph.memsz \in 0 .. ph.memsz
    BY SegmentNumbers
  <2>4. Placed(r, ph)
    BY <2>2, <2>3 DEF Placed, Keeping
  <2>5. BaseBelow(d, ph)
    BY <2>2 DEF BaseBelow
  <2> QED
    BY <2>1, <2>4, <2>5
<1> QED
  BY <1>1 DEF Done

(* The steps that leave memory alone.                                      *)
LEMMA ReadHeaderLoads ==
  ASSUME Working, ReadHeader
  PROVE  Loads(elf', Memory', faults')
PROOF
<1>1. Memory' = Memory /\ Built(Memory) /\ DOMAIN Memory.ram \subseteq NamedCells
  BY MemoryStays DEF Working, ReadHeader, Loads
<1>2. elf.op = "header" /\ elf.file = media.kernel
  BY DEF Working, ReadHeader, ElfInv
<1>3. CASE media.kernel.magic
  <2>1. elf' = [op |-> "segments", file |-> elf.file, data |-> elf.data, done |-> 0,
                base |-> Nowhere, phdr |-> NoSegment, mapped |-> 0]
    BY <1>2, <1>3 DEF ReadHeader
  <2>2. elf'.op = "segments" /\ elf'.done = 0 /\ elf'.base = Nowhere
    BY <2>1
  <2>3. 0 <= Len(media.kernel.phdrs) /\ Done(elf', Memory, 0)
    BY PhdrsAre DEF Working, Done
  <2> QED
    BY <1>1, <2>2, <2>3 DEF Loads, InStep
<1>4. CASE ~media.kernel.magic
  <2>1. elf' = [op |-> "returned", entry |-> 0, phys_base |-> 0]
    BY <1>2, <1>4 DEF ReadHeader
  <2>2. elf'.op = "returned"
    BY <2>1
  <2> QED
    BY <1>1, <1>4, <2>2 DEF Loads
<1> QED
  BY <1>3, <1>4

LEMMA ReadPhdrLoads ==
  ASSUME Working, ReadPhdr
  PROVE  Loads(elf', Memory', faults')
PROOF
<1>1. Memory' = Memory /\ Built(Memory) /\ DOMAIN Memory.ram \subseteq NamedCells
  BY MemoryStays DEF Working, ReadPhdr, Loads
<1>2. /\ elf \in ScanType({"segments"}) /\ elf.file = media.kernel
      /\ elf.op = "segments" /\ elf.done < Len(elf.file.phdrs)
  BY Scanning DEF ReadPhdr
<1>3. PICK got : /\ elf' = [elf EXCEPT !.op = "segment", !.phdr = got]
                 /\ got = elf.file.phdrs[elf.done + 1] \/ faults' > 0
  BY DEF ReadPhdr
<1>4. elf'.op = "segment" /\ elf'.done = elf.done /\ elf'.base = elf.base /\ elf'.phdr = got
  BY <1>2, <1>3 DEF ScanType
<1>5. ASSUME faults' = 0, media.kernel.magic PROVE InStep(elf', Memory)
  <2>1. faults = 0
    BY <1>5, Limits DEF ReadPhdr, SectorRead, SectorFails, Working
  <2>2. InStep(elf, Memory)
    BY <1>5, <2>1 DEF Working, Loads
  <2>3. elf'.phdr = media.kernel.phdrs[elf.done + 1] /\ elf.done < Len(media.kernel.phdrs)
    BY <1>2, <1>3, <1>4, <1>5
  <2>4. Done(elf, Memory, elf.done) => Done(elf', Memory, elf.done)
    BY <1>4 DEF Done, BaseBelow
  <2> QED
    BY <1>2, <1>4, <2>2, <2>3, <2>4 DEF InStep
<1> QED
  BY <1>1, <1>4, <1>5 DEF Loads

LEMMA SkipSegmentLoads ==
  ASSUME Working, SkipSegment
  PROVE  Loads(elf', Memory', faults')
PROOF
<1>1. Memory' = Memory /\ Built(Memory) /\ DOMAIN Memory.ram \subseteq NamedCells
  BY MemoryStays DEF Working, SkipSegment, Loads
<1>2. /\ elf \in ScanType({"segment"}) /\ elf.op = "segment" /\ ~elf.phdr.load /\ faults' = faults
      /\ elf' = [elf EXCEPT !.op = "segments", !.done = @ + 1]
  BY Scanning DEF SkipSegment
<1>3. elf'.op = "segments" /\ elf'.done = elf.done + 1 /\ elf'.base = elf.base /\ elf.done \in Nat
  BY <1>2 DEF ScanType
<1>4. InStep(elf, Memory) => InStep(elf', Memory)
  <2> SUFFICES ASSUME InStep(elf, Memory) PROVE InStep(elf', Memory)
    OBVIOUS
  <2>1. /\ Done(elf, Memory, elf.done) /\ elf.done < Len(media.kernel.phdrs)
        /\ elf.phdr = media.kernel.phdrs[elf.done + 1] /\ (elf.base = Nowhere \/ elf.base >= region.base)
    BY <1>2 DEF InStep
  <2>2. Done(elf', Memory, elf.done + 1)
    <3>1. ASSUME NEW i \in 1 .. elf.done + 1, media.kernel.phdrs[i].load PROVE i \in 1 .. elf.done
      BY <1>2, <1>3, <2>1, <3>1
    <3> QED
      BY <1>3, <2>1, <3>1 DEF Done, BaseBelow
  <2>3. elf.done + 1 <= Len(media.kernel.phdrs)
    BY <1>3, <2>1, PhdrsAre DEF Working
  <2> QED
    BY <1>3, <2>1, <2>2, <2>3 DEF InStep
<1> QED
  BY <1>1, <1>2, <1>3, <1>4 DEF Loads, Working

LEMMA LoadSegmentLoads ==
  ASSUME Working, LoadSegment
  PROVE  Loads(elf', Memory', faults')
PROOF
<1>1. Memory' = Memory /\ Built(Memory) /\ DOMAIN Memory.ram \subseteq NamedCells
  BY MemoryStays DEF Working, LoadSegment, Loads
<1>2. /\ elf \in ScanType({"segment"}) /\ elf.op = "segment" /\ elf.phdr.load /\ faults' = faults
      /\ elf' = [elf EXCEPT !.op = "map", !.mapped = 0, !.base = LowerBase(@, Phys(elf.phdr))]
      /\ elf.data = region.base /\ elf.phdr \in Named
  BY Scanning DEF LoadSegment, ScanType
<1>3. PICK p \in Nat : p = Phys(elf.phdr)
  <2>1. elf.phdr \in Segments
    BY <1>2, PhdrIsSegment DEF Working
  <2> QED
    BY <1>2, <2>1, SegmentNumbers DEF Working, Booting, Phys
<1>4. /\ elf'.op = "map" /\ elf'.mapped = 0 /\ elf'.done = elf.done /\ elf'.phdr = elf.phdr
      /\ elf'.base = (IF elf.base = Nowhere \/ p < elf.base THEN p ELSE elf.base)
      /\ elf.base \in Nat \cup {Nowhere}
  BY <1>2, <1>3 DEF ScanType, LowerBase
<1>5. elf.phdr \in Segments /\ p = region.base + elf.phdr.paddr
  BY <1>2, <1>3, PhdrIsSegment DEF Working, Phys
<1>6. 0 <= Count(elf.phdr) /\ MappedPages(Memory.mem, elf.phdr, 0)
  <2>1. PICK m \in Nat, P \in Nat \ {0}, L \in Nat \ {0} : m = elf.phdr.memsz /\ P = PAGE /\ L = LARGE
    BY <1>5, SegmentNumbers, Sizes DEF Working
  <2>2. 0 <= m \div L /\ 0 <= (m + P - 1) \div P
    <3>1. PICK z \in Nat : z = m + P - 1
      BY <2>1
    <3>2. m \div L \in Nat /\ z \div P \in Nat
      BY <2>1, <3>1, Division
    <3> QED
      BY <3>1, <3>2
  <2>3. 0 <= Count(elf.phdr)
    BY <2>1, <2>2 DEF Count
  <2>4. ASSUME NEW v \in VPages PROVE ~Touched(elf.phdr, 0, v)
    <3>1. v \in Nat /\ elf.phdr.vaddr \in Nat
      BY <1>5, SegmentNumbers, Powers DEF VPages, Working
    <3>2. PICK x \in Nat, y \in Nat, z \in Nat, u \in Nat :
            x = v \div Fan /\ y = elf.phdr.vaddr \div LARGE /\ z = elf.phdr.vaddr \div PAGE /\ u = v
      BY <3>1, Sizes, Division
    <3> QED
      BY <3>2 DEF Touched
  <2> QED
    BY <2>3, <2>4 DEF MappedPages
<1>7. InStep(elf, Memory) => InStep(elf', Memory)
  <2> SUFFICES ASSUME InStep(elf, Memory) PROVE InStep(elf', Memory)
    OBVIOUS
  <2>1. /\ Done(elf, Memory, elf.done) /\ elf.done < Len(media.kernel.phdrs)
        /\ elf.phdr = media.kernel.phdrs[elf.done + 1] /\ (elf.base = Nowhere \/ elf.base >= region.base)
        /\ elf.done <= Len(media.kernel.phdrs)
    BY <1>2 DEF InStep
  <2>2. region.base \in Nat /\ elf.phdr.paddr \in Nat /\ Nowhere \notin Nat
    BY <1>5, SegmentNumbers DEF Working, Booting, Nowhere
  <2>3. BaseBelow(elf', elf.phdr) /\ elf'.base >= region.base
    BY <1>4, <1>5, <2>1, <2>2 DEF BaseBelow
  <2>4. Done(elf', Memory, elf.done)
    <3> SUFFICES ASSUME NEW i \in 1 .. elf.done, media.kernel.phdrs[i].load
                 PROVE  Placed(Memory, media.kernel.phdrs[i]) /\ BaseBelow(elf', media.kernel.phdrs[i])
      BY DEF Done
    <3>1. Placed(Memory, media.kernel.phdrs[i]) /\ BaseBelow(elf, media.kernel.phdrs[i])
      BY <2>1 DEF Done
    <3>2. PICK q \in Nat : q = region.base + media.kernel.phdrs[i].paddr
      <4>1. i \in 1 .. Len(media.kernel.phdrs)
        BY <1>2, <2>1, PhdrsAre DEF Working, ScanType
      <4>2. media.kernel.phdrs[i] \in Segments
        BY <4>1, PhdrsAre DEF Working
      <4> QED
        BY <2>2, <4>2, SegmentNumbers DEF Working
    <3>3. elf.base # Nowhere /\ elf.base <= q
      BY <3>1, <3>2 DEF BaseBelow
    <3>4. elf'.base # Nowhere /\ elf'.base <= q
      BY <1>3, <1>4, <2>2, <3>2, <3>3
    <3> QED
      BY <3>1, <3>2, <3>4 DEF BaseBelow
  <2> QED
    BY <1>4, <2>1, <2>3, <2>4 DEF InStep
<1> QED
  BY <1>1, <1>2, <1>4, <1>6, <1>7 DEF Loads, Working

LEMMA ReturnLoads ==
  ASSUME Working, Return
  PROVE  Loads(elf', Memory', faults')
PROOF
<1>1. Memory' = Memory /\ Built(Memory) /\ DOMAIN Memory.ram \subseteq NamedCells
  BY MemoryStays DEF Working, Return, Loads
<1>2. /\ elf \in ScanType({"segments"}) /\ elf.op = "segments" /\ elf.file = media.kernel
      /\ elf.data = region.base /\ elf.done = Len(media.kernel.phdrs) /\ faults' = faults
      /\ elf' = [op |-> "returned", entry |-> elf.file.entry,
                 phys_base |-> IF elf.base = Nowhere THEN elf.data ELSE elf.base]
  BY Scanning DEF Return
<1>3. /\ elf'.op = "returned" /\ elf'.entry = media.kernel.entry
      /\ elf'.phys_base = IF elf.base = Nowhere THEN region.base ELSE elf.base
  BY <1>2
<1>4. InStep(elf, Memory) => InStep(elf', Memory)
  <2> SUFFICES ASSUME InStep(elf, Memory) PROVE InStep(elf', Memory)
    OBVIOUS
  <2>1. Done(elf, Memory, Len(media.kernel.phdrs)) /\ (elf.base = Nowhere \/ elf.base >= region.base)
    BY <1>2 DEF InStep
  <2>2. ASSUME NEW ph \in Segments PROVE Placed(Memory, ph) /\ BaseBelow(elf, ph)
    <3>1. PICK i \in 1 .. Len(media.kernel.phdrs) : ph = media.kernel.phdrs[i] /\ ph.load
      BY PhdrsAre DEF Working
    <3> QED
      BY <2>1, <3>1 DEF Done
  <2>3. ASSUME NEW ph \in Segments, ph.paddr = 0 PROVE elf'.phys_base = region.base
    <3>1. elf.base # Nowhere /\ elf.base <= region.base + 0
      BY <2>2, <2>3 DEF BaseBelow
    <3>2. region.base \in Nat /\ elf.base \in Nat \cup {Nowhere}
      BY <1>2 DEF ScanType, Working, Booting
    <3> QED
      BY <1>3, <2>1, <3>1, <3>2
  <2> QED
    BY <1>3, <2>2, <2>3 DEF InStep
<1> QED
  BY <1>1, <1>2, <1>3, <1>4 DEF Loads, Working

(* A page more.                                                            *)
LEMMA ReachedStays ==
  ASSUME Booting, Linked, NEW m, NEW n, \A w \in VPages : Found(m, w) => Found(n, w),
         NEW ph \in Segments, NEW k \in 0 .. ph.memsz, Reached(m, ph, k)
  PROVE  Reached(n, ph, k)
PROOF
<1>1. ASSUME NEW j \in 0 .. k - 1 PROVE Found(n, (ph.vaddr + j) \div PAGE)
  <2>1. ph.vaddr + j \in Addresses(ph)
    BY SegmentNumbers DEF Addresses
  <2>2. (ph.vaddr + j) \div PAGE \in VPages
    BY <2>1, PageOfAddress
  <2> QED
    BY <2>2 DEF Reached
<1> QED
  BY <1>1 DEF Reached

LEMMA MapPageLoads ==
  ASSUME Working, MapPage
  PROVE  Loads(elf', Memory', faults')
PROOF
<1>1. PICK r : /\ r = MapOne(Memory, elf.phdr, elf.mapped) /\ Becomes(r)
               /\ elf' = IF r.at = Nowhere THEN [op |-> "fault"] ELSE [elf EXCEPT !.mapped = @ + 1]
  BY DEF MapPage, Continue
<1>2. /\ elf \in ScanType({"map"}) /\ elf.op = "map" /\ elf.data = region.base /\ faults' = faults
      /\ elf.phdr \in Segments /\ elf.mapped < Pages(elf.phdr) /\ elf.mapped \in Nat
  BY Scanning DEF MapPage, ScanType
<1>3. /\ Built(Memory) /\ DOMAIN Memory.ram \subseteq NamedCells
      /\ elf.mapped <= Count(elf.phdr) /\ MappedPages(Memory.mem, elf.phdr, elf.mapped)
  BY <1>2 DEF Working, Loads
<1>4. /\ Built(r) /\ r.at # Nowhere
      /\ \A w \in VPages : Found(Memory.mem, w) => Found(r.mem, w)
      /\ \A w \in VPages : Touched(elf.phdr, elf.mapped + 1, w) /\ ~Touched(elf.phdr, elf.mapped, w)
                             => Found(r.mem, w)
  BY <1>1, <1>2, <1>3, MapOnePlaces DEF Working
<1>5. SoundMemory(r) /\ r.ram = Memory.ram
  <2>1. SoundMemory(r)
    BY <1>4 DEF Built, Grown
  <2> QED
    BY <1>1, <2>1, MapOneRam DEF Working
<1>6. SoundMemory(Memory') /\ SameMemory(r, Memory')
  BY <1>1, <1>5, BecomesIs
<1>7. /\ elf'.op = "map" /\ elf'.mapped = elf.mapped + 1 /\ elf'.done = elf.done
      /\ elf'.base = elf.base /\ elf'.phdr = elf.phdr
  BY <1>1, <1>2, <1>4 DEF ScanType
<1>8. Pages(elf.phdr) = Count(elf.phdr) /\ Count(elf.phdr) \in Int
  <2>1. PICK m \in Nat, P \in Nat \ {0}, L \in Nat \ {0} : m = elf.phdr.memsz /\ P = PAGE /\ L = LARGE
    BY <1>2, SegmentNumbers, Sizes DEF Working
  <2>2. PICK z \in Nat : z = m + P - 1
    BY <2>1
  <2>3. m \div L \in Int /\ z \div P \in Int
    BY <2>1, <2>2, Division
  <2> QED
    BY <1>2, <2>1, <2>2, <2>3, CountIs DEF Count
<1>9. elf.mapped + 1 <= Count(elf.phdr) /\ MappedPages(r.mem, elf.phdr, elf.mapped + 1)
  <2>1. elf.mapped + 1 <= Count(elf.phdr)
    BY <1>2, <1>8
  <2> QED
    BY <1>3, <1>4, <2>1 DEF MappedPages
<1>10. Keeping(Memory, r)
  BY <1>4, <1>5, ReachedStays DEF Keeping, Working
<1>11. InStep(elf, Memory) => InStep(elf', r)
  <2> SUFFICES ASSUME InStep(elf, Memory) PROVE InStep(elf', r)
    OBVIOUS
  <2>1. /\ Done(elf, Memory, elf.done) /\ elf.done \in 0 .. Len(media.kernel.phdrs)
        /\ elf.done < Len(media.kernel.phdrs)
        /\ elf.phdr = media.kernel.phdrs[elf.done + 1] /\ (elf.base = Nowhere \/ elf.base >= region.base)
        /\ BaseBelow(elf, elf.phdr)
    BY <1>2, PhdrsAre DEF InStep, ScanType, Working
  <2>2. Done(elf', r, elf.done)
    BY <1>7, <1>10, <2>1, KeepingDone DEF Working
  <2> QED
    BY <1>7, <2>1, <2>2 DEF InStep, BaseBelow
<1>12. Loads(elf', r, faults')
  BY <1>2, <1>3, <1>4, <1>5, <1>7, <1>9, <1>11 DEF Loads, Working
<1> QED
  BY <1>6, <1>12, SameLoads

(***************************************************************************)
(* What arrives from the file.                                             *)
(***************************************************************************)
Arrived(got, file, offset, n, lost) ==
  /\ \E k \in 0 .. n : DOMAIN got = 1 .. k
  /\ ~lost /\ offset + n <= file.size => got = [j \in 1 .. n |-> offset + j - 1]

LEMMA WhatArrives ==
  ASSUME NEW file, file.size \in Nat, NEW offset \in Nat, NEW n \in Nat, NEW lost,
         NEW got \in Arrives(file, offset, n, lost)
  PROVE  Arrived(got, file, offset, n, lost)
PROOF
<1> DEFINE most  == IF n <= file.size THEN n ELSE file.size
           whole == IF offset <= file.size THEN {Intact(file, offset, n)}
                    ELSE {Garbled(k) : k \in {0, most}}
           Short(c) == \E k \in 0 .. n : DOMAIN c = 1 .. k
<1>1. ASSUME NEW w \in whole PROVE \E k \in 0 .. n : w \in [1 .. k -> Int]
  <2>1. CASE offset <= file.size /\ w = Intact(file, offset, n)
    <3>1. PICK k \in 0 .. n : k = IF offset + n <= file.size THEN n ELSE file.size - offset
      BY <2>1
    <3>2. w = [j \in 1 .. k |-> offset + j - 1]
      BY <2>1, <3>1 DEF Intact
    <3>3. w \in [1 .. k -> Int]
      BY <3>2
    <3> QED
      BY <3>3
  <2>2. CASE w \in {Garbled(k) : k \in {0, most}}
    <3>1. PICK k \in {0, most} : w = Garbled(k)
      BY <2>2
    <3>2. k \in 0 .. n /\ w \in [1 .. k -> Int]
      BY <3>1 DEF Garbled, Wrong
    <3> QED
      BY <3>2
  <2> QED
    BY <1>1, <2>1, <2>2
<1>2. ASSUME NEW w \in whole PROVE Short(w)
  BY <1>1, <1>2
<1>3. ASSUME offset + n <= file.size, NEW w \in whole PROVE w = [j \in 1 .. n |-> offset + j - 1]
  <2>1. offset <= file.size
    BY <1>3
  <2>2. w = Intact(file, offset, n)
    BY <1>3, <2>1
  <2> QED
    BY <1>3, <2>2 DEF Intact
<1> HIDE DEF whole
<1>4. ASSUME NEW w \in whole, NEW k \in 0 .. Len(w), NEW c, c = SubSeq(w, 1, k) PROVE Short(c)
  <2>1. PICK m \in 0 .. n : w \in [1 .. m -> Int]
    BY <1>1
  <2>2. w \in Seq(Int) /\ Len(w) = m /\ m \in Nat
    BY <2>1
  <2>3. k \in 0 .. n /\ k <= Len(w)
    BY <2>2
  <2>4. c \in Seq(Int) /\ Len(c) = k
    BY <1>4, <2>2, <2>3
  <2>5. DOMAIN c = 1 .. k
    BY <2>4
  <2> QED
    BY <2>3, <2>5
<1>5. ASSUME NEW w \in whole PROVE Short(Garbled(Len(w)))
  <2>1. PICK m \in 0 .. n : w \in [1 .. m -> Int]
    BY <1>1
  <2>2. Len(w) = m
    BY <2>1
  <2> QED
    BY <2>2 DEF Garbled
<1>6. /\ ~lost => got \in whole
      /\ \/ got \in whole
         \/ \E w \in whole : \E k \in 0 .. Len(w) : got = SubSeq(w, 1, k)
         \/ \E w \in whole : got = Garbled(Len(w))
  BY DEF Arrives, whole
<1>7. Short(got)
  BY <1>2, <1>4, <1>5, <1>6
<1> QED
  BY <1>3, <1>6, <1>7 DEF Arrived

(***************************************************************************)
(* The bytes.                                                              *)
(***************************************************************************)
LEMMA AllReached ==
  ASSUME Booting, Linked, elf.data = region.base, NEW m, NEW ph \in Segments, ~Straddles(ph),
         MappedPages(m, ph, Count(ph))
  PROVE  Reached(m, ph, ph.memsz)
PROOF
<1>1. ASSUME NEW j \in 0 .. ph.memsz - 1 PROVE Found(m, (ph.vaddr + j) \div PAGE)
  <2>1. ph.vaddr + j \in Addresses(ph)
    BY SegmentNumbers DEF Addresses
  <2>2. Touched(ph, Pages(ph), (ph.vaddr + j) \div PAGE) /\ (ph.vaddr + j) \div PAGE \in VPages
    BY <2>1, CountedAreAll, PageOfAddress
  <2> QED
    BY <2>2, CountIs DEF MappedPages
<1> QED
  BY <1>1 DEF Reached

Fills(ph, k, n, values) == \A j \in 1 .. n : values[j] = Content(ph, k + j - 1)

LEMMA BytesWritten ==
  ASSUME Working, NEW ph \in Segments, elf.data = region.base, MappedPages(Memory.mem, ph, Count(ph)),
         NEW k \in Nat, NEW n \in Nat, k + n <= ph.memsz, NEW values, DOMAIN values = 1 .. n,
         NEW r, r = Write(Memory, ph.vaddr + k, values)
  PROVE  /\ Built(r) /\ r.mem = Memory.mem /\ DOMAIN r.ram \subseteq NamedCells
         /\ r.at = Nowhere => Straddles(ph)
         /\ r.at # Nowhere /\ Reached(r.mem, ph, k) => Reached(r.mem, ph, k + n)
         /\ r.at # Nowhere /\ (Whole => Fills(ph, k, n, values))
              => Keeping(Memory, r) /\ (Whole /\ InPlace(Memory.ram, ph, k) => InPlace(r.ram, ph, k + n))
PROOF
<1>1. /\ Booting /\ Linked /\ cr3 = Pml4 /\ Built(Memory) /\ DOMAIN Memory.ram \subseteq NamedCells
      /\ Memory.at # Nowhere
  BY Frames DEF Working, Loads, Memory, Nowhere
<1>2. /\ Built(r) /\ r.mem = Memory.mem
      /\ r.at = Nowhere <=> ~AllFound(Memory.mem, ph, k, n)
      /\ r.at = Nowhere => r.ram = Memory.ram
      /\ r.at # Nowhere => Wrote(Memory, r, ph, k, n, values)
  BY <1>1, WriteIs
<1>3. ph.memsz \in Nat /\ ph.vaddr \in Nat /\ ph.paddr \in Nat /\ region.base \in Nat
  BY <1>1, SegmentNumbers DEF Booting
<1>4. ASSUME NEW j \in 1 .. n PROVE Cell(ph, k + j - 1) \in NamedCells
  <2>1. PICK x \in Nat, m \in Nat : x = region.base + ph.paddr /\ m = ph.memsz
    BY <1>3
  <2>2. x + (k + j - 1) \in x .. x + m - 1
    BY <2>1
  <2>3. Cell(ph, k + j - 1) \in (region.base + ph.paddr) .. (region.base + ph.paddr + ph.memsz - 1)
    BY <2>1, <2>2 DEF Cell
  <2> QED
    BY <2>3 DEF NamedCells
<1>5. DOMAIN r.ram \subseteq NamedCells
  <2>1. CASE r.at = Nowhere
    BY <1>1, <1>2, <2>1
  <2>2. CASE r.at # Nowhere
    <3>1. DOMAIN r.ram = DOMAIN Memory.ram \cup {Cell(ph, k + j - 1) : j \in 1 .. n}
      BY <1>2, <2>2 DEF Wrote
    <3> QED
      BY <1>1, <1>4, <3>1
  <2> QED
    BY <2>1, <2>2
<1>6. ASSUME ~Straddles(ph) PROVE r.at # Nowhere
  <2>1. Reached(Memory.mem, ph, ph.memsz)
    BY <1>1, <1>6, AllReached
  <2>2. ASSUME NEW j \in 1 .. n PROVE Found(Memory.mem, (ph.vaddr + k + j - 1) \div PAGE)
    <3>1. k + j - 1 \in 0 .. ph.memsz - 1 /\ ph.vaddr + (k + j - 1) = ph.vaddr + k + j - 1
      BY <1>3
    <3> QED
      BY <2>1, <3>1 DEF Reached
  <2> QED
    BY <1>2, <2>2 DEF AllFound
<1>7. ASSUME r.at # Nowhere, Reached(r.mem, ph, k) PROVE Reached(r.mem, ph, k + n)
  <2>1. ASSUME NEW j \in 0 .. k + n - 1 PROVE Found(r.mem, (ph.vaddr + j) \div PAGE)
    <3>1. CASE j \in 0 .. k - 1
      BY <1>7, <3>1 DEF Reached
    <3>2. CASE j \notin 0 .. k - 1
      <4>1. PICK i \in 1 .. n : j = k + i - 1
        <5>1. j - k + 1 \in 1 .. n /\ j = k + (j - k + 1) - 1
          BY <3>2
        <5> QED
          BY <5>1
      <4>2. ph.vaddr + j = ph.vaddr + k + i - 1
        BY <1>3, <4>1
      <4> QED
        BY <1>2, <1>7, <4>2 DEF AllFound
    <3> QED
      BY <3>1, <3>2
  <2> QED
    BY <2>1 DEF Reached
<1>8. ASSUME r.at # Nowhere, Whole => Fills(ph, k, n, values)
      PROVE  Keeping(Memory, r) /\ (Whole /\ InPlace(Memory.ram, ph, k) => InPlace(r.ram, ph, k + n))
  <2>1. Wrote(Memory, r, ph, k, n, values)
    BY <1>2, <1>8
  <2>2. ASSUME Whole, NEW other \in Segments, NEW i \in 0 .. other.memsz - 1,
               \/ Cell(other, i) \in DOMAIN Memory.ram /\ Memory.ram[Cell(other, i)] = Content(other, i)
               \/ \E j \in 1 .. n : Cell(other, i) = Cell(ph, k + j - 1)
        PROVE  Cell(other, i) \in DOMAIN r.ram /\ r.ram[Cell(other, i)] = Content(other, i)
    <3>1. CASE \E j \in 1 .. n : Cell(other, i) = Cell(ph, k + j - 1)
      <4>1. PICK j \in 1 .. n : Cell(other, i) = Cell(ph, k + j - 1)
        BY <3>1
      <4>2. k + j - 1 \in 0 .. ph.memsz - 1
        BY <1>3
      <4>3. other = ph /\ i = k + j - 1
        BY <1>1, <4>1, <4>2, CellsApart
      <4>4. values[j] = Content(ph, k + j - 1)
        BY <1>8, <2>2 DEF Fills
      <4> QED
        BY <2>1, <4>1, <4>3, <4>4 DEF Wrote
    <3>2. CASE ~\E j \in 1 .. n : Cell(other, i) = Cell(ph, k + j - 1)
      BY <2>1, <2>2, <3>2 DEF Wrote
    <3> QED
      BY <3>1, <3>2
  <2>3. Keeping(Memory, r)
    <3> SUFFICES ASSUME NEW other \in Segments, NEW h \in 0 .. other.memsz, Whole, InPlace(Memory.ram, other, h)
                 PROVE  InPlace(r.ram, other, h)
      BY <1>2 DEF Keeping
    <3>1. ASSUME NEW i \in 0 .. h - 1
          PROVE  Cell(other, i) \in DOMAIN r.ram /\ r.ram[Cell(other, i)] = Content(other, i)
      <4>1. i \in 0 .. other.memsz - 1
        BY <1>1, SegmentNumbers
      <4> QED
        BY <2>2, <4>1 DEF InPlace
    <3> QED
      BY <3>1 DEF InPlace
  <2>4. ASSUME Whole, InPlace(Memory.ram, ph, k) PROVE InPlace(r.ram, ph, k + n)
    <3>1. ASSUME NEW i \in 0 .. k + n - 1
          PROVE  Cell(ph, i) \in DOMAIN r.ram /\ r.ram[Cell(ph, i)] = Content(ph, i)
      <4>1. i \in 0 .. ph.memsz - 1
        BY <1>3
      <4>2. CASE i \in 0 .. k - 1
        BY <2>2, <2>4, <4>1, <4>2 DEF InPlace
      <4>3. CASE i \notin 0 .. k - 1
        <5>1. i - k + 1 \in 1 .. n /\ i = k + (i - k + 1) - 1
          BY <4>3
        <5>2. \E j \in 1 .. n : Cell(ph, i) = Cell(ph, k + j - 1)
          BY <5>1
        <5> QED
          BY <2>2, <2>4, <4>1, <5>2
      <4> QED
        BY <4>2, <4>3
    <3> QED
      BY <3>1 DEF InPlace
  <2> QED
    BY <2>3, <2>4
<1> QED
  BY <1>2, <1>5, <1>6, <1>7, <1>8

LEMMA WriteBecomes ==
  ASSUME Working, NEW a, NEW values, NEW r, r = Write(Memory, a, values), Becomes(r), NEW e, NEW f,
         Loads(e, r, f)
  PROVE  Loads(e, Memory', f)
PROOF
<1>1. SoundMemory(r)
  BY WriteSound DEF Working
<1>2. SoundMemory(Memory') /\ SameMemory(r, Memory')
  BY <1>1, BecomesIs
<1> QED
  BY <1>2, SameLoads

LEMMA CopyLoads ==
  ASSUME Working, Copy
  PROVE  Loads(elf', Memory', faults')
PROOF
<1>1. PICK got \in Arrives(elf.file, elf.phdr.offset, elf.phdr.filesz, faults' > 0) :
        \E s \in {Write(Memory, elf.phdr.vaddr, got)} : Continue(s, [elf EXCEPT !.op = "clear"])
  BY DEF Copy
<1>2. PICK r : /\ r = Write(Memory, elf.phdr.vaddr, got) /\ Becomes(r)
               /\ elf' = IF r.at = Nowhere THEN [op |-> "fault"] ELSE [elf EXCEPT !.op = "clear"]
  BY <1>1 DEF Continue
<1>3. /\ elf \in ScanType({"map"}) /\ elf.op = "map" /\ elf.data = region.base /\ elf.file = media.kernel
      /\ elf.phdr \in Segments /\ elf.mapped = Pages(elf.phdr)
  BY Scanning DEF Copy, ScanType
<1>4. PICK ph \in Segments : ph = elf.phdr
  BY <1>3
<1>5. /\ ph.filesz \in Nat /\ ph.memsz \in Nat /\ ph.offset \in Nat /\ ph.vaddr \in Nat
      /\ ph.filesz <= ph.memsz /\ media.kernel.size \in Nat /\ faults \in Nat
  BY SegmentNumbers, SegmentIs, PhdrsAre DEF Working
<1>6. MappedPages(Memory.mem, ph, Count(ph))
  BY <1>3, <1>4, CountIs DEF Working, Loads
<1>7. /\ \E n \in 0 .. ph.filesz : DOMAIN got = 1 .. n
      /\ faults' = 0 /\ ph.offset + ph.filesz <= media.kernel.size
           => got = [j \in 1 .. ph.filesz |-> ph.offset + j - 1]
  <2>1. PICK file : file = media.kernel
    OBVIOUS
  <2>2. PICK o \in Nat, z \in Nat : o = ph.offset /\ z = ph.filesz
    BY <1>5
  <2>3. got \in Arrives(file, o, z, faults' > 0) /\ file.size \in Nat
    BY <1>1, <1>3, <1>4, <1>5, <2>1, <2>2
  <2>4. Arrived(got, file, o, z, faults' > 0)
    BY <2>3, WhatArrives
  <2>5. faults' = 0 => ~(faults' > 0)
    OBVIOUS
  <2>6. /\ \E n \in 0 .. z : DOMAIN got = 1 .. n
        /\ ~(faults' > 0) /\ o + z <= file.size => got = [j \in 1 .. z |-> o + j - 1]
    BY <2>4 DEF Arrived
  <2> QED
    BY <2>1, <2>2, <2>5, <2>6
<1>8. PICK n \in 0 .. ph.filesz : DOMAIN got = 1 .. n
  BY <1>7
<1>9. r = Write(Memory, ph.vaddr + 0, got)
  <2>1. ph.vaddr + 0 = ph.vaddr
    BY <1>5
  <2> QED
    BY <1>2, <1>4, <2>1
<1>10. n \in Nat /\ 0 \in Nat /\ 0 + n <= ph.memsz /\ 0 + n = n
  BY <1>5
<1>11. /\ Built(r) /\ r.mem = Memory.mem /\ DOMAIN r.ram \subseteq NamedCells
       /\ r.at = Nowhere => Straddles(ph)
       /\ r.at # Nowhere /\ Reached(r.mem, ph, 0) => Reached(r.mem, ph, 0 + n)
       /\ r.at # Nowhere /\ (Whole => Fills(ph, 0, n, got))
            => Keeping(Memory, r) /\ (Whole /\ InPlace(Memory.ram, ph, 0) => InPlace(r.ram, ph, 0 + n))
  BY <1>3, <1>6, <1>8, <1>9, <1>10, BytesWritten
<1>12. CASE r.at = Nowhere
  <2>1. elf'.op = "fault"
    BY <1>2, <1>12
  <2>2. Loads(elf', r, faults')
    BY <1>11, <1>12, <2>1 DEF Loads, InStep
  <2> QED
    BY <1>2, <2>2, WriteBecomes
<1>13. CASE r.at # Nowhere
  <2>1. elf'.op = "clear" /\ elf'.done = elf.done /\ elf'.base = elf.base /\ elf'.phdr = elf.phdr
    BY <1>2, <1>3, <1>13 DEF ScanType
  <2>2. ASSUME faults' = 0, media.kernel.magic PROVE InStep(elf', r)
    <3>1. faults = 0
      BY <1>5, <2>2 DEF Copy, SectorRead, SectorFails
    <3>2. InStep(elf, Memory)
      BY <2>2, <3>1 DEF Working, Loads
    <3>3. /\ Done(elf, Memory, elf.done) /\ elf.done \in 0 .. Len(media.kernel.phdrs)
          /\ elf.done < Len(media.kernel.phdrs)
          /\ elf.phdr = media.kernel.phdrs[elf.done + 1] /\ (elf.base = Nowhere \/ elf.base >= region.base)
          /\ BaseBelow(elf, elf.phdr)
      BY <1>3, <3>2, PhdrsAre DEF InStep, ScanType, Working
    <3>4. ASSUME Whole PROVE n = ph.filesz /\ Fills(ph, 0, n, got)
      <4>1. ph.offset + ph.filesz <= media.kernel.size
        BY <3>4 DEF Whole
      <4>2. got = [j \in 1 .. ph.filesz |-> ph.offset + j - 1]
        BY <1>7, <2>2, <4>1
      <4>3. n = ph.filesz
        <5>1. 1 .. n = 1 .. ph.filesz
          BY <1>8, <4>2
        <5> QED
          BY <1>5, <1>10, <5>1
      <4>4. ASSUME NEW j \in 1 .. n PROVE got[j] = Content(ph, 0 + j - 1)
        <5>1. PICK z \in Nat, o \in Nat : z = ph.filesz /\ o = ph.offset
          BY <1>5
        <5>2. 0 + j - 1 < z /\ o + j - 1 = o + (0 + j - 1)
          BY <4>3, <5>1
        <5> QED
          BY <4>2, <4>3, <5>1, <5>2 DEF Content
      <4> QED
        BY <4>3, <4>4 DEF Fills
    <3>5. Reached(r.mem, ph, 0) /\ InPlace(Memory.ram, ph, 0)
      BY DEF Reached, InPlace
    <3>6. Keeping(Memory, r) /\ (Whole => Reached(r.mem, ph, ph.filesz) /\ InPlace(r.ram, ph, ph.filesz))
      BY <1>10, <1>11, <1>13, <3>4, <3>5
    <3>7. Done(elf', r, elf.done)
      BY <2>1, <3>3, <3>6, KeepingDone DEF Working
    <3> QED
      BY <1>4, <2>1, <3>3, <3>6, <3>7 DEF InStep, BaseBelow
  <2>3. Loads(elf', r, faults')
    BY <1>4, <1>6, <1>11, <2>1, <2>2 DEF Loads
  <2> QED
    BY <1>2, <2>3, WriteBecomes
<1> QED
  BY <1>12, <1>13

LEMMA ClearLoads ==
  ASSUME Working, Clear
  PROVE  Loads(elf', Memory', faults')
PROOF
<1>1. PICK r : /\ r = Write(Memory, elf.phdr.vaddr + elf.phdr.filesz, Zeros(elf.phdr.memsz - elf.phdr.filesz))
               /\ Becomes(r)
               /\ elf' = IF r.at = Nowhere THEN [op |-> "fault"]
                         ELSE [elf EXCEPT !.op = "segments", !.done = @ + 1]
  BY DEF Clear, Continue
<1>2. /\ elf \in ScanType({"clear"}) /\ elf.op = "clear" /\ elf.data = region.base /\ elf.file = media.kernel
      /\ elf.phdr \in Segments /\ faults' = faults
  BY Scanning DEF Clear, ScanType
<1>3. PICK ph \in Segments : ph = elf.phdr
  BY <1>2
<1>4. PICK k \in Nat, n \in Nat : k = ph.filesz /\ n = ph.memsz - ph.filesz
  BY SegmentNumbers, SegmentIs DEF Working
<1>5. k + n = ph.memsz /\ ph.memsz \in Nat
  BY <1>4, SegmentNumbers DEF Working
<1>6. MappedPages(Memory.mem, ph, Count(ph))
  BY <1>2, <1>3 DEF Working, Loads
<1>7. DOMAIN Zeros(n) = 1 .. n /\ Fills(ph, k, n, Zeros(n))
  <2>1. ASSUME NEW j \in 1 .. n PROVE Zeros(n)[j] = Content(ph, k + j - 1)
    <3>1. ~(k + j - 1 < k)
      OBVIOUS
    <3> QED
      BY <1>4, <3>1 DEF Zeros, Content
  <2> QED
    BY <2>1 DEF Zeros, Fills
<1>8. r = Write(Memory, ph.vaddr + k, Zeros(n))
  BY <1>1, <1>3, <1>4
<1>9. /\ Built(r) /\ r.mem = Memory.mem /\ DOMAIN r.ram \subseteq NamedCells
      /\ r.at = Nowhere => Straddles(ph)
      /\ r.at # Nowhere /\ Reached(r.mem, ph, k) => Reached(r.mem, ph, k + n)
      /\ r.at # Nowhere /\ (Whole => Fills(ph, k, n, Zeros(n)))
           => Keeping(Memory, r) /\ (Whole /\ InPlace(Memory.ram, ph, k) => InPlace(r.ram, ph, k + n))
  <2>1. k + n <= ph.memsz
    BY <1>5
  <2> QED
    BY <1>2, <1>6, <1>7, <1>8, <2>1, BytesWritten
<1>10. CASE r.at = Nowhere
  <2>1. elf'.op = "fault"
    BY <1>1, <1>10
  <2>2. Loads(elf', r, faults')
    BY <1>9, <1>10, <2>1 DEF Loads, InStep
  <2> QED
    BY <1>1, <2>2, WriteBecomes
<1>11. CASE r.at # Nowhere
  <2>1. elf'.op = "segments" /\ elf'.done = elf.done + 1 /\ elf'.base = elf.base /\ elf.done \in Nat
    BY <1>1, <1>2, <1>11 DEF ScanType
  <2>2. ASSUME InStep(elf, Memory) PROVE InStep(elf', r)
    <3>1. /\ Done(elf, Memory, elf.done) /\ elf.done \in 0 .. Len(media.kernel.phdrs)
          /\ elf.done < Len(media.kernel.phdrs)
          /\ ph = media.kernel.phdrs[elf.done + 1] /\ (elf.base = Nowhere \/ elf.base >= region.base)
          /\ BaseBelow(elf, ph)
          /\ Whole => Reached(Memory.mem, ph, k) /\ InPlace(Memory.ram, ph, k)
      BY <1>2, <1>3, <1>4, <2>2, PhdrsAre DEF InStep, ScanType, Working
    <3>2. Keeping(Memory, r) /\ (Whole => Reached(r.mem, ph, ph.memsz) /\ InPlace(r.ram, ph, ph.memsz))
      BY <1>5, <1>7, <1>9, <1>11, <3>1
    <3>3. ~Straddles(ph) => Reached(r.mem, ph, ph.memsz)
      BY <1>2, <1>6, <1>9, AllReached DEF Working
    <3>4. Placed(r, ph) /\ BaseBelow(elf', ph)
      BY <2>1, <3>1, <3>2, <3>3 DEF Placed, BaseBelow
    <3>5. Done(elf', r, elf.done)
      BY <2>1, <3>1, <3>2, KeepingDone DEF Working
    <3>6. Done(elf', r, elf.done + 1)
      <4>1. ASSUME NEW i \in 1 .. elf.done + 1 PROVE i = elf.done + 1 \/ i \in 1 .. elf.done
        BY <2>1
      <4> QED
        BY <3>1, <3>4, <3>5, <4>1 DEF Done
    <3>7. elf.done + 1 <= Len(media.kernel.phdrs)
      BY <2>1, <3>1, PhdrsAre DEF Working
    <3> QED
      BY <2>1, <3>1, <3>6, <3>7 DEF InStep
  <2>3. Loads(elf', r, faults')
    BY <1>2, <1>9, <2>1, <2>2 DEF Loads, Working
  <2> QED
    BY <1>1, <2>3, WriteBecomes
<1> QED
  BY <1>10, <1>11

LEMMA readElfLoads ==
  ASSUME Working, readElf
  PROVE  Loads(elf', Memory', faults')
BY ReadHeaderLoads, ReadPhdrLoads, SkipSegmentLoads, LoadSegmentLoads, MapPageLoads, CopyLoads, ClearLoads,
   ReturnLoads DEF readElf

(* Nothing of it depends on more than the medium and the region.           *)
LEMMA SameKernel ==
  ASSUME UNCHANGED <<media, region>>
  PROVE  /\ Segments' = Segments /\ Whole' = Whole /\ NamedCells' = NamedCells
         /\ Roomy' = Roomy /\ Linked' = Linked
         /\ Needed' = Needed /\ FrameOf' = FrameOf /\ BigPages' = BigPages
PROOF
<1>1. Segments' = Segments
  BY DEF Segments, Phdrs
<1>2. Whole' = Whole
  BY <1>1 DEF Whole
<1>3. NamedCells' = NamedCells
  BY <1>1 DEF NamedCells
<1>4. AllPages' = AllPages /\ Roomy' = Roomy
  BY <1>1 DEF AllPages, PagesOf, Roomy, TablesNeeded
<1>5. Needed' = Needed
  BY <1>4 DEF Needed
<1>6. Shift' = Shift
  BY <1>1 DEF Shift
<1>7. FrameOf' = FrameOf
  BY <1>6 DEF FrameOf
<1>8. BigPages' = BigPages
  BY <1>1 DEF BigPages, InLarge, Addresses
<1>9. Linked' = Linked
  BY <1>1 DEF Linked, Addresses
<1> QED
  BY <1>1, <1>2, <1>3, <1>4, <1>5, <1>7, <1>8, <1>9

LEMMA BuiltAgain ==
  ASSUME UNCHANGED <<media, region>>, Built(Memory')
  PROVE  Built(Memory)'
BY SameKernel DEF Built, Grown

LEMMA LoadsAgain ==
  ASSUME UNCHANGED <<media, region>>, Loads(elf', Memory', faults')
  PROVE  Loads(elf, Memory, faults)'
PROOF
<1>1. Built(Memory)' /\ (DOMAIN Memory.ram \subseteq NamedCells)'
  BY BuiltAgain, SameKernel DEF Loads
<1>2. (elf.op # "idle")' /\ (elf.op = "fault" => \E ph \in Segments : Straddles(ph))'
  BY SameKernel DEF Loads, Straddles
<1>3. (elf.op = "map" => elf.mapped <= Count(elf.phdr) /\ MappedPages(Memory.mem, elf.phdr, elf.mapped))'
  BY DEF Loads, Count, MappedPages, Touched, InLarge
<1>4. (elf.op = "clear" => MappedPages(Memory.mem, elf.phdr, Count(elf.phdr)))'
  BY DEF Loads, Count, MappedPages, Touched, InLarge
<1>5. ASSUME InStep(elf', Memory') PROVE InStep(elf, Memory)'
  <2>1. (elf.op \in {"segments", "segment", "map", "clear"} =>
           /\ elf.done <= Len(media.kernel.phdrs) /\ Done(elf, Memory, elf.done)
           /\ elf.base = Nowhere \/ elf.base >= region.base)'
    BY <1>5, SameKernel DEF InStep, Done, Placed, InPlace, Cell, BaseBelow
  <2>2. (elf.op \in {"segment", "map", "clear"} =>
           elf.done < Len(media.kernel.phdrs) /\ elf.phdr = media.kernel.phdrs[elf.done + 1])'
    BY <1>5 DEF InStep
  <2>3. (elf.op \in {"map", "clear"} => BaseBelow(elf, elf.phdr))'
    BY <1>5 DEF InStep, BaseBelow
  <2>4. (elf.op = "clear" /\ Whole =>
           Reached(Memory.mem, elf.phdr, elf.phdr.filesz) /\ InPlace(Memory.ram, elf.phdr, elf.phdr.filesz))'
    BY <1>5, SameKernel DEF InStep, InPlace, Cell
  <2>5. (elf.op = "returned" =>
           /\ elf.entry = media.kernel.entry
           /\ (\E ph \in Segments : ph.paddr = 0) => elf.phys_base = region.base
           /\ \A ph \in Segments : Placed(Memory, ph))'
    BY <1>5, SameKernel DEF InStep, Placed, InPlace, Cell
  <2> QED
    BY <2>1, <2>2, <2>3, <2>4, <2>5 DEF InStep
<1>6. (faults = 0 /\ media.kernel.magic => InStep(elf, Memory))'
  BY <1>5 DEF Loads
<1> QED
  BY <1>1, <1>2, <1>3, <1>4, <1>6 DEF Loads

(***************************************************************************)
(* What stage2_main has when it calls readElf.                             *)
(***************************************************************************)
LEMMA SetUpMade ==
  ASSUME TablesTyped(mem), Unowned(mem), setup_paging
  PROVE  SetUp(mem') /\ cr3' = Pml4
PROOF
<1>1. mem' = [f \in TableFrames |-> IdentityTable(f)] /\ cr3' = Pml4
  BY DEF setup_paging
<1>2. TablesTyped(mem')
  BY IdentityMade DEF LowIdentity
<1>3. ASSUME NEW l \in 0 .. 2 PROVE mem'[Pml4 + l] = [EmptyTable EXCEPT ![0] = Link(Pml4 + l + 1)]
  <2>1. PICK f : f = Pml4 + l
    OBVIOUS
  <2>2. f \in Pml4 .. Pml4 + 2 /\ f \in TableFrames /\ f # Pml4 + 3
    BY <2>1, Frames, OwnFrames DEF Own
  <2>3. mem'[f] = [EmptyTable EXCEPT ![0] = Link(f + 1)]
    BY <1>1, <2>2 DEF IdentityTable
  <2> QED
    BY <2>1, <2>3
<1>4. mem'[Pml4 + 3] = [s \in Slots |-> IF s < LOW_PAGES THEN Link(s) ELSE Absent]
  <2>1. Pml4 + 3 \in TableFrames /\ Pml4 + 3 \notin Pml4 .. Pml4 + 2
    BY Frames, OwnFrames DEF Own
  <2> QED
    BY <1>1, <2>1 DEF IdentityTable
<1> QED
  BY <1>1, <1>2, <1>3, <1>4 DEF SetUp

PreparedInv ==
  /\ boot.op \in {"disk", "detect", "initialize", "open", "region", "load"} => cr3 = Pml4 /\ SetUp(mem)
  /\ boot.op \in {"initialize", "open", "region", "load"} => heap_offset = FS_SIZE
  /\ boot.op \notin {"readElf", "kernel"} => elf = Idle /\ ram = << >>

LEMMA PreparedInvInit == Init => PreparedInv
BY DEF Init, BiosInit, BootPagingInit, PreparedInv

LEMMA PreparedInvStep ==
  Stage2Inv /\ MountInv /\ MemoryInv /\ PreparedInv /\ [Next]_vars => PreparedInv'
PROOF
<1> SUFFICES ASSUME Stage2Inv, MountInv, MemoryInv, PreparedInv, [Next]_vars PROVE PreparedInv'
  OBVIOUS
<1>1. CASE \/ BiosNext /\ UNCHANGED <<memory, elf, faults, stray, media, region, handed>>
           \/ check_cpuid \/ check_long
  <2>1. UNCHANGED <<mem, cr3, ram>> /\ boot.op \in BeforeLong /\ boot'.op \in BeforeLong \ {"paging"}
    BY <1>1, EarlySteps
  <2>2. UNCHANGED elf
    BY <1>1 DEF check_cpuid, check_long
  <2> QED
    BY <2>1, <2>2 DEF PreparedInv, BeforeLong, BiosOps
<1>2. CASE FirstTables \/ LongMode
  <2>1. boot.op \in {"page tables", "paging"} /\ boot'.op \in {"paging", "long"}
    BY <1>2, Leads
  <2>2. UNCHANGED <<elf, ram>>
    BY <1>2 DEF FirstTables, setup_page_tables, LongMode, enable_paging_and_longmode
  <2> QED
    BY <2>1, <2>2 DEF PreparedInv
<1>3. CASE Setup
  <2>1. boot.op = "long" /\ boot'.op = "disk" /\ setup_paging /\ UNCHANGED <<elf, ram>>
    BY <1>3, Leads DEF Setup, setup_paging
  <2>2. SetUp(mem') /\ cr3' = Pml4
    BY <2>1, SetUpMade DEF MemoryInv, EarlyPaging
  <2> QED
    BY <2>1, <2>2 DEF PreparedInv
<1>4. CASE FindDisk
  <2>1. UNCHANGED <<mem, cr3, ram, elf>> /\ boot.op = "disk" /\ boot'.op \in {"detect", "stop"}
    BY <1>4, Leads DEF FindDisk, memory
  <2> QED
    BY <2>1 DEF PreparedInv
<1>5. CASE detect
  <2>1. UNCHANGED <<mem, cr3, ram, elf>> /\ boot.op = "detect" /\ heap_offset = 0
    BY <1>5 DEF detect, MountInv, Before
  <2>2. \/ boot' = [op |-> "initialize"] /\ kmalloc(FS_SIZE, 1)
        \/ boot' = [op |-> "stop"]
    BY <1>5 DEF detect, Goto, Stop
  <2>3. boot'.op = "initialize" => heap_offset' = FS_SIZE
    BY <2>1, <2>2, FirstBlock
  <2>4. boot'.op \in {"initialize", "stop"}
    BY <2>2
  <2> QED
    BY <2>1, <2>3, <2>4 DEF PreparedInv
<1>6. CASE initialize \/ open \/ ChooseRegion
  <2>1. /\ UNCHANGED <<mem, cr3, ram, elf, heap_offset>> /\ boot.op \in {"initialize", "open", "region"}
    BY <1>6 DEF initialize, open, ChooseRegion, memory
  <2>2. boot'.op \in {"open", "region", "load", "stop"}
    BY <1>6, Leads
  <2> QED
    BY <2>1, <2>2 DEF PreparedInv
<1>7. CASE CallReadElf \/ CallKernel
  <2>1. boot'.op \in {"readElf", "kernel"}
    BY <1>7, Leads
  <2> QED
    BY <2>1 DEF PreparedInv
<1>8. CASE Loading
  <2>1. boot'.op = "readElf"
    BY <1>8 DEF Loading
  <2> QED
    BY <2>1 DEF PreparedInv
<1>9. CASE UNCHANGED vars
  BY <1>9 DEF vars, biosVars, memory, PreparedInv
<1> QED
  BY <1>1, <1>2, <1>3, <1>4, <1>5, <1>6, <1>7, <1>8, <1>9 DEF Next

LEMMA PreparedInvHolds == Spec => []PreparedInv
BY PreparedInvInit, PreparedInvStep, Stage2InvHolds, MountInvHolds, MemoryInvHolds, PTL DEF Spec

(***************************************************************************)
(* From the call of readElf on.                                            *)
(***************************************************************************)
LoadedInv ==
  /\ boot.op \in {"readElf", "kernel"} =>
       /\ media.kernel # Missing /\ region.base \in Nat
       /\ Linked /\ Roomy /\ ~stray => cr3 = Pml4 /\ Loads(elf, Memory, faults)
  /\ boot.op = "kernel" => elf.op = "returned" /\ handed = [entry |-> elf.entry, base |-> elf.phys_base]

LEMMA LoadedInvInit == Init => LoadedInv
BY DEF Init, BiosInit, LoadedInv

LEMMA FirstLoads ==
  ASSUME Booting, Linked, Roomy, HeapInv, SetUp(mem), heap_offset = FS_SIZE, ram = << >>,
         NEW e, e.op = "header", NEW f
  PROVE  Loads(e, Memory, f)
PROOF
<1>1. SoundMemory(Memory) /\ Memory.mem = mem /\ Memory.offset = FS_SIZE /\ Memory.ram = << >>
  BY MemoryIsSound DEF Memory
<1>2. FirstPage \in Nat /\ HeapBase + FS_SIZE <= FirstPage * PAGE
  <2>1. FirstPage \in Nat
    BY RoomIs DEF Room
  <2> QED
    BY <2>1, RoomIs
<1>3. Grown(Memory, FirstFrames, FrameOf, BigPages, Needed, FirstPage)
  BY <1>1, <1>2, LayoutIs, FirstGrown
<1>4. Built(Memory)
  BY <1>3 DEF Built
<1>5. DOMAIN Memory.ram \subseteq NamedCells
  <2>1. DOMAIN << >> = {}
    OBVIOUS
  <2> QED
    BY <1>1, <2>1
<1> QED
  BY <1>4, <1>5 DEF Loads, InStep

LEMMA LoadedInvStep ==
  Stage2Inv /\ HeapInv /\ LoadInv /\ FaultsCounted /\ PreparedInv /\ LoadedInv /\ [Next]_vars => LoadedInv'
PROOF
<1> SUFFICES ASSUME Stage2Inv, HeapInv, LoadInv, FaultsCounted, PreparedInv, LoadedInv, [Next]_vars
             PROVE LoadedInv'
  OBVIOUS
<1>1. /\ firmware \in Firmwares /\ media \in Media(firmware) /\ SoundMemory(Memory)
      /\ faults \in Nat
  BY MemoryIsSound, Limits DEF Stage2Inv, BiosInv, LoadInv, FaultsCounted
<1>2. ASSUME boot'.op \notin {"readElf", "kernel"} PROVE LoadedInv'
  BY <1>2 DEF LoadedInv
<1>3. CASE BiosNext /\ UNCHANGED <<memory, elf, faults, stray, media, region, handed>>
  <2>1. boot'.op \in BiosOps \cup {"protected", "halt"}
    BY <1>3, BiosLeads DEF Stage2Inv
  <2> QED
    BY <1>2, <2>1 DEF BiosOps
<1>4. CASE \/ check_cpuid \/ check_long \/ FirstTables \/ LongMode \/ Setup \/ FindDisk
           \/ detect \/ initialize \/ open \/ ChooseRegion
  <2>1. boot'.op \notin {"readElf", "kernel"}
    BY <1>4, Leads
  <2> QED
    BY <1>2, <2>1
<1>5. CASE CallReadElf
  <2>1. /\ UNCHANGED <<media, region, memory, faults>> /\ boot.op = "load" /\ boot'.op = "readElf"
        /\ elf' = [op |-> "header", file |-> media.kernel, data |-> region.base]
    BY <1>5, Leads DEF CallReadElf, Given
  <2>2. media.kernel # Missing /\ region.base \in Nat
    BY <2>1 DEF LoadInv
  <2>3. cr3 = Pml4 /\ SetUp(mem) /\ heap_offset = FS_SIZE /\ ram = << >>
    BY <2>1 DEF PreparedInv
  <2>4. ASSUME Linked', Roomy', ~stray' PROVE cr3' = Pml4 /\ Loads(elf, Memory, faults)'
    <3>1. Booting /\ Linked /\ Roomy /\ elf'.op = "header"
      BY <1>1, <2>1, <2>2, <2>4, SameKernel DEF Booting
    <3>2. Loads(elf', Memory, faults')
      BY <2>3, <3>1, FirstLoads
    <3>3. Memory' = Memory /\ cr3' = cr3
      BY <2>1, MemoryStays
    <3>4. Loads(elf, Memory, faults)'
      BY <2>1, <3>2, <3>3, LoadsAgain
    <3> QED
      BY <2>3, <3>3, <3>4
  <2> QED
    BY <2>1, <2>2, <2>4 DEF LoadedInv
<1>6. CASE Loading
  <2>1. UNCHANGED <<media, region, boot, handed>> /\ boot.op = "readElf" /\ readElf
    BY <1>6 DEF Loading, Given
  <2>2. media.kernel # Missing /\ region.base \in Nat /\ ElfInv
    BY <2>1 DEF LoadInv
  <2>3. ASSUME Linked', Roomy', ~stray' PROVE cr3' = Pml4 /\ Loads(elf, Memory, faults)'
    <3>1. Booting /\ Linked /\ Roomy /\ ~stray
      BY <1>1, <2>1, <2>2, <2>3, SameKernel, StraysStay DEF Booting
    <3>2. cr3 = Pml4 /\ Loads(elf, Memory, faults)
      BY <2>1, <3>1 DEF LoadedInv
    <3>3. Working
      BY <1>1, <2>2, <3>1, <3>2 DEF Working
    <3>4. Loads(elf', Memory', faults')
      BY <2>1, <3>3, readElfLoads
    <3>5. cr3' = cr3
      BY <2>1, readElfTables
    <3> QED
      BY <2>1, <3>2, <3>4, <3>5, LoadsAgain
  <2> QED
    BY <2>1, <2>2, <2>3 DEF LoadedInv
<1>7. CASE CallKernel
  <2>1. /\ UNCHANGED <<media, region, memory, elf, faults, stray>> /\ boot.op = "readElf" /\ boot'.op = "kernel"
        /\ elf.op = "returned" /\ handed' = [entry |-> elf.entry, base |-> elf.phys_base]
    BY <1>7, Leads DEF CallKernel, Given
  <2>2. media.kernel # Missing /\ region.base \in Nat
    BY <2>1 DEF LoadInv
  <2>3. ASSUME Linked', Roomy', ~stray' PROVE cr3' = Pml4 /\ Loads(elf, Memory, faults)'
    <3>1. Linked /\ Roomy /\ ~stray
      BY <2>1, <2>3, SameKernel
    <3>2. cr3 = Pml4 /\ Loads(elf, Memory, faults)
      BY <2>1, <3>1 DEF LoadedInv
    <3>3. Memory' = Memory /\ cr3' = cr3
      BY <2>1, MemoryStays
    <3> QED
      BY <2>1, <3>2, <3>3, LoadsAgain
  <2> QED
    BY <2>1, <2>2, <2>3 DEF LoadedInv
<1>8. CASE UNCHANGED vars
  <2>1. UNCHANGED <<media, region, memory, elf, faults, stray, boot, handed>>
    BY <1>8 DEF vars, biosVars
  <2>2. ASSUME boot.op \in {"readElf", "kernel"}, Linked', Roomy', ~stray'
        PROVE  cr3' = Pml4 /\ Loads(elf, Memory, faults)'
    <3>1. Linked /\ Roomy /\ ~stray
      BY <2>1, <2>2, SameKernel
    <3>2. cr3 = Pml4 /\ Loads(elf, Memory, faults)
      BY <2>2, <3>1 DEF LoadedInv
    <3>3. Memory' = Memory /\ cr3' = cr3
      BY <2>1, MemoryStays
    <3> QED
      BY <2>1, <3>2, <3>3, LoadsAgain
  <2> QED
    BY <2>1, <2>2 DEF LoadedInv
<1> QED
  BY <1>3, <1>4, <1>5, <1>6, <1>7, <1>8 DEF Next

LEMMA LoadedInvHolds == Spec => []LoadedInv
BY LoadedInvInit, LoadedInvStep, Stage2InvHolds, Stage2HeapSound, LoadInvHolds, FaultsAreCounted,
   PreparedInvHolds, PTL DEF Spec

LEMMA LoadedGives ==
  ASSUME LoadInv, Stage2Inv, LoadedInv, FaultsCounted, faults = 0, boot.op = "kernel", Linked, Roomy
  PROVE  /\ Booting /\ cr3 = Pml4 /\ Loads(elf, Memory, faults)
         /\ elf.op = "returned" /\ handed.entry = elf.entry /\ handed.base = elf.phys_base
         /\ Memory.mem = mem /\ Memory.ram = ram
PROOF
<1>1. ~stray
  BY DEF FaultsCounted
<1> QED
  BY <1>1 DEF LoadInv, Stage2Inv, BiosInv, LoadedInv, Booting, Memory

(* For every kernel as a linker makes it, however its segments share pages *)
(* and tables and however many there are: when it is called, its bytes are *)
(* where it was linked to find them.                                       *)
THEOREM LinkedInPlace == Spec => [](Linked => KernelInPlace)
PROOF
<1>1. ASSUME LoadInv, Stage2Inv, LoadedInv, FaultsCounted, Linked PROVE KernelInPlace
  <2> SUFFICES ASSUME boot.op = "kernel", faults = 0, media.kernel.magic, Whole, TablesNeeded <= TablesLeft,
                      NEW ph \in Segments, NEW j \in 0 .. ph.memsz - 1
               PROVE  /\ Mapped(mem, ph.vaddr + j)
                      /\ Physical(mem, ph.vaddr + j) \in DOMAIN ram
                      /\ ram[Physical(mem, ph.vaddr + j)] = Content(ph, j)
    BY DEF KernelInPlace
  <2>1. Roomy
    BY DEF Roomy
  <2>2. /\ Booting /\ cr3 = Pml4 /\ Loads(elf, Memory, faults) /\ elf.op = "returned"
        /\ Memory.mem = mem /\ Memory.ram = ram
    BY <1>1, <2>1, LoadedGives
  <2>3. Placed(Memory, ph) /\ Built(Memory)
    BY <2>2 DEF Loads, InStep
  <2>4. /\ Found(mem, (ph.vaddr + j) \div PAGE)
        /\ Cell(ph, j) \in DOMAIN ram /\ ram[Cell(ph, j)] = Content(ph, j)
    BY <2>2, <2>3 DEF Placed, Reached, InPlace
  <2>5. ph.vaddr + j \in Addresses(ph) /\ (ph.vaddr + j) - ph.vaddr = j
    BY <2>2, SegmentNumbers DEF Addresses
  <2>6. /\ Mapped(mem, ph.vaddr + j) <=> Found(mem, (ph.vaddr + j) \div PAGE)
        /\ Mapped(mem, ph.vaddr + j) => Physical(mem, ph.vaddr + j) = Cell(ph, (ph.vaddr + j) - ph.vaddr)
    BY <1>1, <2>2, <2>3, <2>5, AddressLeads
  <2> QED
    BY <2>4, <2>5, <2>6
<1> QED
  BY <1>1, LoadInvHolds, Stage2InvHolds, LoadedInvHolds, FaultsAreCounted, PTL

(* For every kernel as a linker makes it, and as its linker script places  *)
(* it: it is called at its entry, and the base it is handed says how it is *)
(* mapped.                                                                 *)
THEOREM LinkedHandover == Spec => [](Linked => HandoverAgrees)
PROOF
<1>1. ASSUME LoadInv, Stage2Inv, LoadedInv, FaultsCounted, Linked PROVE HandoverAgrees
  <2> SUFFICES ASSUME boot.op = "kernel", faults = 0, media.kernel.magic,
                      \A ph \in Segments : ph.vaddr - ph.paddr = KERNEL_BASE,
                      \E ph \in Segments : ph.paddr = 0,
                      Whole \/ \A ph \in Segments : ~Straddles(ph),
                      TablesNeeded <= TablesLeft
               PROVE  /\ handed.entry = media.kernel.entry
                      /\ \A ph \in Segments : \A a \in ph.vaddr .. ph.vaddr + ph.memsz - 1 :
                           Physical(mem, a) = (a - KERNEL_BASE) + handed.base
    BY Zenon DEF HandoverAgrees
  <2>1. Roomy
    BY DEF Roomy
  <2>2. /\ Booting /\ cr3 = Pml4 /\ Loads(elf, Memory, faults) /\ elf.op = "returned"
        /\ Memory.mem = mem /\ Memory.ram = ram
        /\ handed.entry = elf.entry /\ handed.base = elf.phys_base
    BY <1>1, <2>1, LoadedGives
  <2>3. InStep(elf, Memory) /\ Built(Memory)
    BY <2>2 DEF Loads
  <2>4. handed.entry = media.kernel.entry /\ handed.base = region.base
    BY <2>2, <2>3 DEF InStep
  <2>5. ASSUME NEW ph \in Segments, NEW a \in ph.vaddr .. ph.vaddr + ph.memsz - 1
        PROVE  Physical(mem, a) = (a - KERNEL_BASE) + region.base
    <3>1. a \in Addresses(ph)
      BY DEF Addresses
    <3>2. ph.vaddr \in Nat /\ ph.paddr \in Nat /\ ph.memsz \in Nat /\ region.base \in Nat
      BY <2>2, SegmentNumbers DEF Booting
    <3>3. Reached(mem, ph, ph.memsz)
      BY <2>2, <2>3 DEF InStep, Placed
    <3>4. Found(mem, a \div PAGE)
      <4>1. a - ph.vaddr \in 0 .. ph.memsz - 1 /\ ph.vaddr + (a - ph.vaddr) = a
        BY <3>2
      <4> QED
        BY <3>3, <4>1 DEF Reached
    <3>5. Physical(mem, a) = Cell(ph, a - ph.vaddr)
      BY <1>1, <2>2, <2>3, <3>1, <3>4, AddressLeads
    <3>6. ph.vaddr - ph.paddr = KERNEL_BASE
      OBVIOUS
    <3>7. region.base + ph.paddr + (a - ph.vaddr) = (a - (ph.vaddr - ph.paddr)) + region.base
      BY <3>2
    <3> QED
      BY <3>5, <3>6, <3>7 DEF Cell
  <2> QED
    BY <2>4, <2>5
<1> QED
  BY <1>1, LoadInvHolds, Stage2InvHolds, LoadedInvHolds, FaultsAreCounted, PTL

(* For every kernel as a linker makes it, whatever is read of it: only     *)
(* memory its segments name is written, until the bytes of another sector  *)
(* are taken for a program header.                                         *)
THEOREM LinkedOnlyNamed == Spec => [](Linked => OnlyNamedMemory)
PROOF
<1>1. ASSUME PreparedInv, LoadedInv, Linked PROVE OnlyNamedMemory
  <2> SUFFICES ASSUME Roomy, ~stray PROVE DOMAIN ram \subseteq NamedCells
    BY DEF OnlyNamedMemory, Roomy, NamedCells
  <2>1. CASE boot.op \in {"readElf", "kernel"}
    <3>1. Loads(elf, Memory, faults) /\ Memory.ram = ram
      BY <1>1, <2>1 DEF LoadedInv, Memory
    <3> QED
      BY <3>1 DEF Loads
  <2>2. CASE boot.op \notin {"readElf", "kernel"}
    <3>1. ram = << >>
      BY <1>1, <2>2 DEF PreparedInv
    <3>2. DOMAIN << >> = {}
      OBVIOUS
    <3> QED
      BY <3>1, <3>2
  <2> QED
    BY <2>1, <2>2
<1> QED
  BY <1>1, PreparedInvHolds, LoadedInvHolds, PTL

LEMMA RoomOrNot ==
  ASSUME Booting, Linked, ~(TablesNeeded > TablesLeft)
  PROVE  Roomy
PROOF
<1>1. TablesNeeded \in Nat
  <2>1. Cardinality(Needed) \in Nat
    BY NeededIsFinite, FS_CardinalityType
  <2> QED
    BY <2>1 DEF TablesNeeded, Needed, AllPages
<1>2. TablesLeft \in Int
  <2>1. PICK P \in Nat \ {0}, h \in Nat, s \in Nat, o \in Nat :
          P = PAGE /\ h = HeapBase /\ s = HeapSize /\ o = FS_SIZE
    BY Sizes, HeapAssumption, Limits
  <2>2. PICK e \in Nat : e = h + o + P - 1
    BY <2>1
  <2>3. e % P \in Int
    BY <2>1, <2>2, Division
  <2>4. PICK x \in Int : x = h + s - 1 - (e - (e % P))
    BY <2>3
  <2>5. x \div P \in Int
    BY <2>1
  <2>6. TablesLeft = x \div P
    BY <2>1, <2>2, <2>4 DEF TablesLeft
  <2> QED
    BY <2>5, <2>6
<1> QED
  BY <1>1, <1>2 DEF Roomy

(* For every kernel as a linker makes it: the loader ends in a page fault  *)
(* only for a segment whose last page it does not count, for tables that   *)
(* find no room, or after it took the bytes of another sector for a        *)
(* program header.                                                         *)
THEOREM LinkedFaults == Spec => [](Linked => FaultsExplained)
PROOF
<1>1. ASSUME Stage2Inv, LoadInv, PreparedInv, LoadedInv, Linked PROVE FaultsExplained
  <2> SUFFICES ASSUME elf.op = "fault", ~(TablesNeeded > TablesLeft), ~stray
               PROVE  \E ph \in Segments : Straddles(ph)
    BY <1>1 DEF FaultsExplained
  <2>1. boot.op \in {"readElf", "kernel"}
    BY <1>1 DEF PreparedInv, Idle
  <2>2. Roomy
    BY <1>1, <2>1, RoomOrNot DEF Stage2Inv, BiosInv, LoadInv, LoadedInv, Booting
  <2>3. Loads(elf, Memory, faults)
    BY <1>1, <2>1, <2>2 DEF LoadedInv
  <2> QED
    BY <2>3 DEF Loads
<1> QED
  BY <1>1, PreparedInvHolds, LoadedInvHolds, Stage2InvHolds, LoadInvHolds, PTL
=============================================================================
