--------------------------- MODULE Stage1DiskProofs ---------------------------
(***************************************************************************)
(* For any drives, any size and place of stage 2 and any number of tries:  *)
(* the boot sector finds stage_2_info, enters stage 2 with all of it in    *)
(* memory, and gives up only on a sector that failed RETRIES times.        *)
(***************************************************************************)
EXTENDS Stage1Disk, TLAPS

(***************************************************************************)
(* The invariant.                                                          *)
(***************************************************************************)
Stages == {"reset", "check", "geometry", "info", "stage2", "halt"}

ReadType ==
  [op : {"extended", "chs"}, lba : Nat, count : 1 .. Size, at : Nat,
   tries : 1 .. RETRIES, then : {"info", "stage2"}]

InRead == boot.op \in {"extended", "chs"}

Shape ==
  /\ disk \in Disks
  /\ bdb \in [spt : 1 .. 63, heads : 1 .. 256]
  /\ memory \in [Pieces -> Int]
  /\ InRead \/ boot.op \in Stages
  /\ InRead => boot \in ReadType
  /\ boot.op \in Stages => boot = [op |-> boot.op]

(* What the boot sector has found out of the drive so far.                 *)
Known ==
  /\ boot.op \in {"reset", "check", "geometry"} => bdb = Bpb
  /\ boot.op \notin {"reset", "check", "geometry"} =>
       bdb.spt = disk.spt /\ bdb.heads = disk.heads
  /\ boot.op \notin {"reset", "check"} => extended = disk.extended
  /\ boot.op = "extended" => disk.extended
  /\ boot.op = "chs" => ~disk.extended

(* The tries that are gone are the failures in a row.                      *)
Tried ==
  failures = IF InRead THEN RETRIES - boot.tries ELSE IF boot.op = "halt" THEN RETRIES ELSE 0

(* The first read is that of stage_2_info.                                 *)
InfoRead ==
  /\ InRead /\ boot.then = "info" => boot.lba = 1 /\ boot.count = 1 /\ boot.at = InfoAt
  /\ boot.op = "info" => memory[InfoAt] = 1

BootInv == Shape /\ Known /\ Tried /\ InfoRead

(* What is left to read of stage 2 follows what is in place.               *)
Loading ==
  /\ InRead /\ boot.then = "stage2" =>
       /\ boot.lba \in Location .. Location + Size - 1
       /\ boot.at - Load = boot.lba - Location
       /\ boot.count = Size - (boot.lba - Location)
       /\ \A i \in 0 .. boot.lba - Location - 1 : memory[Load + i] = Location + i
  /\ JumpsIntoStage2

(***************************************************************************)
(* The numbers of a sector.                                                *)
(***************************************************************************)
LEMMA Division ==
  ASSUME NEW n \in Nat, NEW d \in Nat \ {0}
  PROVE  n = d * (n \div d) + (n % d) /\ n \div d \in Nat /\ n % d \in 0 .. d - 1
OBVIOUS

LEMMA Monotone ==
  ASSUME NEW d \in Nat, NEW a \in Int, NEW b \in Int, a <= b
  PROVE  d * a <= d * b
OBVIOUS

(* A quotient and a remainder that fit are the quotient and remainder.     *)
LEMMA Quotient ==
  ASSUME NEW d \in Nat \ {0}, NEW q \in Nat, NEW r \in 0 .. d - 1
  PROVE  (d * q + r) \div d = q /\ (d * q + r) % d = r
PROOF
<1> DEFINE n == d * q + r
           p == n \div d
<1>1. n \in Nat
  OBVIOUS
<1> HIDE DEF n
<1>2. n = d * p + (n % d) /\ p \in Nat /\ n % d \in 0 .. d - 1
  BY <1>1, Division
<1> HIDE DEF p
<1>3. n = d * q + r
  BY DEF n
<1>4. ~(p >= q + 1)
  <2>1. p >= q + 1 => d * p >= d * (q + 1)
    BY <1>2, Monotone
  <2>2. d * (q + 1) = d * q + d
    OBVIOUS
  <2> QED
    BY <1>2, <1>3, <2>1, <2>2
<1>5. ~(q >= p + 1)
  <2>1. q >= p + 1 => d * q >= d * (p + 1)
    BY <1>2, Monotone
  <2>2. d * (p + 1) = d * p + d
    BY <1>2
  <2> QED
    BY <1>2, <1>3, <2>1, <2>2
<1>6. p = q
  BY <1>2, <1>4, <1>5
<1> QED
  BY <1>2, <1>3, <1>6 DEF n, p

LEMMA SmallMod ==
  ASSUME NEW d \in Nat \ {0}, NEW r \in 0 .. d - 1
  PROVE  r % d = r
PROOF
<1>1. d * 0 + r = r
  OBVIOUS
<1> QED
  BY <1>1, Quotient

(* A number in a mixed base: sectors of a track, heads of a cylinder.      *)
LEMMA MixedBase ==
  ASSUME NEW spt \in Nat \ {0}, NEW heads \in Nat \ {0}, NEW n \in Nat
  PROVE  /\ n \div spt \in Nat /\ (n \div spt) \div heads \in Nat
         /\ n % spt \in 0 .. spt - 1 /\ (n \div spt) % heads \in 0 .. heads - 1
         /\ n = (((n \div spt) \div heads) * heads + ((n \div spt) % heads)) * spt + (n % spt)
         /\ n \div (heads * spt) = (n \div spt) \div heads
PROOF
<1>1. PICK track \in Nat : track = n \div spt
  BY Division
<1>2. PICK sector \in 0 .. spt - 1 : sector = n % spt
  BY Division
<1>3. PICK cylinder \in Nat : cylinder = track \div heads
  BY Division
<1>4. PICK head \in 0 .. heads - 1 : head = track % heads
  BY Division
<1>5. n = spt * track + sector
  BY <1>1, <1>2, Division
<1>6. track = heads * cylinder + head
  BY <1>3, <1>4, Division
<1>7. n = (cylinder * heads + head) * spt + sector
  <2>1. cylinder * heads = heads * cylinder /\ heads * cylinder \in Nat
    OBVIOUS
  <2>2. cylinder * heads + head = track
    BY <1>6, <2>1
  <2>3. track * spt = spt * track
    OBVIOUS
  <2> QED
    BY <1>5, <2>2, <2>3
<1> DEFINE size == heads * spt
           rest == spt * head + sector
<1>8. n = size * cylinder + rest
  <2>1. spt * (heads * cylinder + head) = (heads * spt) * cylinder + spt * head
    OBVIOUS
  <2> QED
    BY <1>5, <1>6, <2>1
<1>9. rest \in 0 .. size - 1 /\ size \in Nat \ {0}
  <2>1. spt * head <= spt * (heads - 1) /\ spt * 0 <= spt * head
    BY Monotone
  <2>2. spt * (heads - 1) = size - spt /\ spt * 0 = 0
    OBVIOUS
  <2>3. size \in Nat /\ spt * head \in Int
    OBVIOUS
  <2>4. spt * 1 <= spt * heads /\ spt * heads = size /\ spt * 1 = spt
    BY Monotone
  <2> HIDE DEF size
  <2> QED
    BY <2>1, <2>2, <2>3, <2>4
<1> HIDE DEF size, rest
<1>10. n \div size = cylinder
  BY <1>8, <1>9, Quotient
<1> QED
  BY <1>1, <1>2, <1>3, <1>4, <1>7, <1>10 DEF size

LEMMA QuotientBelow ==
  ASSUME NEW n \in Nat, NEW d \in Nat \ {0}, NEW k \in Nat, n < k * d
  PROVE  n \div d \in 0 .. k - 1
PROOF
<1>1. PICK q \in Nat : q = n \div d
  BY Division
<1>2. PICK r \in 0 .. d - 1 : r = n % d
  BY Division
<1>3. n = d * q + r
  BY <1>1, <1>2, Division
<1>4. q >= k => d * q >= d * k
  BY Monotone
<1>5. d * k = k * d /\ k * d \in Nat /\ d * q \in Nat
  OBVIOUS
<1>6. q < k
  BY <1>3, <1>4, <1>5
<1> QED
  BY <1>1, <1>6

LEMMA TrackLimits ==
  ASSUME NEW spt \in Int, NEW heads \in Int, spt \in 1 .. 63, heads \in 1 .. 255
  PROVE  heads * spt \in Nat /\ heads * spt <= 16065
PROOF
<1>1. spt * heads <= spt * 255
  BY Monotone
<1>2. heads * spt = spt * heads /\ heads * spt \in Nat
  OBVIOUS
<1> QED
  BY <1>1, <1>2

(* What the registers hold: an address, a cylinder, a byte, a sector.      *)
Words == 65536
Cylinders == 1024
Bytes == 256
Sectors == 64

LEMMA Widths ==
  /\ Words \in Nat \ {0} /\ Cylinders \in Nat \ {0} /\ Bytes \in Nat \ {0} /\ Sectors \in Nat \ {0}
  /\ 16065 < Words
BY DEF Words, Cylinders, Bytes, Sectors

(* lba_to_chs and the drive agree on every sector that ten bits of         *)
(* cylinder and sixteen of address reach.                                  *)
LEMMA ChsIsRight ==
  ASSUME NEW spt \in Nat \ {0}, NEW heads \in Nat \ {0}, heads < Bytes, spt < Sectors,
         disk.spt = spt, disk.heads = heads, bdb.spt = spt, bdb.heads = heads,
         NEW n \in Nat, n \in 0 .. Words - 1, n < Cylinders * (heads * spt)
  PROVE  SectorAt(lba_to_chs(n)) = n
PROOF
<1>1. heads * spt \in Nat \ {0}
  OBVIOUS
<1>2. heads * spt \in 0 .. Words - 1
  <2>1. spt \in 1 .. 63 /\ heads \in 1 .. 255
    BY DEF Bytes, Sectors
  <2>2. heads * spt \in Nat /\ heads * spt <= 16065
    BY <2>1, TrackLimits
  <2> QED
    BY <2>2, Widths
<1>3. /\ Words \in Nat \ {0} /\ Cylinders \in Nat \ {0} /\ Bytes \in Nat \ {0}
      /\ Sectors \in Nat \ {0}
  BY Widths
<1>4. n \div (heads * spt) \in 0 .. Cylinders - 1
  BY <1>1, <1>3, QuotientBelow, Zenon
<1>5. /\ n % spt \in 0 .. spt - 1 /\ (n \div spt) % heads \in 0 .. heads - 1
      /\ n = (((n \div spt) \div heads) * heads + ((n \div spt) % heads)) * spt + (n % spt)
      /\ n \div (heads * spt) = (n \div spt) \div heads
  BY MixedBase, Zenon
<1> DEFINE c == n \div (heads * spt)
           h == (n \div spt) % heads
           s == n % spt
<1>6. c \in 0 .. Cylinders - 1 /\ h \in 0 .. heads - 1 /\ s \in 0 .. spt - 1
      /\ n = (c * heads + h) * spt + s
  BY <1>4, <1>5, Zenon
<1>7. n % Words = n /\ (heads * spt) % Words = heads * spt
  BY <1>2, <1>3, SmallMod, Zenon
<1>8. lba_to_chs(n) = [cylinder |-> ((n % Words) \div ((bdb.heads * bdb.spt) % Words)) % Cylinders,
                       head |-> (((n % Words) \div bdb.spt) % bdb.heads) % Bytes,
                       sector |-> (((n % Words) % bdb.spt) + 1) % Sectors]
  BY DEF lba_to_chs, Words, Cylinders, Bytes, Sectors
<1>9. lba_to_chs(n) = [cylinder |-> c % Cylinders, head |-> h % Bytes, sector |-> (s + 1) % Sectors]
  BY <1>7, <1>8, Zenon
<1> HIDE DEF c, h, s
<1>10. h \in 0 .. Bytes - 1 /\ s + 1 \in 0 .. Sectors - 1
  BY <1>3, <1>6
<1>11. c % Cylinders = c /\ h % Bytes = h /\ (s + 1) % Sectors = s + 1
  BY <1>3, <1>6, <1>10, SmallMod, Zenon
<1>12. lba_to_chs(n) = [cylinder |-> c, head |-> h, sector |-> s + 1]
  BY <1>9, <1>11, Zenon
<1>13. s + 1 \in 1 .. spt /\ h < heads
  BY <1>6
<1>14. (c * heads + h) * spt + (s + 1) - 1 = n
  <2>1. (c * heads + h) * spt \in Int /\ s \in Int
    BY <1>6
  <2> QED
    BY <1>6, <2>1
<1> QED
  BY <1>12, <1>13, <1>14 DEF SectorAt

(***************************************************************************)
(* What the steps have in common.                                          *)
(***************************************************************************)
LEMMA DiskIs ==
  ASSUME disk \in Disks
  PROVE  /\ disk.sectors \in Nat /\ disk.spt \in 1 .. 63 /\ disk.heads \in 1 .. 255
         /\ disk.extended \in BOOLEAN /\ disk.geometry \in BOOLEAN
         /\ ~disk.geometry => disk.spt = Bpb.spt /\ disk.heads = Bpb.heads
BY Stage1Assumption

(* The sector after the one just read, if there is one to read.            *)
LEMMA NextSectorIs ==
  ASSUME boot \in ReadType, boot.count # 1
  PROVE  /\ NextSector \in ReadType
         /\ NextSector = [op |-> boot.op, lba |-> boot.lba + 1, count |-> boot.count - 1,
                          at |-> boot.at + 1, tries |-> RETRIES, then |-> boot.then]
PROOF
<1>1. /\ boot.count \in 2 .. Size /\ Size \in 1 .. 255 /\ RETRIES \in Nat \ {0}
      /\ boot.lba \in Nat /\ boot.at \in Nat
  BY Stage1Assumption DEF ReadType
<1>2. boot.count - 1 \in 0 .. Words - 1 /\ boot.count - 1 \in 1 .. Size
  BY <1>1, Widths
<1>3. (boot.count - 1) % Words = boot.count - 1
  BY <1>2, Widths, SmallMod
<1>4. NextSector = [boot EXCEPT !.lba = boot.lba + 1, !.count = (boot.count - 1) % Words,
                                !.at = boot.at + 1, !.tries = RETRIES]
  BY DEF NextSector, Words
<1>5. NextSector = [op |-> boot.op, lba |-> boot.lba + 1, count |-> (boot.count - 1) % Words,
                    at |-> boot.at + 1, tries |-> RETRIES, then |-> boot.then]
  BY <1>4 DEF ReadType
<1>6. NextSector = [op |-> boot.op, lba |-> boot.lba + 1, count |-> boot.count - 1,
                    at |-> boot.at + 1, tries |-> RETRIES, then |-> boot.then]
  BY <1>3, <1>5
<1> QED
  BY <1>1, <1>2, <1>6 DEF ReadType

LEMMA TriedAgainIs ==
  ASSUME boot \in ReadType, boot.tries # 1
  PROVE  /\ [boot EXCEPT !.tries = @ - 1] \in ReadType
         /\ [boot EXCEPT !.tries = @ - 1] =
              [op |-> boot.op, lba |-> boot.lba, count |-> boot.count, at |-> boot.at,
               tries |-> boot.tries - 1, then |-> boot.then]
PROOF
<1>1. boot.tries - 1 \in 1 .. RETRIES
  BY Stage1Assumption DEF ReadType
<1>2. [boot EXCEPT !.tries = @ - 1] =
              [op |-> boot.op, lba |-> boot.lba, count |-> boot.count, at |-> boot.at,
               tries |-> boot.tries - 1, then |-> boot.then]
  BY DEF ReadType
<1> QED
  BY <1>1, <1>2 DEF ReadType

(* A read that fails is tried again as it was, or is given up.             *)
LEMMA FailedIs ==
  ASSUME BootInv, InRead, Failed([boot EXCEPT !.tries = @ - 1]),
         memory' \in [Pieces -> Int], UNCHANGED <<disk, extended, bdb>>
  PROVE  /\ BootInv'
         /\ \/ boot' = [op |-> "halt"]
            \/ /\ boot' \in ReadType /\ boot'.op = boot.op /\ boot'.lba = boot.lba
               /\ boot'.count = boot.count /\ boot'.at = boot.at /\ boot'.then = boot.then
PROOF
<1>1. boot \in ReadType /\ failures = RETRIES - boot.tries /\ RETRIES \in Nat \ {0}
  BY Stage1Assumption DEF BootInv, Shape, Tried
<1>2. failures' = RETRIES - (boot.tries - 1)
  BY <1>1 DEF Failed, ReadType
<1>3. CASE boot.tries = 1
  <2>1. boot' = [op |-> "halt"] /\ failures' = RETRIES
    BY <1>1, <1>2, <1>3 DEF Failed
  <2>2. Shape'
    BY <2>1 DEF BootInv, Shape, InRead, Stages
  <2>3. Known' /\ Tried' /\ InfoRead'
    BY <2>1 DEF BootInv, Known, Tried, InfoRead, InRead
  <2> QED
    BY <2>1, <2>2, <2>3 DEF BootInv
<1>4. CASE boot.tries # 1
  <2> DEFINE again == [boot EXCEPT !.tries = @ - 1]
  <2>1. boot' = again
    BY <1>4 DEF Failed
  <2>2. again \in ReadType /\ again.tries = boot.tries - 1
        /\ again.op = boot.op /\ again.lba = boot.lba /\ again.count = boot.count
        /\ again.at = boot.at /\ again.then = boot.then
    BY <1>1, <1>4, TriedAgainIs
  <2> HIDE DEF again
  <2>3. Shape'
    BY <2>1, <2>2 DEF BootInv, Shape, InRead, Stages
  <2>4. Known' /\ Tried' /\ InfoRead'
    BY <1>2, <2>1, <2>2 DEF BootInv, Known, Tried, InfoRead, InRead
  <2> QED
    BY <2>1, <2>2, <2>3, <2>4 DEF BootInv
<1> QED
  BY <1>3, <1>4

LEMMA Positive ==
  ASSUME NEW spt \in 1 .. 63, NEW heads \in 1 .. 255
  PROVE  heads * spt >= 1 /\ heads * spt \in Nat
PROOF
<1>1. spt * 1 <= spt * heads
  BY Monotone
<1>2. spt * heads = heads * spt /\ heads * spt \in Nat
  OBVIOUS
<1> QED
  BY <1>1, <1>2

(* What the BIOS reads for any address is a sector or the end of the disk. *)
LEMMA SectorAtIsInt ==
  ASSUME disk \in Disks, bdb \in [spt : 1 .. 63, heads : 1 .. 256], NEW n \in Nat
  PROVE  SectorAt(lba_to_chs(n)) \in Int
PROOF
<1>1. disk.heads \in Int /\ disk.spt \in Int /\ disk.sectors \in Int
  BY DiskIs
<1>2. PICK spt \in 1 .. 63 : spt = bdb.spt
  OBVIOUS
<1>3. PICK heads \in 1 .. 256 : heads = bdb.heads
  OBVIOUS
<1>4. PICK m \in Nat : m = n % Words
  BY Division, Widths
<1>5. heads * spt \in 0 .. Words - 1 /\ heads * spt \in Nat \ {0}
  <2>1. spt * heads <= spt * 256 /\ spt * 1 <= spt * heads
    BY Monotone
  <2>2. heads * spt = spt * heads /\ heads * spt \in Nat /\ 16128 < Words
    BY DEF Words
  <2> QED
    BY <2>1, <2>2, Widths
<1>6. (heads * spt) % Words = heads * spt
  <2>1. Words \in Nat \ {0}
    BY Widths
  <2> QED
    BY <1>5, <2>1, SmallMod, Zenon
<1>7. PICK c \in Nat : c = m \div (heads * spt)
  BY <1>5, Division
<1>8. PICK h \in Nat : h = (m \div spt) % heads
  <2>5. spt \in Nat \ {0} /\ heads \in Nat \ {0}
    OBVIOUS
  <2>1. PICK track \in Nat : track = m \div spt
    BY <2>5, Division, Zenon
  <2>2. track % heads \in Nat
    BY Division
  <2> QED
    BY <2>1, <2>2
<1>9. PICK r \in Nat : r = m % spt
  BY Division
<1>10. \A x \in Nat : x % Cylinders \in Nat /\ x % Bytes \in Nat /\ x % Sectors \in Nat
  BY Widths
<1>11. lba_to_chs(n) = [cylinder |-> ((n % Words) \div ((bdb.heads * bdb.spt) % Words)) % Cylinders,
                       head |-> (((n % Words) \div bdb.spt) % bdb.heads) % Bytes,
                       sector |-> (((n % Words) % bdb.spt) + 1) % Sectors]
  BY DEF lba_to_chs, Words, Cylinders, Bytes, Sectors
<1>12. lba_to_chs(n) = [cylinder |-> c % Cylinders, head |-> h % Bytes, sector |-> (r + 1) % Sectors]
  BY <1>2, <1>3, <1>4, <1>6, <1>7, <1>8, <1>9, <1>11
<1>13. lba_to_chs(n).cylinder \in Int /\ lba_to_chs(n).head \in Int /\ lba_to_chs(n).sector \in Int
  BY <1>10, <1>12
<1> QED
  BY <1>1, <1>13 DEF SectorAt

LEMMA BootInvInit == Init => BootInv /\ Loading
PROOF
<1> SUFFICES ASSUME Init PROVE BootInv /\ Loading
  OBVIOUS
<1>1. boot = [op |-> "reset"] /\ bdb = Bpb /\ failures = 0 /\ disk \in Disks
  BY DEF Init
<1>2. memory \in [Pieces -> Int]
  BY DEF Init, Junk
<1>3. bdb \in [spt : 1 .. 63, heads : 1 .. 256]
  BY <1>1, Stage1Assumption
<1>4. Shape
  BY <1>1, <1>2, <1>3 DEF Shape, InRead, Stages
<1>5. Known /\ Tried /\ InfoRead /\ Loading
  BY <1>1 DEF Known, Tried, InfoRead, InRead, Loading, JumpsIntoStage2
<1> QED
  BY <1>4, <1>5 DEF BootInv

LEMMA DiskResetKeeps == BootInv /\ DiskReset => BootInv' /\ ~InRead' /\ boot'.op # "stage2"
PROOF
<1> SUFFICES ASSUME BootInv, DiskReset PROVE BootInv' /\ ~InRead' /\ boot'.op # "stage2"
  OBVIOUS
<1>1. boot.op = "reset" /\ boot' = [op |-> "check"]
      /\ UNCHANGED <<disk, extended, bdb, memory, failures>>
  BY DEF DiskReset
<1>2. Shape'
  BY <1>1 DEF BootInv, Shape, InRead, Stages
<1>3. Known' /\ Tried' /\ InfoRead' /\ ~InRead'
  BY <1>1 DEF BootInv, Known, Tried, InfoRead, InRead
<1> QED
  BY <1>1, <1>2, <1>3 DEF BootInv

LEMMA CheckKeeps ==
  BootInv /\ check_disk_extended => BootInv' /\ ~InRead' /\ boot'.op # "stage2"
PROOF
<1> SUFFICES ASSUME BootInv, check_disk_extended
             PROVE  BootInv' /\ ~InRead' /\ boot'.op # "stage2"
  OBVIOUS
<1>1. boot.op = "check" /\ boot' = [op |-> "geometry"] /\ extended' = disk.extended
      /\ UNCHANGED <<disk, bdb, memory, failures>>
  BY DEF check_disk_extended
<1>2. Shape'
  BY <1>1 DEF BootInv, Shape, InRead, Stages
<1>3. Known' /\ Tried' /\ InfoRead' /\ ~InRead'
  BY <1>1 DEF BootInv, Known, Tried, InfoRead, InRead
<1> QED
  BY <1>1, <1>2, <1>3 DEF BootInv

LEMMA SmallSpt == \A n \in 1 .. 63 : n % 64 = n
OBVIOUS

(* A read starts with all its tries.                                       *)
LEMMA ReadingIs ==
  ASSUME NEW lba \in Nat, NEW count \in 1 .. Size, NEW at \in Nat, NEW then \in {"info", "stage2"}
  PROVE  LET b == Reading(lba, count, at, then) IN
         /\ b \in ReadType /\ b.op = (IF extended THEN "extended" ELSE "chs")
         /\ b.lba = lba /\ b.count = count /\ b.at = at /\ b.then = then /\ b.tries = RETRIES
BY Stage1Assumption DEF Reading, ReadType

LEMMA GeometryKeeps ==
  BootInv /\ disk_get_geometry => BootInv' /\ boot'.then = "info" /\ InRead'
PROOF
<1> SUFFICES ASSUME BootInv, disk_get_geometry
             PROVE  BootInv' /\ boot'.then = "info" /\ InRead'
  OBVIOUS
<1> DEFINE b == Reading(1, 1, InfoAt, "info")
<1>1. /\ boot.op = "geometry" /\ boot' = b
      /\ bdb' = IF disk.geometry THEN [spt |-> disk.spt % 64, heads |-> LastHead + 1] ELSE bdb
      /\ UNCHANGED <<disk, extended, memory, failures>>
  BY DEF disk_get_geometry
<1>2. /\ b \in ReadType /\ b.op = (IF extended THEN "extended" ELSE "chs")
      /\ b.lba = 1 /\ b.count = 1 /\ b.at = InfoAt /\ b.then = "info" /\ b.tries = RETRIES
  <2>1. 1 \in 1 .. Size /\ InfoAt \in Nat
    BY Stage1Assumption DEF Pieces
  <2> QED
    BY <2>1, ReadingIs
<1> HIDE DEF b
<1>3. /\ disk.spt \in 1 .. 63 /\ disk.heads \in 1 .. 255
      /\ ~disk.geometry => disk.spt = Bpb.spt /\ disk.heads = Bpb.heads
  BY DiskIs DEF BootInv, Shape
<1>4. disk.spt % 64 = disk.spt /\ LastHead + 1 = disk.heads
  <2>1. disk.spt % 64 = disk.spt
    BY <1>3, SmallSpt, Zenon
  <2>2. LastHead + 1 = disk.heads
    BY <1>3 DEF LastHead
  <2> QED
    BY <2>1, <2>2
<1>5. bdb'.spt = disk.spt /\ bdb'.heads = disk.heads
      /\ bdb' \in [spt : 1 .. 63, heads : 1 .. 256]
  <2>1. CASE disk.geometry
    <3>1. bdb' = [spt |-> disk.spt, heads |-> disk.heads]
      BY <1>1, <1>4, <2>1, Zenon
    <3> QED
      BY <1>3, <3>1
  <2>2. CASE ~disk.geometry
    <3>1. bdb' = bdb /\ bdb = Bpb /\ bdb \in [spt : 1 .. 63, heads : 1 .. 256]
      BY <1>1, <2>2 DEF BootInv, Shape, Known
    <3> QED
      BY <1>3, <2>2, <3>1
  <2> QED
    BY <2>1, <2>2
<1>6. extended = disk.extended /\ disk.extended \in BOOLEAN /\ failures = 0
  BY <1>1, DiskIs DEF BootInv, Known, Tried, InRead, Shape
<1>7. Shape'
  BY <1>1, <1>2, <1>5 DEF BootInv, Shape, InRead, Stages
<1>8. Known' /\ InfoRead'
  BY <1>1, <1>2, <1>5, <1>6 DEF BootInv, Known, InfoRead, InRead
<1>9. Tried'
  BY <1>1, <1>2, <1>6, Stage1Assumption DEF Tried, InRead
<1> QED
  BY <1>1, <1>2, <1>6, <1>7, <1>8, <1>9 DEF BootInv, InRead

(* From stage_2_info, which the first read brought, to stage 2.            *)
LEMMA ReadStage2Keeps ==
  BootInv /\ ReadStage2 =>
    /\ BootInv' /\ UNCHANGED memory
    /\ boot'.lba = Location /\ boot'.count = Size /\ boot'.at = Load /\ boot'.op # "stage2"
PROOF
<1> SUFFICES ASSUME BootInv, ReadStage2
             PROVE  /\ BootInv' /\ UNCHANGED memory
                    /\ boot'.lba = Location /\ boot'.count = Size /\ boot'.at = Load
                    /\ boot'.op # "stage2"
  OBVIOUS
<1> DEFINE b == Reading(Location, Size, Load, "stage2")
<1>1. /\ boot.op = "info" /\ boot' = b /\ UNCHANGED <<disk, extended, bdb, memory, failures>>
  BY DEF ReadStage2, BootInv, InfoRead
<1>2. /\ b \in ReadType /\ b.op = (IF extended THEN "extended" ELSE "chs")
      /\ b.lba = Location /\ b.count = Size /\ b.at = Load /\ b.then = "stage2"
      /\ b.tries = RETRIES
  <2>1. Location \in Nat /\ Size \in 1 .. Size /\ Load \in Nat
    BY Stage1Assumption
  <2> QED
    BY <2>1, ReadingIs
<1> HIDE DEF b
<1>3. extended = disk.extended /\ disk.extended \in BOOLEAN /\ failures = 0
      /\ bdb.spt = disk.spt /\ bdb.heads = disk.heads
  BY <1>1, DiskIs DEF BootInv, Known, Tried, InRead, Shape
<1>4. Shape'
  BY <1>1, <1>2 DEF BootInv, Shape, InRead, Stages
<1>5. Known' /\ InfoRead'
  BY <1>1, <1>2, <1>3 DEF BootInv, Known, InfoRead, InRead
<1>6. Tried'
  BY <1>1, <1>2, <1>3, Stage1Assumption DEF Tried, InRead
<1> QED
  BY <1>1, <1>2, <1>4, <1>5, <1>6 DEF BootInv

(* A read that brought its last sector goes on to what comes after it.     *)
LEMMA ArrivedIs ==
  ASSUME BootInv, InRead, boot' = Arrived, failures' = 0, memory' \in [Pieces -> Int],
         UNCHANGED <<disk, extended, bdb>>,
         boot.then = "info" => memory'[InfoAt] = 1
  PROVE  BootInv' /\ boot' = [op |-> boot.then] /\ ~InRead'
PROOF
<1>1. boot' = [op |-> boot.then] /\ boot.then \in {"info", "stage2"}
  BY DEF Arrived, BootInv, Shape, ReadType
<1>2. Shape'
  BY <1>1 DEF BootInv, Shape, InRead, Stages
<1>3. Known' /\ Tried' /\ InfoRead' /\ ~InRead'
  BY <1>1 DEF BootInv, Known, Tried, InfoRead, InRead
<1> QED
  BY <1>1, <1>2, <1>3 DEF BootInv

LEMMA ExtendedReadKeeps ==
  ASSUME BootInv, ExtendedRead
  PROVE  /\ BootInv'
         /\ \A p \in Pieces : p < boot.at => memory'[p] = memory[p]
         /\ \/ /\ boot' = [op |-> boot.then] /\ ~InRead'
               /\ \A p \in Pieces :
                    p \in boot.at .. boot.at + boot.count - 1 =>
                      memory'[p] = boot.lba + (p - boot.at)
            \/ boot' = [op |-> "halt"]
            \/ /\ boot' \in ReadType /\ boot'.op = boot.op /\ boot'.lba = boot.lba
               /\ boot'.count = boot.count /\ boot'.at = boot.at /\ boot'.then = boot.then
PROOF
<1>1. InRead /\ boot.op = "extended" /\ boot \in ReadType /\ memory \in [Pieces -> Int]
      /\ UNCHANGED <<disk, extended, bdb>>
  BY DEF ExtendedRead, InRead, BootInv, Shape
<1>2. PICK k \in Transfers(boot.lba, boot.count) :
        /\ memory' = Stored(boot.at, boot.lba, k)
        /\ \/ k = boot.count /\ boot' = Arrived /\ failures' = 0
           \/ Failed([boot EXCEPT !.tries = @ - 1])
  BY DEF ExtendedRead
<1>3. k \in Nat /\ boot.at \in Nat /\ boot.lba \in Int /\ boot.count \in Nat
  BY <1>1, Stage1Assumption DEF Transfers, ReadType
<1>4. /\ memory' \in [Pieces -> Int]
      /\ \A p \in Pieces :
           memory'[p] = IF p \in boot.at .. boot.at + k - 1 THEN boot.lba + (p - boot.at) ELSE memory[p]
  <2> DEFINE stored == Stored(boot.at, boot.lba, k)
  <2>1. /\ stored \in [Pieces -> Int]
        /\ \A p \in Pieces :
             stored[p] = IF p \in boot.at .. boot.at + k - 1 THEN boot.lba + (p - boot.at) ELSE memory[p]
    BY <1>1, <1>3 DEF Stored, Pieces
  <2>2. memory' = stored
    BY <1>2
  <2> QED
    BY <2>1, <2>2, Zenon
<1>5. \A p \in Pieces : p < boot.at => memory'[p] = memory[p]
  BY <1>3, <1>4 DEF Pieces
<1>6. CASE k = boot.count /\ boot' = Arrived /\ failures' = 0
  <2>1. \A p \in Pieces :
          p \in boot.at .. boot.at + boot.count - 1 => memory'[p] = boot.lba + (p - boot.at)
    BY <1>4, <1>6
  <2>2. boot.then = "info" => memory'[InfoAt] = 1
    <3>1. InfoAt \in Pieces /\ InfoAt \in Int
      BY Stage1Assumption DEF Pieces
    <3> QED
      BY <1>1, <2>1, <3>1 DEF BootInv, InfoRead
  <2> QED
    BY <1>1, <1>4, <1>6, <2>1, <2>2, <1>5, ArrivedIs
<1>7. CASE Failed([boot EXCEPT !.tries = @ - 1])
  BY <1>1, <1>4, <1>7, <1>5, FailedIs
<1> QED
  BY <1>2, <1>6, <1>7

LEMMA ChsReadsSector ==
  ASSUME BootInv, boot.op = "chs",
         boot.lba \in 0 .. Words - 1, boot.lba < Cylinders * (disk.heads * disk.spt)
  PROVE  SectorAt(lba_to_chs(boot.lba)) = boot.lba
PROOF
<1>1. disk.spt \in 1 .. 63 /\ disk.heads \in 1 .. 255
  BY DiskIs DEF BootInv, Shape
<1>2. disk.spt \in Nat \ {0} /\ disk.heads \in Nat \ {0} /\ boot.lba \in Nat
  BY <1>1, Widths
<1>3. disk.heads < Bytes /\ disk.spt < Sectors
  BY <1>1 DEF Bytes, Sectors
<1>4. bdb.spt = disk.spt /\ bdb.heads = disk.heads
  BY DEF BootInv, Known
<1> QED
  BY <1>2, <1>3, <1>4, ChsIsRight, Zenon

LEMMA ChsReadKeeps ==
  ASSUME BootInv, ChsRead
  PROVE  /\ BootInv' /\ UNCHANGED disk
         /\ \A p \in Pieces : p # boot.at => memory'[p] = memory[p]
         /\ \/ /\ boot.at \in Pieces => memory'[boot.at] = SectorAt(lba_to_chs(boot.lba))
               /\ \/ boot.count = 1 /\ boot' = [op |-> boot.then] /\ ~InRead'
                  \/ /\ boot.count # 1 /\ boot' \in ReadType /\ boot'.op = boot.op
                     /\ boot'.lba = boot.lba + 1 /\ boot'.count = boot.count - 1
                     /\ boot'.at = boot.at + 1 /\ boot'.then = boot.then
            \/ boot' = [op |-> "halt"]
            \/ /\ boot' \in ReadType /\ boot'.op = boot.op /\ boot'.lba = boot.lba
               /\ boot'.count = boot.count /\ boot'.at = boot.at /\ boot'.then = boot.then
PROOF
<1>1. /\ InRead /\ boot.op = "chs" /\ boot \in ReadType /\ memory \in [Pieces -> Int]
      /\ UNCHANGED <<disk, extended, bdb>>
  BY DEF ChsRead, InRead, BootInv, Shape
<1> DEFINE lba == SectorAt(lba_to_chs(boot.lba))
<1>2. PICK k \in Transfers(lba, 1) :
        /\ memory' = Stored(boot.at, lba, k)
        /\ \/ /\ k = 1
              /\ boot' = IF boot.count = 1 THEN Arrived ELSE NextSector
              /\ failures' = 0
           \/ Failed([boot EXCEPT !.tries = @ - 1])
  BY DEF ChsRead
<1>3. k \in {0, 1} /\ boot.at \in Nat /\ lba \in Int
  BY <1>1, <1>2, SectorAtIsInt DEF Transfers, ReadType, BootInv, Shape
<1> HIDE DEF lba
<1>4. /\ memory' \in [Pieces -> Int]
      /\ \A p \in Pieces : p # boot.at => memory'[p] = memory[p]
      /\ boot.at \in Pieces /\ k = 1 => memory'[boot.at] = lba
  BY <1>1, <1>2, <1>3 DEF Stored, Pieces
<1>5. CASE k = 1 /\ boot.count = 1 /\ boot' = Arrived /\ failures' = 0
  <2>1. boot.then = "info" => memory'[InfoAt] = 1
    <3>1. ASSUME boot.then = "info" PROVE memory'[InfoAt] = 1
      <4>1. boot.at = InfoAt /\ boot.lba = 1 /\ InfoAt \in Pieces
        BY <1>1, <3>1, Stage1Assumption DEF BootInv, InfoRead
      <4>2. disk.spt \in 1 .. 63 /\ disk.heads \in 1 .. 255
        BY DiskIs DEF BootInv, Shape
      <4>3. disk.heads * disk.spt >= 1 /\ disk.heads * disk.spt \in Nat
        BY <4>2, Positive
      <4>4. 1 \in 0 .. Words - 1 /\ 1 < Cylinders * (disk.heads * disk.spt)
        BY <4>3, Widths DEF Cylinders
      <4>5. lba = 1
        BY <1>1, <4>1, <4>4, ChsReadsSector DEF lba
      <4> QED
        BY <1>4, <1>5, <4>1, <4>5
    <3> QED
      BY <3>1
  <2>2. BootInv' /\ boot' = [op |-> boot.then] /\ ~InRead'
    BY <1>1, <1>4, <1>5, <2>1, ArrivedIs
  <2> QED
    BY <1>1, <1>4, <1>5, <2>2 DEF lba
<1>6. CASE k = 1 /\ boot.count # 1 /\ boot' = NextSector /\ failures' = 0
  <2>1. /\ boot' \in ReadType /\ boot'.op = boot.op /\ boot'.lba = boot.lba + 1
        /\ boot'.count = boot.count - 1 /\ boot'.at = boot.at + 1 /\ boot'.then = boot.then
        /\ boot'.tries = RETRIES
    BY <1>1, <1>6, NextSectorIs
  <2>2. boot.then # "info"
    BY <1>1, <1>6 DEF BootInv, InfoRead
  <2>3. Shape'
    BY <1>1, <1>4, <2>1 DEF BootInv, Shape, InRead, Stages
  <2>4. Known' /\ InfoRead'
    BY <1>1, <2>1, <2>2 DEF BootInv, Known, InfoRead, InRead
  <2>5. Tried'
    BY <1>1, <1>6, <2>1, Stage1Assumption DEF Tried, InRead
  <2> QED
    BY <1>1, <1>4, <1>6, <2>1, <2>3, <2>4, <2>5 DEF BootInv, lba
<1>7. CASE Failed([boot EXCEPT !.tries = @ - 1])
  BY <1>1, <1>4, <1>7, FailedIs
<1> QED
  BY <1>2, <1>5, <1>6, <1>7

(* Every step keeps the invariant.                                         *)
LEMMA BootInvStep == BootInv /\ [Next]_vars => BootInv'
PROOF
<1> SUFFICES ASSUME BootInv, [Next]_vars PROVE BootInv'
  OBVIOUS
<1>1. CASE UNCHANGED vars
  BY <1>1 DEF vars, BootInv, Shape, Known, Tried, InfoRead, InRead
<1>2. CASE DiskReset
  BY <1>2, DiskResetKeeps
<1>3. CASE check_disk_extended
  BY <1>3, CheckKeeps
<1>4. CASE disk_get_geometry
  BY <1>4, GeometryKeeps
<1>5. CASE ExtendedRead
  BY <1>5, ExtendedReadKeeps
<1>6. CASE ChsRead
  BY <1>6, ChsReadKeeps
<1>7. CASE ReadStage2
  BY <1>7, ReadStage2Keeps
<1> QED
  BY <1>1, <1>2, <1>3, <1>4, <1>5, <1>6, <1>7 DEF Next

LEMMA AlwaysBootInv == Spec => []BootInv
PROOF
<1>1. Init => BootInv
  BY BootInvInit
<1> QED
  BY <1>1, BootInvStep, PTL DEF Spec

(* The geometry stays one of a drive, and the tries and the sectors of the *)
(* read in hand stay within what was asked for, whatever the drive answers. *)
THEOREM TypeCorrect == Spec => []TypeOK
PROOF
<1>1. BootInv => TypeOK
  <2> SUFFICES ASSUME BootInv PROVE TypeOK
    OBVIOUS
  <2>1. CASE InRead
    BY <2>1 DEF BootInv, Shape, TypeOK, ReadType
  <2>2. CASE ~InRead
    <3>1. boot = [op |-> boot.op]
      BY <2>2 DEF BootInv, Shape
    <3>2. "tries" \notin DOMAIN boot
      BY <3>1
    <3> QED
      BY <3>2 DEF BootInv, Shape, TypeOK
  <2> QED
    BY <2>1, <2>2
<1> QED
  BY <1>1, AlwaysBootInv, PTL

(* For any drive, read by either way and after any failed reads, what      *)
(* disk_read brings to __stage2_info_start is the sector of stage_2_info.  *)
THEOREM FindsItsInfo == Spec => []InfoFound
PROOF
<1>1. BootInv => InfoFound
  BY DEF BootInv, Shape, InRead, Stages, InfoFound
<1> QED
  BY <1>1, AlwaysBootInv, PTL

(* For any number of tries and of sectors: the boot sector halts only when *)
(* the last RETRIES reads of the BIOS, all of them of one sector, failed.  *)
THEOREM HaltsAfterTheLastTry == Spec => []GivesUpLate
PROOF
<1>1. BootInv => GivesUpLate
  BY DEF BootInv, Tried, InRead, GivesUpLate
<1> QED
  BY <1>1, AlwaysBootInv, PTL

(***************************************************************************)
(* Stage 2 is in memory when it is entered.                                *)
(***************************************************************************)
(* Ten bits of cylinder reach the end of stage 2 on the drives that are    *)
(* read by cylinder, head and sector.                                      *)
ChsReaches ==
  \A d \in Disks : ~d.extended => Location + Size <= Cylinders * (d.heads * d.spt)

(* What a piece of stage 2 is read into.                                   *)
LEMMA PieceOfStage2 ==
  ASSUME NEW i \in 0 .. Size - 1
  PROVE  Load + i \in Pieces
BY Stage1Assumption DEF Pieces

(* A read that moved nothing leaves what is left of stage 2 as it was.     *)
LEMMA SameRead ==
  ASSUME BootInv, Loading, InRead, boot' \in ReadType, boot'.op = boot.op,
         boot'.lba = boot.lba, boot'.count = boot.count, boot'.at = boot.at,
         boot'.then = boot.then,
         \A p \in Pieces : p < boot.at => memory'[p] = memory[p]
  PROVE  Loading'
PROOF
<1>1. InRead' /\ boot'.op # "stage2"
  BY DEF InRead
<1>2. ASSUME boot'.then = "stage2"
      PROVE  /\ boot'.lba \in Location .. Location + Size - 1
             /\ boot'.at - Load = boot'.lba - Location
             /\ boot'.count = Size - (boot'.lba - Location)
             /\ \A i \in 0 .. boot'.lba - Location - 1 : memory'[Load + i] = Location + i
  <2>1. /\ boot.lba \in Location .. Location + Size - 1
        /\ boot.at - Load = boot.lba - Location
        /\ boot.count = Size - (boot.lba - Location)
        /\ \A i \in 0 .. boot.lba - Location - 1 : memory[Load + i] = Location + i
    BY <1>2 DEF Loading
  <2>2. Location \in Nat /\ Load \in Nat /\ Size \in Nat /\ boot.at \in Nat
    BY Stage1Assumption DEF ReadType, BootInv, Shape
  <2>3. ASSUME NEW i \in 0 .. boot.lba - Location - 1
        PROVE  memory'[Load + i] = Location + i
    <3>1. i \in 0 .. Size - 1 /\ Load + i < boot.at
      BY <2>1, <2>2
    <3>2. Load + i \in Pieces
      BY <3>1, PieceOfStage2
    <3> QED
      BY <2>1, <3>1, <3>2
  <2> QED
    BY <2>1, <2>3
<1> QED
  BY <1>1, <1>2 DEF Loading, JumpsIntoStage2

LEMMA NoReadKeeps == ~InRead' /\ boot'.op # "stage2" => Loading'
BY DEF Loading, JumpsIntoStage2

LEMMA ExtendedReadLoads ==
  ASSUME BootInv, Loading, ExtendedRead
  PROVE  Loading'
PROOF
<1>1. InRead /\ boot \in ReadType
  BY DEF ExtendedRead, InRead, BootInv, Shape
<1>2. CASE /\ boot' = [op |-> boot.then] /\ ~InRead'
           /\ \A p \in Pieces :
                p \in boot.at .. boot.at + boot.count - 1 =>
                  memory'[p] = boot.lba + (p - boot.at)
  <2>1. CASE boot.then # "stage2"
    BY <1>2, <2>1, NoReadKeeps
  <2>2. CASE boot.then = "stage2"
    <3>1. /\ boot.lba = Location + (boot.at - Load) /\ boot.at - Load \in 0 .. Size - 1
          /\ boot.count = Size - (boot.at - Load)
          /\ \A i \in 0 .. boot.at - Load - 1 : memory[Load + i] = Location + i
          /\ Location \in Nat /\ Load \in Nat /\ Size \in Nat /\ boot.at \in Nat
      BY <1>1, <2>2, Stage1Assumption DEF Loading, ReadType
    <3>2. \A p \in Pieces : p < boot.at => memory'[p] = memory[p]
      BY ExtendedReadKeeps
    <3>3. ASSUME NEW i \in 0 .. Size - 1
          PROVE  memory'[Load + i] = Location + i
      <4>1. Load + i \in Pieces
        BY PieceOfStage2
      <4>2. CASE i < boot.at - Load
        BY <3>1, <3>2, <4>1, <4>2
      <4>3. CASE i >= boot.at - Load
        <5>1. Load + i \in boot.at .. boot.at + boot.count - 1
          BY <3>1, <4>3
        <5>2. memory'[Load + i] = boot.lba + ((Load + i) - boot.at)
          BY <1>2, <4>1, <5>1, Zenon
        <5> QED
          BY <3>1, <5>2
      <4> QED
        BY <3>1, <4>2, <4>3
    <3> QED
      BY <1>2, <3>3 DEF Loading, JumpsIntoStage2
  <2> QED
    BY <2>1, <2>2
<1>3. CASE boot' = [op |-> "halt"]
  BY <1>3, NoReadKeeps DEF InRead
<1>4. CASE /\ boot' \in ReadType /\ boot'.op = boot.op /\ boot'.lba = boot.lba
           /\ boot'.count = boot.count /\ boot'.at = boot.at /\ boot'.then = boot.then
  <2>1. \A p \in Pieces : p < boot.at => memory'[p] = memory[p]
    BY ExtendedReadKeeps
  <2> QED
    BY <1>1, <1>4, <2>1, SameRead
<1> QED
  BY <1>2, <1>3, <1>4, ExtendedReadKeeps

LEMMA ChsReadLoads ==
  ASSUME BootInv, Loading, ChsRead, ChsReaches
  PROVE  Loading'
PROOF
<1>1. InRead /\ boot.op = "chs" /\ boot \in ReadType
  BY DEF ChsRead, InRead, BootInv, Shape
<1>2. \A p \in Pieces : p # boot.at => memory'[p] = memory[p]
  BY ChsReadKeeps
<1>3. \A p \in Pieces : p < boot.at => memory'[p] = memory[p]
  BY <1>1, <1>2 DEF Pieces, ReadType
<1>4. CASE boot' = [op |-> "halt"]
  BY <1>4, NoReadKeeps DEF InRead
<1>5. CASE /\ boot' \in ReadType /\ boot'.op = boot.op /\ boot'.lba = boot.lba
           /\ boot'.count = boot.count /\ boot'.at = boot.at /\ boot'.then = boot.then
  BY <1>1, <1>3, <1>5, SameRead
<1>6. CASE /\ boot.at \in Pieces => memory'[boot.at] = SectorAt(lba_to_chs(boot.lba))
           /\ \/ boot.count = 1 /\ boot' = [op |-> boot.then] /\ ~InRead'
              \/ /\ boot.count # 1 /\ boot' \in ReadType /\ boot'.op = boot.op
                 /\ boot'.lba = boot.lba + 1 /\ boot'.count = boot.count - 1
                 /\ boot'.at = boot.at + 1 /\ boot'.then = boot.then
  <2>1. CASE boot.then # "stage2"
    <3>1. boot.count = 1
      BY <1>1, <2>1 DEF BootInv, InfoRead, ReadType
    <3> QED
      BY <1>6, <2>1, <3>1, NoReadKeeps
  <2>2. CASE boot.then = "stage2"
    <3>1. /\ boot.lba \in Location .. Location + Size - 1
          /\ boot.at - Load = boot.lba - Location
          /\ boot.count = Size - (boot.lba - Location)
          /\ \A i \in 0 .. boot.lba - Location - 1 : memory[Load + i] = Location + i
      BY <1>1, <2>2 DEF Loading
    <3>2. Location \in Nat /\ Load \in Nat /\ Size \in Nat /\ boot.at \in Nat
          /\ Location + Size <= Words
      BY <1>1, Stage1Assumption DEF ReadType, Words
    <3>3. SectorAt(lba_to_chs(boot.lba)) = boot.lba
      <4>1. ~disk.extended /\ disk \in Disks
        BY <1>1 DEF BootInv, Known, Shape
      <4>2. Location + Size <= Cylinders * (disk.heads * disk.spt)
        BY <4>1 DEF ChsReaches
      <4>3. Cylinders * (disk.heads * disk.spt) \in Int
        <5>1. disk.heads \in Int /\ disk.spt \in Int
          BY <4>1, DiskIs
        <5> QED
          BY <5>1, Widths
      <4>4. Words \in Int
        BY Widths
      <4>5. boot.lba \in 0 .. Words - 1 /\ boot.lba < Cylinders * (disk.heads * disk.spt)
        <5> DEFINE end == Cylinders * (disk.heads * disk.spt)
        <5>1. end \in Int /\ Location + Size <= end
          BY <4>2, <4>3
        <5> HIDE DEF end
        <5>2. boot.lba \in 0 .. Words - 1 /\ boot.lba < end
          BY <3>1, <3>2, <4>4, <5>1
        <5> QED
          BY <5>2 DEF end
      <4> QED
        BY <1>1, <4>5, ChsReadsSector, Zenon
    <3> DEFINE done == boot.lba - Location
    <3>4. done \in 0 .. Size - 1 /\ boot.at = Load + done /\ boot.lba = Location + done
      BY <3>1, <3>2
    <3>5. boot.at \in Pieces
      BY <3>4, PieceOfStage2
    <3>6. ASSUME NEW i \in 0 .. done
          PROVE  memory'[Load + i] = Location + i
      <4>1. i \in 0 .. Size - 1
        BY <3>2, <3>4
      <4>2. Load + i \in Pieces
        BY <4>1, PieceOfStage2
      <4>3. CASE i = done
        BY <1>6, <3>3, <3>4, <3>5, <4>3
      <4>4. CASE i # done
        <5>1. Load + i # boot.at /\ i \in 0 .. boot.lba - Location - 1
          BY <3>2, <3>4, <4>1, <4>4
        <5> QED
          BY <1>2, <3>1, <4>2, <5>1
      <4> QED
        BY <4>3, <4>4
    <3>7. CASE boot.count = 1 /\ boot' = [op |-> boot.then] /\ ~InRead'
      <4>1. done = Size - 1
        BY <3>1, <3>2, <3>4, <3>7
      <4> QED
        BY <3>6, <3>7, <4>1 DEF Loading, JumpsIntoStage2
    <3>8. CASE /\ boot.count # 1 /\ boot' \in ReadType /\ boot'.op = boot.op
               /\ boot'.lba = boot.lba + 1 /\ boot'.count = boot.count - 1
               /\ boot'.at = boot.at + 1 /\ boot'.then = boot.then
      <4>1. boot'.op # "stage2"
        BY <1>1, <3>8
      <4>2. /\ boot'.lba \in Location .. Location + Size - 1
            /\ boot'.at - Load = boot'.lba - Location
            /\ boot'.count = Size - (boot'.lba - Location)
            /\ boot'.lba - Location - 1 = done
        BY <3>1, <3>2, <3>4, <3>8
      <4>3. \A i \in 0 .. boot'.lba - Location - 1 : memory'[Load + i] = Location + i
        BY <3>6, <4>2
      <4> QED
        BY <4>1, <4>2, <4>3 DEF Loading, JumpsIntoStage2
    <3> QED
      BY <1>6, <3>7, <3>8
  <2> QED
    BY <2>1, <2>2
<1> QED
  BY <1>4, <1>5, <1>6, ChsReadKeeps

LEMMA LoadingStep ==
  ASSUME ChsReaches, BootInv, Loading, [Next]_vars
  PROVE  Loading'
PROOF
<1>1. CASE UNCHANGED vars
  BY <1>1 DEF vars, Loading, InRead, JumpsIntoStage2
<1>2. CASE DiskReset
  BY <1>2, DiskResetKeeps, NoReadKeeps
<1>3. CASE check_disk_extended
  BY <1>3, CheckKeeps, NoReadKeeps
<1>4. CASE disk_get_geometry
  <2>1. boot'.then = "info" /\ boot'.op # "stage2"
    BY <1>4, GeometryKeeps DEF InRead
  <2> QED
    BY <2>1 DEF Loading, JumpsIntoStage2
<1>5. CASE ExtendedRead
  BY <1>5, ExtendedReadLoads
<1>6. CASE ChsRead
  BY <1>6, ChsReadLoads
<1>7. CASE ReadStage2
  <2>1. /\ boot'.lba = Location /\ boot'.count = Size /\ boot'.at = Load
        /\ boot'.op # "stage2"
    BY <1>7, ReadStage2Keeps
  <2> QED
    BY <2>1, Stage1Assumption DEF Loading, JumpsIntoStage2
<1> QED
  BY <1>1, <1>2, <1>3, <1>4, <1>5, <1>6, <1>7 DEF Next

(* For any number of sectors, any place of stage 2 and any geometry: when  *)
(* the boot sector jumps to stage 2, every sector of it is where it is     *)
(* linked to, read by either way, across heads and cylinders, after any    *)
(* failed and partial reads.  Without ChsReaches the ten bits of the       *)
(* cylinder name another sector, and the boot sector does not notice.      *)
THEOREM EntersWholeStage2 ==
  ASSUME ChsReaches
  PROVE  Spec => []JumpsIntoStage2
PROOF
<1>1. Init => BootInv /\ Loading
  BY BootInvInit
<1>2. BootInv /\ Loading /\ [Next]_vars => BootInv' /\ Loading'
  BY ChsReaches, BootInvStep, LoadingStep
<1>3. Loading => JumpsIntoStage2
  BY DEF Loading
<1> QED
  BY <1>1, <1>2, <1>3, PTL DEF Spec
=============================================================================
