----------------------------- MODULE FatDetection -----------------------------
(***************************************************************************)
(* What detectAndMount makes of sector 0: whether FAT12FileSystem::detect  *)
(* takes the disk for a FAT12 volume, and whether initialize goes along.   *)
(*                                                                         *)
(* A boot sector is [signature, bytes_per_sector, sectors_per_cluster,     *)
(* reserved_sector_count, num_fats, root_entry_count, total_sectors_16,    *)
(* total_sectors_32, fat_size_16].                                         *)
(***************************************************************************)
EXTENDS Integers

CONSTANTS
  ENTRY_SIZE,   \* bytes of a directory entry (32)
  LIMIT,        \* clusters from which a volume is not FAT12 (4085)
  WORD          \* number of values of a uint32_t

PowersOfTwo == {2 ^ k : k \in 0 .. 15}

TotalSectors(bs) ==
  IF bs.total_sectors_16 # 0 THEN bs.total_sectors_16 ELSE bs.total_sectors_32

RootDirSectors(bs) ==
  ((bs.root_entry_count * ENTRY_SIZE) + bs.bytes_per_sector - 1) \div bs.bytes_per_sector

Overhead(bs) ==
  bs.reserved_sector_count + (bs.num_fats * bs.fat_size_16) + RootDirSectors(bs)

(* Mutant: the difference is taken for a signed number.                    *)
Clusters_Signed(bs) == (TotalSectors(bs) - Overhead(bs)) \div bs.sectors_per_cluster

(* The sectors behind the metadata, an unsigned difference, by clusters.   *)
Clusters(bs) == ((TotalSectors(bs) - Overhead(bs)) % WORD) \div bs.sectors_per_cluster

Detected(bs) ==
  /\ bs.signature
  /\ bs.bytes_per_sector \in PowersOfTwo /\ bs.sectors_per_cluster \in PowersOfTwo
  /\ bs.fat_size_16 # 0
  /\ Clusters(bs) < LIMIT

(* What initialize asks for beyond that.                                   *)
Accepted(bs) == bs.total_sectors_16 # 0 /\ bs.fat_size_16 # 0

(* The widths of the fields: the size of a volume and what its metadata    *)
(* could take, with the clusters of a FAT12 volume, are numbers of a       *)
(* uint32_t.                                                               *)
VolumeFits(bs) ==
  bs.bytes_per_sector \in PowersOfTwo /\ bs.sectors_per_cluster \in PowersOfTwo =>
    /\ bs.sectors_per_cluster \in 1 .. 255
    /\ TotalSectors(bs) \in 0 .. WORD - 1 /\ Overhead(bs) \in Nat
    /\ Overhead(bs) + (LIMIT * bs.sectors_per_cluster) <= WORD

(* The rule that tells FAT12 from FAT16 by the number of clusters, for a   *)
(* volume that holds its own metadata.                                     *)
IsFat12(bs) ==
  /\ bs.signature
  /\ bs.bytes_per_sector \in PowersOfTwo /\ bs.sectors_per_cluster \in PowersOfTwo
  /\ Overhead(bs) <= TotalSectors(bs)
  /\ TotalSectors(bs) - Overhead(bs) < LIMIT * bs.sectors_per_cluster
=============================================================================
