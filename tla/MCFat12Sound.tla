---------------------------- MODULE MCFat12Sound ----------------------------
(***************************************************************************)
(* The runs on which the driver keeps its promises: their volumes are      *)
(* those the theorems of Fat12Proofs are about.                            *)
(***************************************************************************)
EXTENDS MCFat12

ASSUME SoundAssumption == SoundVolume /\ NoFillFails /\ EntriesComplete
=============================================================================
