----------------------------- MODULE MCStage1Disk -----------------------------
(***************************************************************************)
(* Drives of 2 or 3 heads with 2 or 3 sectors a track, so that a stage 2   *)
(* of five sectors crosses heads and cylinders; one drive ends inside it.  *)
(***************************************************************************)
EXTENDS Stage1Disk, TLC

Drive(sectors, spt, heads, ext, geo) ==
  [sectors |-> sectors, spt |-> spt, heads |-> heads, extended |-> ext, geometry |-> geo]

SomeDisks ==
  {Drive(12, 2, 3, e, g) : e \in BOOLEAN, g \in BOOLEAN}
    \cup {Drive(12, 3, 2, e, TRUE) : e \in BOOLEAN}
    \cup {Drive(12, 63, 255, FALSE, TRUE), Drive(5, 2, 3, TRUE, TRUE), Drive(5, 2, 3, FALSE, FALSE)}

SmallBpb == [spt |-> 2, heads |-> 3]
=============================================================================
