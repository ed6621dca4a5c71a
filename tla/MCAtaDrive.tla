------------------------------ MODULE MCAtaDrive ------------------------------
(***************************************************************************)
(* Two channels: a lone disk, a disk beside a packet drive or as a slave,  *)
(* and nothing at all.  A disk of 3 sectors on a bus of 4 addresses, so    *)
(* that a read can run off the disk, off the bus and stay on both.  The    *)
(* packet drive is slow to take note of a command.                         *)
(***************************************************************************)
EXTENDS AtaDrive, TLC

Plug(kind, size) == [kind |-> kind, size |-> size, lags |-> kind = "packet"]

Empty == (<<2, 0>> :> Plug("floating", 0)) @@ (<<2, 1>> :> Plug("floating", 0))

LoneDisk == (<<1, 0>> :> Plug("ata", 3)) @@ (<<1, 1>> :> Plug("silent", 0)) @@ Empty

TwoDisks == (<<1, 0>> :> Plug("ata", 3)) @@ (<<1, 1>> :> Plug("ata", 4)) @@ Empty

SlaveDisk == (<<1, 0>> :> Plug("packet", 0)) @@ (<<1, 1>> :> Plug("ata", 4)) @@ Empty

SecondDisk ==
  (<<1, 0>> :> Plug("floating", 0)) @@ (<<1, 1>> :> Plug("floating", 0))
    @@ (<<2, 0>> :> Plug("silent", 0)) @@ (<<2, 1>> :> Plug("ata", 3))

SomeMachines == {LoneDisk, TwoDisks, SlaveDisk, SecondDisk}

LaggingDisk == {[LoneDisk EXCEPT ![<<1, 0>>].lags = TRUE]}

Ask(lba, count) == [lba |-> lba, count |-> count]

SomeRequests == {Ask(0, 1), Ask(1, 2), Ask(2, 2), Ask(0, 0), Ask(4, 1)}
=============================================================================
