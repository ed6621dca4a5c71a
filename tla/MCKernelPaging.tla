--------------------------- MODULE MCKernelPaging ---------------------------
(***************************************************************************)
(* Tables of 4 entries: 256 pages, the upper half from page 128.  The boot *)
(* loader has mapped pages 0..11, its tables among them, to themselves and *)
(* the 12 pages of the kernel image from page 128.                         *)
(***************************************************************************)
EXTENDS KernelPaging, TLC

Row(f) == [s \in Slots |-> IF s \in DOMAIN f THEN f[s] ELSE Absent]

Leaf(first) == [s \in Slots |-> Link(first + s)]

Identity ==
  (2 :> Row(0 :> Link(3)))
    @@ (3 :> Row((0 :> Link(4)) @@ (1 :> Link(10)) @@ (2 :> Link(11))))
    @@ (4 :> Leaf(0)) @@ (10 :> Leaf(4)) @@ (11 :> Leaf(8))

(* The image in small pages.                                               *)
SmallImage ==
  (1 :> Row((0 :> Link(2)) @@ (2 :> Link(5)))) @@ (5 :> Row(0 :> Link(6)))
    @@ (6 :> Row((0 :> Link(7)) @@ (1 :> Link(8)) @@ (2 :> Link(9))))
    @@ (7 :> Leaf(16)) @@ (8 :> Leaf(20)) @@ (9 :> Leaf(24)) @@ Identity

(* The image in large pages, as the boot loader maps it when its base and  *)
(* its size allow.                                                         *)
LargeImage ==
  (1 :> Row((0 :> Link(2)) @@ (2 :> Link(5)))) @@ (5 :> Row(0 :> Link(6)))
    @@ (6 :> Row((0 :> Large(16)) @@ (1 :> Large(20)) @@ (2 :> Large(24)))) @@ Identity

Run(p, f, n) == [page |-> p, frame |-> f, count |-> n]

(* A page of firmware tables, two pages that lie across two last-level     *)
(* tables, and a page that shares the second of these.                     *)
MapRuns == {Run(10, 10, 1), Run(15, 8, 2), Run(18, 10, 1)}
SinglePages == {Run(10, 0, 1), Run(15, 0, 1), Run(16, 0, 1), Run(18, 0, 1), Run(40, 0, 1)}
OneLarge == {Run(64, 12, 1)}

(* The RSDP in a page that is mapped later, at the end of a table's last    *)
(* page, and across a page.                                                *)
SomeRsdps == {[page |-> 10, crosses |-> FALSE], [page |-> 15, crosses |-> FALSE], [page |-> 15, crosses |-> TRUE]}
AllFrames == 0 .. 28
SomePages == {10, 15, 16, 18, 65}
=============================================================================
