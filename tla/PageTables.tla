----------------------------- MODULE PageTables -----------------------------
(***************************************************************************)
(* Page tables of four levels, as the MMU reads them.  Addresses count     *)
(* pages, so the flags of an entry are fields of their own; a table lives  *)
(* in a page frame.                                                        *)
(***************************************************************************)
EXTENDS Integers

CONSTANT Fan    \* entries of a table (512), pages in a large page

ASSUME FanAssumption == Fan \in Nat \ {0, 1}

Slots == 0 .. Fan - 1

Nowhere == -1

Absent == [to |-> Nowhere, large |-> FALSE]

Link(f) == [to |-> f, large |-> FALSE]

Large(f) == [to |-> f, large |-> TRUE]

Present(e) == e.to # Nowhere

EmptyTable == [s \in Slots |-> Absent]

Index4(v) == v \div (Fan * Fan * Fan)
Index3(v) == (v \div (Fan * Fan)) % Fan
Index2(v) == (v \div Fan) % Fan
Index1(v) == v % Fan

(* Entry s of the table in frame t of the memory m; no table, no entry.    *)
Entry(m, t, s) == IF t \in DOMAIN m THEN m[t][s] ELSE Absent

(* The translation of page v: its first page, its span and its frame.      *)
Translation(m, root, v) ==
  LET e3 == Entry(m, Entry(m, root, Index4(v)).to, Index3(v))
      e2 == Entry(m, e3.to, Index2(v))
      e1 == Entry(m, e2.to, Index1(v))
  IN  IF e2.large THEN [page |-> v - Index1(v), span |-> Fan, frame |-> e2.to]
      ELSE [page |-> v, span |-> 1, frame |-> e1.to]

Walk(m, root, v) ==
  LET t == Translation(m, root, v)
  IN  IF t.frame = Nowhere THEN Nowhere ELSE t.frame + (v - t.page)
=============================================================================
