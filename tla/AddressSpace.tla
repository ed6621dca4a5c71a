----------------------------- MODULE AddressSpace -----------------------------
(***************************************************************************)
(* What the kernel's paging code promises: one map from virtual pages to   *)
(* page frames.  No tables, no levels, no TLB.                             *)
(***************************************************************************)
EXTENDS Integers

CONSTANTS
  Pages,      \* the virtual pages
  Lower,      \* those of the lower half, the boot loader's
  Frames,     \* the page frames
  Nowhere,    \* where an unmapped page leads
  Runs        \* the [page, frame, count] a caller may ask to map or to unmap

VARIABLES
  asked,      \* the last call
  space,      \* where each page leads
  halted      \* memory ran out in the middle of a call

Asked(op, r) == [op |-> op, page |-> r.page, count |-> r.count]

Start == [op |-> "boot"]

Init ==
  /\ asked = Start
  /\ space \in [Pages -> Frames \cup {Nowhere}]
  /\ halted = FALSE

(* The kernel leaves the boot loader's address space: the lower half is    *)
(* emptied, the upper half stays what it was.                              *)
LeaveBoot ==
  /\ asked = Start
  /\ asked' = [op |-> "leave"]
  /\ space' = [v \in Pages |-> IF v \in Lower THEN Nowhere ELSE space[v]]
  /\ UNCHANGED halted

Inside(v, r, n) == v \in r.page .. r.page + n - 1

(* The pages of a run lead to consecutive frames, and no other page moves. *)
Map(r) ==
  /\ asked' = Asked("map", r)
  /\ \E n \in 0 .. r.count :
       /\ space' = [v \in Pages |-> IF Inside(v, r, n) THEN r.frame + (v - r.page) ELSE space[v]]
       /\ halted' = (n < r.count)

Unmap(r) ==
  /\ asked' = Asked("unmap", r)
  /\ space' = [v \in Pages |-> IF Inside(v, r, r.count) THEN Nowhere ELSE space[v]]
  /\ UNCHANGED halted

(* The kernel's first call after that: a page is mapped to be read and     *)
(* unmapped again.  Running out of memory, or reading past the page, may   *)
(* leave it mapped.                                                        *)
Borrow ==
  /\ asked = [op |-> "leave"]
  /\ asked' = [op |-> "borrow"]
  /\ \/ UNCHANGED <<space, halted>>
     \/ /\ halted' = TRUE
        /\ \E v \in Lower : \E f \in {v, space[v]} : space' = [space EXCEPT ![v] = f]

Next ==
  /\ ~halted
  /\ \/ LeaveBoot \/ Borrow
     \/ \E r \in Runs : asked # Start /\ (Map(r) \/ Unmap(r))

Spec == Init /\ [][Next]_<<asked, space, halted>>
=============================================================================
