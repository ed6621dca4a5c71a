----------------------------- MODULE BlockDevice -----------------------------
(***************************************************************************)
(* What io.hpp promises of a disk: a read of count sectors from lba        *)
(* transfers them in order; it succeeds when all have come and may fail    *)
(* before that.  No registers, no status bits, no polls.                   *)
(***************************************************************************)
EXTENDS Integers, Sequences

CONSTANT Requests    \* the [lba, count] a caller may ask for

VARIABLES
  request,    \* the read in progress, or Nothing
  moved,      \* the sectors it has transferred
  result      \* how the last read ended

Nothing == [lba |-> 0, count |-> 0]

Init == request = Nothing /\ moved = << >> /\ result = "none"

Ask(r) ==
  /\ request = Nothing
  /\ request' = r /\ moved' = << >> /\ result' = "none"

Transfer ==
  /\ Len(moved) < request.count
  /\ moved' = Append(moved, request.lba + Len(moved))
  /\ UNCHANGED <<request, result>>

Succeed ==
  /\ request # Nothing /\ Len(moved) = request.count
  /\ result' = "ok" /\ request' = Nothing /\ moved' = << >>

Fail ==
  /\ request # Nothing
  /\ result' = "error" /\ request' = Nothing /\ moved' = << >>

(* A read may be refused before it starts.                                 *)
Refuse ==
  /\ request = Nothing
  /\ result' = "error"
  /\ UNCHANGED <<request, moved>>

Next == (\E r \in Requests : Ask(r)) \/ Transfer \/ Succeed \/ Fail \/ Refuse

Spec == Init /\ [][Next]_<<request, moved, result>>
=============================================================================
