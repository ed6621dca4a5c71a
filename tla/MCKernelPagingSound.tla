-------------------------- MODULE MCKernelPagingSound --------------------------
(***************************************************************************)
(* The instances whose boot tables and callers are as the properties need  *)
(* them to be.                                                             *)
(***************************************************************************)
EXTENDS MCKernelPaging

ASSUME BootSound /\ CallersSound
=============================================================================
