---------------------------- MODULE MCLaborEscrow ---------------------------
(* TLC instances of LaborEscrow. *)
EXTENDS LaborEscrow
=============================================================================
