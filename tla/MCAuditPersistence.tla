------------------------- MODULE MCAuditPersistence -------------------------
(* TLC instances of AuditPersistence. *)
EXTENDS AuditPersistence
=============================================================================
