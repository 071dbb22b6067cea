----------------------------- MODULE MCKnowledge -----------------------------
(* The knowledge pool for TLC: three peers, the author in the middle. *)
EXTENDS Knowledge
=============================================================================
