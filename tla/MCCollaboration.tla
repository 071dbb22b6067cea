--------------------------- MODULE MCCollaboration ---------------------------
(* Two peers, two steps of which one may be done while the other is not,   *)
(* two commands and one crash in the middle of a handler.                  *)
EXTENDS Collaboration
=============================================================================
