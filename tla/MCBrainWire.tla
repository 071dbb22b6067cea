---------------------------- MODULE MCBrainWire -----------------------------
(* TLC instances of BrainWire. *)
EXTENDS BrainWire

CONSTANTS speak, move, trade

\* A tick with one action, and one with two.
OneOrTwo == {<<speak>>, <<move, trade>>}
=============================================================================
