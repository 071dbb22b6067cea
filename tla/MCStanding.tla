------------------------------ MODULE MCStanding ------------------------------
(* One charge, two requests that carry it out at the same time and one     *)
(* that resolves an appeal.                                                *)
EXTENDS Standing
=============================================================================
