----------------------------- MODULE MCFirehose -----------------------------
(* TLC instances of Firehose. *)
EXTENDS Firehose
=============================================================================
