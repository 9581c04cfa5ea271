---------------------------- MODULE MCUmpTransfer ---------------------------
(* Small instances of UmpTransfer for TLC. *)
EXTENDS UmpTransfer
=============================================================================
