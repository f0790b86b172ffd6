---------------------------- MODULE MCOrderStock ----------------------------
(* An instance of OrderStock for TLC. *)
EXTENDS OrderStock

MCColumn == -3..2
=============================================================================
