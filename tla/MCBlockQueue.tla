---------------------------- MODULE MCBlockQueue ----------------------------
(* An instance of BlockQueue for TLC. *)
EXTENDS BlockQueue

CONSTANTS d1
=============================================================================
