------------------------------ MODULE MCClient ------------------------------
(* A model of Client for TLC: the constants are given in the .cfg file. *)
EXTENDS Client
=============================================================================
