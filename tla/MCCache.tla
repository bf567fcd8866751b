------------------------------ MODULE MCCache -------------------------------
(* Models of Cache for TLC: the constants are given in the .cfg file. *)
EXTENDS Cache
=============================================================================
