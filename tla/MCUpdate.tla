------------------------------ MODULE MCUpdate ------------------------------
(* Models of Update for TLC: the constants are given in the .cfg files. *)
EXTENDS Update
=============================================================================
