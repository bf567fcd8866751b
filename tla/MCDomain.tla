------------------------------ MODULE MCDomain ------------------------------
(* Models of Domain for TLC: the constants are given in the .cfg files. *)
EXTENDS Domain
=============================================================================
