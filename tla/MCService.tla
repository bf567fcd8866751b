----------------------------- MODULE MCService ------------------------------
(* Model of Service for TLC: the constants are given in MCService.cfg. *)
EXTENDS Service
=============================================================================
