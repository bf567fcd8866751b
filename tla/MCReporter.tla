----------------------------- MODULE MCReporter -----------------------------
(* Model of Reporter for TLC: the constants are given in MCReporter.cfg. *)
EXTENDS Reporter

CONSTANTS r1, r2

(* The backlogs of both directions of a link are asked for, and several
   replication groups may share it. *)
BothWays == {<<r1, r2>>, <<r2, r1>>}
=============================================================================
