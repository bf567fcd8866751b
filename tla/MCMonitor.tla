----------------------------- MODULE MCMonitor ------------------------------
(* Model of Monitor for TLC: the constants are given in MCMonitor.cfg. *)
EXTENDS Monitor
=============================================================================
