------------------------------ MODULE MCPoller ------------------------------
(* Model of Poller for TLC: the constants are given in MCPoller.cfg. *)
EXTENDS Poller
=============================================================================
