----------------------------- MODULE PollSource -----------------------------
(***************************************************************************)
(* What poller.Poller promises to the poller.Source it drives.             *)
(*                                                                         *)
(* A source (the backlog worker of package monitor, the domainSource of    *)
(* package dfsrconfig) has no lock of its own: it relies on its calls      *)
(* being serial.  Poll is never entered while another Poll is running,     *)
(* Close never overlaps a Poll, and nothing follows Close.                 *)
(***************************************************************************)

CONSTANT Calls    \* names of the calls of Source.Poll

VARIABLES
    active,       \* calls of Source.Poll that have not returned
    released      \* Source.Close has been called

sourceVars == <<active, released>>

SourceInit == active = {} /\ released = FALSE

(* Source.Poll is called. *)
BeginPoll ==
    /\ ~released
    /\ active = {}
    /\ \E call \in Calls : active' = {call}
    /\ UNCHANGED released

(* Source.Poll returns. *)
EndPoll == active # {} /\ active' = {} /\ UNCHANGED released

(* Source.Close is called, for the only time. *)
CloseOnce ==
    /\ ~released
    /\ active = {}
    /\ released' = TRUE
    /\ UNCHANGED active

SourceNext == BeginPoll \/ EndPoll \/ CloseOnce

SourceSpec == SourceInit /\ [][SourceNext]_sourceVars
=============================================================================
