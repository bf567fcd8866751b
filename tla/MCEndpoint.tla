----------------------------- MODULE MCEndpoint -----------------------------
(* Models of Endpoint for TLC. *)
EXTENDS Endpoint, TLC

CONSTANT OnlyClose   \* callers that close the endpoint, in LiveSpec: a bound

(* Two configurations that differ in their intervals.  One that needs a new
   connection would have the timer due, as it is when an interval elapses. *)
MCConfigs == {[layers |-> 1, intervals |-> 1], [layers |-> 1, intervals |-> 2]}

(* A single configuration, to which UpdateConfig comes back. *)
OneConfig == {[layers |-> 1, intervals |-> 1]}

(* Neither callers nor connections are told apart; used without liveness. *)
Symmetry == Permutations(Callers) \cup Permutations(Conns)

(* Some callers only close the endpoint and the others never do.  Nobody has to
   call, so that the bound keeps no fair step. *)
KeepsToRole(c) ==
    pc[c] = "idle" => pc'[c] \in IF c \in OnlyClose THEN {"idle", "close"}
                                 ELSE {"idle", "ready", "config"}

LiveSpec == Init /\ [][Next /\ \A c \in Callers : KeepsToRole(c)]_vars /\ Fairness
=============================================================================
