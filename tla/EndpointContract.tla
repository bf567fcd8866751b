--------------------------- MODULE EndpointContract -------------------------
(***************************************************************************)
(* What the client relies on in its endpoints, whatever their connections, *)
(* timers and channels do: module Endpoint implements it.  A caller is in  *)
(* at most one call of an endpoint.  An endpoint is ready once its first   *)
(* attempt to connect has landed, and a query waits for that.  Close makes *)
(* run() end; an endpoint whose run() ended before the first attempt never *)
(* becomes ready.  A query may never return: it is lost in the cache of    *)
(* the vectors, where it keeps no lock of the endpoint, or it is a Report  *)
(* that hangs, and then nothing is promised of the other calls of that     *)
(* endpoint.                                                               *)
(***************************************************************************)
CONSTANTS
    Endpoints,   \* the endpoints
    Callers,     \* goroutines that use them
    None         \* no caller

VARIABLE ep      \* the state of each endpoint

Phases == {"none", "open", "closing", "closed"}
Methods == {"query", "config", "close"}
Calls == Methods \cup {"idle", "lost", "hung"}

TypeOK ==
    ep \in [Endpoints -> [phase     : Phases,
                          attempted : BOOLEAN,
                          ready     : BOOLEAN,
                          closer    : Callers \cup {None},
                          at        : [Callers -> Calls]]]

New(phase) == [phase |-> phase, attempted |-> FALSE, ready |-> FALSE, closer |-> None,
               at |-> [c \in Callers |-> "idle"]]

Init == ep \in [Endpoints -> {New("none"), New("open")}]

(* NewEndpoint *)
Create(e) ==
    /\ ep[e].phase = "none"
    /\ ep' = [ep EXCEPT ![e].phase = "open"]

(* The caller calls a method of the endpoint. *)
Enter(e, c, call) ==
    /\ ep[e].phase # "none"
    /\ ep[e].at[c] = "idle"
    /\ ep' = [ep EXCEPT ![e].at[c] = call]

(* run() makes its first attempt to connect. *)
Attempt(e) ==
    /\ ep[e].phase \in {"open", "closing"}
    /\ ~ep[e].attempted
    /\ ep' = [ep EXCEPT ![e].attempted = TRUE]

(* The first attempt lands, also after Close: ready.Done(). *)
BecomeReady(e) ==
    /\ ep[e].attempted
    /\ ~ep[e].ready
    /\ ep' = [ep EXCEPT ![e].ready = TRUE]

(* Vector, Backlog or Report returns, with a result or an error. *)
QueryReturns(e, c) ==
    /\ ep[e].at[c] = "query"
    /\ ep[e].ready
    /\ ep' = [ep EXCEPT ![e].at[c] = "idle"]

(* It never does. *)
NeverReturns(e, c) ==
    /\ ep[e].at[c] = "query"
    /\ ep[e].ready
    /\ \E fate \in {"lost", "hung"} : ep' = [ep EXCEPT ![e].at[c] = fate]

Hung(e) == \E c \in Callers : ep[e].at[c] = "hung"

UpdateConfigReturns(e, c) ==
    /\ ep[e].at[c] = "config"
    /\ ep' = [ep EXCEPT ![e].at[c] = "idle"]

(* The first Close closes the channels to run(). *)
CloseBegins(e, c) ==
    /\ ep[e].at[c] = "close"
    /\ ep[e].phase = "open"
    /\ ep' = [ep EXCEPT ![e].phase = "closing", ![e].closer = c]

RunEnds(e) ==
    /\ ep[e].phase = "closing"
    /\ ep' = [ep EXCEPT ![e].phase = "closed"]

(* The first Close waits for run(); any other returns at once. *)
CloseReturns(e, c) ==
    /\ ep[e].at[c] = "close"
    /\ \/ ep[e].closer = c /\ ep[e].phase = "closed"
       \/ ep[e].closer # c /\ ep[e].phase # "open"
    /\ ep' = [ep EXCEPT ![e].at[c] = "idle",
                        ![e].closer = IF @ = c THEN None ELSE @]

(* What an endpoint does once it has been called. *)
Proceed(e, c) ==
    \/ QueryReturns(e, c) \/ UpdateConfigReturns(e, c)
    \/ CloseBegins(e, c) \/ CloseReturns(e, c)

Next ==
    \E e \in Endpoints :
        \/ Create(e)
        \/ \E c \in Callers, call \in Methods : Enter(e, c, call)
        \/ Attempt(e) \/ BecomeReady(e) \/ RunEnds(e)
        \/ \E c \in Callers : Proceed(e, c) \/ NeverReturns(e, c)

Spec == Init /\ [][Next]_ep

(* Attempts are made and land, run() ends, and calls return when they can and
   no Report hangs. *)
Fairness ==
    \A e \in Endpoints :
        /\ WF_ep(Attempt(e)) /\ WF_ep(BecomeReady(e)) /\ WF_ep(RunEnds(e))
        /\ \A c \in Callers : WF_ep(~Hung(e) /\ Proceed(e, c))

FairSpec == Spec /\ Fairness
=============================================================================
