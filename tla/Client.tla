------------------------------- MODULE Client -------------------------------
(***************************************************************************)
(* helper/client.go: the client's map of endpoints, filled on demand, over *)
(* endpoints taken at their contract, which module Endpoint implements.    *)
(*                                                                         *)
(* The processes are the callers of Backlog, Vector, Report, UpdateConfig  *)
(* and Close, and what the contract lets the endpoints do on their own.  A *)
(* section under c.mutex is one action, except that Close and UpdateConfig *)
(* keep the mutex, as `owner', while they call one endpoint after another. *)
(***************************************************************************)
EXTENDS Naturals, Sequences

CONSTANTS
    Servers,   \* the members that are asked for, by their names in lower case
    Callers,   \* goroutines that use the client
    None       \* no caller

ASSUME ClientAssumption == None \notin Callers

VARIABLES
    closed,    \* c.endpoints is nil
    owner,     \* the caller that holds c.mutex over a call, or None
    call,      \* the call of the client that each caller is in
    ep         \* the endpoints; one that is in no map yet has phase "none"

vars == <<closed, owner, call, ep>>

E == INSTANCE EndpointContract WITH Endpoints <- Servers

(* `find' is what endpoint() is still to be asked for, `use' the endpoints
   still to be queried, `left' those still to be closed or reconfigured. *)
Idle == [at |-> "idle", find |-> <<>>, use |-> <<>>, left |-> {}]
Places == {"idle", "lookup", "create", "query", "wait", "close", "closing", "config",
           "configuring"}

TypeOK ==
    /\ closed \in BOOLEAN
    /\ owner \in Callers \cup {None}
    /\ call \in [Callers -> [at : Places, find : Seq(Servers), use : Seq(Servers),
                             left : SUBSET Servers]]
    /\ E!TypeOK

(* NewClientWithConfig *)
Init ==
    /\ closed = FALSE
    /\ owner = None
    /\ call = [c \in Callers |-> Idle]
    /\ ep = [s \in Servers |-> E!New("none")]

Created == {s \in Servers : ep[s].phase # "none"}

Set(c, new) == call' = [call EXCEPT ![c] = new]

Begin(c, new) ==
    /\ call[c] = Idle
    /\ Set(c, new)
    /\ UNCHANGED <<closed, owner, ep>>

(* Vector and Report; Backlog, which finds both members before it asks `to'
   for its vector and `from' for its backlog. *)
BeginQuery(c, s) ==
    Begin(c, [Idle EXCEPT !.at = "lookup", !.find = <<s>>, !.use = <<s>>])
Backlog(c, from, to) ==
    Begin(c, [Idle EXCEPT !.at = "lookup", !.find = <<from, to>>, !.use = <<to, from>>])
BeginUpdateConfig(c) == Begin(c, [Idle EXCEPT !.at = "config"])
BeginClose(c) == Begin(c, [Idle EXCEPT !.at = "close"])

-----------------------------------------------------------------------------
(* endpoint() *)

(* endpoint() returns e: on to the next lookup, or to the first query. *)
Found(c) ==
    LET rest == Tail(call[c].find) IN
    Set(c, [call[c] EXCEPT !.find = rest, !.at = IF rest = <<>> THEN "query" ELSE "lookup"])

(* ErrClosed *)
Fail(c) == Set(c, Idle)

(* The section under c.mutex.RLock(). *)
Lookup(c) ==
    /\ call[c].at = "lookup"
    /\ owner = None
    /\ \/ closed /\ Fail(c)
       \/ ~closed /\ Head(call[c].find) \in Created /\ Found(c)
       \/ /\ ~closed /\ Head(call[c].find) \notin Created
          /\ Set(c, [call[c] EXCEPT !.at = "create"])
    /\ UNCHANGED <<closed, owner, ep>>

CreatesAnyway == TRUE
(* The second look at c.endpoints == nil. *)
MayCreate == ~closed

(* The section under c.mutex.Lock(): another caller may have been faster. *)
Create(c) ==
    LET s == Head(call[c].find) IN
    /\ call[c].at = "create"
    /\ owner = None
    /\ \/ ~MayCreate /\ Fail(c) /\ UNCHANGED ep
       \/ MayCreate /\ s \in Created /\ Found(c) /\ UNCHANGED ep
       \/ MayCreate /\ s \notin Created /\ E!Create(s) /\ Found(c)
    /\ UNCHANGED <<closed, owner>>

-----------------------------------------------------------------------------
(* The queries of the endpoints *)

QueryEndpoint(c) ==
    /\ call[c].at = "query"
    /\ E!Enter(Head(call[c].use), c, "query")
    /\ Set(c, [call[c] EXCEPT !.at = "wait"])
    /\ UNCHANGED <<closed, owner>>

(* The endpoint returns a result or an error; after an error, and after the
   last one, the caller returns. *)
QueryReturns(c) ==
    LET rest == Tail(call[c].use) IN
    /\ call[c].at = "wait"
    /\ E!QueryReturns(Head(call[c].use), c)
    /\ \/ Set(c, Idle)
       \/ rest # <<>> /\ Set(c, [call[c] EXCEPT !.use = rest, !.at = "query"])
    /\ UNCHANGED <<closed, owner>>

(* It never does: the vector cache has lost the query, or it is a Report that
   hangs. *)
NeverReturns(c) ==
    /\ call[c].at = "wait"
    /\ E!NeverReturns(Head(call[c].use), c)
    /\ UNCHANGED <<closed, owner, call>>

-----------------------------------------------------------------------------
(* Close and UpdateConfig *)

(* c.mutex.Lock(); a closed client is left alone, but for its configuration. *)
Lock(c, from, to) ==
    /\ call[c].at = from
    /\ owner = None
    /\ \/ closed /\ Set(c, Idle) /\ UNCHANGED owner
       \/ /\ ~closed
          /\ owner' = c
          /\ Set(c, [call[c] EXCEPT !.at = to, !.left = Created])
    /\ UNCHANGED <<closed, ep>>

(* The loop calls the next endpoint, when the last call has returned. *)
CallNext(c, place, method) ==
    /\ call[c].at = place
    /\ \A s \in Servers : ep[s].at[c] = "idle"
    /\ \E s \in call[c].left :
          /\ E!Enter(s, c, method)
          /\ Set(c, [call[c] EXCEPT !.left = @ \ {s}])
    /\ UNCHANGED <<closed, owner>>

UpdateConfigReturns(c) ==
    /\ call[c].at = "configuring"
    /\ \E s \in Servers : E!UpdateConfigReturns(s, c)
    /\ UNCHANGED <<closed, owner, call>>

CloseBegins(c) ==
    /\ call[c].at = "closing"
    /\ \E s \in Servers : E!CloseBegins(s, c)
    /\ UNCHANGED <<closed, owner, call>>

CloseReturns(c) ==
    /\ call[c].at = "closing"
    /\ \E s \in Servers : E!CloseReturns(s, c)
    /\ UNCHANGED <<closed, owner, call>>

KeepsMutex == owner
(* defer c.mutex.Unlock() *)
Released == None

(* The end of the loop: c.endpoints = nil in Close, and the deferred unlock. *)
Unlock(c) ==
    /\ call[c].at \in {"closing", "configuring"}
    /\ call[c].left = {} /\ \A s \in Servers : ep[s].at[c] = "idle"
    /\ closed' = (closed \/ call[c].at = "closing")
    /\ owner' = Released
    /\ Set(c, Idle)
    /\ UNCHANGED ep

-----------------------------------------------------------------------------
(* What a caller does once it has called. *)
Step(c) ==
    \/ Lookup(c) \/ Create(c)
    \/ QueryEndpoint(c) \/ QueryReturns(c)
    \/ Lock(c, "config", "configuring") \/ CallNext(c, "configuring", "config")
    \/ UpdateConfigReturns(c)
    \/ Lock(c, "close", "closing") \/ CallNext(c, "closing", "close")
    \/ CloseBegins(c) \/ CloseReturns(c)
    \/ Unlock(c)

(* What the endpoints do on their own. *)
EndpointStep(s) ==
    /\ E!Attempt(s) \/ E!BecomeReady(s) \/ E!RunEnds(s)
    /\ UNCHANGED <<closed, owner, call>>

Next ==
    \/ \E c \in Callers :
          \/ \E s \in Servers : BeginQuery(c, s)
          \/ \E from, to \in Servers : Backlog(c, from, to)
          \/ BeginUpdateConfig(c) \/ BeginClose(c)
          \/ Step(c) \/ NeverReturns(c)
    \/ \E s \in Servers : EndpointStep(s)

Spec == Init /\ [][Next]_vars

(* The caller is in a call of an endpoint that a hanging Report keeps. *)
Waits(c) == \E s \in Servers : E!Hung(s) /\ ep[s].at[c] # "idle"

(* The endpoints keep their contract, which promises nothing of one that a
   hanging Report keeps, goroutines run, and c.mutex keeps nobody out for good.
   Nobody has to call. *)
FairSpec ==
    /\ Spec
    /\ \A c \in Callers : SF_vars(Step(c) /\ ~Waits(c))
    /\ \A s \in Servers : WF_vars(EndpointStep(s))

-----------------------------------------------------------------------------
(* Properties *)

(* Backlog, Vector and Report wait for an endpoint that Close has kept from
   making its first attempt: nobody will ever call ready.Done(). *)
Stranded(c) ==
    \E s \in Servers :
        ep[s].at[c] = "query" /\ ep[s].phase = "closed" /\ ~ep[s].attempted

(* The endpoint will never answer, or it waits behind a Report that hangs. *)
Held(c) == Waits(c) \/ \E s \in Servers : ep[s].at[c] \in {"lost", "hung"}

(* Every call of the client returns, although Close and UpdateConfig hold the
   mutex over each endpoint in turn and an endpoint may be connecting.  Except
   a query that Close has stranded or that is lost, which keep nobody else, and
   the calls behind a Report that hangs: those of the same endpoint, and all
   that want the mutex once Close or UpdateConfig has come to that endpoint. *)
ClientReturns ==
    \A c \in Callers :
        call[c].at # "idle" ~>
            \/ call[c].at = "idle"
            \/ Stranded(c) \/ Held(c)
            \/ owner # None /\ Waits(owner)

(* A client that is closed stays closed and leaves nothing behind: every
   endpoint it has created has ended its run(), and no lookup that was on its
   way creates another. *)
ClosedHoldsNothing ==
    closed => \A s \in Servers : ep[s].phase \in {"none", "closed"}
=============================================================================
