------------------------------ MODULE Reporter ------------------------------
(***************************************************************************)
(* helper/reporter.go and limiter.go under Client.Backlog: two reporters,  *)
(* each one connection behind a mutex, and the remote procedure calls that *)
(* run in goroutines of their own.                                         *)
(*                                                                         *)
(* A caller asks the receiving member for its version vector, through the  *)
(* limiter's work pool, then asks the sending member for its backlog       *)
(* against that vector, and closes the vector.  A caller whose context is  *)
(* done leaves its call behind: the goroutine goes on without the lock,    *)
(* and nobody receives its result.                                         *)
(*                                                                         *)
(* A vector is the memory behind a versionvector.Vector.  The vector cache *)
(* (module Cache) hands out duplicates, so that a caller always owns the   *)
(* vector it has.                                                          *)
(***************************************************************************)
EXTENDS Naturals, FiniteSets

CONSTANTS
    Callers,      \* goroutines that call Client.Backlog and Reporter.Report
    Reporters,    \* connections to members
    Links,        \* the pairs <<from, to>> whose backlog is asked for
    Rpcs,         \* names of the calls that are running
    Vectors,      \* names of the vectors in memory
    Limit,        \* workers in the pool of a limiter
    None          \* no caller, reporter, call or vector

ASSUME ReporterAssumption ==
    /\ None \notin Callers \cup Reporters \cup Rpcs \cup Vectors
    /\ Links \subseteq Reporters \X Reporters
    /\ Limit \in Nat \ {0}

VARIABLES
    holder,    \* the caller that holds the mutex of each reporter, or None
    open,      \* reporters with a connection: r.iface is not nil
    call,      \* what each caller is doing
    ctxDone,   \* callers whose context is done
    rpc,       \* the goroutines of vector() and backlog()
    vec        \* the memory of each vector

vars == <<holder, open, call, ctxDone, rpc, vec>>

Kinds == {"vector", "backlog"}

TypeOK ==
    /\ holder \in [Reporters -> Callers \cup {None}]
    /\ open \in SUBSET Reporters
    /\ call \in [Callers ->
                    [at   : {"idle", "pool", "vector", "vectorWait", "backlog",
                             "backlogWait", "free", "report", "reportWait"},
                     to   : Reporters \cup {None}, from : Reporters \cup {None},
                     rpc  : Rpcs \cup {None}, vec : Vectors \cup {None}]]
    /\ \A c \in Callers :
          call[c].at \in {"backlog", "backlogWait", "free"} <=> call[c].vec # None
    /\ ctxDone \in SUBSET Callers
    /\ rpc \in [Rpcs -> [at       : {"none", "spawned", "running", "ok", "failed"},
                         kind     : Kinds, r : Reporters \cup {None},
                         vec      : Vectors \cup {None}, attended : BOOLEAN]]
    /\ vec \in [Vectors -> {"free", "result", "held", "lost"}]

Idle == [at |-> "idle", to |-> None, from |-> None, rpc |-> None, vec |-> None]
NoRpc == [at |-> "none", kind |-> "vector", r |-> None, vec |-> None, attended |-> TRUE]

Init ==
    /\ holder = [r \in Reporters |-> None]
    /\ open = Reporters
    /\ call = [c \in Callers |-> Idle]
    /\ ctxDone = {}
    /\ rpc = [g \in Rpcs |-> NoRpc]
    /\ vec = [v \in Vectors |-> "free"]

-----------------------------------------------------------------------------
(* Client.Backlog and Report are called.  A caller begins while there are names
   for a vector and for each of its two calls. *)

FreeVectors == {v \in Vectors : vec[v] = "free" /\ \A g \in Rpcs : rpc[g].vec # v}

Room ==
    LET busy == {c \in Callers : call[c].at # "idle"} IN
    /\ Cardinality({g \in Rpcs : rpc[g].at = "none" \/ rpc[g].attended})
          > Cardinality(busy)
    /\ Cardinality(FreeVectors) > Cardinality({c \in busy : call[c].vec = None})

BeginBacklog(c) ==
    /\ call[c].at = "idle" /\ Room
    /\ \E link \in Links :
          call' = [call EXCEPT ![c] = [Idle EXCEPT !.at = "pool", !.from = link[1],
                                                   !.to = link[2]]]
    /\ UNCHANGED <<holder, open, ctxDone, rpc, vec>>

BeginReport(c) ==
    /\ call[c].at = "idle" /\ Room
    /\ \E t \in Reporters :
          call' = [call EXCEPT ![c] = [Idle EXCEPT !.at = "report", !.to = t]]
    /\ UNCHANGED <<holder, open, ctxDone, rpc, vec>>

(* The context of a caller is done. *)
CancelContext(c) ==
    /\ call[c].at # "idle" /\ c \notin ctxDone
    /\ ctxDone' = ctxDone \cup {c}
    /\ UNCHANGED <<holder, open, call, rpc, vec>>

Return(c) == call' = [call EXCEPT ![c] = Idle] /\ ctxDone' = ctxDone \ {c}

(* The workers of r's pool that are at work. *)
Working(r) == {c \in Callers : call[c].at \in {"vector", "vectorWait"} /\ call[c].to = r}

(* vwp.p.SendWork, until a worker takes the job. *)
TakeWorker(c) ==
    /\ call[c].at = "pool"
    /\ Cardinality(Working(call[c].to)) < Limit
    /\ call' = [call EXCEPT ![c].at = "vector"]
    /\ UNCHANGED <<holder, open, ctxDone, rpc, vec>>

-----------------------------------------------------------------------------
(* Vector and Backlog *)

Unguarded(r) == TRUE
(* r.m.Lock() *)
Lockable(r) == holder[r] = None

(* r.closed(), or the context is done: the early outs. *)
EarlyOut(c, r) == r \notin open \/ c \in ctxDone

FreeRpcs == {g \in Rpcs : rpc[g].at = "none"}

(* With the lock, go func() { ... }().  Room has left a name for the call. *)
Spawn(c, r, kind, v, at) ==
    LET g == CHOOSE h \in FreeRpcs : TRUE IN
    /\ FreeRpcs # {}
    /\ rpc' = [rpc EXCEPT ![g] = [at |-> "spawned", kind |-> kind, r |-> r,
                                  vec |-> v, attended |-> TRUE]]
    /\ holder' = [holder EXCEPT ![r] = c]
    /\ call' = [call EXCEPT ![c] = [@ EXCEPT !.at = at, !.rpc = g]]

Vector(c) ==
    LET r == call[c].to IN
    /\ call[c].at = "vector"
    /\ Lockable(r)
    /\ \/ /\ EarlyOut(c, r)
          /\ Return(c)
          /\ UNCHANGED <<holder, rpc>>
       \/ /\ ~EarlyOut(c, r)
          /\ Spawn(c, r, "vector", None, "vectorWait")
          /\ UNCHANGED ctxDone
    /\ UNCHANGED <<open, vec>>

Backlog(c) ==
    LET r == call[c].from IN
    /\ call[c].at = "backlog"
    /\ Lockable(r)
    /\ \/ /\ EarlyOut(c, r)
          /\ call' = [call EXCEPT ![c].at = "free"]
          /\ UNCHANGED <<holder, rpc>>
       \/ /\ ~EarlyOut(c, r)
          /\ Spawn(c, r, "backlog", call[c].vec, "backlogWait")
    /\ UNCHANGED <<open, ctxDone, vec>>

StillLocked(r) == holder
(* defer r.m.Unlock() *)
Unlocked(r) == [holder EXCEPT ![r] = None]

(* result.err == nil *)
Succeeded(g) == rpc[g].at = "ok"

(* case result := <-ch in Vector: without a vector Client.Backlog returns. *)
VectorResult(c) ==
    LET g == call[c].rpc IN
    /\ call[c].at = "vectorWait"
    /\ rpc[g].at \in {"ok", "failed"}
    /\ \/ /\ ~Succeeded(g)
          /\ Return(c)
          /\ UNCHANGED vec
       \/ /\ Succeeded(g)
          /\ vec' = [vec EXCEPT ![rpc[g].vec] = "held"]
          /\ call' = [call EXCEPT ![c] = [@ EXCEPT !.at = "backlog", !.rpc = None,
                                                   !.vec = rpc[g].vec]]
          /\ UNCHANGED ctxDone
    /\ rpc' = [rpc EXCEPT ![g] = NoRpc]
    /\ holder' = Unlocked(call[c].to)
    /\ UNCHANGED open

(* case result := <-ch in Backlog. *)
BacklogResult(c) ==
    LET g == call[c].rpc IN
    /\ call[c].at = "backlogWait"
    /\ rpc[g].at \in {"ok", "failed"}
    /\ call' = [call EXCEPT ![c] = [@ EXCEPT !.at = "free", !.rpc = None]]
    /\ rpc' = [rpc EXCEPT ![g] = NoRpc]
    /\ holder' = Unlocked(call[c].from)
    /\ UNCHANGED <<open, ctxDone, vec>>

(* A result that nobody receives: a vector in it is not released. *)
Unreported(g) ==
    /\ rpc' = [rpc EXCEPT ![g] = NoRpc]
    /\ vec' = IF rpc[g].kind = "vector" /\ rpc[g].at = "ok"
              THEN [vec EXCEPT ![rpc[g].vec] = "lost"] ELSE vec

(* case <-ctx.Done(), which select may prefer to a result that is there. *)
Abandon(c) ==
    LET g == call[c].rpc IN
    /\ call[c].at \in {"vectorWait", "backlogWait"}
    /\ c \in ctxDone
    /\ \/ /\ call[c].at = "vectorWait"
          /\ Return(c)
          /\ holder' = Unlocked(call[c].to)
       \/ /\ call[c].at = "backlogWait"
          /\ call' = [call EXCEPT ![c] = [@ EXCEPT !.at = "free", !.rpc = None]]
          /\ holder' = Unlocked(call[c].from)
          /\ UNCHANGED ctxDone
    /\ \/ /\ rpc[g].at \in {"ok", "failed"}
          /\ Unreported(g)
       \/ /\ rpc[g].at \notin {"ok", "failed"}
          /\ rpc' = [rpc EXCEPT ![g].attended = FALSE]
          /\ UNCHANGED vec
    /\ UNCHANGED open

KeepsVector(v) == vec
(* vector.sa.Release() *)
Released(v) == [vec EXCEPT ![v] = "free"]

(* Client.Backlog's deferred v.Close(), and its return. *)
CloseVector(c) ==
    /\ call[c].at = "free"
    /\ vec' = Released(call[c].vec)
    /\ Return(c)
    /\ UNCHANGED <<holder, open, rpc>>

-----------------------------------------------------------------------------
(* Report, which makes its call with the lock held and cannot be left. *)

Report(c) ==
    LET r == call[c].to IN
    /\ call[c].at = "report"
    /\ Lockable(r)
    /\ \/ /\ EarlyOut(c, r)
          /\ Return(c)
          /\ UNCHANGED holder
       \/ /\ ~EarlyOut(c, r)
          /\ holder' = [holder EXCEPT ![r] = c]
          /\ call' = [call EXCEPT ![c].at = "reportWait"]
          /\ UNCHANGED ctxDone
    /\ UNCHANGED <<open, rpc, vec>>

ReportReturns(c) ==
    /\ call[c].at = "reportWait"
    /\ holder' = Unlocked(call[c].to)
    /\ Return(c)
    /\ UNCHANGED <<open, rpc, vec>>

(* Close: r.iface.Release() and r.iface = nil. *)
Close(r) ==
    /\ Lockable(r)
    /\ r \in open
    /\ open' = open \ {r}
    /\ UNCHANGED <<holder, call, ctxDone, rpc, vec>>

-----------------------------------------------------------------------------
(* The goroutines *)

(* The goroutine reads r.iface and the vector's data and makes the call. *)
RpcBegins(g) ==
    /\ rpc[g].at = "spawned"
    /\ rpc' = [rpc EXCEPT ![g].at = "running"]
    /\ UNCHANGED <<holder, open, call, ctxDone, vec>>

(* The goroutine leaves a result in the channel, if anybody will receive it. *)
Finished(g, at, v) ==
    rpc' = [rpc EXCEPT ![g] = IF rpc[g].attended THEN [@ EXCEPT !.at = at, !.vec = v]
                              ELSE NoRpc]

(* The call returns: with a new vector, with backlog counts, or an error. *)
RpcReturns(g) ==
    /\ rpc[g].at = "running"
    /\ \/ /\ rpc[g].kind = "vector"
          /\ FreeVectors # {}
          /\ LET v == CHOOSE w \in FreeVectors : TRUE IN
             /\ vec' = [vec EXCEPT ![v] = IF rpc[g].attended THEN "result" ELSE "lost"]
             /\ Finished(g, "ok", v)
       \/ /\ rpc[g].kind = "backlog"
          /\ Finished(g, "ok", rpc[g].vec)
          /\ UNCHANGED vec
       \/ /\ Finished(g, "failed", rpc[g].vec)
          /\ UNCHANGED vec
    /\ UNCHANGED <<holder, open, call, ctxDone>>

-----------------------------------------------------------------------------
Receive(c) == VectorResult(c) \/ BacklogResult(c) \/ Abandon(c)
Locking(c) == TakeWorker(c) \/ Vector(c) \/ Backlog(c) \/ Report(c)
CallerStep(c) ==
    \/ BeginBacklog(c) \/ BeginReport(c) \/ CancelContext(c)
    \/ Locking(c) \/ Receive(c) \/ CloseVector(c) \/ ReportReturns(c)

Next ==
    \/ \E c \in Callers : CallerStep(c)
    \/ \E r \in Reporters : Close(r)
    \/ \E g \in Rpcs : RpcBegins(g) \/ RpcReturns(g)

(* Goroutines run, a mutex and a pool starve nobody, and every context is done
   in the end: the poller gives each poll a timeout.  A remote call need not
   return. *)
Fairness ==
    \A c \in Callers :
        /\ WF_vars(CancelContext(c))
        /\ SF_vars(Locking(c))
        /\ WF_vars(Receive(c))
        /\ WF_vars(CloseVector(c))

Spec == Init /\ [][Next]_vars
FairSpec == Spec /\ Fairness

-----------------------------------------------------------------------------
(* Properties *)

Active(g) == rpc[g].at \in {"spawned", "running"}

(* A call is safe in its goroutine: the connection it uses has not been
   released, nor has the vector it sends. *)
Safe(g) ==
    /\ rpc[g].r \in open
    /\ rpc[g].kind = "backlog" => vec[rpc[g].vec] = "held"

(* A connection has one call at a time with somebody waiting for it, made by
   the holder of its lock, and that call is safe: neither Close nor v.Close
   can take the connection or the vector from it.  Only a call that its
   caller has left is exposed. *)
AttendedCallsAreSafe ==
    /\ \A g \in Rpcs :
          rpc[g].at # "none" /\ rpc[g].attended =>
              /\ Active(g) => Safe(g)
              /\ LET c == holder[rpc[g].r]
                 IN  c # None /\ call[c].rpc = g
    /\ \A c \in Callers : call[c].at = "reportWait" => holder[call[c].to] = c

(* Every vector in memory is owned once: by the caller that will close it or by
   a result on its way to one.  The others are free, or were lost with the
   result of an abandoned call. *)
VectorsOwnedOnce ==
    \A v \in Vectors :
        Cardinality({c \in Callers : call[c].vec = v})
            + Cardinality({g \in Rpcs : rpc[g].kind = "vector" /\ rpc[g].vec = v})
        = IF vec[v] \in {"held", "result"} THEN 1 ELSE 0

(* Backlog returns although a remote call may hang: a hung call keeps neither
   the lock nor the worker.  Only a hung Report does. *)
BacklogReturns ==
    \A c \in Callers :
        call[c].at # "idle"
            ~> (call[c].at = "idle" \/ \E d \in Callers : call[d].at = "reportWait")
=============================================================================
