--------------------------- MODULE Reporter_proofs ---------------------------
(***************************************************************************)
(* Proofs about Reporter, for any number of callers, connections and       *)
(* remote calls: a call that somebody waits for keeps its connection and   *)
(* its vector, and every vector has one owner.                             *)
(***************************************************************************)
EXTENDS Reporter, FiniteSetTheorems, TLAPS

CallType ==
    [at   : {"idle", "pool", "vector", "vectorWait", "backlog", "backlogWait", "free",
             "report", "reportWait"},
     to   : Reporters \cup {None}, from : Reporters \cup {None},
     rpc  : Rpcs \cup {None}, vec : Vectors \cup {None}]
RpcType == [at  : {"none", "spawned", "running", "ok", "failed"},
            kind : Kinds, r : Reporters \cup {None},
            vec : Vectors \cup {None}, attended : BOOLEAN]

ForBacklog == {"pool", "vector", "vectorWait", "backlog", "backlogWait"}
Reporting == {"report", "reportWait"}

(* A caller knows the members it asks, and its remote call while it waits for
   one. *)
CallsNamed ==
    \A c \in Callers :
        /\ call[c].at \in ForBacklog \cup Reporting => call[c].to \in Reporters
        /\ call[c].at \in ForBacklog => call[c].from \in Reporters
        /\ call[c].rpc # None <=> call[c].at \in {"vectorWait", "backlogWait"}

(* Caller c uses the connection r, with its lock. *)
Uses(c, r) ==
    \/ call[c].at \in {"vectorWait", "reportWait"} /\ call[c].to = r
    \/ call[c].at = "backlogWait" /\ call[c].from = r

(* The lock of a connection is held by the caller that uses it, which found it
   open and keeps it so. *)
LocksMatch ==
    \A r \in Reporters :
        /\ \A c \in Callers : Uses(c, r) <=> holder[r] = c
        /\ holder[r] # None => r \in open

(* Caller c attends to the call g, which it made over the connection it uses,
   and with the vector it has. *)
Attends(c, g) ==
    /\ rpc[g].at # "none" /\ rpc[g].attended
    /\ rpc[g].r \in Reporters /\ Uses(c, rpc[g].r)
    /\ \/ call[c].at = "vectorWait" /\ rpc[g].kind = "vector"
       \/ call[c].at = "backlogWait" /\ rpc[g].kind = "backlog" /\ rpc[g].vec = call[c].vec

WaitersAttend == \A c \in Callers, g \in Rpcs : call[c].rpc = g => Attends(c, g)

(* Somebody waits for a call that is attended to. *)
CallsAttended ==
    \A g \in Rpcs :
        rpc[g].at # "none" /\ rpc[g].attended => \E c \in Callers : call[c].rpc = g

(* A result is kept only for somebody who waits for it, and a call has a vector
   to give only as its result. *)
ResultsKept ==
    \A g \in Rpcs :
        /\ rpc[g].at = "none" => rpc[g] = NoRpc
        /\ rpc[g].at \in {"ok", "failed"} => rpc[g].attended
        /\ rpc[g].kind = "vector" => (rpc[g].at = "ok" <=> rpc[g].vec # None)

Gives(g, v) == rpc[g].kind = "vector" /\ rpc[g].vec = v

(* A vector that is held is the vector of one caller, and one that is a result
   is in one result. *)
OwnedOnce(v) ==
    /\ \A c \in Callers : call[c].vec = v => vec[v] = "held"
    /\ \A g \in Rpcs : Gives(g, v) => vec[v] = "result"
    /\ vec[v] = "held" => \E c \in Callers : call[c].vec = v
    /\ vec[v] = "result" => \E g \in Rpcs : Gives(g, v)
    /\ \A c, d \in Callers : call[c].vec = v /\ call[d].vec = v => c = d
    /\ \A g, h \in Rpcs : Gives(g, v) /\ Gives(h, v) => g = h

Owners == \A v \in Vectors : OwnedOnce(v)

IndInv ==
    /\ TypeOK
    /\ CallsNamed
    /\ LocksMatch
    /\ WaitersAttend
    /\ CallsAttended
    /\ ResultsKept
    /\ Owners

-----------------------------------------------------------------------------
(* What the lemmas about a step use of the types. *)
LEMMA Types ==
    ASSUME TypeOK
    PROVE  /\ call \in [Callers -> CallType] /\ rpc \in [Rpcs -> RpcType]
           /\ holder \in [Reporters -> Callers \cup {None}]
           /\ vec \in [Vectors -> {"free", "result", "held", "lost"}]
           /\ None \notin Callers /\ None \notin Reporters
           /\ None \notin Rpcs /\ None \notin Vectors
           /\ \A c \in Callers : call[c].at \in {"backlog", "backlogWait", "free"}
                                    <=> call[c].vec # None
BY ReporterAssumption DEF TypeOK, CallType, RpcType

(* The state of caller c becomes these fields, and no other caller's changes. *)
CallIs(c, at, to, from, g, v) ==
    /\ call' \in [Callers -> CallType]
    /\ call'[c].at = at /\ call'[c].to = to /\ call'[c].from = from
    /\ call'[c].rpc = g /\ call'[c].vec = v
    /\ \A d \in Callers \ {c} : call'[d] = call[d]

(* The same for the remote call g. *)
RpcIs(g, at, kind, r, v, attended) ==
    /\ rpc' \in [Rpcs -> RpcType]
    /\ rpc'[g].at = at /\ rpc'[g].kind = kind /\ rpc'[g].r = r
    /\ rpc'[g].vec = v /\ rpc'[g].attended = attended
    /\ \A h \in Rpcs \ {g} : rpc'[h] = rpc[h]

(* A caller begins a call. *)
LEMMA BeginEffect ==
    ASSUME TypeOK, NEW c \in Callers,
           NEW at \in {"idle", "pool", "vector", "vectorWait", "backlog", "backlogWait",
                       "free", "report", "reportWait"},
           NEW to \in Reporters, NEW from \in Reporters,
           call' = [call EXCEPT ![c] = [Idle EXCEPT !.at = at, !.from = from, !.to = to]]
    PROVE  CallIs(c, at, to, from, None, None)
<1> DEFINE new == [Idle EXCEPT !.at = at, !.from = from, !.to = to]
<1>1. call \in [Callers -> CallType] /\ call[c] \in CallType
  BY Types
<1>2. /\ new \in CallType /\ new.at = at /\ new.to = to /\ new.from = from
      /\ new.rpc = None /\ new.vec = None
  BY <1>1 DEF CallType, Idle
<1>3. call' = [call EXCEPT ![c] = new]
  OBVIOUS
<1> HIDE DEF new
<1>4. QED
  BY <1>1, <1>2, <1>3 DEF CallIs

(* A caller begins a call of Report. *)
LEMMA BeginReportEffect ==
    ASSUME TypeOK, NEW c \in Callers,
           NEW at \in {"idle", "pool", "vector", "vectorWait", "backlog", "backlogWait",
                       "free", "report", "reportWait"}, NEW to \in Reporters,
           call' = [call EXCEPT ![c] = [Idle EXCEPT !.at = at, !.to = to]]
    PROVE  CallIs(c, at, to, None, None, None)
<1> DEFINE new == [Idle EXCEPT !.at = at, !.to = to]
<1>1. call \in [Callers -> CallType] /\ call[c] \in CallType
  BY Types
<1>2. /\ new \in CallType /\ new.at = at /\ new.to = to /\ new.from = None
      /\ new.rpc = None /\ new.vec = None
  BY <1>1 DEF CallType, Idle
<1>3. call' = [call EXCEPT ![c] = new]
  OBVIOUS
<1> HIDE DEF new
<1>4. QED
  BY <1>1, <1>2, <1>3 DEF CallIs

(* A caller gets further. *)
LEMMA PlaceEffect ==
    ASSUME TypeOK, NEW c \in Callers,
           NEW at \in {"idle", "pool", "vector", "vectorWait", "backlog", "backlogWait",
                       "free", "report", "reportWait"},
           call' = [call EXCEPT ![c].at = at]
    PROVE  CallIs(c, at, call[c].to, call[c].from, call[c].rpc, call[c].vec)
<1> DEFINE new == [call[c] EXCEPT !.at = at]
<1>1. call \in [Callers -> CallType] /\ call[c] \in CallType
  BY Types
<1>2. /\ new \in CallType /\ new.at = at /\ new.to = call[c].to /\ new.from = call[c].from
      /\ new.rpc = call[c].rpc /\ new.vec = call[c].vec
  BY <1>1 DEF CallType, Idle
<1>3. call' = [call EXCEPT ![c] = new]
  OBVIOUS
<1> HIDE DEF new
<1>4. QED
  BY <1>1, <1>2, <1>3 DEF CallIs

(* A caller begins to wait for a remote call, or ends. *)
LEMMA WaitEffect ==
    ASSUME TypeOK, NEW c \in Callers,
           NEW at \in {"idle", "pool", "vector", "vectorWait", "backlog", "backlogWait",
                       "free", "report", "reportWait"}, NEW g \in Rpcs \cup {None},
           call' = [call EXCEPT ![c] = [@ EXCEPT !.at = at, !.rpc = g]]
    PROVE  CallIs(c, at, call[c].to, call[c].from, g, call[c].vec)
<1> DEFINE new == [call[c] EXCEPT !.at = at, !.rpc = g]
<1>1. call \in [Callers -> CallType] /\ call[c] \in CallType
  BY Types
<1>2. /\ new \in CallType /\ new.at = at /\ new.to = call[c].to /\ new.from = call[c].from
      /\ new.rpc = g /\ new.vec = call[c].vec
  BY <1>1 DEF CallType, Idle
<1>3. call' = [call EXCEPT ![c] = new]
  OBVIOUS
<1> HIDE DEF new
<1>4. QED
  BY <1>1, <1>2, <1>3 DEF CallIs

(* A caller has got a vector. *)
LEMMA VectorEffect ==
    ASSUME TypeOK, NEW c \in Callers, NEW v \in Vectors,
           call' = [call EXCEPT ![c] = [@ EXCEPT !.at = "backlog", !.rpc = None, !.vec = v]]
    PROVE  CallIs(c, "backlog", call[c].to, call[c].from, None, v)
<1> DEFINE new == [call[c] EXCEPT !.at = "backlog", !.rpc = None, !.vec = v]
<1>1. call \in [Callers -> CallType] /\ call[c] \in CallType
  BY Types
<1>2. /\ new \in CallType /\ new.at = "backlog" /\ new.to = call[c].to /\ new.from = call[c].from
      /\ new.rpc = None /\ new.vec = v
  BY <1>1 DEF CallType, Idle
<1>3. call' = [call EXCEPT ![c] = new]
  OBVIOUS
<1> HIDE DEF new
<1>4. QED
  BY <1>1, <1>2, <1>3 DEF CallIs

(* A caller returns. *)
LEMMA ReturnEffect ==
    ASSUME TypeOK, NEW c \in Callers, call' = [call EXCEPT ![c] = Idle]
    PROVE  CallIs(c, "idle", None, None, None, None)
<1>1. /\ call \in [Callers -> CallType] /\ Idle \in CallType
      /\ Idle.at = "idle" /\ Idle.to = None /\ Idle.from = None
      /\ Idle.rpc = None /\ Idle.vec = None
  BY Types DEF Idle, CallType
<1>2. QED
  BY <1>1 DEF CallIs

(* A remote call begins. *)
LEMMA BeginsEffect ==
    ASSUME TypeOK, NEW g \in Rpcs,
           rpc' = [rpc EXCEPT ![g].at = "running"]
    PROVE  RpcIs(g, "running", rpc[g].kind, rpc[g].r, rpc[g].vec, rpc[g].attended)
<1> DEFINE new == [rpc[g] EXCEPT !.at = "running"]
<1>1. rpc \in [Rpcs -> RpcType] /\ rpc[g] \in RpcType
  BY Types
<1>2. /\ new \in RpcType /\ new.at = "running" /\ new.kind = rpc[g].kind /\ new.r = rpc[g].r
      /\ new.vec = rpc[g].vec /\ new.attended = rpc[g].attended
  BY <1>1 DEF RpcType
<1>3. rpc' = [rpc EXCEPT ![g] = new]
  OBVIOUS
<1> HIDE DEF new
<1>4. QED
  BY <1>1, <1>2, <1>3 DEF RpcIs

(* A remote call has a result. *)
LEMMA ResultEffect ==
    ASSUME TypeOK, NEW g \in Rpcs, NEW at \in {"ok", "failed"}, NEW v \in Vectors \cup {None},
           rpc' = [rpc EXCEPT ![g] = [@ EXCEPT !.at = at, !.vec = v]]
    PROVE  RpcIs(g, at, rpc[g].kind, rpc[g].r, v, rpc[g].attended)
<1> DEFINE new == [rpc[g] EXCEPT !.at = at, !.vec = v]
<1>1. rpc \in [Rpcs -> RpcType] /\ rpc[g] \in RpcType
  BY Types
<1>2. /\ new \in RpcType /\ new.at = at /\ new.kind = rpc[g].kind /\ new.r = rpc[g].r
      /\ new.vec = v /\ new.attended = rpc[g].attended
  BY <1>1 DEF RpcType
<1>3. rpc' = [rpc EXCEPT ![g] = new]
  OBVIOUS
<1> HIDE DEF new
<1>4. QED
  BY <1>1, <1>2, <1>3 DEF RpcIs

(* A remote call is left behind. *)
LEMMA LeftEffect ==
    ASSUME TypeOK, NEW g \in Rpcs, NEW attended \in BOOLEAN,
           rpc' = [rpc EXCEPT ![g].attended = attended]
    PROVE  RpcIs(g, rpc[g].at, rpc[g].kind, rpc[g].r, rpc[g].vec, attended)
<1> DEFINE new == [rpc[g] EXCEPT !.attended = attended]
<1>1. rpc \in [Rpcs -> RpcType] /\ rpc[g] \in RpcType
  BY Types
<1>2. /\ new \in RpcType /\ new.at = rpc[g].at /\ new.kind = rpc[g].kind /\ new.r = rpc[g].r
      /\ new.vec = rpc[g].vec /\ new.attended = attended
  BY <1>1 DEF RpcType
<1>3. rpc' = [rpc EXCEPT ![g] = new]
  OBVIOUS
<1> HIDE DEF new
<1>4. QED
  BY <1>1, <1>2, <1>3 DEF RpcIs

(* A remote call is over. *)
LEMMA OverEffect ==
    ASSUME TypeOK, NEW g \in Rpcs, rpc' = [rpc EXCEPT ![g] = NoRpc]
    PROVE  RpcIs(g, "none", "vector", None, None, TRUE) /\ rpc'[g] = NoRpc
<1>1. /\ rpc \in [Rpcs -> RpcType] /\ NoRpc \in RpcType
      /\ NoRpc.at = "none" /\ NoRpc.kind = "vector" /\ NoRpc.r = None
      /\ NoRpc.vec = None /\ NoRpc.attended = TRUE
  BY Types DEF NoRpc, RpcType, Kinds
<1>2. QED
  BY <1>1 DEF RpcIs

(* A remote call is made. *)
LEMMA MadeEffect ==
    ASSUME TypeOK, NEW g \in Rpcs, NEW kind \in Kinds, NEW r \in Reporters,
           NEW v \in Vectors \cup {None}, NEW yes, yes = TRUE,
           rpc' = [rpc EXCEPT ![g] = [at |-> "spawned", kind |-> kind, r |-> r,
                                      vec |-> v, attended |-> yes]]
    PROVE  RpcIs(g, "spawned", kind, r, v, yes)
<1> DEFINE new == [at |-> "spawned", kind |-> kind, r |-> r, vec |-> v, attended |-> yes]
<1>1. rpc \in [Rpcs -> RpcType]
  BY Types
<1>2. /\ new \in RpcType /\ new.at = "spawned" /\ new.kind = kind /\ new.r = r
      /\ new.vec = v /\ new.attended = yes
  BY DEF RpcType
<1>3. rpc' = [rpc EXCEPT ![g] = new]
  OBVIOUS
<1> HIDE DEF new
<1>4. QED
  BY <1>1, <1>2, <1>3 DEF RpcIs

-----------------------------------------------------------------------------
(* Each kind of step keeps the invariant. *)
Quiet == {"idle", "pool", "vector", "backlog", "free", "report"}

(* A caller attends to a call for as long as neither changes. *)
LEMMA AttendsStill ==
    ASSUME NEW c, NEW g, call'[c] = call[c], rpc'[g] = rpc[g]
    PROVE  Attends(c, g)' <=> Attends(c, g)
BY DEF Attends, Uses

(* Nothing happens to a vector. *)
LEMMA OwnedStill ==
    ASSUME IndInv, NEW v \in Vectors, vec'[v] = vec[v],
           \A c \in Callers : call'[c].vec = v <=> call[c].vec = v,
           \A g \in Rpcs : Gives(g, v)' <=> Gives(g, v)
    PROVE  OwnedOnce(v)'
BY DEF IndInv, Owners, OwnedOnce

(* Nothing happens to any vector. *)
LEMMA OwnersStill ==
    ASSUME IndInv, vec' = vec, \A c \in Callers : call'[c].vec = call[c].vec,
           \A g \in Rpcs, v \in Vectors : Gives(g, v)' <=> Gives(g, v)
    PROVE  Owners'
BY OwnedStill DEF Owners

(* The lock of a connection is taken by a caller that begins to use it. *)
LEMMA LockTaken ==
    ASSUME IndInv, NEW c \in Callers, NEW r \in Reporters, holder[r] = None, r \in open,
           holder' = [holder EXCEPT ![r] = c], open' = open, call[c].at \in Quiet,
           \A d \in Callers \ {c} : call'[d] = call[d],
           \A q \in Reporters : Uses(c, q)' <=> q = r
    PROVE  LocksMatch'
<1>1. holder \in [Reporters -> Callers \cup {None}] /\ None \notin Callers
  BY Types DEF IndInv
<1>2. \A q \in Reporters : ~Uses(c, q)
  BY DEF Uses, Quiet
<1>3. \A q \in Reporters, d \in Callers \ {c} : Uses(d, q)' <=> Uses(d, q)
  BY DEF Uses
<1>4. SUFFICES ASSUME NEW q \in Reporters
               PROVE  /\ \A d \in Callers : Uses(d, q)' <=> holder'[q] = d
                      /\ holder'[q] # None => q \in open'
  BY DEF LocksMatch
<1>5. CASE q = r
  BY <1>1, <1>3, <1>5 DEF IndInv, LocksMatch
<1>6. CASE q # r
  <2>1. holder'[q] = holder[q]
    BY <1>1, <1>6
  <2>2. \A d \in Callers : Uses(d, q) <=> holder[q] = d
    BY DEF IndInv, LocksMatch
  <2>3. holder[q] # None => q \in open
    BY DEF IndInv, LocksMatch
  <2>4. QED
    BY <1>2, <1>3, <1>6, <2>1, <2>2, <2>3
<1>7. QED
  BY <1>5, <1>6

(* It is given back when the caller ends to use it. *)
LEMMA LockGivenBack ==
    ASSUME IndInv, NEW c \in Callers, NEW r \in Reporters, Uses(c, r),
           holder' = [holder EXCEPT ![r] = None], open' = open, call'[c].at \in Quiet,
           \A d \in Callers \ {c} : call'[d] = call[d]
    PROVE  LocksMatch'
<1>1. holder \in [Reporters -> Callers \cup {None}] /\ None \notin Callers
  BY Types DEF IndInv
<1>2. \A q \in Reporters : ~Uses(c, q)'
  BY DEF Uses, Quiet
<1>3. \A q \in Reporters, d \in Callers \ {c} : Uses(d, q)' <=> Uses(d, q)
  BY DEF Uses
<1>4. \A q \in Reporters \ {r} : ~Uses(c, q)
  BY DEF Uses
<1>5. SUFFICES ASSUME NEW q \in Reporters
               PROVE  /\ \A d \in Callers : Uses(d, q)' <=> holder'[q] = d
                      /\ holder'[q] # None => q \in open'
  BY DEF LocksMatch
<1>6. \A d \in Callers : Uses(d, q) <=> holder[q] = d
  BY DEF IndInv, LocksMatch
<1>7. holder[q] # None => q \in open
  BY DEF IndInv, LocksMatch
<1>8. CASE q = r
  BY <1>1, <1>2, <1>3, <1>6, <1>8
<1>9. CASE q # r
  BY <1>1, <1>2, <1>3, <1>4, <1>6, <1>7, <1>9
<1>10. QED
  BY <1>8, <1>9

(* A caller that uses no connection moves on, or begins or returns. *)
LEMMA MoveKeeps ==
    ASSUME IndInv,
           NEW c \in Callers, NEW at \in Quiet, NEW to, NEW from,
           CallIs(c, at, to, from, None, call[c].vec), call[c].at \in Quiet,
           at \in {"backlog", "free"} <=> call[c].vec # None,
           at \in {"pool", "vector", "backlog"} => to \in Reporters /\ from \in Reporters,
           at = "report" => to \in Reporters,
           ctxDone' \in SUBSET Callers, UNCHANGED <<holder, open, rpc, vec>>
    PROVE  IndInv'
<1>1. TypeOK /\ None \notin Callers /\ None \notin Reporters /\ None \notin Rpcs
      /\ None \notin Vectors
  BY Types DEF IndInv
<1>2. TypeOK'
  BY <1>1 DEF IndInv, TypeOK, CallType, RpcType, Quiet, CallIs
<1>3. CallsNamed'
  BY <1>1 DEF IndInv, CallsNamed, ForBacklog, Reporting, Quiet, CallIs
<1>4. LocksMatch'
  BY <1>1 DEF IndInv, LocksMatch, Uses, Quiet, CallIs
<1>5. WaitersAttend'
  BY <1>1 DEF IndInv, WaitersAttend, Attends, Uses, Quiet, CallIs
<1>6. CallsAttended'
  <2>1. call[c].rpc = None /\ rpc' = rpc
    BY DEF IndInv, CallsNamed, Quiet
  <2>2. SUFFICES ASSUME NEW g \in Rpcs, rpc[g].at # "none", rpc[g].attended
                 PROVE  \E d \in Callers : call'[d].rpc = g
    BY <2>1 DEF CallsAttended
  <2>3. PICK d \in Callers : call[d].rpc = g
    BY <2>2 DEF IndInv, CallsAttended
  <2>4. call'[d] = call[d]
    BY <1>1, <2>1, <2>3 DEF CallIs
  <2>5. QED
    BY <2>3, <2>4
<1>7. ResultsKept'
  BY <1>1 DEF IndInv, ResultsKept, Quiet, CallIs
<1>8. Owners'
  BY <1>1 DEF IndInv, Owners, OwnedOnce, Gives, Quiet, CallIs
<1>9. QED
  BY <1>2, <1>3, <1>4, <1>5, <1>6, <1>7, <1>8 DEF IndInv

(* A caller closes its vector and returns. *)
LEMMA CloseVectorKeeps ==
    ASSUME IndInv,
           NEW c \in Callers, call[c].at = "free", CallIs(c, "idle", None, None, None, None),
           vec' = [vec EXCEPT ![call[c].vec] = "free"],
           ctxDone' \in SUBSET Callers, UNCHANGED <<holder, open, rpc>>
    PROVE  IndInv'
<1>1. TypeOK /\ None \notin Callers /\ None \notin Reporters /\ None \notin Rpcs
      /\ None \notin Vectors
  BY Types DEF IndInv
<1>2. TypeOK'
  BY <1>1, SMTT(30) DEF IndInv, TypeOK, CallType, RpcType, CallIs
<1>3. CallsNamed'
  BY <1>1 DEF IndInv, CallsNamed, ForBacklog, Reporting, CallIs
<1>4. LocksMatch'
  BY <1>1 DEF IndInv, LocksMatch, Uses, CallIs
<1>5. WaitersAttend'
  BY <1>1 DEF IndInv, WaitersAttend, Attends, Uses, CallIs
<1>6. CallsAttended'
  <2>1. call[c].rpc = None /\ rpc' = rpc
    BY DEF IndInv, CallsNamed
  <2>2. SUFFICES ASSUME NEW g \in Rpcs, rpc[g].at # "none", rpc[g].attended
                 PROVE  \E d \in Callers : call'[d].rpc = g
    BY <2>1 DEF CallsAttended
  <2>3. PICK d \in Callers : call[d].rpc = g
    BY <2>2 DEF IndInv, CallsAttended
  <2>4. call'[d] = call[d]
    BY <1>1, <2>1, <2>3 DEF CallIs
  <2>5. QED
    BY <2>3, <2>4
<1>7. ResultsKept'
  BY <1>1 DEF IndInv, ResultsKept, CallIs
<1>8. Owners'
  <2>1. /\ call[c].vec \in Vectors /\ vec[call[c].vec] = "held"
        /\ vec \in [Vectors -> {"free", "result", "held", "lost"}]
    <3>1. call[c].vec \in Vectors
      BY <1>1 DEF IndInv, TypeOK
    <3>2. QED
      BY <1>1, <3>1, Types DEF Owners, OwnedOnce, IndInv
  <2>2. \A d \in Callers : /\ call'[d].vec \in Vectors => d # c /\ call'[d].vec = call[d].vec
                           /\ d # c => call'[d].vec = call[d].vec
    BY <1>1 DEF CallIs
  <2>3. \A d \in Callers : call[d].vec = call[c].vec => d = c
    BY <2>1 DEF IndInv, Owners, OwnedOnce
  <2>4. \A g \in Rpcs, v \in Vectors : Gives(g, v)' <=> Gives(g, v)
    BY DEF Gives
  <2>5. ASSUME NEW v \in Vectors
        PROVE  OwnedOnce(v)'
    <3>1. CASE v = call[c].vec
      <4>1. vec'[v] = "free" /\ vec[v] = "held" /\ \A d \in Callers : call'[d].vec # v
        BY <2>1, <2>2, <2>3, <3>1
      <4>2. QED
        BY <2>4, <4>1 DEF IndInv, Owners, OwnedOnce
    <3>2. CASE v # call[c].vec
      <4>1. vec'[v] = vec[v] /\ \A d \in Callers : call'[d].vec = v <=> call[d].vec = v
        BY <2>1, <2>2, <3>2
      <4>2. QED
        BY <2>4, <4>1, OwnedStill
    <3>3. QED
      BY <3>1, <3>2
  <2>6. QED
    BY <2>5 DEF Owners
<1>9. QED
  BY <1>2, <1>3, <1>4, <1>5, <1>6, <1>7, <1>8 DEF IndInv

(* The context of a caller is done. *)
LEMMA CancelKeeps ==
    ASSUME IndInv,
           ctxDone' \in SUBSET Callers, UNCHANGED <<holder, open, call, rpc, vec>>
    PROVE  IndInv'
<1>1. TypeOK /\ None \notin Callers /\ None \notin Reporters /\ None \notin Rpcs
      /\ None \notin Vectors
  BY Types DEF IndInv
<1>2. TypeOK'
  BY <1>1 DEF IndInv, TypeOK, CallType, RpcType, CallIs
<1>3. CallsNamed'
  BY <1>1 DEF IndInv, CallsNamed, ForBacklog, Reporting, CallIs
<1>4. LocksMatch'
  BY <1>1 DEF IndInv, LocksMatch, Uses, CallIs
<1>5. WaitersAttend'
  BY <1>1 DEF IndInv, WaitersAttend, Attends, Uses, CallIs
<1>6. CallsAttended'
  BY <1>1 DEF IndInv, CallsAttended, CallIs
<1>7. ResultsKept'
  BY <1>1 DEF IndInv, ResultsKept, CallIs
<1>8. Owners'
  BY <1>1 DEF IndInv, Owners, OwnedOnce, Gives, CallIs
<1>9. QED
  BY <1>2, <1>3, <1>4, <1>5, <1>6, <1>7, <1>8 DEF IndInv

(* A connection is closed while nobody uses it. *)
LEMMA CloseKeeps ==
    ASSUME IndInv,
           NEW r \in Reporters, Close(r)
    PROVE  IndInv'
<1>1. TypeOK /\ None \notin Callers /\ None \notin Reporters /\ None \notin Rpcs
      /\ None \notin Vectors
  BY Types DEF IndInv
<1>2. TypeOK'
  BY <1>1 DEF IndInv, TypeOK, CallType, RpcType, Close, Lockable
<1>3. CallsNamed'
  BY <1>1 DEF IndInv, CallsNamed, ForBacklog, Reporting, Close, Lockable
<1>4. LocksMatch'
  BY <1>1 DEF IndInv, LocksMatch, Uses, Close, Lockable
<1>5. WaitersAttend'
  BY <1>1 DEF IndInv, WaitersAttend, Attends, Uses, Close, Lockable
<1>6. CallsAttended'
  BY <1>1 DEF IndInv, CallsAttended, Close, Lockable
<1>7. ResultsKept'
  BY <1>1 DEF IndInv, ResultsKept, Close, Lockable
<1>8. Owners'
  BY <1>1 DEF IndInv, Owners, OwnedOnce, Gives, Close, Lockable
<1>9. QED
  BY <1>2, <1>3, <1>4, <1>5, <1>6, <1>7, <1>8 DEF IndInv

(* A caller makes the call of Report. *)
LEMMA LockReportKeeps ==
    ASSUME IndInv,
           NEW c \in Callers, NEW r \in Reporters, call[c].at = "report", call[c].to = r,
           holder[r] = None, r \in open, holder' = [holder EXCEPT ![r] = c],
           CallIs(c, "reportWait", call[c].to, call[c].from, call[c].rpc, call[c].vec),
           UNCHANGED <<open, ctxDone, rpc, vec>>
    PROVE  IndInv'
<1>1. TypeOK /\ None \notin Callers /\ None \notin Reporters /\ None \notin Rpcs
      /\ None \notin Vectors
  BY Types DEF IndInv
<1>2. TypeOK'
  BY <1>1 DEF IndInv, TypeOK, CallType, RpcType, CallIs
<1>3. CallsNamed'
  BY <1>1 DEF IndInv, CallsNamed, ForBacklog, Reporting, CallIs
<1>4. LocksMatch'
  <2>1. \A q \in Reporters : Uses(c, q)' <=> q = r
    BY DEF Uses, CallIs
  <2>2. QED
    BY <2>1, LockTaken DEF CallIs, Quiet
<1>5. WaitersAttend'
  BY <1>1 DEF IndInv, WaitersAttend, Attends, Uses, CallIs
<1>6. CallsAttended'
  BY <1>1 DEF IndInv, CallsAttended, CallIs
<1>7. ResultsKept'
  BY <1>1 DEF IndInv, ResultsKept, CallIs
<1>8. Owners'
  BY <1>1 DEF IndInv, Owners, OwnedOnce, Gives, CallIs
<1>9. QED
  BY <1>2, <1>3, <1>4, <1>5, <1>6, <1>7, <1>8 DEF IndInv

(* A caller makes a remote call and waits for it. *)
LEMMA SpawnKeeps ==
    ASSUME IndInv,
           NEW c \in Callers, NEW r \in Reporters, NEW g \in Rpcs, NEW at, NEW kind, NEW v,
           NEW yes, yes = TRUE,
           \/ /\ call[c].at = "vector" /\ at = "vectorWait" /\ kind = "vector"
              /\ call[c].to = r /\ v = None
           \/ /\ call[c].at = "backlog" /\ at = "backlogWait" /\ kind = "backlog"
              /\ call[c].from = r /\ v = call[c].vec,
           rpc[g].at = "none", RpcIs(g, "spawned", kind, r, v, yes),
           holder[r] = None, r \in open, holder' = [holder EXCEPT ![r] = c],
           CallIs(c, at, call[c].to, call[c].from, g, call[c].vec),
           UNCHANGED <<open, ctxDone, vec>>
    PROVE  IndInv'
<1>1. TypeOK /\ None \notin Callers /\ None \notin Reporters /\ None \notin Rpcs
      /\ None \notin Vectors
  BY Types DEF IndInv
<1>2. TypeOK'
  BY <1>1 DEF IndInv, TypeOK, CallType, RpcType, CallIs, RpcIs
<1>3. CallsNamed'
  BY <1>1 DEF IndInv, CallsNamed, ForBacklog, Reporting, CallIs, RpcIs
<1>4. LocksMatch'
  <2>1. \A q \in Reporters : Uses(c, q)' <=> q = r
    BY DEF Uses, CallIs
  <2>2. QED
    BY <2>1, LockTaken DEF CallIs, Quiet
<1>5. WaitersAttend'
  <2>1. Attends(c, g)'
    BY DEF Attends, Uses, CallIs, RpcIs
  <2>2. \A d \in Callers \ {c}, h \in Rpcs : call[d].rpc = h => Attends(d, h) /\ h # g
    BY DEF IndInv, WaitersAttend, Attends
  <2>3. \A d \in Callers \ {c}, h \in Rpcs \ {g} : Attends(d, h)' <=> Attends(d, h)
    BY AttendsStill DEF CallIs, RpcIs
  <2>4. call'[c].rpc = g /\ \A d \in Callers \ {c} : call'[d].rpc = call[d].rpc
    BY DEF CallIs
  <2>5. QED
    BY <2>1, <2>2, <2>3, <2>4 DEF WaitersAttend
<1>6. CallsAttended'
  <2>1. SUFFICES ASSUME NEW h \in Rpcs, rpc'[h].at # "none", rpc'[h].attended
                 PROVE  \E d \in Callers : call'[d].rpc = h
    BY DEF CallsAttended
  <2>2. CASE h = g
    BY <2>2 DEF CallIs
  <2>3. CASE h # g
    <3>1. rpc'[h] = rpc[h] /\ call[c].rpc = None
      BY <2>3 DEF RpcIs, IndInv, CallsNamed
    <3>2. PICK d \in Callers : call[d].rpc = h
      BY <2>1, <3>1 DEF IndInv, CallsAttended
    <3>3. call'[d] = call[d]
      BY <1>1, <3>1, <3>2 DEF CallIs
    <3>4. QED
      BY <3>2, <3>3
  <2>4. QED
    BY <2>2, <2>3
<1>7. ResultsKept'
  BY <1>1 DEF IndInv, ResultsKept, CallIs, RpcIs
<1>8. Owners'
  <2>1. \A d \in Callers : call'[d].vec = call[d].vec
    BY DEF CallIs
  <2>2. \A h \in Rpcs, u \in Vectors : Gives(h, u)' <=> Gives(h, u)
    BY <1>1 DEF RpcIs, Gives, IndInv, ResultsKept, NoRpc
  <2>3. QED
    BY <2>1, <2>2, OwnersStill
<1>9. QED
  BY <1>2, <1>3, <1>4, <1>5, <1>6, <1>7, <1>8 DEF IndInv

(* The call of Report returns. *)
LEMMA ReportReturnsKeeps ==
    ASSUME IndInv,
           NEW c \in Callers, call[c].at = "reportWait", CallIs(c, "idle", None, None, None, None),
           holder' = [holder EXCEPT ![call[c].to] = None],
           ctxDone' \in SUBSET Callers, UNCHANGED <<open, rpc, vec>>
    PROVE  IndInv'
<1>1. TypeOK /\ None \notin Callers /\ None \notin Reporters /\ None \notin Rpcs
      /\ None \notin Vectors
  BY Types DEF IndInv
<1>2. TypeOK'
  BY <1>1 DEF IndInv, TypeOK, CallType, RpcType, CallIs
<1>3. CallsNamed'
  BY <1>1 DEF IndInv, CallsNamed, ForBacklog, Reporting, CallIs
<1>4. LocksMatch'
  <2>1. Uses(c, call[c].to) /\ call[c].to \in Reporters
    BY <1>1 DEF Uses, IndInv, CallsNamed, ForBacklog, Reporting
  <2>2. QED
    BY <2>1, LockGivenBack DEF CallIs, Quiet
<1>5. WaitersAttend'
  BY <1>1 DEF IndInv, WaitersAttend, Attends, Uses, CallIs
<1>6. CallsAttended'
  <2>1. call[c].rpc = None /\ rpc' = rpc
    BY DEF IndInv, CallsNamed
  <2>2. SUFFICES ASSUME NEW g \in Rpcs, rpc[g].at # "none", rpc[g].attended
                 PROVE  \E d \in Callers : call'[d].rpc = g
    BY <2>1 DEF CallsAttended
  <2>3. PICK d \in Callers : call[d].rpc = g
    BY <2>2 DEF IndInv, CallsAttended
  <2>4. call'[d] = call[d]
    BY <1>1, <2>1, <2>3 DEF CallIs
  <2>5. QED
    BY <2>3, <2>4
<1>7. ResultsKept'
  BY <1>1 DEF IndInv, ResultsKept, CallIs
<1>8. Owners'
  <2>1. \A d \in Callers : call'[d].vec = call[d].vec
    BY <1>1 DEF IndInv, TypeOK, CallIs
  <2>2. \A h \in Rpcs, v \in Vectors : Gives(h, v)' <=> Gives(h, v)
    BY DEF Gives
  <2>3. QED
    BY <2>1, <2>2, OwnersStill
<1>9. QED
  BY <1>2, <1>3, <1>4, <1>5, <1>6, <1>7, <1>8 DEF IndInv

(* A caller ends to wait: it has the result, or leaves the call behind. *)
LEMMA WaitEnds ==
    ASSUME IndInv, NEW c \in Callers, NEW g \in Rpcs, call[c].rpc = g,
           NEW r \in Reporters, Uses(c, r), holder' = [holder EXCEPT ![r] = None],
           NEW at \in {"idle", "backlog", "free"}, NEW to, NEW from,
           NEW v \in Vectors \cup {None}, CallIs(c, at, to, from, None, v),
           at \in {"backlog", "free"} <=> v # None,
           at = "backlog" => to = call[c].to /\ from = call[c].from,
           NEW no, no = FALSE,
           \/ RpcIs(g, "none", "vector", None, None, TRUE) /\ rpc'[g] = NoRpc
           \/ /\ rpc[g].at \notin {"ok", "failed"}
              /\ RpcIs(g, rpc[g].at, rpc[g].kind, rpc[g].r, rpc[g].vec, no),
           vec' \in [Vectors -> {"free", "result", "held", "lost"}],
           ctxDone' \in SUBSET Callers, open' = open
    PROVE  TypeOK' /\ CallsNamed' /\ LocksMatch' /\ WaitersAttend' /\ CallsAttended'
           /\ ResultsKept'
<1>1. TypeOK /\ None \notin Callers /\ None \notin Reporters /\ None \notin Rpcs
      /\ None \notin Vectors
  BY Types DEF IndInv
<1>2. Attends(c, g) /\ call[c].at \in {"vectorWait", "backlogWait"}
  BY DEF IndInv, WaitersAttend, Attends
<1>3. /\ call' \in [Callers -> CallType] /\ rpc' \in [Rpcs -> RpcType]
      /\ \A d \in Callers \ {c} : call'[d] = call[d]
      /\ \A h \in Rpcs \ {g} : rpc'[h] = rpc[h]
      /\ ~(rpc'[g].at # "none" /\ rpc'[g].attended)
      /\ call'[c].at = at /\ call'[c].rpc = None /\ call'[c].vec = v
  <2>1. NoRpc.at = "none"
    BY DEF NoRpc
  <2>2. QED
    BY <2>1 DEF CallIs, RpcIs
<1>4. TypeOK'
  <2>1. holder' \in [Reporters -> Callers \cup {None}] /\ open' \in SUBSET Reporters
    BY <1>1 DEF TypeOK
  <2>2. \A d \in Callers :
           call'[d].at \in {"backlog", "backlogWait", "free"} <=> call'[d].vec # None
    BY <1>1, <1>3 DEF TypeOK
  <2>3. QED
    BY <1>3, <2>1, <2>2 DEF TypeOK, CallType, RpcType
<1>5. CallsNamed'
  BY <1>1, <1>2, <1>3 DEF IndInv, CallsNamed, ForBacklog, Reporting, CallIs
<1>6. LocksMatch'
  BY <1>3, LockGivenBack DEF Quiet
<1>7. WaitersAttend'
  <2>1. SUFFICES ASSUME NEW d \in Callers, NEW h \in Rpcs, call'[d].rpc = h
                 PROVE  Attends(d, h)'
    BY DEF WaitersAttend
  <2>2. d # c /\ call'[d] = call[d]
    BY <1>1, <1>3, <2>1
  <2>3. Attends(d, h)
    BY <2>1, <2>2 DEF IndInv, WaitersAttend
  <2>4. h # g
    <3>1. SUFFICES ASSUME h = g PROVE FALSE
      OBVIOUS
    <3>2. rpc[g].r \in Reporters /\ Uses(c, rpc[g].r) /\ Uses(d, rpc[g].r)
      BY <1>2, <2>3, <3>1 DEF Attends
    <3>3. QED
      BY <2>2, <3>2 DEF IndInv, LocksMatch
  <2>5. QED
    BY <1>3, <2>2, <2>3, <2>4, AttendsStill
<1>8. CallsAttended'
  <2>1. SUFFICES ASSUME NEW h \in Rpcs, rpc'[h].at # "none", rpc'[h].attended
                 PROVE  \E d \in Callers : call'[d].rpc = h
    BY DEF CallsAttended
  <2>2. h # g /\ rpc'[h] = rpc[h]
    BY <1>3, <2>1
  <2>3. PICK d \in Callers : call[d].rpc = h
    BY <2>1, <2>2 DEF IndInv, CallsAttended
  <2>4. call'[d] = call[d]
    BY <1>3, <2>2, <2>3
  <2>5. QED
    BY <2>3, <2>4
<1>9. ResultsKept'
  <2>1. SUFFICES ASSUME NEW h \in Rpcs
                 PROVE  /\ rpc'[h].at = "none" => rpc'[h] = NoRpc
                        /\ rpc'[h].at \in {"ok", "failed"} => rpc'[h].attended
                        /\ rpc'[h].kind = "vector" => (rpc'[h].at = "ok" <=> rpc'[h].vec # None)
    BY DEF ResultsKept, NoRpc
  <2>2. CASE h # g
    BY <1>3, <2>2 DEF IndInv, ResultsKept
  <2>3. CASE h = g /\ rpc'[g] = NoRpc
    BY <2>3 DEF NoRpc
  <2>4. CASE h = g /\ rpc[g].at \notin {"ok", "failed"}
               /\ RpcIs(g, rpc[g].at, rpc[g].kind, rpc[g].r, rpc[g].vec, no)
    <3>1. rpc[g].at # "none"
      BY <1>2 DEF Attends
    <3>2. QED
      BY <2>4, <3>1 DEF IndInv, ResultsKept, RpcIs
  <2>5. QED
    BY <2>2, <2>3, <2>4
<1>10. QED
  BY <1>4, <1>5, <1>6, <1>7, <1>8, <1>9

-----------------------------------------------------------------------------
(* The end of a wait, by what becomes of the vector. *)

(* A caller that waits for a vector has none yet. *)
LEMMA VectorWaits ==
    ASSUME IndInv, NEW c \in Callers, call[c].at = "vectorWait"
    PROVE  /\ call[c].rpc \in Rpcs /\ Attends(c, call[c].rpc)
           /\ rpc[call[c].rpc].kind = "vector"
           /\ call[c].to \in Reporters /\ Uses(c, call[c].to) /\ call[c].vec = None
<1>1. call[c].rpc \in Rpcs /\ call[c].to \in Reporters /\ call[c].vec = None
  BY Types DEF IndInv, TypeOK, CallsNamed, ForBacklog
<1>2. Attends(c, call[c].rpc)
  BY <1>1 DEF IndInv, WaitersAttend
<1>3. QED
  BY <1>1, <1>2 DEF Attends, Uses

(* A caller that waits for a backlog has the vector that its call sends. *)
LEMMA BacklogWaits ==
    ASSUME IndInv, NEW c \in Callers, call[c].at = "backlogWait"
    PROVE  /\ call[c].rpc \in Rpcs /\ Attends(c, call[c].rpc)
           /\ rpc[call[c].rpc].kind = "backlog"
           /\ call[c].from \in Reporters /\ Uses(c, call[c].from) /\ call[c].vec \in Vectors
<1>1. call[c].rpc \in Rpcs /\ call[c].from \in Reporters /\ call[c].vec \in Vectors
  BY Types DEF IndInv, TypeOK, CallsNamed, ForBacklog
<1>2. Attends(c, call[c].rpc)
  BY <1>1 DEF IndInv, WaitersAttend
<1>3. QED
  BY <1>1, <1>2 DEF Attends, Uses

(* No vector changes hands: the call had none to give. *)
LEMMA NothingGiven ==
    ASSUME IndInv, NEW c \in Callers, NEW g \in Rpcs, NEW at, NEW to, NEW from,
           CallIs(c, at, to, from, None, call[c].vec), vec' = vec,
           NEW no, rpc[g].kind = "vector" => rpc[g].vec = None,
           \/ RpcIs(g, "none", "vector", None, None, TRUE)
           \/ RpcIs(g, rpc[g].at, rpc[g].kind, rpc[g].r, rpc[g].vec, no)
    PROVE  Owners'
<1>1. None \notin Vectors
  BY Types DEF IndInv
<1>2. \A d \in Callers : call'[d].vec = call[d].vec
  BY DEF CallIs
<1>3. /\ rpc'[g].kind = "vector" => rpc'[g].vec = None
      /\ \A h \in Rpcs \ {g} : rpc'[h] = rpc[h]
  BY DEF RpcIs
<1>4. \A h \in Rpcs, v \in Vectors : Gives(h, v)' <=> Gives(h, v)
  BY <1>1, <1>3 DEF Gives
<1>5. QED
  BY <1>2, <1>4, OwnersStill

(* The vector goes from the result to the caller, or is lost. *)
LEMMA VectorGiven ==
    ASSUME IndInv, NEW c \in Callers, NEW g \in Rpcs, NEW at, NEW to, NEW from, NEW w,
           call[c].vec = None, rpc[g].kind = "vector", rpc[g].vec \in Vectors,
           CallIs(c, at, to, from, None, w), RpcIs(g, "none", "vector", None, None, TRUE),
           \/ w = rpc[g].vec /\ vec' = [vec EXCEPT ![rpc[g].vec] = "held"]
           \/ w = None /\ vec' = [vec EXCEPT ![rpc[g].vec] = "lost"]
    PROVE  Owners'
<1>1. /\ None \notin Vectors
      /\ vec \in [Vectors -> {"free", "result", "held", "lost"}]
  BY Types DEF IndInv
<1>2. PICK u \in Vectors : u = rpc[g].vec
  OBVIOUS
<1>3. /\ Gives(g, u) /\ vec[u] = "result" /\ \A d \in Callers : call[d].vec # u
      /\ \A h \in Rpcs : Gives(h, u) => h = g
  BY <1>2 DEF Gives, IndInv, Owners, OwnedOnce
<1>4. \A h \in Rpcs, v \in Vectors : Gives(h, v)' <=> h # g /\ Gives(h, v)
  BY <1>1 DEF Gives, RpcIs
<1>5. \A d \in Callers \ {c} : call'[d].vec = call[d].vec
  BY DEF CallIs
<1>6. call'[c].vec = w
  BY DEF CallIs
<1>7. OwnedOnce(u)'
  <2>1. CASE w = u /\ vec' = [vec EXCEPT ![u] = "held"]
    <3>1. vec'[u] = "held" /\ \A d \in Callers : call'[d].vec = u <=> d = c
      BY <1>1, <1>3, <1>5, <1>6, <2>1
    <3>2. QED
      BY <1>3, <1>4, <3>1 DEF OwnedOnce
  <2>2. CASE w = None /\ vec' = [vec EXCEPT ![u] = "lost"]
    <3>1. vec'[u] = "lost" /\ \A d \in Callers : call'[d].vec # u
      BY <1>1, <1>3, <1>5, <1>6, <2>2
    <3>2. QED
      BY <1>3, <1>4, <3>1 DEF OwnedOnce
  <2>3. QED
    BY <1>2, <2>1, <2>2
<1>8. ASSUME NEW v \in Vectors \ {u}
      PROVE  OwnedOnce(v)'
  <2>1. vec'[v] = vec[v] /\ \A d \in Callers : call'[d].vec = v <=> call[d].vec = v
    BY <1>1, <1>2, <1>5, <1>6
  <2>2. \A h \in Rpcs : Gives(h, v)' <=> Gives(h, v)
    BY <1>2, <1>4 DEF Gives
  <2>3. QED
    BY <2>1, <2>2, OwnedStill
<1>9. QED
  BY <1>7, <1>8 DEF Owners

(* The result of Vector. *)
LEMMA VectorResultKeeps ==
    ASSUME IndInv, NEW c \in Callers, VectorResult(c)
    PROVE  IndInv'
<1>1. PICK g \in Rpcs : g = call[c].rpc
  BY VectorWaits DEF VectorResult
<1>2. PICK r \in Reporters : r = call[c].to
  BY VectorWaits DEF VectorResult
<1>3. /\ Uses(c, r) /\ Attends(c, g) /\ call[c].vec = None /\ rpc[g].kind = "vector"
      /\ rpc[g].at \in {"ok", "failed"} /\ call[c].at = "vectorWait"
      /\ rpc' = [rpc EXCEPT ![g] = NoRpc] /\ holder' = [holder EXCEPT ![r] = None]
      /\ open' = open
  BY <1>1, <1>2, VectorWaits DEF VectorResult, Unlocked
<1>4. /\ TypeOK /\ ctxDone \in SUBSET Callers
      /\ vec \in [Vectors -> {"free", "result", "held", "lost"}]
      /\ None \notin Vectors
  BY Types DEF IndInv, TypeOK
<1>5. RpcIs(g, "none", "vector", None, None, TRUE) /\ rpc'[g] = NoRpc
  BY <1>3, <1>4, OverEffect
<1>6. rpc[g].at = "ok" <=> rpc[g].vec # None
  BY <1>3 DEF IndInv, ResultsKept
<1>7. CASE ~Succeeded(g)
  <2>1. /\ call' = [call EXCEPT ![c] = Idle] /\ ctxDone' = ctxDone \ {c} /\ vec' = vec
        /\ rpc[g].vec = None
    BY <1>1, <1>6, <1>7 DEF VectorResult, Return, Succeeded
  <2>2. CallIs(c, "idle", None, None, None, None)
    BY <1>4, <2>1, ReturnEffect
  <2>3. Owners'
    BY <1>3, <1>5, <2>1, <2>2, NothingGiven
  <2>4. ctxDone' \in SUBSET Callers /\ vec' \in [Vectors -> {"free", "result", "held", "lost"}]
    BY <1>4, <2>1
  <2>5. TypeOK' /\ CallsNamed' /\ LocksMatch' /\ WaitersAttend' /\ CallsAttended' /\ ResultsKept'
    BY <1>1, <1>3, <1>5, <2>2, <2>4, WaitEnds
  <2>6. QED
    BY <2>3, <2>5 DEF IndInv
<1>8. CASE Succeeded(g)
  <2>1. PICK v \in Vectors : v = rpc[g].vec
    <3>1. rpc[g].vec \in Vectors \cup {None}
      BY <1>4 DEF TypeOK
    <3>2. QED
      BY <1>6, <1>8, <3>1 DEF Succeeded
  <2>2. /\ call' = [call EXCEPT ![c] = [@ EXCEPT !.at = "backlog", !.rpc = None, !.vec = v]]
        /\ vec' = [vec EXCEPT ![v] = "held"] /\ ctxDone' = ctxDone
    BY <1>1, <1>8, <2>1 DEF VectorResult
  <2>3. CallIs(c, "backlog", call[c].to, call[c].from, None, v)
    BY <1>4, <2>2, VectorEffect
  <2>4. Owners'
    BY <1>3, <1>5, <2>1, <2>2, <2>3, VectorGiven
  <2>5. ctxDone' \in SUBSET Callers /\ vec' \in [Vectors -> {"free", "result", "held", "lost"}]
    BY <1>4, <2>2
  <2>6. TypeOK' /\ CallsNamed' /\ LocksMatch' /\ WaitersAttend' /\ CallsAttended' /\ ResultsKept'
    BY <1>1, <1>3, <1>4, <1>5, <2>3, <2>5, WaitEnds
  <2>7. QED
    BY <2>4, <2>6 DEF IndInv
<1>9. QED
  BY <1>7, <1>8

(* The result of Backlog. *)
LEMMA BacklogResultKeeps ==
    ASSUME IndInv, NEW c \in Callers, BacklogResult(c)
    PROVE  IndInv'
<1>1. PICK g \in Rpcs : g = call[c].rpc
  BY BacklogWaits DEF BacklogResult
<1>2. PICK r \in Reporters : r = call[c].from
  BY BacklogWaits DEF BacklogResult
<1>3. /\ Uses(c, r) /\ call[c].vec \in Vectors /\ rpc[g].kind = "backlog"
      /\ call' = [call EXCEPT ![c] = [@ EXCEPT !.at = "free", !.rpc = None]]
      /\ rpc' = [rpc EXCEPT ![g] = NoRpc] /\ holder' = [holder EXCEPT ![r] = None]
      /\ open' = open /\ ctxDone' = ctxDone /\ vec' = vec
  BY <1>1, <1>2, BacklogWaits DEF BacklogResult, Unlocked
<1>4. TypeOK /\ vec' \in [Vectors -> {"free", "result", "held", "lost"}]
      /\ ctxDone' \in SUBSET Callers /\ None \notin Vectors
  BY <1>3, Types DEF IndInv, TypeOK
<1>5. RpcIs(g, "none", "vector", None, None, TRUE) /\ rpc'[g] = NoRpc
  BY <1>3, <1>4, OverEffect
<1>6. CallIs(c, "free", call[c].to, call[c].from, None, call[c].vec)
  BY <1>3, <1>4, WaitEffect
<1>7. Owners'
  BY <1>3, <1>5, <1>6, NothingGiven
<1>8. TypeOK' /\ CallsNamed' /\ LocksMatch' /\ WaitersAttend' /\ CallsAttended' /\ ResultsKept'
  BY <1>1, <1>3, <1>4, <1>5, <1>6, WaitEnds
<1>9. QED
  BY <1>7, <1>8 DEF IndInv

(* A caller leaves its call g behind, or its result. *)
LEMMA AbandonEnds ==
    ASSUME IndInv, NEW c \in Callers, NEW g \in Rpcs, g = call[c].rpc,
           NEW r \in Reporters, Uses(c, r), holder' = [holder EXCEPT ![r] = None],
           NEW at \in {"idle", "free"}, NEW to, NEW from, NEW v \in Vectors \cup {None},
           v = call[c].vec, CallIs(c, at, to, from, None, v), at = "free" <=> v # None,
           rpc[g].kind = "vector" => v = None,
           \/ rpc[g].at \in {"ok", "failed"} /\ Unreported(g)
           \/ /\ rpc[g].at \notin {"ok", "failed"}
              /\ rpc' = [rpc EXCEPT ![g].attended = FALSE] /\ vec' = vec,
           ctxDone' \in SUBSET Callers, open' = open
    PROVE  IndInv'
<1>1. TypeOK /\ vec \in [Vectors -> {"free", "result", "held", "lost"}] /\ None \notin Vectors
  BY Types DEF IndInv, TypeOK
<1>2. call[c].rpc = g /\ at \in {"idle", "backlog", "free"} /\ at # "backlog"
      /\ (at \in {"backlog", "free"} <=> v # None)
  OBVIOUS
<1>3. rpc[g].at = "ok" /\ rpc[g].kind = "vector" => rpc[g].vec \in Vectors
  BY <1>1 DEF IndInv, ResultsKept, TypeOK
<1>4. rpc[g].kind = "vector" /\ rpc[g].at # "ok" => rpc[g].vec = None
  BY DEF IndInv, ResultsKept
<1>5. CASE rpc[g].at \in {"ok", "failed"} /\ Unreported(g)
  <2>1. RpcIs(g, "none", "vector", None, None, TRUE) /\ rpc'[g] = NoRpc
    BY <1>1, <1>5, OverEffect DEF Unreported
  <2>2. CASE rpc[g].kind = "vector" /\ rpc[g].at = "ok"
    <3>1. vec' = [vec EXCEPT ![rpc[g].vec] = "lost"]
      BY <1>5, <2>2 DEF Unreported
    <3>2. vec' \in [Vectors -> {"free", "result", "held", "lost"}]
      BY <1>1, <3>1
    <3>3. Owners'
      BY <1>3, <2>1, <2>2, <3>1, VectorGiven
    <3>4. TypeOK' /\ CallsNamed' /\ LocksMatch' /\ WaitersAttend' /\ CallsAttended' /\ ResultsKept'
      BY <1>2, <2>1, <3>2, WaitEnds
    <3>5. QED
      BY <3>3, <3>4 DEF IndInv
  <2>3. CASE ~(rpc[g].kind = "vector" /\ rpc[g].at = "ok")
    <3>1. vec' = vec
      BY <1>5, <2>3 DEF Unreported
    <3>2. vec' \in [Vectors -> {"free", "result", "held", "lost"}]
      BY <1>1, <3>1
    <3>3. Owners'
      BY <1>4, <2>1, <2>3, <3>1, NothingGiven
    <3>4. TypeOK' /\ CallsNamed' /\ LocksMatch' /\ WaitersAttend' /\ CallsAttended' /\ ResultsKept'
      BY <1>2, <2>1, <3>2, WaitEnds
    <3>5. QED
      BY <3>3, <3>4 DEF IndInv
  <2>4. QED
    BY <2>2, <2>3
<1>6. CASE /\ rpc[g].at \notin {"ok", "failed"}
           /\ rpc' = [rpc EXCEPT ![g].attended = FALSE] /\ vec' = vec
  <2> DEFINE no == FALSE
  <2>1. no \in BOOLEAN /\ no = FALSE /\ rpc' = [rpc EXCEPT ![g].attended = no]
    BY <1>6
  <2> HIDE DEF no
  <2>2. RpcIs(g, rpc[g].at, rpc[g].kind, rpc[g].r, rpc[g].vec, no)
    BY <1>1, <2>1, LeftEffect
  <2>3. vec' \in [Vectors -> {"free", "result", "held", "lost"}]
    BY <1>1, <1>6
  <2>4. Owners'
    BY <1>4, <1>6, <2>2, NothingGiven
  <2>5. TypeOK' /\ CallsNamed' /\ LocksMatch' /\ WaitersAttend' /\ CallsAttended' /\ ResultsKept'
    <3>1. /\ no = FALSE
          /\ rpc[g].at \notin {"ok", "failed"}
          /\ RpcIs(g, rpc[g].at, rpc[g].kind, rpc[g].r, rpc[g].vec, no)
      BY <1>6, <2>1, <2>2
    <3>2. QED
      BY <1>2, <2>3, <3>1, WaitEnds
  <2>6. QED
    BY <2>4, <2>5 DEF IndInv
<1>7. QED
  BY <1>5, <1>6

(* The same, from where it waits. *)
LEMMA AbandonKeeps ==
    ASSUME IndInv, NEW c \in Callers, Abandon(c)
    PROVE  IndInv'
<1>1. TypeOK /\ ctxDone \in SUBSET Callers /\ None \notin Vectors
  BY Types DEF IndInv, TypeOK
<1>2. PICK g \in Rpcs : g = call[c].rpc
  BY VectorWaits, BacklogWaits DEF Abandon
<1>3. /\ \/ rpc[g].at \in {"ok", "failed"} /\ Unreported(g)
         \/ /\ rpc[g].at \notin {"ok", "failed"}
            /\ rpc' = [rpc EXCEPT ![g].attended = FALSE] /\ vec' = vec
      /\ open' = open
  BY <1>2 DEF Abandon
<1>4. CASE call[c].at = "vectorWait"
  <2>1. /\ Uses(c, call[c].to) /\ call[c].vec = None /\ call[c].to \in Reporters
    BY <1>4, VectorWaits
  <2>2. /\ call' = [call EXCEPT ![c] = Idle] /\ ctxDone' \in SUBSET Callers
        /\ holder' = [holder EXCEPT ![call[c].to] = None]
    BY <1>1, <1>4 DEF Abandon, Return, Unlocked
  <2>3. CallIs(c, "idle", None, None, None, None)
    BY <1>1, <2>2, ReturnEffect
  <2>4. QED
    BY <1>2, <1>3, <2>1, <2>2, <2>3, AbandonEnds
<1>5. CASE call[c].at = "backlogWait"
  <2>1. /\ Uses(c, call[c].from) /\ call[c].vec \in Vectors /\ call[c].vec # None
        /\ call[c].from \in Reporters /\ rpc[g].kind = "backlog"
    BY <1>1, <1>2, <1>5, BacklogWaits
  <2>2. /\ call' = [call EXCEPT ![c] = [@ EXCEPT !.at = "free", !.rpc = None]]
        /\ ctxDone' \in SUBSET Callers
        /\ holder' = [holder EXCEPT ![call[c].from] = None]
    BY <1>1, <1>5 DEF Abandon, Unlocked
  <2>3. CallIs(c, "free", call[c].to, call[c].from, None, call[c].vec)
    BY <1>1, <2>2, WaitEffect
  <2>4. QED
    BY <1>2, <1>3, <2>1, <2>2, <2>3, AbandonEnds
<1>6. QED
  BY <1>4, <1>5 DEF Abandon

-----------------------------------------------------------------------------
(* The goroutines of the remote calls. *)

(* A call that is attended to, or has no result, goes on. *)
LEMMA RpcGoesOn ==
    ASSUME IndInv, NEW g \in Rpcs, NEW at, NEW v,
           RpcIs(g, at, rpc[g].kind, rpc[g].r, v, rpc[g].attended),
           rpc[g].at # "none", at # "none",
           at \in {"ok", "failed"} => rpc[g].attended,
           rpc[g].kind = "vector" => (at = "ok" <=> v # None),
           rpc[g].kind = "backlog" => v = rpc[g].vec,
           vec' \in [Vectors -> {"free", "result", "held", "lost"}],
           UNCHANGED <<holder, open, call, ctxDone>>
    PROVE  TypeOK' /\ CallsNamed' /\ LocksMatch' /\ WaitersAttend' /\ CallsAttended'
           /\ ResultsKept'
<1>1. TypeOK'
  BY DEF IndInv, TypeOK, RpcIs, RpcType
<1>2. CallsNamed' /\ LocksMatch'
  BY DEF IndInv, CallsNamed, LocksMatch, Uses
<1>3. WaitersAttend'
  <2>1. SUFFICES ASSUME NEW c \in Callers, NEW h \in Rpcs, call[c].rpc = h
                 PROVE  Attends(c, h)'
    BY DEF WaitersAttend
  <2>2. Attends(c, h)
    BY <2>1 DEF IndInv, WaitersAttend
  <2>3. CASE h = g
    BY <2>2, <2>3 DEF Attends, Uses, RpcIs
  <2>4. CASE h # g
    BY <2>2, <2>4, AttendsStill DEF RpcIs
  <2>5. QED
    BY <2>3, <2>4
<1>4. CallsAttended'
  BY DEF IndInv, CallsAttended, RpcIs
<1>5. ResultsKept'
  BY DEF IndInv, ResultsKept, RpcIs
<1>6. QED
  BY <1>1, <1>2, <1>3, <1>4, <1>5

(* A call that nobody attends to is over. *)
LEMMA LeftRpcEnds ==
    ASSUME IndInv, NEW g \in Rpcs, ~rpc[g].attended, rpc' = [rpc EXCEPT ![g] = NoRpc],
           vec' \in [Vectors -> {"free", "result", "held", "lost"}],
           UNCHANGED <<holder, open, call, ctxDone>>
    PROVE  /\ TypeOK' /\ CallsNamed' /\ LocksMatch' /\ WaitersAttend' /\ CallsAttended'
           /\ ResultsKept'
           /\ \A h \in Rpcs, v \in Vectors : Gives(h, v)' <=> Gives(h, v)
<1>1. TypeOK /\ None \notin Vectors
  BY Types DEF IndInv
<1>2. RpcIs(g, "none", "vector", None, None, TRUE) /\ rpc'[g] = NoRpc
  BY <1>1, OverEffect
<1>3. TypeOK'
  BY <1>1, <1>2 DEF TypeOK, RpcIs, RpcType
<1>4. CallsNamed' /\ LocksMatch'
  BY DEF IndInv, CallsNamed, LocksMatch, Uses
<1>5. WaitersAttend'
  <2>1. SUFFICES ASSUME NEW c \in Callers, NEW h \in Rpcs, call[c].rpc = h
                 PROVE  Attends(c, h)'
    BY DEF WaitersAttend
  <2>2. Attends(c, h)
    BY <2>1 DEF IndInv, WaitersAttend
  <2>3. h # g
    BY <2>2 DEF Attends
  <2>4. QED
    BY <1>2, <2>2, <2>3, AttendsStill DEF RpcIs
<1>6. CallsAttended'
  BY <1>2 DEF IndInv, CallsAttended, RpcIs
<1>7. ResultsKept'
  <2>1. /\ \A h \in Rpcs \ {g} : rpc'[h] = rpc[h]
        /\ rpc'[g] = NoRpc /\ NoRpc.at = "none" /\ NoRpc.vec = None
    BY <1>2 DEF RpcIs, NoRpc
  <2>2. SUFFICES ASSUME NEW h \in Rpcs
                 PROVE  /\ rpc'[h].at = "none" => rpc'[h] = NoRpc
                        /\ rpc'[h].at \in {"ok", "failed"} => rpc'[h].attended
                        /\ rpc'[h].kind = "vector" => (rpc'[h].at = "ok" <=> rpc'[h].vec # None)
    BY DEF ResultsKept, NoRpc
  <2>3. CASE h = g
    BY <2>1, <2>3
  <2>4. CASE h # g
    BY <2>1, <2>4 DEF IndInv, ResultsKept
  <2>5. QED
    BY <2>3, <2>4
<1>8. ASSUME NEW h \in Rpcs, NEW v \in Vectors
      PROVE  Gives(h, v)' <=> Gives(h, v)
  <2>1. rpc[g].kind = "vector" => rpc[g].vec = None
    BY DEF IndInv, ResultsKept, TypeOK
  <2>2. QED
    BY <1>1, <1>2, <2>1 DEF Gives, RpcIs
<1>9. QED
  BY <1>3, <1>4, <1>5, <1>6, <1>7, <1>8

(* A call begins. *)
LEMMA RpcBeginsKeeps ==
    ASSUME IndInv, NEW g \in Rpcs, RpcBegins(g)
    PROVE  IndInv'
<1>1. TypeOK /\ vec \in [Vectors -> {"free", "result", "held", "lost"}]
  BY Types DEF IndInv
<1>2. /\ rpc[g].at = "spawned" /\ rpc' = [rpc EXCEPT ![g].at = "running"]
      /\ UNCHANGED <<holder, open, call, ctxDone>> /\ vec' = vec
  BY DEF RpcBegins
<1>3. RpcIs(g, "running", rpc[g].kind, rpc[g].r, rpc[g].vec, rpc[g].attended)
  BY <1>1, <1>2, BeginsEffect
<1>4. rpc[g].kind = "vector" => rpc[g].vec = None
  BY <1>2 DEF IndInv, ResultsKept
<1>5. TypeOK' /\ CallsNamed' /\ LocksMatch' /\ WaitersAttend' /\ CallsAttended' /\ ResultsKept'
  BY <1>1, <1>2, <1>3, <1>4, RpcGoesOn, SMTT(30)
<1>6. \A h \in Rpcs, v \in Vectors : Gives(h, v)' <=> Gives(h, v)
  BY <1>3 DEF Gives, RpcIs
<1>7. QED
  BY <1>2, <1>5, <1>6, OwnersStill DEF IndInv

(* A call returns. *)
LEMMA RpcReturnsKeeps ==
    ASSUME IndInv, NEW g \in Rpcs, RpcReturns(g)
    PROVE  IndInv'
<1>1. TypeOK /\ vec \in [Vectors -> {"free", "result", "held", "lost"}] /\ None \notin Vectors
      /\ rpc[g].vec \in Vectors \cup {None}
  BY Types DEF IndInv, TypeOK
<1>2. rpc[g].at = "running" /\ UNCHANGED <<holder, open, call, ctxDone>>
  BY DEF RpcReturns
<1>3. rpc[g].kind = "vector" => rpc[g].vec = None
  BY <1>2 DEF IndInv, ResultsKept
<1>4. ASSUME NEW at \in {"ok", "failed"}, Finished(g, at, rpc[g].vec), vec' = vec,
             rpc[g].kind = "backlog" \/ at = "failed"
      PROVE  IndInv'
  <2>1. CASE rpc[g].attended
    <3>1. RpcIs(g, at, rpc[g].kind, rpc[g].r, rpc[g].vec, rpc[g].attended)
      BY <1>1, <1>4, <2>1, ResultEffect DEF Finished
    <3>2. TypeOK' /\ CallsNamed' /\ LocksMatch' /\ WaitersAttend' /\ CallsAttended' /\ ResultsKept'
      BY <1>1, <1>2, <1>3, <1>4, <2>1, <3>1, RpcGoesOn
    <3>3. \A h \in Rpcs, v \in Vectors : Gives(h, v)' <=> Gives(h, v)
      BY <3>1 DEF Gives, RpcIs
    <3>4. QED
      BY <1>2, <1>4, <3>2, <3>3, OwnersStill DEF IndInv
  <2>2. CASE ~rpc[g].attended
    <3>1. rpc' = [rpc EXCEPT ![g] = NoRpc]
      BY <1>4, <2>2 DEF Finished
    <3>2. /\ TypeOK' /\ CallsNamed' /\ LocksMatch' /\ WaitersAttend' /\ CallsAttended'
          /\ ResultsKept'
          /\ \A h \in Rpcs, v \in Vectors : Gives(h, v)' <=> Gives(h, v)
      BY <1>1, <1>2, <1>4, <2>2, <3>1, LeftRpcEnds
    <3>3. QED
      BY <1>2, <1>4, <3>2, OwnersStill DEF IndInv
  <2>3. QED
    BY <2>1, <2>2
<1>5. ASSUME NEW v \in FreeVectors, rpc[g].kind = "vector", Finished(g, "ok", v),
             vec' = [vec EXCEPT ![v] = IF rpc[g].attended THEN "result" ELSE "lost"]
      PROVE  IndInv'
  <2>1. v \in Vectors /\ vec[v] = "free"
    BY DEF FreeVectors
  <2>2. vec' \in [Vectors -> {"free", "result", "held", "lost"}]
    BY <1>1, <1>5
  <2>3. /\ \A c \in Callers : call'[c].vec # v
        /\ \A h \in Rpcs : ~Gives(h, v)
    BY <1>2, <2>1 DEF IndInv, Owners, OwnedOnce
  <2>4. CASE rpc[g].attended
    <3>1. RpcIs(g, "ok", rpc[g].kind, rpc[g].r, v, rpc[g].attended)
      BY <1>1, <1>5, <2>1, <2>4, ResultEffect DEF Finished
    <3>2. TypeOK' /\ CallsNamed' /\ LocksMatch' /\ WaitersAttend' /\ CallsAttended' /\ ResultsKept'
      BY <1>1, <1>2, <1>5, <2>1, <2>2, <2>4, <3>1, RpcGoesOn, ZenonT(30)
    <3>3. \A h \in Rpcs, u \in Vectors : Gives(h, u)' <=> Gives(h, u) \/ (h = g /\ u = v)
      BY <1>1, <1>3, <1>5, <3>1 DEF Gives, RpcIs
    <3>4. OwnedOnce(v)'
      <4>1. vec'[v] = "result"
        BY <1>1, <1>5, <2>1, <2>4
      <4>2. QED
        BY <2>1, <2>3, <3>3, <4>1 DEF OwnedOnce
    <3>5. ASSUME NEW u \in Vectors \ {v}
          PROVE  OwnedOnce(u)'
      <4>1. vec'[u] = vec[u]
        BY <1>1, <1>5, <2>1
      <4>2. QED
        BY <1>2, <3>3, <4>1, OwnedStill
    <3>6. Owners'
      BY <3>4, <3>5 DEF Owners
    <3>7. QED
      BY <3>2, <3>6 DEF IndInv
  <2>5. CASE ~rpc[g].attended
    <3>1. rpc' = [rpc EXCEPT ![g] = NoRpc]
      BY <1>5, <2>5 DEF Finished
    <3>2. /\ TypeOK' /\ CallsNamed' /\ LocksMatch' /\ WaitersAttend' /\ CallsAttended'
          /\ ResultsKept'
          /\ \A h \in Rpcs, u \in Vectors : Gives(h, u)' <=> Gives(h, u)
      BY <1>2, <2>2, <2>5, <3>1, LeftRpcEnds
    <3>3. OwnedOnce(v)'
      <4>1. vec'[v] = "lost"
        BY <1>1, <1>5, <2>1, <2>5
      <4>2. QED
        BY <2>1, <2>3, <3>2, <4>1 DEF OwnedOnce
    <3>4. ASSUME NEW u \in Vectors \ {v}
          PROVE  OwnedOnce(u)'
      <4>1. vec'[u] = vec[u]
        BY <1>1, <1>5, <2>1
      <4>2. QED
        BY <1>2, <3>2, <4>1, OwnedStill
    <3>5. Owners'
      BY <3>3, <3>4 DEF Owners
    <3>6. QED
      BY <3>2, <3>5 DEF IndInv
  <2>6. QED
    BY <2>4, <2>5
<1>6. QED
  <2>1. CASE rpc[g].kind = "vector" /\ FreeVectors # {} /\ ~Finished(g, "failed", rpc[g].vec)
    <3>1. PICK v : v = CHOOSE w \in FreeVectors : TRUE
      OBVIOUS
    <3>2. v \in FreeVectors
      BY <2>1, <3>1
    <3>3. /\ vec' = [vec EXCEPT ![v] = IF rpc[g].attended THEN "result" ELSE "lost"]
          /\ Finished(g, "ok", v)
      BY <2>1, <3>1 DEF RpcReturns
    <3>4. QED
      BY <1>5, <2>1, <3>2, <3>3
  <2>2. QED
    BY <1>4, <1>5, <2>1 DEF RpcReturns

-----------------------------------------------------------------------------
(* The steps of a caller. *)

(* A caller begins, or gets a worker. *)
LEMMA BeginKeeps ==
    ASSUME IndInv, NEW c \in Callers, BeginBacklog(c) \/ BeginReport(c) \/ TakeWorker(c)
    PROVE  IndInv'
<1>1. TypeOK /\ ctxDone \in SUBSET Callers
  BY DEF IndInv, TypeOK
<1>2. call[c].at \in {"idle", "pool"} /\ UNCHANGED <<holder, open, ctxDone, rpc, vec>>
  BY DEF BeginBacklog, BeginReport, TakeWorker
<1>3. call[c].rpc = None /\ call[c].vec = None
  BY <1>1, <1>2 DEF IndInv, TypeOK, CallsNamed
<1>4. CASE BeginBacklog(c)
  <2>1. PICK link \in Links :
           call' = [call EXCEPT ![c] = [Idle EXCEPT !.at = "pool", !.from = link[1],
                                                    !.to = link[2]]]
    BY <1>4 DEF BeginBacklog
  <2>2. link[1] \in Reporters /\ link[2] \in Reporters
    BY ReporterAssumption
  <2>3. CallIs(c, "pool", link[2], link[1], None, None)
    BY <1>1, <2>1, <2>2, BeginEffect
  <2>4. QED
    BY <1>1, <1>2, <1>3, <2>2, <2>3, MoveKeeps DEF Quiet
<1>5. CASE BeginReport(c)
  <2>1. PICK to \in Reporters :
           call' = [call EXCEPT ![c] = [Idle EXCEPT !.at = "report", !.to = to]]
    BY <1>5 DEF BeginReport
  <2>2. CallIs(c, "report", to, None, None, None)
    BY <1>1, <2>1, BeginReportEffect
  <2>3. QED
    BY <1>1, <1>2, <1>3, <2>2, MoveKeeps DEF Quiet
<1>6. CASE TakeWorker(c)
  <2>1. call[c].at = "pool" /\ call' = [call EXCEPT ![c].at = "vector"]
    BY <1>6 DEF TakeWorker
  <2>2. call[c].to \in Reporters /\ call[c].from \in Reporters
    BY <2>1 DEF IndInv, CallsNamed, ForBacklog
  <2>3. CallIs(c, "vector", call[c].to, call[c].from, call[c].rpc, call[c].vec)
    BY <1>1, <2>1, PlaceEffect
  <2>4. QED
    BY <1>1, <1>2, <1>3, <2>2, <2>3, MoveKeeps DEF Quiet
<1>7. QED
  BY <1>4, <1>5, <1>6

(* A caller that needs no connection any more returns. *)
LEMMA ReturnKeeps ==
    ASSUME IndInv, NEW c \in Callers, call[c].at \in {"vector", "report"}, Return(c),
           UNCHANGED <<holder, open, rpc, vec>>
    PROVE  IndInv'
<1>1. TypeOK /\ ctxDone' \in SUBSET Callers /\ call[c].vec = None
  BY DEF IndInv, TypeOK, Return
<1>2. CallIs(c, "idle", None, None, None, None)
  BY <1>1, ReturnEffect DEF Return
<1>3. QED
  BY <1>1, <1>2, MoveKeeps DEF Quiet

(* With the lock of r free, Vector makes its call; so does Backlog. *)
LEMMA CallMade ==
    ASSUME IndInv, NEW c \in Callers, NEW r \in Reporters, NEW at, NEW kind, NEW v,
           \/ /\ call[c].at = "vector" /\ at = "vectorWait" /\ kind = "vector"
              /\ call[c].to = r /\ v = None
           \/ /\ call[c].at = "backlog" /\ at = "backlogWait" /\ kind = "backlog"
              /\ call[c].from = r /\ v = call[c].vec,
           Lockable(r), ~EarlyOut(c, r), Spawn(c, r, kind, v, at),
           UNCHANGED <<open, ctxDone, vec>>
    PROVE  IndInv'
<1>1. TypeOK /\ call[c].vec \in Vectors \cup {None}
  BY DEF IndInv, TypeOK
<1>2. holder[r] = None /\ r \in open
  BY DEF Lockable, EarlyOut
<1>3. PICK g : g = CHOOSE h \in FreeRpcs : TRUE
  OBVIOUS
<1>4. g \in Rpcs /\ rpc[g].at = "none"
  BY <1>3 DEF Spawn, FreeRpcs
<1> DEFINE yes == TRUE
<1>5. /\ yes = TRUE
      /\ rpc' = [rpc EXCEPT ![g] = [at |-> "spawned", kind |-> kind, r |-> r,
                                    vec |-> v, attended |-> yes]]
      /\ holder' = [holder EXCEPT ![r] = c]
      /\ call' = [call EXCEPT ![c] = [@ EXCEPT !.at = at, !.rpc = g]]
  BY <1>3 DEF Spawn
<1> HIDE DEF yes
<1>6. kind \in Kinds /\ v \in Vectors \cup {None}
  BY <1>1 DEF Kinds
<1>7. RpcIs(g, "spawned", kind, r, v, yes)
  BY <1>1, <1>4, <1>5, <1>6, MadeEffect
<1>8. CallIs(c, at, call[c].to, call[c].from, g, call[c].vec)
  BY <1>1, <1>4, <1>5, WaitEffect
<1>9. QED
  BY <1>2, <1>4, <1>5, <1>7, <1>8, SpawnKeeps

(* The calls that take a lock. *)
LEMMA LockingKeeps ==
    ASSUME IndInv, NEW c \in Callers, Vector(c) \/ Backlog(c) \/ Report(c)
    PROVE  IndInv'
<1>1. TypeOK /\ ctxDone \in SUBSET Callers
  BY DEF IndInv, TypeOK
<1>2. CASE Vector(c)
  <2>1. call[c].at = "vector" /\ Lockable(call[c].to) /\ UNCHANGED <<open, vec>>
    BY <1>2 DEF Vector
  <2>2. call[c].to \in Reporters
    BY <2>1 DEF IndInv, CallsNamed, ForBacklog
  <2>3. CASE Return(c) /\ UNCHANGED <<holder, rpc>>
    BY <2>1, <2>3, ReturnKeeps
  <2>4. CASE /\ ~EarlyOut(c, call[c].to) /\ ctxDone' = ctxDone
             /\ Spawn(c, call[c].to, "vector", None, "vectorWait")
    BY <2>1, <2>2, <2>4, CallMade
  <2>5. QED
    BY <1>2, <2>3, <2>4 DEF Vector
<1>3. CASE Backlog(c)
  <2>1. call[c].at = "backlog" /\ Lockable(call[c].from) /\ UNCHANGED <<open, ctxDone, vec>>
    BY <1>3 DEF Backlog
  <2>2. call[c].from \in Reporters /\ call[c].rpc = None /\ call[c].vec # None
    BY <1>1, <2>1 DEF IndInv, CallsNamed, ForBacklog, TypeOK
  <2>3. CASE call' = [call EXCEPT ![c].at = "free"] /\ UNCHANGED <<holder, rpc>>
    <3>1. CallIs(c, "free", call[c].to, call[c].from, call[c].rpc, call[c].vec)
      BY <1>1, <2>3, PlaceEffect
    <3>2. QED
      BY <1>1, <2>1, <2>2, <2>3, <3>1, MoveKeeps DEF Quiet
  <2>4. CASE /\ ~EarlyOut(c, call[c].from)
             /\ Spawn(c, call[c].from, "backlog", call[c].vec, "backlogWait")
    BY <2>1, <2>2, <2>4, CallMade
  <2>5. QED
    BY <1>3, <2>3, <2>4 DEF Backlog
<1>4. CASE Report(c)
  <2>1. call[c].at = "report" /\ Lockable(call[c].to) /\ UNCHANGED <<open, rpc, vec>>
    BY <1>4 DEF Report
  <2>2. call[c].to \in Reporters
    BY <2>1 DEF IndInv, CallsNamed, Reporting
  <2>3. CASE Return(c) /\ holder' = holder
    BY <2>1, <2>3, ReturnKeeps
  <2>4. CASE /\ ~EarlyOut(c, call[c].to) /\ holder' = [holder EXCEPT ![call[c].to] = c]
             /\ call' = [call EXCEPT ![c].at = "reportWait"] /\ ctxDone' = ctxDone
    <3>1. CallIs(c, "reportWait", call[c].to, call[c].from, call[c].rpc, call[c].vec)
      BY <1>1, <2>4, PlaceEffect
    <3>2. holder[call[c].to] = None /\ call[c].to \in open
      BY <2>1, <2>4 DEF Lockable, EarlyOut
    <3>3. QED
      BY <2>1, <2>2, <2>4, <3>1, <3>2, LockReportKeeps
  <2>5. QED
    BY <1>4, <2>3, <2>4 DEF Report
<1>5. QED
  BY <1>2, <1>3, <1>4

(* A caller ends: Report returns, or the vector is closed. *)
LEMMA EndKeeps ==
    ASSUME IndInv, NEW c \in Callers, ReportReturns(c) \/ CloseVector(c)
    PROVE  IndInv'
<1>1. TypeOK /\ ctxDone' \in SUBSET Callers /\ call' = [call EXCEPT ![c] = Idle]
  BY DEF IndInv, TypeOK, ReportReturns, CloseVector, Return
<1>2. CallIs(c, "idle", None, None, None, None)
  BY <1>1, ReturnEffect
<1>3. CASE ReportReturns(c)
  BY <1>1, <1>2, <1>3, ReportReturnsKeeps DEF ReportReturns, Unlocked
<1>4. CASE CloseVector(c)
  BY <1>1, <1>2, <1>4, CloseVectorKeeps DEF CloseVector, Released
<1>5. QED
  BY <1>3, <1>4

-----------------------------------------------------------------------------
(* The invariant *)

(* Initially there are no calls. *)
LEMMA InitIndInv == Init => IndInv
<1>1. SUFFICES ASSUME Init PROVE IndInv
  OBVIOUS
<1>2. /\ Idle \in CallType /\ Idle.at = "idle" /\ Idle.rpc = None /\ Idle.vec = None
      /\ NoRpc \in RpcType /\ NoRpc.at = "none" /\ NoRpc.vec = None
  BY DEF Idle, NoRpc, CallType, RpcType, Kinds
<1>3. /\ call = [c \in Callers |-> Idle] /\ rpc = [g \in Rpcs |-> NoRpc]
      /\ holder = [r \in Reporters |-> None] /\ open = Reporters /\ ctxDone = {}
      /\ vec = [v \in Vectors |-> "free"]
      /\ None \notin Callers /\ None \notin Vectors
  BY <1>1, ReporterAssumption DEF Init
<1>4. TypeOK
  <2>1. call \in [Callers -> CallType] /\ rpc \in [Rpcs -> RpcType]
    BY <1>2, <1>3
  <2>2. holder \in [Reporters -> Callers \cup {None}]
        /\ vec \in [Vectors -> {"free", "result", "held", "lost"}]
    BY <1>3
  <2>3. \A c \in Callers : call[c].at \in {"backlog", "backlogWait", "free"} <=> call[c].vec # None
    BY <1>2, <1>3
  <2>4. QED
    BY <1>3, <2>1, <2>2, <2>3 DEF TypeOK, CallType, RpcType
<1>5. CallsNamed /\ LocksMatch
  BY <1>2, <1>3 DEF CallsNamed, ForBacklog, Reporting, LocksMatch, Uses
<1>6. WaitersAttend
  <2>1. \A c \in Callers, g \in Rpcs : call[c].rpc # g
    BY <1>2, <1>3, ReporterAssumption
  <2>2. QED
    BY <2>1 DEF WaitersAttend
<1>7. CallsAttended /\ ResultsKept
  BY <1>2, <1>3 DEF CallsAttended, ResultsKept
<1>8. Owners
  BY <1>2, <1>3 DEF Owners, OwnedOnce, Gives
<1>9. QED
  BY <1>4, <1>5, <1>6, <1>7, <1>8 DEF IndInv

(* Every step keeps the invariant, and so does one that changes nothing. *)
LEMMA NextKeeps ==
    ASSUME IndInv, [Next]_vars
    PROVE  IndInv'
<1>1. ASSUME NEW c \in Callers, CallerStep(c)
      PROVE  IndInv'
  <2>1. CASE CancelContext(c)
    <3>1. ctxDone' \in SUBSET Callers /\ UNCHANGED <<holder, open, call, rpc, vec>>
      BY <2>1 DEF CancelContext, IndInv, TypeOK
    <3>2. QED
      BY <3>1, CancelKeeps
  <2>2. QED
    BY <1>1, <2>1, BeginKeeps, LockingKeeps, VectorResultKeeps, BacklogResultKeeps,
       AbandonKeeps, EndKeeps
    DEF CallerStep, Locking, Receive
<1>2. ASSUME NEW r \in Reporters, Close(r)
      PROVE  IndInv'
  BY <1>2, CloseKeeps
<1>3. ASSUME NEW g \in Rpcs, RpcBegins(g) \/ RpcReturns(g)
      PROVE  IndInv'
  BY <1>3, RpcBeginsKeeps, RpcReturnsKeeps
<1>4. ASSUME UNCHANGED vars
      PROVE  IndInv'
  <2>1. ctxDone' \in SUBSET Callers /\ UNCHANGED <<holder, open, call, rpc, vec>>
    BY <1>4 DEF vars, IndInv, TypeOK
  <2>2. QED
    BY <2>1, CancelKeeps
<1>5. QED
  BY <1>1, <1>2, <1>3, <1>4 DEF Next

(* The inductive invariant holds in every state. *)
THEOREM Invariance == Spec => []IndInv
<1>1. IndInv /\ [Next]_vars => IndInv'
  BY NextKeeps
<1>2. QED
  BY InitIndInv, <1>1, PTL DEF Spec

(* The variables of the reporters keep their types. *)
THEOREM ReporterTypes == Spec => []TypeOK
<1>1. IndInv => TypeOK
  BY DEF IndInv
<1>2. QED
  BY <1>1, Invariance, PTL

(* Neither Close nor the release of a vector takes the connection or the vector
   from a remote call that somebody waits for: the caller that waits holds the
   lock of its connection and owns the vector it sends. *)
THEOREM AttendedCallsKeepWhatTheyUse == Spec => []AttendedCallsAreSafe
<1>1. IndInv => AttendedCallsAreSafe
  <2>1. SUFFICES ASSUME IndInv PROVE AttendedCallsAreSafe
    OBVIOUS
  <2>2. None \notin Callers /\ None \notin Vectors
    BY <2>1, Types DEF IndInv
  <2>3. ASSUME NEW g \in Rpcs, rpc[g].at # "none", rpc[g].attended
        PROVE  /\ Active(g) => Safe(g)
               /\ LET c == holder[rpc[g].r] IN c # None /\ call[c].rpc = g
    <3>1. PICK c \in Callers : call[c].rpc = g
      BY <2>1, <2>3 DEF IndInv, CallsAttended
    <3>2. Attends(c, g)
      BY <2>1, <3>1 DEF IndInv, WaitersAttend
    <3>3. holder[rpc[g].r] = c /\ rpc[g].r \in open
      BY <2>1, <2>2, <3>2 DEF IndInv, LocksMatch, Attends
    <3>4. ASSUME rpc[g].kind = "backlog"
          PROVE  vec[rpc[g].vec] = "held"
      <4>1. call[c].at = "backlogWait" /\ rpc[g].vec = call[c].vec
        BY <3>2, <3>4 DEF Attends
      <4>2. call[c].vec \in Vectors
        BY <2>1, <4>1 DEF IndInv, TypeOK
      <4>3. QED
        BY <2>1, <4>1, <4>2 DEF IndInv, Owners, OwnedOnce
    <3>5. QED
      BY <2>2, <3>1, <3>3, <3>4 DEF Safe
  <2>4. ASSUME NEW c \in Callers, call[c].at = "reportWait"
        PROVE  holder[call[c].to] = c
    BY <2>1, <2>4 DEF IndInv, CallsNamed, Reporting, LocksMatch, Uses
  <2>5. QED
    BY <2>3, <2>4 DEF AttendedCallsAreSafe
<1>2. QED
  BY <1>1, Invariance, PTL

(* Every vector in memory is owned once, by the caller that will close it or by
   the result on its way to a caller: it is not closed twice, and it is lost
   only with the result of a call that was left behind. *)
THEOREM VectorsHaveOneOwner == Spec => []VectorsOwnedOnce
<1>1. IndInv => VectorsOwnedOnce
  <2>1. SUFFICES ASSUME IndInv, NEW v \in Vectors
                 PROVE  Cardinality({c \in Callers : call[c].vec = v})
                            + Cardinality({g \in Rpcs : Gives(g, v)})
                        = IF vec[v] \in {"held", "result"} THEN 1 ELSE 0
    BY DEF VectorsOwnedOnce, Gives
  <2> DEFINE holders == {c \in Callers : call[c].vec = v}
             results == {g \in Rpcs : Gives(g, v)}
  <2>2. OwnedOnce(v)
    BY <2>1 DEF IndInv, Owners
  <2>3. vec[v] = "held" => results = {} /\ \E c : holders = {c}
    BY <2>2 DEF OwnedOnce
  <2>4. vec[v] = "result" => holders = {} /\ \E g : results = {g}
    BY <2>2 DEF OwnedOnce
  <2>5. vec[v] \notin {"held", "result"} => holders = {} /\ results = {}
    BY <2>2 DEF OwnedOnce
  <2>6. Cardinality({}) = 0 /\ \A x : Cardinality({x}) = 1
    BY FS_EmptySet, FS_Singleton
  <2> HIDE DEF holders, results
  <2>7. Cardinality(holders) + Cardinality(results)
            = IF vec[v] \in {"held", "result"} THEN 1 ELSE 0
    <3>1. CASE vec[v] = "held"
      <4>1. Cardinality(holders) = 1 /\ Cardinality(results) = 0
        BY <2>3, <2>6, <3>1
      <4>2. QED
        BY <3>1, <4>1
    <3>2. CASE vec[v] = "result"
      <4>1. Cardinality(holders) = 0 /\ Cardinality(results) = 1
        BY <2>4, <2>6, <3>2
      <4>2. QED
        BY <3>2, <4>1
    <3>3. CASE vec[v] \notin {"held", "result"}
      <4>1. Cardinality(holders) = 0 /\ Cardinality(results) = 0
        BY <2>5, <2>6, <3>3
      <4>2. QED
        BY <3>3, <4>1
    <3>4. QED
      BY <3>1, <3>2, <3>3
  <2>8. QED
    BY <2>7 DEF holders, results
<1>2. QED
  BY <1>1, Invariance, PTL
==============================================================================
