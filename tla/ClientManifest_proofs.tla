------------------------ MODULE ClientManifest_proofs -----------------------
(***************************************************************************)
(* Proofs about Client, for any members and any number of callers, and     *)
(* about Manifest, for any paths, options and manifests.                   *)
(*                                                                         *)
(* That Close leaves no endpoint running needs to know what the loop of    *)
(* Close has done so far, and that nobody else has a hand in it: c.mutex   *)
(* keeps other callers from creating and closing endpoints meanwhile.      *)
(*                                                                         *)
(* That the manifests are printed in order needs to know, for each run(),  *)
(* which lines it has generated so far, that its statistics are those of   *)
(* the elements it has read, and that no line is lost or overtaken on its  *)
(* way through the channel.                                                *)
(***************************************************************************)
EXTENDS Client, Manifest, SequenceTheorems, WellFoundedInduction, TLAPS

Looping == {"closing", "configuring"}

(* endpoint() is still to be asked for something, and something is left to be
   queried, wherever the code goes on to do so. *)
WorkLeft ==
    \A c \in Callers :
        /\ call[c].at \in {"lookup", "create"} => call[c].find # <<>>
        /\ call[c].at \in {"lookup", "create", "query", "wait"} => call[c].use # <<>>

(* c.mutex is held over the calls of endpoints by the caller in the loop, and
   only of an open client. *)
MutexHolder ==
    /\ \A c \in Callers : call[c].at \in Looping <=> owner = c
    /\ owner # None => ~closed

(* A caller is in a method of an endpoint only where the client calls it, and
   only such an endpoint exists. *)
CallsMatch ==
    \A s \in Servers, c \in Callers :
        /\ ep[s].at[c] = "close" => call[c].at = "closing"
        /\ ep[s].at[c] = "config" => call[c].at = "configuring"
        /\ ep[s].at[c] # "idle" => ep[s].phase # "none"

(* An endpoint that is being closed has a closer, which is in its Close. *)
CloserWaits ==
    \A s \in Servers :
        /\ ep[s].phase = "closing" => ep[s].closer # None
        /\ ep[s].closer # None => ep[s].at[ep[s].closer] = "close"

(* The loop of Close has closed every endpoint, except the one it is at and
   those still to come. *)
LoopProgress ==
    \A c \in Callers :
        call[c].at = "closing" =>
            \A s \in Servers :
                \/ ep[s].phase \in {"none", "closed"}
                \/ s \in call[c].left
                \/ ep[s].at[c] = "close"

IndInv ==
    /\ TypeOK
    /\ WorkLeft
    /\ MutexHolder
    /\ CallsMatch
    /\ CloserWaits
    /\ LoopProgress
    /\ ClosedHoldsNothing

-----------------------------------------------------------------------------
(* NewClientWithConfig makes a client without endpoints. *)
LEMMA InitIndInv == Init => IndInv
  <1> SUFFICES ASSUME Init PROVE IndInv
    OBVIOUS
  <1> USE ClientAssumption DEF Init, Idle, E!New
  <1>1. TypeOK
    <2>1. <<>> \in Seq(Servers)
      OBVIOUS
    <2> QED
      BY <2>1 DEF TypeOK, Places, E!TypeOK, E!Phases, E!Calls
  <1>2. WorkLeft /\ MutexHolder /\ CallsMatch
    BY DEF WorkLeft, MutexHolder, CallsMatch, Looping
  <1>3. CloserWaits /\ LoopProgress /\ ClosedHoldsNothing
    BY DEF CloserWaits, LoopProgress, ClosedHoldsNothing
  <1> QED
    BY <1>1, <1>2, <1>3 DEF IndInv

-----------------------------------------------------------------------------
(* The state of an endpoint. *)
States == [phase : E!Phases, attempted : BOOLEAN, ready : BOOLEAN,
           closer : Callers \cup {None}, at : [Callers -> E!Calls]]

(* An update of one endpoint's state keeps `ep' in its type. *)
LEMMA UpdateState ==
    ASSUME E!TypeOK, NEW s \in Servers, NEW new \in States, ep' = [ep EXCEPT ![s] = new]
    PROVE  E!TypeOK'
  BY DEF E!TypeOK, States

(* A caller that enters or leaves a method keeps the state in its type. *)
LEMMA UpdateAt ==
    ASSUME NEW e \in States, NEW c \in Callers, NEW m \in E!Calls
    PROVE  [e EXCEPT !.at = [e.at EXCEPT ![c] = m]] \in States
  <1>1. [e.at EXCEPT ![c] = m] \in [Callers -> E!Calls]
    BY DEF States
  <1> QED
    BY <1>1 DEF States

(* What a step of an endpoint's contract leaves of the types of `ep'. *)
LEMMA ContractTypes ==
    ASSUME E!TypeOK,
           NEW s \in Servers,
           \/ E!Create(s) \/ E!Attempt(s) \/ E!BecomeReady(s) \/ E!RunEnds(s)
           \/ \E c \in Callers, m \in E!Calls : E!Enter(s, c, m)
           \/ \E c \in Callers : E!Proceed(s, c) \/ E!NeverReturns(s, c)
    PROVE  E!TypeOK'
  <1>1. ep[s] \in States
    BY DEF E!TypeOK, States
  <1>2. CASE E!Create(s) \/ E!Attempt(s) \/ E!BecomeReady(s) \/ E!RunEnds(s)
    <2>1. /\ \A p \in E!Phases : [ep[s] EXCEPT !.phase = p] \in States
          /\ [ep[s] EXCEPT !.attempted = TRUE] \in States
          /\ [ep[s] EXCEPT !.ready = TRUE] \in States
      BY <1>1 DEF States
    <2>2. {"open", "closed"} \subseteq E!Phases
      BY DEF E!Phases
    <2>3. CASE E!Create(s)
      BY <2>1, <2>2, <2>3, UpdateState DEF E!Create
    <2>4. CASE E!Attempt(s)
      BY <2>1, <2>4, UpdateState DEF E!Attempt
    <2>5. CASE E!BecomeReady(s)
      BY <2>1, <2>5, UpdateState DEF E!BecomeReady
    <2>6. CASE E!RunEnds(s)
      BY <2>1, <2>2, <2>6, UpdateState DEF E!RunEnds
    <2> QED
      BY <1>2, <2>3, <2>4, <2>5, <2>6
  <1>3. ASSUME NEW c \in Callers, NEW m \in E!Calls, E!Enter(s, c, m)
        PROVE  E!TypeOK'
    BY <1>1, <1>3, UpdateAt, UpdateState DEF E!Enter
  <1>4. ASSUME NEW c \in Callers, E!Proceed(s, c)
        PROVE  E!TypeOK'
    <2> "idle" \in E!Calls
      BY DEF E!Calls, E!Methods
    <2>1. [ep[s] EXCEPT !.at = [ep[s].at EXCEPT ![c] = "idle"]] \in States
      BY <1>1, UpdateAt
    <2>2. CASE E!QueryReturns(s, c) \/ E!UpdateConfigReturns(s, c)
      BY <2>1, <2>2, UpdateState DEF E!QueryReturns, E!UpdateConfigReturns
    <2>3. CASE E!CloseBegins(s, c)
      <3>1. [ep[s] EXCEPT !.phase = "closing", !.closer = c] \in States
        BY <1>1 DEF States, E!Phases
      <3>2. ep' = [ep EXCEPT ![s] = [ep[s] EXCEPT !.phase = "closing", !.closer = c]]
        BY <2>3 DEF E!CloseBegins
      <3> QED
        BY <3>1, <3>2, UpdateState
    <2>4. CASE E!CloseReturns(s, c)
      <3> DEFINE left == [ep[s] EXCEPT !.at = [ep[s].at EXCEPT ![c] = "idle"]]
                 closer == IF ep[s].closer = c THEN None ELSE ep[s].closer
      <3>1. closer \in Callers \cup {None}
        BY <1>1 DEF States
      <3>2. ep' = [ep EXCEPT ![s] = [left EXCEPT !.closer = closer]]
        BY <2>4, <1>1 DEF E!CloseReturns, States, E!TypeOK
      <3>3. left \in States
        BY <2>1
      <3> HIDE DEF closer, left
      <3>4. [left EXCEPT !.closer = closer] \in States
        BY <3>1, <3>3 DEF States
      <3> QED
        BY <3>2, <3>4, UpdateState
    <2> QED
      BY <1>4, <2>2, <2>3, <2>4 DEF E!Proceed
  <1>5. ASSUME NEW c \in Callers, E!NeverReturns(s, c)
        PROVE  E!TypeOK'
    <2>1. PICK fate \in {"lost", "hung"} : ep' = [ep EXCEPT ![s].at[c] = fate]
      BY <1>5 DEF E!NeverReturns
    <2>2. fate \in E!Calls
      BY DEF E!Calls, E!Methods
    <2>3. [ep[s] EXCEPT !.at = [ep[s].at EXCEPT ![c] = fate]] \in States
      BY <1>1, <2>2, UpdateAt
    <2> QED
      BY <2>1, <2>3, UpdateState
  <1> QED
    BY <1>2, <1>3, <1>4, <1>5

(* What a step does to the endpoint it is a step of, and that it leaves the
   others alone. *)
Elsewhere(s) == \A t \in Servers : t # s => ep'[t] = ep[t]
SamePlace(s, c) == \A d \in Callers : d # c => ep'[s].at[d] = ep[s].at[d]

(* NewEndpoint, and what run() does on its own. *)
LEMMA OwnEffect ==
    ASSUME E!TypeOK, NEW s \in Servers
    PROVE  /\ E!Create(s) => /\ Elsewhere(s)
                             /\ ep'[s].phase = "open"
                             /\ ep'[s].closer = ep[s].closer /\ ep'[s].at = ep[s].at
           /\ E!Attempt(s) \/ E!BecomeReady(s) =>
                             /\ Elsewhere(s)
                             /\ ep'[s].phase = ep[s].phase
                             /\ ep'[s].closer = ep[s].closer /\ ep'[s].at = ep[s].at
           /\ E!RunEnds(s) => /\ Elsewhere(s)
                              /\ ep'[s].phase = "closed"
                              /\ ep'[s].closer = ep[s].closer /\ ep'[s].at = ep[s].at
  <1>1. ep[s] \in States /\ s \in DOMAIN ep /\ DOMAIN ep = Servers
    BY DEF E!TypeOK, States
  <1>2. ASSUME E!Create(s) PROVE ep' = [ep EXCEPT ![s] = [ep[s] EXCEPT !.phase = "open"]]
    BY <1>2 DEF E!Create
  <1>3. ASSUME E!RunEnds(s) PROVE ep' = [ep EXCEPT ![s] = [ep[s] EXCEPT !.phase = "closed"]]
    BY <1>3 DEF E!RunEnds
  <1> QED
    BY <1>1, <1>2, <1>3 DEF Elsewhere, E!Attempt, E!BecomeReady, States

(* An update of one caller's place in an endpoint changes nothing else. *)
LEMMA PlaceEffect ==
    ASSUME E!TypeOK, NEW s \in Servers, NEW c \in Callers, NEW m,
           ep' = [ep EXCEPT ![s].at[c] = m]
    PROVE  /\ Elsewhere(s) /\ SamePlace(s, c)
           /\ ep'[s].phase = ep[s].phase /\ ep'[s].closer = ep[s].closer
           /\ ep'[s].at[c] = m
  <1>1. ep[s] \in States /\ s \in DOMAIN ep /\ DOMAIN ep = Servers
    BY DEF E!TypeOK, States
  <1>2. ep' = [ep EXCEPT ![s] = [ep[s] EXCEPT !.at = [ep[s].at EXCEPT ![c] = m]]]
    OBVIOUS
  <1> QED
    BY <1>1, <1>2 DEF Elsewhere, SamePlace, States

(* A caller enters a method of an endpoint. *)
LEMMA EnterEffect ==
    ASSUME E!TypeOK, NEW s \in Servers, NEW c \in Callers, NEW m, E!Enter(s, c, m)
    PROVE  /\ Elsewhere(s) /\ SamePlace(s, c)
           /\ ep'[s].phase = ep[s].phase /\ ep'[s].closer = ep[s].closer
           /\ ep[s].at[c] = "idle" /\ ep[s].phase # "none" /\ ep'[s].at[c] = m
  BY PlaceEffect DEF E!Enter

(* A caller returns from a query or from UpdateConfig. *)
LEMMA LeaveEffect ==
    ASSUME E!TypeOK, NEW s \in Servers, NEW c \in Callers,
           E!QueryReturns(s, c) \/ E!UpdateConfigReturns(s, c)
    PROVE  /\ Elsewhere(s) /\ SamePlace(s, c)
           /\ ep'[s].phase = ep[s].phase /\ ep'[s].closer = ep[s].closer
           /\ ep[s].at[c] \in {"query", "config"} /\ ep'[s].at[c] = "idle"
           /\ E!QueryReturns(s, c) => ep[s].at[c] = "query"
           /\ E!UpdateConfigReturns(s, c) => ep[s].at[c] = "config"
  <1>1. ep' = [ep EXCEPT ![s].at[c] = "idle"]
    BY DEF E!QueryReturns, E!UpdateConfigReturns
  <1>2. /\ E!QueryReturns(s, c) => ep[s].at[c] = "query"
        /\ E!UpdateConfigReturns(s, c) => ep[s].at[c] = "config"
    BY DEF E!QueryReturns, E!UpdateConfigReturns
  <1>3. /\ Elsewhere(s) /\ SamePlace(s, c)
        /\ ep'[s].phase = ep[s].phase /\ ep'[s].closer = ep[s].closer
        /\ ep'[s].at[c] = "idle"
    BY <1>1, PlaceEffect, Zenon
  <1> QED
    BY <1>2, <1>3

(* An endpoint never returns to a query. *)
LEMMA NeverEffect ==
    ASSUME E!TypeOK, NEW s \in Servers, NEW c \in Callers, E!NeverReturns(s, c)
    PROVE  /\ Elsewhere(s) /\ SamePlace(s, c)
           /\ ep'[s].phase = ep[s].phase /\ ep'[s].closer = ep[s].closer
           /\ ep[s].at[c] = "query" /\ ep'[s].at[c] \in {"lost", "hung"}
  <1>1. PICK fate \in {"lost", "hung"} : ep' = [ep EXCEPT ![s].at[c] = fate]
    BY DEF E!NeverReturns
  <1>2. /\ Elsewhere(s) /\ SamePlace(s, c)
        /\ ep'[s].phase = ep[s].phase /\ ep'[s].closer = ep[s].closer
        /\ ep'[s].at[c] = fate
    BY <1>1, PlaceEffect, Zenon
  <1> QED
    BY <1>2 DEF E!NeverReturns

(* The steps of Close. *)
LEMMA CloseEffect ==
    ASSUME E!TypeOK, NEW s \in Servers, NEW c \in Callers
    PROVE  /\ E!CloseBegins(s, c) => /\ Elsewhere(s)
                                     /\ ep'[s].phase = "closing" /\ ep'[s].closer = c
                                     /\ ep'[s].at = ep[s].at
           /\ E!CloseReturns(s, c) =>
                 /\ Elsewhere(s) /\ SamePlace(s, c)
                 /\ ep'[s].phase = ep[s].phase
                 /\ ep'[s].closer = IF ep[s].closer = c THEN None ELSE ep[s].closer
                 /\ ep'[s].at[c] = "idle"
  <1>1. ep[s] \in States /\ s \in DOMAIN ep /\ DOMAIN ep = Servers
    BY DEF E!TypeOK, States
  <1>2. ASSUME E!CloseBegins(s, c)
        PROVE  ep' = [ep EXCEPT ![s] = [[ep[s] EXCEPT !.phase = "closing"] EXCEPT !.closer = c]]
    BY <1>2, <1>1 DEF E!CloseBegins
  <1>3. ASSUME E!CloseReturns(s, c)
        PROVE  ep' = [ep EXCEPT ![s] =
                   [[ep[s] EXCEPT !.at = [ep[s].at EXCEPT ![c] = "idle"]]
                       EXCEPT !.closer = IF ep[s].closer = c THEN None ELSE ep[s].closer]]
    BY <1>3, <1>1 DEF E!CloseReturns, States
  <1>4. E!CloseBegins(s, c) => /\ Elsewhere(s)
                               /\ ep'[s].phase = "closing" /\ ep'[s].closer = c
                               /\ ep'[s].at = ep[s].at
    BY <1>1, <1>2 DEF Elsewhere, States
  <1>5. ASSUME E!CloseReturns(s, c)
        PROVE  /\ Elsewhere(s) /\ SamePlace(s, c)
               /\ ep'[s].phase = ep[s].phase
               /\ ep'[s].closer = IF ep[s].closer = c THEN None ELSE ep[s].closer
               /\ ep'[s].at[c] = "idle"
    <2> DEFINE at == [ep[s].at EXCEPT ![c] = "idle"]
               closer == IF ep[s].closer = c THEN None ELSE ep[s].closer
    <2>1. /\ at[c] = "idle"
          /\ \A d \in Callers : d # c => at[d] = ep[s].at[d]
      BY <1>1 DEF States
    <2>2. ep' = [ep EXCEPT ![s] = [[ep[s] EXCEPT !.at = at] EXCEPT !.closer = closer]]
      BY <1>3, <1>5
    <2> HIDE DEF at, closer
    <2>3. /\ Elsewhere(s)
          /\ ep'[s].phase = ep[s].phase /\ ep'[s].closer = closer /\ ep'[s].at = at
      BY <1>1, <2>2 DEF Elsewhere, States
    <2> QED
      BY <2>1, <2>3 DEF SamePlace, closer
  <1> QED
    BY <1>4, <1>5

(* What a step does to the caller's own record, and that it leaves the other
   callers' alone. *)
LEMMA SetEffect ==
    ASSUME TypeOK, NEW c \in Callers, NEW new, Set(c, new)
    PROVE  /\ call'[c] = new
           /\ \A d \in Callers : d # c => call'[d] = call[d]
  BY DEF TypeOK, Set

(* What a caller is in the middle of. *)
Records == [at : Places, find : Seq(Servers), use : Seq(Servers), left : SUBSET Servers]
HasWork(r) ==
    /\ r.at \in {"lookup", "create"} => r.find # <<>>
    /\ r.at \in {"lookup", "create", "query", "wait"} => r.use # <<>>

(* Setting a caller's record to a well-formed one keeps all of them so. *)
LEMMA SetTypes ==
    ASSUME TypeOK, WorkLeft, NEW c \in Callers, NEW new \in Records, Set(c, new),
           HasWork(new)
    PROVE  /\ call' \in [Callers -> Records]
           /\ WorkLeft'
  <1>1. call' \in [Callers -> Records]
    BY DEF TypeOK, Records, Set
  <1>2. WorkLeft'
    BY SetEffect DEF WorkLeft, HasWork
  <1> QED
    BY <1>1, <1>2

(* The records the client's methods give a caller are well-formed. *)
LEMMA RecordTypes ==
    /\ Idle \in Records /\ HasWork(Idle)
    /\ \A s \in Servers :
          LET r == [Idle EXCEPT !.at = "lookup", !.find = <<s>>, !.use = <<s>>] IN
          r \in Records /\ HasWork(r)
    /\ \A s, t \in Servers :
          LET r == [Idle EXCEPT !.at = "lookup", !.find = <<s, t>>, !.use = <<t, s>>] IN
          r \in Records /\ HasWork(r)
    /\ \A p \in {"config", "close"} :
          LET r == [Idle EXCEPT !.at = p] IN r \in Records /\ HasWork(r)
    /\ \A r \in Records, p \in Looping, L \in SUBSET Servers :
          LET n == [r EXCEPT !.at = p, !.left = L] IN n \in Records /\ HasWork(n)
    /\ \A r \in Records, L \in SUBSET Servers :
          HasWork(r) => LET n == [r EXCEPT !.left = L] IN n \in Records /\ HasWork(n)
  <1>1. /\ <<>> \in Seq(Servers)
        /\ \A s \in Servers : <<s>> \in Seq(Servers) /\ <<s>> # <<>>
        /\ \A s, t \in Servers : <<s, t>> \in Seq(Servers) /\ <<s, t>> # <<>>
    OBVIOUS
  <1>2. Idle \in Records /\ HasWork(Idle)
    BY <1>1 DEF Idle, Records, HasWork, Places
  <1>3. ASSUME NEW f \in Seq(Servers), NEW u \in Seq(Servers), f # <<>>, u # <<>>
        PROVE  LET r == [Idle EXCEPT !.at = "lookup", !.find = f, !.use = u] IN
               r \in Records /\ HasWork(r)
    BY <1>3 DEF Idle, Records, HasWork, Places
  <1>4. \A p \in {"config", "close"} :
          LET r == [Idle EXCEPT !.at = p] IN r \in Records /\ HasWork(r)
    BY <1>1 DEF Idle, Records, HasWork, Places
  <1>5. ASSUME NEW r \in Records, NEW p \in Looping, NEW L \in SUBSET Servers
        PROVE  LET n == [r EXCEPT !.at = p, !.left = L] IN n \in Records /\ HasWork(n)
    BY DEF Records, HasWork, Places, Looping
  <1>6. ASSUME NEW r \in Records, NEW L \in SUBSET Servers, HasWork(r)
        PROVE  LET n == [r EXCEPT !.left = L] IN n \in Records /\ HasWork(n)
    BY <1>6 DEF Records, HasWork
  <1> QED
    BY <1>1, <1>2, <1>3, <1>4, <1>5, <1>6

-----------------------------------------------------------------------------
(* endpoint() goes on to what is left to be found, and then to the queries. *)
LEMMA FoundTypes ==
    ASSUME TypeOK, WorkLeft, NEW c \in Callers, Found(c),
           call[c].at \in {"lookup", "create"}
    PROVE  call' \in [Callers -> Records] /\ WorkLeft'
  <1> DEFINE rest == Tail(call[c].find)
             new == [call[c] EXCEPT !.find = rest,
                                    !.at = IF rest = <<>> THEN "query" ELSE "lookup"]
  <1>1. call[c] \in Records /\ HasWork(call[c])
    BY DEF TypeOK, Records, WorkLeft, HasWork
  <1>2. rest \in Seq(Servers)
    BY <1>1, HeadTailProperties DEF Records, HasWork
  <1>3. Set(c, new)
    BY DEF Found
  <1> HIDE DEF rest
  <1>4. new \in Records /\ HasWork(new)
    BY <1>1, <1>2 DEF Records, HasWork, Places
  <1> QED
    BY <1>3, <1>4, SetTypes

(* Every step keeps the types, and leaves no caller with nothing to look up or
   to query where it is about to. *)
LEMMA TypeStep ==
    ASSUME TypeOK, WorkLeft, Next
    PROVE  TypeOK' /\ WorkLeft'
  <1>1. \A c \in Callers : call[c] \in Records /\ HasWork(call[c])
    BY DEF TypeOK, Records, WorkLeft, HasWork
  <1> DEFINE Good == call' \in [Callers -> Records] /\ WorkLeft'
  <1>2. ASSUME Good, closed' \in BOOLEAN, owner' \in Callers \cup {None},
               UNCHANGED ep \/ E!TypeOK'
        PROVE  TypeOK' /\ WorkLeft'
    BY <1>2 DEF TypeOK, Records, E!TypeOK
  <1>3. ASSUME UNCHANGED call PROVE Good
    BY <1>3 DEF TypeOK, Records, WorkLeft
  <1>4. TypeOK => E!TypeOK /\ closed \in BOOLEAN /\ owner \in Callers \cup {None}
    BY DEF TypeOK
  <1>5. ASSUME NEW c \in Callers, NEW r \in Records, HasWork(r), Set(c, r) PROVE Good
    BY <1>5, SetTypes
  <1>6. {"query", "config", "close"} \subseteq E!Calls
    BY DEF E!Calls, E!Methods
  <1> HIDE DEF Good
  <1>7. ASSUME NEW c \in Callers,
               \/ \E s \in Servers : BeginQuery(c, s)
               \/ \E from, to \in Servers : Backlog(c, from, to)
               \/ BeginUpdateConfig(c) \/ BeginClose(c)
        PROVE  TypeOK' /\ WorkLeft'
    <2>1. UNCHANGED <<closed, owner, ep>>
      BY <1>7 DEF BeginQuery, Backlog, BeginUpdateConfig, BeginClose, Begin
    <2>2. Good
      <3>1. ASSUME NEW s \in Servers, BeginQuery(c, s) PROVE Good
        BY <3>1, <1>5, RecordTypes DEF BeginQuery, Begin
      <3>2. ASSUME NEW s \in Servers, NEW t \in Servers, Backlog(c, s, t) PROVE Good
        BY <3>2, <1>5, RecordTypes DEF Backlog, Begin
      <3>3. ASSUME BeginUpdateConfig(c) \/ BeginClose(c) PROVE Good
        BY <3>3, <1>5, RecordTypes DEF BeginUpdateConfig, BeginClose, Begin
      <3> QED
        BY <1>7, <3>1, <3>2, <3>3
    <2> QED
      BY <1>2, <1>4, <2>1, <2>2
  <1>8. ASSUME NEW c \in Callers, Lookup(c) PROVE TypeOK' /\ WorkLeft'
    <2>1. CASE Fail(c)
      BY <1>2, <1>4, <1>5, <1>8, <2>1, RecordTypes DEF Lookup, Fail
    <2>2. CASE Found(c)
      BY <1>2, <1>4, <1>8, <2>2, FoundTypes DEF Lookup, Good
    <2>3. CASE Set(c, [call[c] EXCEPT !.at = "create"])
      <3>1. LET r == [call[c] EXCEPT !.at = "create"] IN r \in Records /\ HasWork(r)
        BY <1>1, <1>8 DEF Records, HasWork, Places, Lookup
      <3> QED
        BY <1>2, <1>4, <1>5, <1>8, <2>3, <3>1 DEF Lookup
    <2> QED
      BY <1>8, <2>1, <2>2, <2>3 DEF Lookup
  <1>9. ASSUME NEW c \in Callers, Create(c) PROVE TypeOK' /\ WorkLeft'
    <2>1. UNCHANGED ep \/ E!TypeOK'
      <3>1. Head(call[c].find) \in Servers
        BY <1>1, <1>9, HeadTailProperties DEF Create, Records, HasWork
      <3> QED
        BY <1>4, <1>9, <3>1, ContractTypes DEF Create
    <2>2. CASE Fail(c)
      BY <1>2, <1>4, <1>5, <1>9, <2>1, <2>2, RecordTypes DEF Create, Fail
    <2>3. CASE Found(c)
      BY <1>2, <1>4, <1>9, <2>1, <2>3, FoundTypes DEF Create, Good
    <2> QED
      BY <1>9, <2>2, <2>3 DEF Create
  <1>10. ASSUME NEW c \in Callers, QueryEndpoint(c) PROVE TypeOK' /\ WorkLeft'
    <2>1. Head(call[c].use) \in Servers
      BY <1>1, <1>10, HeadTailProperties DEF QueryEndpoint, Records, HasWork
    <2>2. E!TypeOK'
      BY <1>4, <1>6, <1>10, <2>1, ContractTypes DEF QueryEndpoint
    <2>3. LET r == [call[c] EXCEPT !.at = "wait"] IN r \in Records /\ HasWork(r)
      BY <1>1, <1>10 DEF Records, HasWork, Places, QueryEndpoint
    <2> QED
      BY <1>2, <1>4, <1>5, <1>10, <2>2, <2>3 DEF QueryEndpoint
  <1>11. ASSUME NEW c \in Callers, QueryReturns(c) PROVE TypeOK' /\ WorkLeft'
    <2> DEFINE rest == Tail(call[c].use)
    <2>1. Head(call[c].use) \in Servers /\ rest \in Seq(Servers)
      BY <1>1, <1>11, HeadTailProperties DEF QueryReturns, Records, HasWork
    <2>2. E!TypeOK'
      BY <1>4, <1>11, <2>1, ContractTypes DEF QueryReturns, E!Proceed
    <2>3. CASE Set(c, Idle)
      BY <1>2, <1>4, <1>5, <1>11, <2>2, <2>3, RecordTypes DEF QueryReturns
    <2>4. CASE rest # <<>> /\ Set(c, [call[c] EXCEPT !.use = rest, !.at = "query"])
      <3> HIDE DEF rest
      <3>1. LET r == [call[c] EXCEPT !.use = rest, !.at = "query"] IN
            r \in Records /\ HasWork(r)
        BY <1>1, <2>1, <2>4 DEF Records, HasWork, Places
      <3> QED
        BY <1>2, <1>4, <1>5, <1>11, <2>2, <2>4, <3>1 DEF QueryReturns
    <2> QED
      BY <1>11, <2>3, <2>4 DEF QueryReturns
  <1>12. ASSUME NEW c \in Callers, NEW from, NEW to \in Looping, Lock(c, from, to)
         PROVE  TypeOK' /\ WorkLeft'
    <2>1. CASE Set(c, Idle) /\ UNCHANGED owner
      BY <1>2, <1>4, <1>5, <1>12, <2>1, RecordTypes DEF Lock
    <2>2. CASE owner' = c /\ Set(c, [call[c] EXCEPT !.at = to, !.left = Created])
      <3>1. Created \in SUBSET Servers
        BY DEF Created
      <3>2. Good
        BY <1>1, <1>5, <2>2, <3>1, RecordTypes
      <3> QED
        BY <1>2, <1>4, <1>12, <2>2, <3>2 DEF Lock
    <2> QED
      BY <1>12, <2>1, <2>2 DEF Lock
  <1>13. ASSUME NEW c \in Callers, NEW at, NEW m \in {"config", "close"},
                CallNext(c, at, m)
         PROVE  TypeOK' /\ WorkLeft'
    <2>1. PICK s \in call[c].left :
             E!Enter(s, c, m) /\ Set(c, [call[c] EXCEPT !.left = @ \ {s}])
      BY <1>13 DEF CallNext
    <2>2. s \in Servers /\ call[c].left \ {s} \in SUBSET Servers
      BY <1>1, <2>1 DEF Records
    <2>3. E!TypeOK'
      BY <1>4, <1>6, <2>1, <2>2, ContractTypes
    <2>4. Good
      BY <1>1, <1>5, <2>1, <2>2, RecordTypes
    <2> QED
      BY <1>2, <1>4, <1>13, <2>3, <2>4 DEF CallNext
  <1>14. ASSUME NEW c \in Callers,
                UpdateConfigReturns(c) \/ CloseBegins(c) \/ CloseReturns(c)
         PROVE  TypeOK' /\ WorkLeft'
    <2>1. PICK s \in Servers : E!Proceed(s, c)
      BY <1>14 DEF UpdateConfigReturns, CloseBegins, CloseReturns, E!Proceed
    <2>2. E!TypeOK'
      BY <1>4, <2>1, ContractTypes
    <2> QED
      BY <1>2, <1>3, <1>4, <1>14, <2>2 DEF UpdateConfigReturns, CloseBegins, CloseReturns
  <1>15. ASSUME NEW c \in Callers, Unlock(c) PROVE TypeOK' /\ WorkLeft'
    <2>1. Good
      BY <1>5, <1>15, RecordTypes DEF Unlock
    <2> QED
      BY <1>2, <1>4, <1>15, <2>1 DEF Unlock, Released
  <1>16. ASSUME NEW s \in Servers, EndpointStep(s) PROVE TypeOK' /\ WorkLeft'
    BY <1>2, <1>3, <1>4, <1>16, ContractTypes DEF EndpointStep
  <1>17. ASSUME NEW c \in Callers, NeverReturns(c) PROVE TypeOK' /\ WorkLeft'
    <2>1. Head(call[c].use) \in Servers
      BY <1>1, <1>17, HeadTailProperties DEF NeverReturns, Records, HasWork
    <2>2. E!TypeOK'
      BY <1>4, <1>17, <2>1, ContractTypes DEF NeverReturns
    <2> QED
      BY <1>2, <1>3, <1>4, <1>17, <2>2 DEF NeverReturns
  <1> QED
    BY <1>7, <1>8, <1>9, <1>10, <1>11, <1>12, <1>13, <1>14, <1>15, <1>16, <1>17
    DEF Next, Step, Looping

-----------------------------------------------------------------------------
(* What the invariant says besides the types. *)
Discipline ==
    /\ MutexHolder /\ CallsMatch /\ CloserWaits /\ LoopProgress
    /\ ClosedHoldsNothing

(* A caller that goes from one place outside the loops to another disturbs
   nothing. *)
LEMMA QuietStep ==
    ASSUME TypeOK, Discipline, NEW c \in Callers, NEW new, Set(c, new),
           call[c].at \notin Looping, new.at \notin Looping,
           UNCHANGED <<closed, owner, ep>>
    PROVE  Discipline'
  <1>1. /\ call'[c] = new
        /\ \A d \in Callers : d # c => call'[d] = call[d]
    BY SetEffect
  <1> USE DEF Discipline
  <1>2. MutexHolder'
    BY <1>1 DEF MutexHolder
  <1>3. CallsMatch'
    BY <1>1 DEF CallsMatch, Looping
  <1>4. CloserWaits' /\ ClosedHoldsNothing'
    BY DEF CloserWaits, ClosedHoldsNothing
  <1>5. LoopProgress'
    BY <1>1 DEF LoopProgress, Looping
  <1> QED
    BY <1>2, <1>3, <1>4, <1>5

(* endpoint() creates an endpoint only while nobody is in a loop and the
   client is open. *)
LEMMA CreateStep ==
    ASSUME TypeOK, WorkLeft, Discipline, NEW c \in Callers, Create(c)
    PROVE  Discipline'
  <1>1. call[c].at \notin Looping
    BY DEF Create, Looping
  <1>2. ASSUME Found(c) PROVE /\ call'[c].at \notin Looping
                              /\ \A d \in Callers : d # c => call'[d] = call[d]
    <2> DEFINE rest == Tail(call[c].find)
    <2>1. call'[c] = [call[c] EXCEPT !.find = rest,
                                     !.at = IF rest = <<>> THEN "query" ELSE "lookup"]
      BY <1>2, SetEffect DEF Found
    <2> HIDE DEF rest
    <2>2. call[c] \in Records
      BY DEF TypeOK, Records
    <2> QED
      BY <1>2, <2>1, <2>2, SetEffect DEF Found, Looping, Records
  <1>3. CASE Fail(c) /\ UNCHANGED ep
    <2>1. Idle.at \notin Looping
      BY DEF Idle, Looping
    <2> QED
      BY <1>1, <1>3, <2>1, QuietStep DEF Create, Fail
  <1>4. CASE Found(c) /\ UNCHANGED ep
    <2>1. call'[c].at \notin Looping /\ Set(c, call'[c]) /\ UNCHANGED <<closed, owner, ep>>
      BY <1>2, <1>4, SetEffect DEF Found, Create, Set
    <2> QED
      BY <1>1, <2>1, QuietStep
  <1>5. CASE /\ ~closed /\ Found(c)
             /\ Head(call[c].find) \notin Created /\ E!Create(Head(call[c].find))
    <2> DEFINE s == Head(call[c].find)
    <2>1. s \in Servers
      <3>1. call[c].find \in Seq(Servers) /\ call[c].find # <<>>
        BY DEF Create, TypeOK, WorkLeft
      <3> QED
        BY <3>1, HeadTailProperties
    <2> HIDE DEF s
    <2>2. /\ Elsewhere(s) /\ ep[s].phase = "none" /\ ep'[s].phase = "open"
          /\ ep'[s].closer = ep[s].closer /\ ep'[s].at = ep[s].at
      BY <1>5, <2>1, OwnEffect DEF TypeOK, s, E!Create
    <2>3. owner = None /\ ~closed /\ UNCHANGED <<closed, owner>>
      BY <1>5 DEF Create
    <2>4. \A d \in Callers : call[d].at \notin Looping /\ call'[d].at \notin Looping
      BY <1>2, <1>5, <2>3, ClientAssumption DEF Discipline, MutexHolder
    <2> USE DEF Discipline
    <2>5. MutexHolder' /\ LoopProgress' /\ ClosedHoldsNothing'
      BY <2>3, <2>4, ClientAssumption
      DEF MutexHolder, LoopProgress, ClosedHoldsNothing, Looping
    <2>6. CallsMatch'
      BY <2>1, <2>2, <2>4 DEF CallsMatch, Looping, Elsewhere
    <2>7. CloserWaits'
      BY <2>1, <2>2 DEF CloserWaits, Elsewhere
    <2> QED
      BY <2>5, <2>6, <2>7
  <1> QED
    BY <1>3, <1>4, <1>5 DEF Create, MayCreate

(* A query enters and leaves an endpoint, or stays, without a part in closing
   it. *)
LEMMA QueryStep ==
    ASSUME TypeOK, WorkLeft, Discipline, NEW c \in Callers,
           QueryEndpoint(c) \/ QueryReturns(c) \/ NeverReturns(c)
    PROVE  Discipline'
  <1> DEFINE s == Head(call[c].use)
  <1>1. s \in Servers
    <2>1. call[c].use \in Seq(Servers) /\ call[c].use # <<>>
      BY DEF QueryEndpoint, QueryReturns, NeverReturns, TypeOK, WorkLeft
    <2> QED
      BY <2>1, HeadTailProperties
  <1>2. /\ Elsewhere(s) /\ SamePlace(s, c)
        /\ ep'[s].phase = ep[s].phase /\ ep'[s].closer = ep[s].closer
        /\ ep[s].at[c] \in {"idle", "query"}
        /\ \/ ep'[s].at[c] = "query" /\ ep[s].phase # "none"
           \/ ep'[s].at[c] = "idle"
           \/ ep'[s].at[c] \in {"lost", "hung"} /\ ep[s].phase # "none"
    <2>1. CASE QueryEndpoint(c)
      BY <1>1, <2>1, EnterEffect DEF QueryEndpoint, TypeOK
    <2>2. CASE QueryReturns(c)
      BY <1>1, <2>2, LeaveEffect DEF QueryReturns, TypeOK
    <2>3. CASE NeverReturns(c)
      <3>1. E!TypeOK /\ E!NeverReturns(s, c)
        BY <2>3 DEF NeverReturns, TypeOK
      <3>2. ep[s].phase # "none"
        BY <1>1, <3>1, NeverEffect DEF Discipline, CallsMatch
      <3> QED
        BY <1>1, <3>1, <3>2, NeverEffect
    <2> QED
      BY <2>1, <2>2, <2>3
  <1>3. /\ call[c].at \notin Looping /\ call'[c].at \notin Looping
        /\ \A d \in Callers : d # c => call'[d] = call[d]
    <2>1. call[c] \in Records
      BY DEF TypeOK, Records
    <2>2. CASE QueryEndpoint(c)
      BY <2>1, <2>2, SetEffect DEF QueryEndpoint, Looping, Records
    <2>3. CASE QueryReturns(c)
      <3> DEFINE rest == Tail(call[c].use)
      <3>1. CASE Set(c, Idle)
        BY <2>3, <3>1, SetEffect DEF QueryReturns, Looping, Idle
      <3>2. CASE Set(c, [call[c] EXCEPT !.use = rest, !.at = "query"])
        <4> HIDE DEF rest
        <4> DEFINE new == [call[c] EXCEPT !.use = rest, !.at = "query"]
        <4>1. new.at = "query"
          BY <2>1 DEF Records
        <4>2. Set(c, new)
          BY <3>2
        <4> HIDE DEF new
        <4> QED
          BY <2>3, <4>1, <4>2, SetEffect DEF QueryReturns, Looping
      <3> QED
        BY <2>3, <3>1, <3>2 DEF QueryReturns
    <2>4. CASE NeverReturns(c)
      BY <2>4 DEF NeverReturns, Looping
    <2> QED
      BY <2>2, <2>3, <2>4
  <1>4. UNCHANGED <<closed, owner>>
    BY DEF QueryEndpoint, QueryReturns, NeverReturns
  <1> HIDE DEF s
  <1> USE DEF Discipline
  <1>5. MutexHolder'
    BY <1>3, <1>4 DEF MutexHolder
  <1>6. CallsMatch'
    BY <1>1, <1>2, <1>3 DEF CallsMatch, Elsewhere, SamePlace, Looping
  <1>7. CloserWaits'
    <2>1. ep[s].closer \in Callers \cup {None} /\ ep[s].closer # c
      BY <1>1, <1>2, ClientAssumption DEF CloserWaits, TypeOK, E!TypeOK
    <2> QED
      BY <1>1, <1>2, <2>1 DEF CloserWaits, Elsewhere, SamePlace
  <1>8. LoopProgress'
    BY <1>1, <1>2, <1>3 DEF LoopProgress, Elsewhere, SamePlace, Looping
  <1>9. ClosedHoldsNothing'
    BY <1>1, <1>2, <1>4 DEF ClosedHoldsNothing, Elsewhere
  <1> QED
    BY <1>5, <1>6, <1>7, <1>8, <1>9

(* Close and UpdateConfig take the mutex of an open client, with all of its
   endpoints before them. *)
LEMMA LockStep ==
    ASSUME TypeOK, Discipline, NEW c \in Callers, NEW from \in {"config", "close"},
           NEW to \in Looping, Lock(c, from, to)
    PROVE  Discipline'
  <1>1. call[c] \in Records /\ call[c].at \notin Looping
    BY DEF TypeOK, Records, Lock, Looping
  <1>2. CASE Set(c, Idle) /\ UNCHANGED owner
    <2>1. Idle.at \notin Looping
      BY DEF Idle, Looping
    <2> QED
      BY <1>1, <1>2, <2>1, QuietStep DEF Lock
  <1>3. CASE /\ ~closed /\ owner' = c
             /\ Set(c, [call[c] EXCEPT !.at = to, !.left = Created])
    <2>1. /\ call'[c].at = to /\ call'[c].left = Created
          /\ \A d \in Callers : d # c => call'[d] = call[d]
      <3> DEFINE new == [call[c] EXCEPT !.at = to, !.left = Created]
      <3>1. new.at = to /\ new.left = Created
        BY <1>1 DEF Records
      <3>2. Set(c, new)
        BY <1>3
      <3> HIDE DEF new
      <3> QED
        BY <3>1, <3>2, SetEffect
    <2>2. owner = None /\ UNCHANGED <<closed, ep>>
      BY DEF Lock
    <2>3. \A d \in Callers : call[d].at \notin Looping
      BY <2>2, ClientAssumption DEF Discipline, MutexHolder
    <2> USE DEF Discipline
    <2>4. MutexHolder'
      BY <1>3, <2>1, <2>2, <2>3 DEF MutexHolder
    <2>5. CallsMatch'
      BY <2>1, <2>2, <2>3 DEF CallsMatch, Looping
    <2>6. CloserWaits' /\ ClosedHoldsNothing'
      BY <2>2 DEF CloserWaits, ClosedHoldsNothing
    <2>7. LoopProgress'
      BY <2>1, <2>2, <2>3 DEF LoopProgress, Looping, Created
    <2> QED
      BY <2>4, <2>5, <2>6, <2>7
  <1> QED
    BY <1>2, <1>3 DEF Lock

(* The loop goes into the next endpoint. *)
LEMMA CallNextStep ==
    ASSUME TypeOK, Discipline, NEW c \in Callers,
           \/ CallNext(c, "configuring", "config") \/ CallNext(c, "closing", "close")
    PROVE  Discipline'
  <1>1. PICK m \in {"config", "close"}, s \in call[c].left :
           /\ call[c].at = IF m = "close" THEN "closing" ELSE "configuring"
           /\ E!Enter(s, c, m) /\ Set(c, [call[c] EXCEPT !.left = @ \ {s}])
           /\ UNCHANGED <<closed, owner>>
    BY DEF CallNext
  <1>2. s \in Servers /\ call[c] \in Records
    BY <1>1 DEF TypeOK, Records
  <1>3. /\ call'[c].at = call[c].at /\ call'[c].left = call[c].left \ {s}
        /\ \A d \in Callers : d # c => call'[d] = call[d]
    BY <1>1, <1>2, SetEffect DEF Records
  <1>4. /\ Elsewhere(s) /\ SamePlace(s, c)
        /\ ep'[s].phase = ep[s].phase /\ ep'[s].closer = ep[s].closer
        /\ ep[s].at[c] = "idle" /\ ep[s].phase # "none"
        /\ ep'[s].at[c] = m
    BY <1>1, <1>2, EnterEffect DEF TypeOK
  <1> USE DEF Discipline
  <1>5. MutexHolder'
    BY <1>1, <1>3 DEF MutexHolder
  <1>6. CallsMatch'
    BY <1>1, <1>2, <1>3, <1>4 DEF CallsMatch, Elsewhere, SamePlace
  <1>7. CloserWaits'
    <2>1. ep[s].closer \in Callers \cup {None} /\ ep[s].closer # c
      BY <1>2, <1>4, ClientAssumption DEF CloserWaits, TypeOK, E!TypeOK
    <2> QED
      BY <1>2, <1>4, <2>1 DEF CloserWaits, Elsewhere, SamePlace
  <1>8. LoopProgress'
    BY <1>1, <1>2, <1>3, <1>4 DEF LoopProgress, Elsewhere, SamePlace
  <1>9. ClosedHoldsNothing'
    BY <1>1, <1>2, <1>4 DEF ClosedHoldsNothing, Elsewhere
  <1> QED
    BY <1>5, <1>6, <1>7, <1>8, <1>9

(* UpdateConfig of an endpoint returns. *)
LEMMA ConfigStep ==
    ASSUME TypeOK, Discipline, NEW c \in Callers, UpdateConfigReturns(c)
    PROVE  Discipline'
  <1>1. PICK s \in Servers : E!UpdateConfigReturns(s, c)
    BY DEF UpdateConfigReturns
  <1>2. UNCHANGED <<closed, owner, call>> /\ call[c].at = "configuring"
    BY DEF UpdateConfigReturns
  <1>3. /\ Elsewhere(s) /\ SamePlace(s, c)
        /\ ep'[s].phase = ep[s].phase /\ ep'[s].closer = ep[s].closer
        /\ ep[s].at[c] = "config" /\ ep'[s].at[c] = "idle"
    BY <1>1, LeaveEffect DEF TypeOK
  <1> USE DEF Discipline
  <1>4. MutexHolder' /\ CallsMatch'
    BY <1>2, <1>3 DEF MutexHolder, CallsMatch, Elsewhere, SamePlace
  <1>5. CloserWaits'
    <2>1. ep[s].closer \in Callers \cup {None} /\ ep[s].closer # c
      BY <1>3, ClientAssumption DEF CloserWaits, TypeOK, E!TypeOK
    <2> QED
      BY <1>3, <2>1 DEF CloserWaits, Elsewhere, SamePlace
  <1>6. LoopProgress' /\ ClosedHoldsNothing'
    BY <1>2, <1>3 DEF LoopProgress, ClosedHoldsNothing, Elsewhere, SamePlace
  <1> QED
    BY <1>4, <1>5, <1>6

(* Close of an endpoint begins. *)
LEMMA CloseBeginsStep ==
    ASSUME TypeOK, Discipline, NEW c \in Callers, CloseBegins(c)
    PROVE  Discipline'
  <1>1. PICK s \in Servers : E!CloseBegins(s, c)
    BY DEF CloseBegins
  <1>2. UNCHANGED <<closed, owner, call>> /\ call[c].at = "closing"
    BY DEF CloseBegins
  <1>3. /\ Elsewhere(s) /\ ep[s].at[c] = "close" /\ ep[s].phase = "open"
        /\ ep'[s].phase = "closing" /\ ep'[s].closer = c /\ ep'[s].at = ep[s].at
    BY <1>1, CloseEffect, ZenonT(30) DEF E!CloseBegins, TypeOK
  <1> USE DEF Discipline
  <1>4. MutexHolder' /\ CallsMatch'
    BY <1>2, <1>3 DEF MutexHolder, CallsMatch, Elsewhere
  <1>5. CloserWaits'
    BY <1>3, ClientAssumption DEF CloserWaits, Elsewhere
  <1>6. LoopProgress' /\ ClosedHoldsNothing'
    BY <1>2, <1>3 DEF LoopProgress, ClosedHoldsNothing, Elsewhere
  <1> QED
    BY <1>4, <1>5, <1>6

(* Close of an endpoint returns: the endpoint is closed, since only the caller
   that holds the mutex can be the one that is closing it. *)
LEMMA CloseReturnsStep ==
    ASSUME TypeOK, Discipline, NEW c \in Callers, CloseReturns(c)
    PROVE  Discipline'
  <1>1. PICK s \in Servers : E!CloseReturns(s, c)
    BY DEF CloseReturns
  <1>2. UNCHANGED <<closed, owner, call>> /\ call[c].at = "closing"
    BY DEF CloseReturns
  <1>3. /\ Elsewhere(s) /\ SamePlace(s, c) /\ ep[s].at[c] = "close"
        /\ ep'[s].phase = ep[s].phase /\ ep'[s].at[c] = "idle"
        /\ ep'[s].closer = IF ep[s].closer = c THEN None ELSE ep[s].closer
    BY <1>1, CloseEffect, ZenonT(30) DEF E!CloseReturns, TypeOK
  <1> USE DEF Discipline
  <1>4. ep[s].phase \in {"none", "closed"}
    <2>1. ep[s].closer \in Callers \cup {None} /\ ep[s].phase \in E!Phases
      BY DEF TypeOK, E!TypeOK
    <2>2. owner = c
      BY <1>2 DEF MutexHolder, Looping
    <2>3. ep[s].phase = "closing" => ep[s].closer = c
      BY <2>1, <2>2 DEF CloserWaits, CallsMatch, MutexHolder, Looping
    <2> QED
      BY <1>1, <2>1, <2>3 DEF E!CloseReturns, E!Phases
  <1>5. MutexHolder' /\ CallsMatch'
    BY <1>2, <1>3 DEF MutexHolder, CallsMatch, Elsewhere, SamePlace
  <1>6. CloserWaits'
    <2>1. \A t \in Servers : t # s => ep'[t] = ep[t]
      BY <1>3 DEF Elsewhere
    <2>2. ep[s].closer \in Callers \cup {None}
      BY DEF TypeOK, E!TypeOK
    <2>3. ep'[s].closer # None => ep'[s].at[ep'[s].closer] = "close"
      BY <1>3, <2>2 DEF CloserWaits, SamePlace
    <2> QED
      BY <1>3, <1>4, <2>1, <2>3 DEF CloserWaits
  <1>7. LoopProgress' /\ ClosedHoldsNothing'
    BY <1>2, <1>3, <1>4 DEF LoopProgress, ClosedHoldsNothing, Elsewhere, SamePlace
  <1> QED
    BY <1>5, <1>6, <1>7

(* The loop of Close ends with every endpoint closed. *)
LEMMA UnlockStep ==
    ASSUME TypeOK, Discipline, NEW c \in Callers, Unlock(c)
    PROVE  Discipline'
  <1>1. /\ owner' = None /\ UNCHANGED ep /\ call'[c].at = "idle"
        /\ \A d \in Callers : d # c => call'[d] = call[d]
    BY SetEffect DEF Unlock, Released, Idle
  <1>2. /\ call[c].at \in Looping /\ call[c].left = {}
        /\ \A s \in Servers : ep[s].at[c] = "idle"
        /\ closed' = (closed \/ call[c].at = "closing")
    BY DEF Unlock, Looping
  <1> USE DEF Discipline
  <1>3. owner = c /\ ~closed
    BY <1>2, ClientAssumption DEF MutexHolder
  <1>4. MutexHolder'
    BY <1>1, <1>3, ClientAssumption DEF MutexHolder, Looping
  <1>5. CallsMatch' /\ CloserWaits' /\ LoopProgress'
    BY <1>1, <1>2 DEF CallsMatch, CloserWaits, LoopProgress
  <1>6. ClosedHoldsNothing'
    BY <1>1, <1>2, <1>3 DEF ClosedHoldsNothing, LoopProgress
  <1> QED
    BY <1>4, <1>5, <1>6

(* What run() does on its own. *)
LEMMA EndpointStepStep ==
    ASSUME TypeOK, Discipline, NEW s \in Servers, EndpointStep(s)
    PROVE  Discipline'
  <1>1. UNCHANGED <<closed, owner, call>>
    BY DEF EndpointStep
  <1>2. /\ Elsewhere(s) /\ ep'[s].closer = ep[s].closer /\ ep'[s].at = ep[s].at
        /\ \/ ep'[s].phase = ep[s].phase
           \/ ep[s].phase = "closing" /\ ep'[s].phase = "closed"
    BY OwnEffect DEF EndpointStep, TypeOK, E!RunEnds
  <1> USE DEF Discipline
  <1>3. MutexHolder' /\ CallsMatch' /\ CloserWaits'
    BY <1>1, <1>2 DEF MutexHolder, CallsMatch, CloserWaits, Elsewhere
  <1>4. LoopProgress' /\ ClosedHoldsNothing'
    BY <1>1, <1>2 DEF LoopProgress, ClosedHoldsNothing, Elsewhere
  <1> QED
    BY <1>3, <1>4

-----------------------------------------------------------------------------
(* The invariant holds in every state the client reaches. *)
THEOREM Invariance == Spec => []IndInv
  <1>1. ASSUME IndInv, [Next]_vars PROVE IndInv'
    <2>1. IndInv <=> TypeOK /\ WorkLeft /\ Discipline
      BY DEF IndInv, Discipline
    <2>2. CASE UNCHANGED vars
      BY <1>1, <2>2
      DEF vars, IndInv, TypeOK, WorkLeft, MutexHolder, CallsMatch, CloserWaits,
          LoopProgress, ClosedHoldsNothing, E!TypeOK
    <2>3. CASE Next
      <3>1. TypeOK' /\ WorkLeft'
        BY <1>1, <2>1, <2>3, TypeStep
      <3>2. ASSUME NEW c \in Callers,
                   \/ \E s \in Servers : BeginQuery(c, s)
                   \/ \E from, to \in Servers : Backlog(c, from, to)
                   \/ BeginUpdateConfig(c) \/ BeginClose(c)
            PROVE  Discipline'
        <4>1. PICK new : Begin(c, new) /\ new.at \notin Looping
          <5>1. ASSUME NEW f, NEW u
                PROVE  [Idle EXCEPT !.at = "lookup", !.find = f, !.use = u].at = "lookup"
            BY DEF Idle
          <5>2. /\ [Idle EXCEPT !.at = "config"].at = "config"
                /\ [Idle EXCEPT !.at = "close"].at = "close"
            BY DEF Idle
          <5>3. ASSUME NEW s \in Servers, BeginQuery(c, s)
                PROVE  \E new : Begin(c, new) /\ new.at \notin Looping
            BY <5>1, <5>3 DEF BeginQuery, Looping
          <5>4. ASSUME NEW s \in Servers, NEW t \in Servers, Backlog(c, s, t)
                PROVE  \E new : Begin(c, new) /\ new.at \notin Looping
            BY <5>1, <5>4 DEF Backlog, Looping
          <5>5. ASSUME BeginUpdateConfig(c) \/ BeginClose(c)
                PROVE  \E new : Begin(c, new) /\ new.at \notin Looping
            <6>1. CASE BeginUpdateConfig(c)
              BY <5>2, <6>1 DEF BeginUpdateConfig, Looping
            <6>2. CASE BeginClose(c)
              BY <5>2, <6>2 DEF BeginClose, Looping
            <6> QED
              BY <5>5, <6>1, <6>2
          <5> QED
            BY <3>2, <5>3, <5>4, <5>5
        <4> QED
          BY <1>1, <2>1, <4>1, QuietStep DEF Begin, Idle, Looping
      <3>3. ASSUME NEW c \in Callers, Lookup(c) PROVE Discipline'
        <4> DEFINE rest == Tail(call[c].find)
        <4>1. PICK new : Set(c, new) /\ new.at \notin Looping
          <5>1. call[c] \in Records
            BY <1>1, <2>1 DEF TypeOK, Records
          <5>2. CASE Fail(c)
            BY <5>2 DEF Fail, Idle, Looping
          <5>3. CASE Found(c)
            <6>1. PICK p \in {"query", "lookup"} :
                     Set(c, [call[c] EXCEPT !.find = rest, !.at = p])
              BY <5>3 DEF Found
            <6> HIDE DEF rest
            <6>2. [call[c] EXCEPT !.find = rest, !.at = p].at = p
              BY <5>1 DEF Records
            <6> QED
              BY <6>1, <6>2 DEF Looping
          <5>4. CASE Set(c, [call[c] EXCEPT !.at = "create"])
            BY <5>1, <5>4 DEF Records, Looping
          <5> QED
            BY <3>3, <5>2, <5>3, <5>4 DEF Lookup
        <4> QED
          BY <1>1, <2>1, <3>3, <4>1, QuietStep DEF Lookup, Looping
      <3>4. ASSUME NEW c \in Callers, Step(c) PROVE Discipline'
        <4>1. ASSUME Lock(c, "config", "configuring") \/ Lock(c, "close", "closing")
              PROVE  Discipline'
          BY <1>1, <2>1, <4>1, LockStep DEF Looping
        <4> QED
          BY <1>1, <2>1, <3>3, <3>4, <4>1, CreateStep, QueryStep, CallNextStep,
             ConfigStep, CloseBeginsStep, CloseReturnsStep, UnlockStep
          DEF Step
      <3>5. ASSUME NEW s \in Servers, EndpointStep(s) PROVE Discipline'
        BY <1>1, <2>1, <3>5, EndpointStepStep
      <3>6. ASSUME NEW c \in Callers, NeverReturns(c) PROVE Discipline'
        BY <1>1, <2>1, <3>6, QueryStep
      <3> QED
        BY <2>3, <3>1, <3>2, <3>4, <3>5, <3>6 DEF Next, IndInv, Discipline
    <2> QED
      BY <1>1, <2>2, <2>3
  <1> QED
    BY <1>1, InitIndInv, PTL DEF Spec

(* A closed client holds no endpoint that still runs, whatever lookups were on
   their way when Close took the mutex. *)
THEOREM ClosedClientHoldsNothing == Spec => []ClosedHoldsNothing
  <1>1. IndInv => ClosedHoldsNothing
    BY DEF IndInv
  <1> QED
    BY <1>1, Invariance, PTL

(* The client's state has its types in every reachable state. *)
THEOREM ClientTypes == Spec => []TypeOK
  <1>1. IndInv => TypeOK
    BY DEF IndInv
  <1> QED
    BY <1>1, Invariance, PTL

-----------------------------------------------------------------------------
(* Manifest: induction, and concatenation of sequences *)

(* The least-number principle, for a set rather than for a predicate. *)
LEMMA Least ==
    ASSUME NEW T, T \subseteq Nat, T # {}
    PROVE  \E m \in T : \A k \in T : m <= k
  <1> DEFINE R == {ss \in Nat \X Nat : ss[1] < ss[2]}
  <1>1. IsWellFoundedOn(R, Nat)
    BY NatLessThanWellFounded, Zenon DEF OpToRel
  <1>2. \E x \in T : \A y \in T : ~(<<y, x>> \in R)
    <2> HIDE DEF R
    <2> QED
      BY <1>1, WFMin
  <1>3. PICK x \in T : \A y \in T : ~(<<y, x>> \in R)
    BY <1>2
  <1>4. ASSUME NEW y \in T
        PROVE  x <= y
    <2>1. <<y, x>> \in Nat \X Nat
      OBVIOUS
    <2>2. ~(y < x)
      BY <1>3, <2>1
    <2> QED
      BY <2>2
  <1> QED
    BY <1>4

(* Induction, for a set of numbers that holds 0 and the next of each. *)
LEMMA SetInduction ==
    ASSUME NEW T, T \subseteq Nat, 0 \in T, \A n \in T : n + 1 \in T
    PROVE  T = Nat
  <1> SUFFICES ASSUME Nat \ T # {}
               PROVE  FALSE
    OBVIOUS
  <1>1. PICK m \in Nat \ T : \A k \in Nat \ T : m <= k
    BY Least
  <1>2. m - 1 \in Nat /\ m = (m - 1) + 1
    BY <1>1
  <1>3. m - 1 \in T
    BY <1>1, <1>2
  <1> QED
    BY <1>2, <1>3

(* The function by which FlattenSeq concatenates the sequences, one by one. *)
Joins(f, ss) == f = [i \in 1 .. Len(ss) |-> IF i = 1 THEN ss[i] ELSE f[i - 1] \o ss[i]]

(* It exists, as the recursion reaches every place of the sequence. *)
LEMMA JoinsExist ==
    ASSUME NEW ss, Len(ss) \in Nat
    PROVE  \E f : Joins(f, ss)
  <1> DEFINE D(f, i) == IF i = 1 THEN ss[i] ELSE f[i - 1] \o ss[i]
             Has(k) == \E f : f = [i \in 1 .. k |-> D(f, i)]
             T == {k \in Nat : Has(k)}
  <1>1. Has(0)
    <2>1. [i \in 1 .. 0 |-> 0] = [i \in 1 .. 0 |-> D([j \in 1 .. 0 |-> 0], i)]
      OBVIOUS
    <2> QED
      BY <2>1
  <1>2. ASSUME NEW k \in Nat, Has(k)
        PROVE  Has(k + 1)
    <2>1. PICK f : f = [i \in 1 .. k |-> D(f, i)]
      BY <1>2
    <2> DEFINE g == [i \in 1 .. k + 1 |-> IF i <= k THEN f[i] ELSE D(f, k + 1)]
    <2>2. ASSUME NEW i \in 1 .. k + 1
          PROVE  g[i] = D(g, i)
      <3>1. CASE i = 1
        BY <2>1, <3>1
      <3>2. CASE i \in 2 .. k
        <4>1. i \in 1 .. k /\ i - 1 \in 1 .. k /\ i # 1 /\ i - 1 \in 1 .. k + 1
          BY <3>2
        <4>2. f[i] = f[i - 1] \o ss[i]
          BY <2>1, <4>1
        <4>3. g[i] = f[i] /\ g[i - 1] = f[i - 1]
          BY <4>1
        <4> QED
          BY <4>1, <4>2, <4>3
      <3>3. CASE i = k + 1 /\ i # 1
        <4>1. i - 1 \in 1 .. k /\ i - 1 \in 1 .. k + 1 /\ ~(i <= k)
          BY <3>3
        <4>2. g[i] = D(f, k + 1)
          BY <4>1
        <4>3. g[i - 1] = f[i - 1]
          BY <4>1
        <4> QED
          BY <3>3, <4>2, <4>3
      <3> QED
        BY <3>1, <3>2, <3>3
    <2>3. g = [i \in 1 .. k + 1 |-> D(g, i)]
      <3> HIDE DEF D
      <3> QED
        BY <2>2
    <2> HIDE DEF g, D
    <2> QED
      BY <2>3
  <1>3. T = Nat
    <2> HIDE DEF Has
    <2>1. T \subseteq Nat /\ 0 \in T /\ \A k \in T : k + 1 \in T
      BY <1>1, <1>2
    <2> HIDE DEF T
    <2> QED
      BY <2>1, SetInduction
  <1>4. Has(Len(ss))
    <2> HIDE DEF Has
    <2> QED
      BY <1>3
  <1> QED
    BY <1>4 DEF Joins

(* FlattenSeq returns the last value of that function. *)
LEMMA FlattenJoins ==
    ASSUME NEW ss, Len(ss) \in Nat \ {0}
    PROVE  \E f : Joins(f, ss) /\ FlattenSeq(ss) = f[Len(ss)]
  <1> DEFINE f == CHOOSE f : f = [i \in 1 .. Len(ss) |->
                                   IF i = 1 THEN ss[i] ELSE f[i - 1] \o ss[i]]
  <1>1. Joins(f, ss)
    BY JoinsExist, Zenon DEF Joins
  <1>2. FlattenSeq(ss) = f[Len(ss)]
    BY Zenon DEF FlattenSeq
  <1> QED
    BY <1>1, <1>2

(* Of no sequences FlattenSeq makes the empty one. *)
LEMMA FlattenEmpty == FlattenSeq(<<>>) = <<>>
  <1>1. Len(<<>>) = 0
    OBVIOUS
  <1> QED
    BY <1>1, Zenon DEF FlattenSeq

(* What FlattenSeq makes of sequences over a set is one. *)
LEMMA FlattenType ==
    ASSUME NEW S, NEW ss \in Seq(Seq(S))
    PROVE  FlattenSeq(ss) \in Seq(S)
  <1>1. CASE ss = <<>>
    BY <1>1, FlattenEmpty, EmptySeq
  <1>2. CASE ss # <<>>
    <2>1. Len(ss) \in Nat \ {0}
      BY <1>2, EmptySeq
    <2>2. PICK f : Joins(f, ss) /\ FlattenSeq(ss) = f[Len(ss)]
      BY <2>1, FlattenJoins
    <2> DEFINE T == {n \in Nat : n + 1 <= Len(ss) => f[n + 1] \in Seq(S)}
    <2>3. \A i \in 1 .. Len(ss) : f[i] = IF i = 1 THEN ss[i] ELSE f[i - 1] \o ss[i]
      BY <2>2 DEF Joins
    <2>4. \A i \in 1 .. Len(ss) : ss[i] \in Seq(S)
      BY ElementOfSeq
    <2>5. 0 \in T
      BY <2>1, <2>3, <2>4
    <2>6. ASSUME NEW n \in T
          PROVE  n + 1 \in T
      <3>1. n \in Nat /\ n + 1 \in Nat /\ (n + 1 <= Len(ss) => f[n + 1] \in Seq(S))
        OBVIOUS
      <3>2. ASSUME (n + 1) + 1 <= Len(ss)
            PROVE  f[(n + 1) + 1] \in Seq(S)
        <4> DEFINE i == (n + 1) + 1
        <4>1. i \in 1 .. Len(ss) /\ i # 1 /\ i - 1 = n + 1 /\ n + 1 <= Len(ss)
          BY <2>1, <3>1, <3>2
        <4>2. f[i] = f[n + 1] \o ss[i]
          <5> HIDE DEF i
          <5> QED
            BY <2>3, <4>1
        <4>3. ss[i] \in Seq(S) /\ f[n + 1] \in Seq(S)
          BY <2>4, <3>1, <4>1
        <4> HIDE DEF i
        <4>4. f[i] \in Seq(S)
          BY <4>2, <4>3, ConcatProperties
        <4> QED
          BY <4>4 DEF i
      <3> QED
        BY <3>1, <3>2
    <2>7. T = Nat
      <3> HIDE DEF T
      <3>1. T \subseteq Nat
        BY DEF T
      <3> QED
        BY <2>5, <2>6, <3>1, SetInduction
    <2>8. Len(ss) - 1 \in Nat /\ (Len(ss) - 1) + 1 = Len(ss)
      BY <2>1
    <2>9. (Len(ss) - 1) + 1 <= Len(ss) => f[(Len(ss) - 1) + 1] \in Seq(S)
      BY <2>7, <2>8
    <2> QED
      BY <2>1, <2>2, <2>8, <2>9
  <1> QED
    BY <1>1, <1>2

(* FlattenSeq takes one sequence more. *)
LEMMA FlattenAppend ==
    ASSUME NEW S, NEW ss \in Seq(Seq(S)), NEW s \in Seq(S)
    PROVE  FlattenSeq(Append(ss, s)) = FlattenSeq(ss) \o s
  <1> DEFINE tt == Append(ss, s)
             n == Len(ss)
  <1>1. /\ n \in Nat /\ Len(tt) = n + 1 /\ tt[n + 1] = s
        /\ \A i \in 1 .. n : tt[i] = ss[i]
    BY AppendProperties, LenProperties
  <1> HIDE DEF tt
  <1>2. PICK g : Joins(g, tt) /\ FlattenSeq(tt) = g[Len(tt)]
    BY <1>1, FlattenJoins
  <1>3. \A i \in 1 .. n + 1 : g[i] = IF i = 1 THEN tt[i] ELSE g[i - 1] \o tt[i]
    BY <1>1, <1>2 DEF Joins
  <1>4. CASE n = 0
    <2>1. ss = <<>>
      BY <1>4, EmptySeq
    <2>2. FlattenSeq(tt) = s
      BY <1>1, <1>2, <1>3, <1>4
    <2> QED
      BY <2>1, <2>2, FlattenEmpty, ConcatEmptySeq DEF tt
  <1>5. CASE n # 0
    <2>1. PICK f : Joins(f, ss) /\ FlattenSeq(ss) = f[n]
      BY <1>1, <1>5, FlattenJoins
    <2>2. \A i \in 1 .. n : f[i] = IF i = 1 THEN ss[i] ELSE f[i - 1] \o ss[i]
      BY <1>1, <2>1 DEF Joins
    <2> DEFINE T == {k \in Nat : k + 1 <= n => f[k + 1] = g[k + 1]}
    <2>3. 0 \in T
      BY <1>1, <1>3, <2>2
    <2>4. ASSUME NEW k \in T
          PROVE  k + 1 \in T
      <3>1. k \in Nat /\ k + 1 \in Nat /\ (k + 1 <= n => f[k + 1] = g[k + 1])
        OBVIOUS
      <3>2. ASSUME (k + 1) + 1 <= n
            PROVE  f[(k + 1) + 1] = g[(k + 1) + 1]
        <4> DEFINE i == (k + 1) + 1
        <4>1. i \in 1 .. n /\ i \in 1 .. n + 1 /\ i # 1 /\ i - 1 = k + 1 /\ k + 1 <= n
          BY <1>1, <3>1, <3>2
        <4> HIDE DEF i
        <4>2. f[i] = f[k + 1] \o ss[i]
          BY <2>2, <4>1
        <4>3. g[i] = g[k + 1] \o tt[i]
          BY <1>3, <4>1
        <4>4. f[i] = g[i]
          BY <1>1, <3>1, <4>1, <4>2, <4>3
        <4> QED
          BY <4>4 DEF i
      <3> QED
        BY <3>1, <3>2
    <2>5. T = Nat
      <3> HIDE DEF T
      <3>1. T \subseteq Nat
        BY DEF T
      <3> QED
        BY <2>3, <2>4, <3>1, SetInduction
    <2>6. n - 1 \in Nat /\ (n - 1) + 1 = n
      BY <1>1, <1>5
    <2>7. f[n] = g[n]
      <3>1. (n - 1) + 1 <= n => f[(n - 1) + 1] = g[(n - 1) + 1]
        BY <2>5, <2>6
      <3> QED
        BY <1>1, <2>6, <3>1
    <2>8. g[n + 1] = g[n] \o s
      <3>1. n + 1 \in 1 .. n + 1 /\ n + 1 # 1 /\ (n + 1) - 1 = n
        BY <1>1, <1>5
      <3> QED
        BY <1>1, <1>3, <3>1
    <2> QED
      BY <1>1, <1>2, <2>1, <2>7, <2>8 DEF tt
  <1> QED
    BY <1>1, <1>4, <1>5

-----------------------------------------------------------------------------
(* Manifest: filters *)

(* No filter that stands for a set of resources is the one that is not there. *)
LEMMA FiltersAreNotNil == \A f \in SUBSET Resources : f # Nil
  BY ManifestAssumption

(* A resource matches And when it matches each filter; And is nil for none. *)
LEMMA MatchAnd ==
    ASSUME NEW fs, \A f \in fs : f \in SUBSET Resources
    PROVE  /\ \A r \in Resources : Match(And(fs), r) <=> \A f \in fs : Match(f, r)
           /\ And(fs) = Nil <=> fs = {}
  <1>1. fs \ {Nil} = fs
    BY FiltersAreNotNil
  <1>2. CASE fs = {}
    BY <1>1, <1>2 DEF And, Match
  <1>3. CASE fs # {}
    <2>1. And(fs) = AllOf(fs)
      BY <1>1, <1>3 DEF And
    <2>2. AllOf(fs) \in SUBSET Resources
      BY DEF AllOf
    <2>3. \A r \in Resources : r \in AllOf(fs) <=> \A f \in fs : Match(f, r)
      BY DEF AllOf
    <2> QED
      BY <1>3, <2>1, <2>2, <2>3, FiltersAreNotNil DEF Match
  <1> QED
    BY <1>2, <1>3

(* A resource matches Or when it matches one of the filters. *)
LEMMA MatchOr ==
    ASSUME NEW fs, \A f \in fs : f \in SUBSET Resources, fs # {}
    PROVE  /\ \A r \in Resources : Match(Or(fs), r) <=> \E f \in fs : Match(f, r)
           /\ Or(fs) \in SUBSET Resources
  <1>1. fs \ {Nil} = fs
    BY FiltersAreNotNil
  <1>2. Or(fs) = AnyOf(fs)
    BY <1>1 DEF Or
  <1>3. AnyOf(fs) \in SUBSET Resources
    BY DEF AnyOf
  <1>4. \A r \in Resources : r \in AnyOf(fs) <=> \E f \in fs : Match(f, r)
    BY DEF AnyOf
  <1> QED
    BY <1>2, <1>3, <1>4, FiltersAreNotNil DEF Match

(* The filters that parseFilter makes, of each kind of option. *)
Included(o) == When(o.include # {}, {Or({PathRegexp(re) : re \in o.include})})
Excluded(o) == When(o.exclude # {}, {And({Not(PathRegexp(re)) : re \in o.exclude})})
Typed(o) == When(o.types # {}, {And({TypeRegexp(re) : re \in o.types})})
Timed(o) ==
    When(o.when # Nil, ParseWhen(o.when))
    \cup When(o.after # Nil, {After(ParseStart(o.after))})
    \cup When(o.before # Nil, {Before(ParseEnd(o.before))})

(* And makes a set of resources of one filter or more. *)
LEMMA AndIsAFilter ==
    ASSUME NEW fs, \A f \in fs : f \in SUBSET Resources, fs # {}
    PROVE  And(fs) \in SUBSET Resources
  <1>1. fs \ {Nil} = fs
    BY FiltersAreNotNil
  <1> QED
    BY <1>1 DEF And, AllOf

(* What the filter for the included paths lets through, and when there is one. *)
LEMMA IncludedFilters ==
    ASSUME NEW o
    PROVE  /\ \A f \in Included(o) : f \in SUBSET Resources
           /\ Included(o) = {} <=> o.include = {}
           /\ \A r \in Resources : (\A f \in Included(o) : Match(f, r))
              <=> (o.include # {} => \E re \in o.include : r.path \in re)
  <1> DEFINE fs == {PathRegexp(re) : re \in o.include}
  <1>1. \A f \in fs : f \in SUBSET Resources
    BY DEF PathRegexp
  <1>2. \A r \in Resources : (\E f \in fs : Match(f, r)) <=> \E re \in o.include : r.path \in re
    <2>1. ASSUME NEW re, NEW r \in Resources
          PROVE  Match(PathRegexp(re), r) <=> r.path \in re
      <3>1. PathRegexp(re) \in SUBSET Resources
        BY DEF PathRegexp
      <3> QED
        BY <3>1, FiltersAreNotNil DEF Match, PathRegexp
    <2> QED
      BY <2>1
  <1>3. CASE o.include = {}
    BY <1>3 DEF Included, When
  <1>4. CASE o.include # {}
    <2>1. Included(o) = {Or(fs)} /\ fs # {}
      BY <1>4 DEF Included, When
    <2> HIDE DEF fs
    <2> QED
      BY <1>1, <1>2, <1>4, <2>1, MatchOr
  <1> QED
    BY <1>3, <1>4

(* What the filter for the excluded paths lets through, and when there is one. *)
LEMMA ExcludedFilters ==
    ASSUME NEW o
    PROVE  /\ \A f \in Excluded(o) : f \in SUBSET Resources
           /\ Excluded(o) = {} <=> o.exclude = {}
           /\ \A r \in Resources : (\A f \in Excluded(o) : Match(f, r))
              <=> ~\E re \in o.exclude : r.path \in re
  <1> DEFINE fs == {Not(PathRegexp(re)) : re \in o.exclude}
  <1>1. \A f \in fs : f \in SUBSET Resources
    BY DEF Not
  <1>2. \A r \in Resources : (\A f \in fs : Match(f, r)) <=> ~\E re \in o.exclude : r.path \in re
    <2>1. ASSUME NEW re, NEW r \in Resources
          PROVE  Match(Not(PathRegexp(re)), r) <=> ~(r.path \in re)
      <3>1. PathRegexp(re) \in SUBSET Resources /\ Not(PathRegexp(re)) \in SUBSET Resources
        BY DEF PathRegexp, Not
      <3> QED
        BY <3>1, FiltersAreNotNil DEF Match, Not, PathRegexp
    <2> QED
      BY <2>1
  <1>3. CASE o.exclude = {}
    BY <1>3 DEF Excluded, When
  <1>4. CASE o.exclude # {}
    <2>1. Excluded(o) = {And(fs)} /\ fs # {}
      BY <1>4 DEF Excluded, When
    <2> HIDE DEF fs
    <2> QED
      BY <1>1, <1>2, <1>4, <2>1, MatchAnd, AndIsAFilter
  <1> QED
    BY <1>3, <1>4

(* What the filter for the types lets through, and when there is one. *)
LEMMA TypedFilters ==
    ASSUME NEW o
    PROVE  /\ \A f \in Typed(o) : f \in SUBSET Resources
           /\ Typed(o) = {} <=> o.types = {}
           /\ \A r \in Resources :
                (\A f \in Typed(o) : Match(f, r)) <=> \A re \in o.types : r.type \in re
  <1> DEFINE fs == {TypeRegexp(re) : re \in o.types}
  <1>1. \A f \in fs : f \in SUBSET Resources
    BY DEF TypeRegexp
  <1>2. \A r \in Resources : (\A f \in fs : Match(f, r)) <=> \A re \in o.types : r.type \in re
    BY FiltersAreNotNil DEF Match, TypeRegexp
  <1>3. CASE o.types = {}
    BY <1>3 DEF Typed, When
  <1>4. CASE o.types # {}
    <2>1. Typed(o) = {And(fs)} /\ fs # {}
      BY <1>4 DEF Typed, When
    <2> HIDE DEF fs
    <2> QED
      BY <1>1, <1>2, <1>4, <2>1, MatchAnd, AndIsAFilter
  <1> QED
    BY <1>3, <1>4

(* What the filters for the times let through, and when there are any. *)
LEMMA TimedFilters ==
    ASSUME NEW o
    PROVE  /\ \A f \in Timed(o) : f \in SUBSET Resources
           /\ Timed(o) = {} <=> o.after = Nil /\ o.before = Nil /\ o.when = Nil
           /\ \A r \in Resources : (\A f \in Timed(o) : Match(f, r)) <=>
              /\ o.after # Nil => r.time > ParseStart(o.after)
              /\ o.before # Nil => r.time < ParseEnd(o.before)
              /\ o.when # Nil => r.time > ParseStart(o.when) /\ r.time < ParseEnd(o.when)
  <1> DEFINE W == When(o.when # Nil, ParseWhen(o.when))
             A == When(o.after # Nil, {After(ParseStart(o.after))})
             B == When(o.before # Nil, {Before(ParseEnd(o.before))})
  <1>1. \A t : After(t) \in SUBSET Resources
               /\ \A r \in Resources : Match(After(t), r) <=> r.time > t
    BY FiltersAreNotNil DEF After, Match
  <1>2. \A t : Before(t) \in SUBSET Resources
               /\ \A r \in Resources : Match(Before(t), r) <=> r.time < t
    BY FiltersAreNotNil DEF Before, Match
  <1>3. /\ \A f \in W : f \in SUBSET Resources
        /\ W = {} <=> o.when = Nil
        /\ \A r \in Resources : (\A f \in W : Match(f, r)) <=>
           (o.when # Nil => r.time > ParseStart(o.when) /\ r.time < ParseEnd(o.when))
    BY <1>1, <1>2 DEF When, ParseWhen
  <1>4. /\ \A f \in A : f \in SUBSET Resources
        /\ A = {} <=> o.after = Nil
        /\ \A r \in Resources :
             (\A f \in A : Match(f, r)) <=> (o.after # Nil => r.time > ParseStart(o.after))
    BY <1>1 DEF When
  <1>5. /\ \A f \in B : f \in SUBSET Resources
        /\ B = {} <=> o.before = Nil
        /\ \A r \in Resources :
             (\A f \in B : Match(f, r)) <=> (o.before # Nil => r.time < ParseEnd(o.before))
    BY <1>2 DEF When
  <1>6. Timed(o) = W \cup A \cup B
    BY DEF Timed
  <1> HIDE DEF W, A, B
  <1> QED
    BY <1>3, <1>4, <1>5, <1>6

(* A moment in its day. *)
LEMMA InItsDay ==
    ASSUME NEW t \in Nat
    PROVE  /\ Day(t) \in Nat
           /\ Day(t) * DayLength <= t /\ t < Day(t) * DayLength + DayLength
           /\ BeginningOfDay(t) = Day(t) * DayLength
  BY ManifestAssumption DEF Day, BeginningOfDay

(* Moments and the days that they are in come in the same order. *)
LEMMA DaysInOrder ==
    ASSUME NEW t \in Nat, NEW g \in Nat
    PROVE  /\ t < Day(g) * DayLength <=> Day(t) < Day(g)
           /\ t >= Day(g) * DayLength + DayLength <=> Day(t) > Day(g)
  <1> DEFINE a == Day(t)
             b == Day(g)
  <1>1. /\ a \in Nat /\ b \in Nat /\ DayLength \in Nat \ {0}
        /\ a * DayLength <= t /\ t < a * DayLength + DayLength
    BY InItsDay, ManifestAssumption
  <1> HIDE DEF a, b
  <1>2. ASSUME NEW x \in Nat, NEW y \in Nat, x < y
        PROVE  x * DayLength + DayLength <= y * DayLength
    BY <1>1, <1>2
  <1>3. a * DayLength \in Nat /\ b * DayLength \in Nat
    BY <1>1
  <1>4. CASE a < b
    <2>1. a * DayLength + DayLength <= b * DayLength
      BY <1>1, <1>2, <1>4
    <2> QED
      BY <1>1, <1>3, <1>4, <2>1 DEF a, b
  <1>5. CASE a > b
    <2>1. b * DayLength + DayLength <= a * DayLength
      BY <1>1, <1>2, <1>5
    <2> QED
      BY <1>1, <1>3, <1>5, <2>1 DEF a, b
  <1>6. CASE a = b
    BY <1>1, <1>3, <1>6 DEF a, b
  <1> QED
    BY <1>1, <1>4, <1>5, <1>6

(* What the bounds that are parsed let through, in days. *)
LEMMA ParsedTimes ==
    ASSUME NEW given \in Times, NEW t \in Nat
    PROVE  /\ t > ParseStart(given) <=> IsAfter(given, t)
           /\ t < ParseEnd(given) <=> IsBefore(given, t)
           /\ t > ParseStart(given) /\ t < ParseEnd(given) <=> IsWithin(given, t)
  <1> DEFINE g == given.time
             b == Day(g) * DayLength
  <1>1. /\ g \in Nat /\ given.kind \in {"name", "date", "moment"}
        /\ DayLength \in Nat \ {0}
    BY ManifestAssumption DEF Times
  <1>2. /\ Day(t) \in Nat /\ Day(g) \in Nat
        /\ BeginningOfDay(g) = b /\ b \in Nat
        /\ EndOfDay(g) = b + DayLength - 1
    <2>1. Day(t) \in Nat /\ Day(g) \in Nat /\ BeginningOfDay(g) = b
      BY <1>1, InItsDay
    <2> QED
      BY <1>1, <2>1 DEF EndOfDay
  <1>3. /\ t < b <=> Day(t) < Day(g)
        /\ t >= b + DayLength <=> Day(t) > Day(g)
    BY <1>1, DaysInOrder
  <1>4. /\ Day(t) = Day(g) => (OpensDay(t) <=> t = b)
        /\ Day(t) = Day(g) => (ClosesDay(t) <=> t = b + DayLength - 1)
    <2>1. Day(t) = Day(g) => (Day(t) + 1) * DayLength = b + DayLength
      BY <1>1, <1>2
    <2> QED
      BY <1>1, <1>2, <2>1 DEF OpensDay, ClosesDay
  <1>5. CASE given.kind = "moment"
    BY <1>1, <1>5 DEF ParseStart, ParseEnd, NowParse, IsAfter, IsBefore, IsWithin
  <1>6. CASE given.kind # "moment"
    <2>1. ParseStart(given) = b
      BY <1>1, <1>2, <1>6 DEF ParseStart, NowParse
    <2>2. ParseEnd(given) = IF given.kind = "name" THEN b + DayLength - 1 ELSE b
      BY <1>1, <1>2, <1>6 DEF ParseEnd, NowParse
    <2> HIDE DEF b
    <2>3. t > b <=> IsAfter(given, t)
      BY <1>1, <1>2, <1>3, <1>4, <1>6 DEF IsAfter
    <2>4. CASE given.kind = "name"
      BY <1>1, <1>2, <1>3, <1>4, <2>1, <2>2, <2>3, <2>4 DEF IsBefore, IsWithin
    <2>5. CASE given.kind = "date"
      BY <1>1, <1>2, <1>3, <2>1, <2>2, <2>3, <2>5 DEF IsBefore, IsWithin
    <2> QED
      BY <1>1, <1>6, <2>4, <2>5
  <1> QED
    BY <1>5, <1>6

(* What is to be printed of a manifest says under what condition it has a line
   for the statistics of what matches. *)
Filtering ==
    \/ options.include \cup options.exclude \cup options.types # {}
    \/ {options.after, options.before, options.when} # {Nil}

(* The filter that parseFilter makes of the options selects the resources that
   the options, one by one, select; and it is nil if none is given. *)
THEOREM FilterSelects ==
    ASSUME options \in OptionSets
    PROVE  /\ \A r \in Resources : Match(Filter, r) <=> Selected(r)
           /\ Filter # Nil <=> Filtering
  <1> DEFINE o == options
             fs == Included(o) \cup Excluded(o) \cup Typed(o) \cup Timed(o)
  <1>1. Filter = And(fs)
    <2>1. Filter = ParseFilter(o)
      BY DEF Filter
    <2> HIDE DEF o
    <2> DEFINE W == When(o.when # Nil, ParseWhen(o.when))
               A == When(o.after # Nil, {After(ParseStart(o.after))})
               B == When(o.before # Nil, {Before(ParseEnd(o.before))})
    <2>2. ParseFilter(o) = And(UNION {Included(o), Excluded(o), Typed(o), W, A, B})
      BY Zenon DEF ParseFilter, Included, Excluded, Typed
    <2>3. Timed(o) = W \cup A \cup B
      BY Zenon DEF Timed
    <2> HIDE DEF W, A, B
    <2>4. UNION {Included(o), Excluded(o), Typed(o), W, A, B} = fs
      BY <2>3
    <2> HIDE DEF fs
    <2> QED
      BY <2>1, <2>2, <2>4
  <1>2. Filtering <=> ~(/\ o.include = {} /\ o.exclude = {} /\ o.types = {}
                        /\ o.after = Nil /\ o.before = Nil /\ o.when = Nil)
    BY DEF Filtering
  <1>3. \A r : Selected(r) <=>
          /\ o.include # {} => \E re \in o.include : r.path \in re
          /\ ~\E re \in o.exclude : r.path \in re
          /\ \A re \in o.types : r.type \in re
          /\ o.after # Nil => IsAfter(o.after, r.time)
          /\ o.before # Nil => IsBefore(o.before, r.time)
          /\ o.when # Nil => IsWithin(o.when, r.time)
    BY Zenon DEF Selected
  <1>7. {o.when, o.after, o.before} \subseteq Times \cup {Nil}
    BY ManifestAssumption
  <1> HIDE DEF o
  <1>4. \A f \in fs : f \in SUBSET Resources
    BY IncludedFilters, ExcludedFilters, TypedFilters, TimedFilters
  <1>5. fs = {} <=> /\ o.include = {} /\ o.exclude = {} /\ o.types = {}
                    /\ o.after = Nil /\ o.before = Nil /\ o.when = Nil
    BY IncludedFilters, ExcludedFilters, TypedFilters, TimedFilters
  <1>6. ASSUME NEW r \in Resources
        PROVE  (\A f \in fs : Match(f, r)) <=> Selected(r)
    <2>1. (\A f \in fs : Match(f, r)) <=>
          /\ \A f \in Included(o) : Match(f, r)
          /\ \A f \in Excluded(o) : Match(f, r)
          /\ \A f \in Typed(o) : Match(f, r)
          /\ \A f \in Timed(o) : Match(f, r)
      BY Zenon
    <2> HIDE DEF fs
    <2>2. r.time \in Nat
      BY ManifestAssumption
    <2>3. /\ o.after # Nil => (r.time > ParseStart(o.after) <=> IsAfter(o.after, r.time))
          /\ o.before # Nil => (r.time < ParseEnd(o.before) <=> IsBefore(o.before, r.time))
          /\ o.when # Nil => (r.time > ParseStart(o.when) /\ r.time < ParseEnd(o.when)
                              <=> IsWithin(o.when, r.time))
      BY <1>7, <2>2, ParsedTimes
    <2>4. (\A f \in Timed(o) : Match(f, r)) <=>
          /\ o.after # Nil => IsAfter(o.after, r.time)
          /\ o.before # Nil => IsBefore(o.before, r.time)
          /\ o.when # Nil => IsWithin(o.when, r.time)
      BY <2>3, TimedFilters
    <2> QED
      BY <1>3, <2>1, <2>4, IncludedFilters, ExcludedFilters, TypedFilters
  <1> HIDE DEF fs
  <1> QED
    BY <1>1, <1>2, <1>4, <1>5, <1>6, MatchAnd

-----------------------------------------------------------------------------
(* Manifest: statistics *)

(* The sizes that the statistics add up, for the first resources. *)
SizesOf(size, rs) ==
    size = [n \in 0 .. Len(rs) |-> IF n = 0 THEN 0 ELSE size[n - 1] + rs[n].size]
TimesOf(rs) == {rs[i].time : i \in DOMAIN rs}

(* They exist, as the recursion reaches every place of the sequence. *)
LEMMA SizesExist ==
    ASSUME NEW rs, Len(rs) \in Nat
    PROVE  \E size : SizesOf(size, rs)
  <1> DEFINE D(f, i) == IF i = 0 THEN 0 ELSE f[i - 1] + rs[i].size
             Has(k) == \E f : f = [i \in 0 .. k |-> D(f, i)]
             T == {k \in Nat : Has(k)}
  <1>1. Has(0)
    <2> DEFINE f == [i \in 0 .. 0 |-> 0]
    <2>1. f = [i \in 0 .. 0 |-> D(f, i)]
      OBVIOUS
    <2> QED
      BY <2>1
  <1>2. ASSUME NEW k \in Nat, Has(k)
        PROVE  Has(k + 1)
    <2>1. PICK f : f = [i \in 0 .. k |-> D(f, i)]
      BY <1>2
    <2> DEFINE g == [i \in 0 .. k + 1 |-> IF i <= k THEN f[i] ELSE D(f, k + 1)]
    <2>2. ASSUME NEW i \in 0 .. k + 1
          PROVE  g[i] = D(g, i)
      <3>1. CASE i = 0
        BY <2>1, <3>1
      <3>2. CASE i \in 1 .. k
        <4>1. i \in 0 .. k /\ i - 1 \in 0 .. k /\ i # 0 /\ i - 1 \in 0 .. k + 1
          BY <3>2
        <4>2. f[i] = f[i - 1] + rs[i].size
          BY <2>1, <4>1
        <4>3. g[i] = f[i] /\ g[i - 1] = f[i - 1]
          BY <4>1
        <4> QED
          BY <4>1, <4>2, <4>3
      <3>3. CASE i = k + 1
        <4>1. i - 1 \in 0 .. k /\ i - 1 \in 0 .. k + 1 /\ ~(i <= k) /\ i # 0
          BY <3>3
        <4>2. g[i] = D(f, k + 1)
          BY <4>1
        <4>3. g[i - 1] = f[i - 1]
          BY <4>1
        <4> QED
          BY <3>3, <4>1, <4>2, <4>3
      <3> QED
        BY <3>1, <3>2, <3>3
    <2>3. g = [i \in 0 .. k + 1 |-> D(g, i)]
      <3> HIDE DEF D
      <3> QED
        BY <2>2
    <2> HIDE DEF g, D
    <2> QED
      BY <2>3
  <1>3. T = Nat
    <2> HIDE DEF Has
    <2>1. T \subseteq Nat /\ 0 \in T /\ \A k \in T : k + 1 \in T
      BY <1>1, <1>2
    <2> HIDE DEF T
    <2> QED
      BY <2>1, SetInduction
  <1>4. Has(Len(rs))
    <2> HIDE DEF Has
    <2> QED
      BY <1>3
  <1> QED
    BY <1>4 DEF SizesOf

(* StatsOf, with the function that its definition chooses. *)
LEMMA StatsAsDefined ==
    ASSUME NEW rs, Len(rs) \in Nat, rs # <<>>
    PROVE  \E size : SizesOf(size, rs) /\ StatsOf(rs) =
             [entries |-> Len(rs), size |-> size[Len(rs)],
              first |-> Min(TimesOf(rs)), last |-> Max(TimesOf(rs))]
  <1> DEFINE size == CHOOSE size : size =
               [n \in 0 .. Len(rs) |-> IF n = 0 THEN 0 ELSE size[n - 1] + rs[n].size]
  <1>1. SizesOf(size, rs)
    BY SizesExist, Zenon DEF SizesOf
  <1>2. StatsOf(rs) = [entries |-> Len(rs), size |-> size[Len(rs)],
                       first |-> Min(TimesOf(rs)), last |-> Max(TimesOf(rs))]
    BY Zenon DEF StatsOf, TimesOf
  <1> QED
    BY <1>1, <1>2

(* Every set of times has a least one, which Min is. *)
LEMMA MinProperties ==
    ASSUME NEW T, T \subseteq Nat, T # {}
    PROVE  Min(T) \in T /\ \A k \in T : Min(T) <= k
  BY Least DEF Min

(* Max is the greatest time, if there is one. *)
LEMMA MaxProperties ==
    ASSUME NEW T, \E m \in T : \A k \in T : m >= k
    PROVE  Max(T) \in T /\ \A k \in T : Max(T) >= k
  BY DEF Max

(* The resources of a sequence have a first and a last time, and a size. *)
LEMMA StatsProperties ==
    ASSUME NEW rs \in Seq(Resources), rs # <<>>
    PROVE  /\ TimesOf(rs) \subseteq Nat /\ TimesOf(rs) # {}
           /\ \E m \in TimesOf(rs) : \A k \in TimesOf(rs) : m >= k
           /\ \A size : SizesOf(size, rs) => \A n \in 0 .. Len(rs) : size[n] \in Nat
  <1>1. Len(rs) \in Nat \ {0} /\ DOMAIN rs = 1 .. Len(rs)
    BY EmptySeq, LenProperties
  <1>2. \A i \in 1 .. Len(rs) : rs[i].time \in Nat /\ rs[i].size \in Nat
    <2>1. \A i \in 1 .. Len(rs) : rs[i] \in Resources
      BY ElementOfSeq
    <2> QED
      BY <2>1, ManifestAssumption
  <1>3. TimesOf(rs) \subseteq Nat /\ TimesOf(rs) # {}
    <2>1. 1 \in 1 .. Len(rs)
      BY <1>1
    <2> QED
      BY <1>1, <1>2, <2>1 DEF TimesOf
  <1>4. \E m \in TimesOf(rs) : \A k \in TimesOf(rs) : m >= k
    <2> DEFINE Latest(n) == \E m \in 1 .. n : \A k \in 1 .. n : rs[m].time >= rs[k].time
               T == {n \in Nat : n + 1 <= Len(rs) => Latest(n + 1)}
    <2>1. 0 \in T
      <3>1. 0 + 1 = 1 /\ 1 \in 1 .. 1 /\ \A k \in 1 .. 1 : k = 1
        OBVIOUS
      <3>2. rs[1].time >= rs[1].time
        BY <1>1, <1>2
      <3>3. Latest(1)
        BY <3>1, <3>2
      <3> HIDE DEF Latest
      <3> QED
        BY <3>1, <3>3
    <2>2. ASSUME NEW n \in T
          PROVE  n + 1 \in T
      <3>1. n \in Nat /\ n + 1 \in Nat /\ (n + 1 <= Len(rs) => Latest(n + 1))
        OBVIOUS
      <3>2. ASSUME (n + 1) + 1 <= Len(rs)
            PROVE  Latest((n + 1) + 1)
        <4>1. PICK m \in 1 .. n + 1 : \A k \in 1 .. n + 1 : rs[m].time >= rs[k].time
          BY <1>1, <3>1, <3>2
        <4> DEFINE j == (n + 1) + 1
        <4>2. /\ j \in 1 .. Len(rs) /\ m \in 1 .. Len(rs) /\ j \in 1 .. j /\ m \in 1 .. j
              /\ \A k \in 1 .. j : k \in 1 .. Len(rs) /\ (k = j \/ k \in 1 .. n + 1)
          BY <1>1, <3>1, <3>2
        <4> HIDE DEF j
        <4>3. \E x \in 1 .. j : \A k \in 1 .. j : rs[x].time >= rs[k].time
          <5>1. CASE rs[m].time >= rs[j].time
            BY <4>1, <4>2, <5>1
          <5>2. CASE ~(rs[m].time >= rs[j].time)
            <6>1. ASSUME NEW k \in 1 .. j
                  PROVE  rs[j].time >= rs[k].time
              <7>1. rs[j].time \in Nat /\ rs[m].time \in Nat /\ rs[k].time \in Nat
                BY <1>2, <4>2
              <7>2. k = j \/ rs[m].time >= rs[k].time
                BY <4>1, <4>2
              <7> QED
                BY <5>2, <7>1, <7>2
            <6> QED
              BY <4>2, <6>1
          <5> QED
            BY <5>1, <5>2
        <4> QED
          BY <4>3 DEF j
      <3> HIDE DEF Latest
      <3> QED
        BY <3>1, <3>2
    <2>3. T = Nat
      <3> HIDE DEF T
      <3>1. T \subseteq Nat
        BY DEF T
      <3> QED
        BY <2>1, <2>2, <3>1, SetInduction
    <2>4. Len(rs) - 1 \in Nat /\ (Len(rs) - 1) + 1 = Len(rs)
      BY <1>1
    <2>5. Latest(Len(rs))
      <3>1. (Len(rs) - 1) + 1 <= Len(rs) => Latest((Len(rs) - 1) + 1)
        <4> HIDE DEF Latest
        <4> QED
          BY <2>3, <2>4
      <3> HIDE DEF Latest
      <3> QED
        BY <1>1, <2>4, <3>1
    <2> QED
      BY <1>1, <2>5 DEF TimesOf
  <1>5. ASSUME NEW size, SizesOf(size, rs)
        PROVE  \A n \in 0 .. Len(rs) : size[n] \in Nat
    <2> DEFINE T == {n \in Nat : n <= Len(rs) => size[n] \in Nat}
    <2>1. \A n \in 0 .. Len(rs) :
            size[n] = IF n = 0 THEN 0 ELSE size[n - 1] + rs[n].size
      BY <1>5 DEF SizesOf
    <2>2. 0 \in T
      BY <1>1, <2>1
    <2>3. ASSUME NEW n \in T
          PROVE  n + 1 \in T
      <3>1. n \in Nat /\ n + 1 \in Nat /\ (n <= Len(rs) => size[n] \in Nat)
        OBVIOUS
      <3>2. ASSUME n + 1 <= Len(rs)
            PROVE  size[n + 1] \in Nat
        <4>1. n + 1 \in 0 .. Len(rs) /\ n + 1 \in 1 .. Len(rs) /\ n + 1 # 0
              /\ (n + 1) - 1 = n /\ n <= Len(rs)
          BY <1>1, <3>1, <3>2
        <4>2. size[n + 1] = size[n] + rs[n + 1].size
          BY <2>1, <4>1
        <4> QED
          BY <1>2, <3>1, <4>1, <4>2
      <3> QED
        BY <3>1, <3>2
    <2>4. T = Nat
      <3> HIDE DEF T
      <3>1. T \subseteq Nat
        BY DEF T
      <3> QED
        BY <2>2, <2>3, <3>1, SetInduction
    <2> QED
      BY <1>1, <2>4
  <1> QED
    BY <1>3, <1>4, <1>5

(* No resources have the statistics that a cursor begins with. *)
LEMMA StatsOfNothing == StatsOf(<<>>) = NoStats /\ NoStats \in StatsSet
  BY DEF StatsOf, NoStats, StatsSet

(* Statistics are counts, sizes and times. *)
LEMMA StatsType ==
    ASSUME NEW rs \in Seq(Resources)
    PROVE  StatsOf(rs) \in StatsSet /\ StatsOf(rs).entries = Len(rs)
  <1>1. CASE rs = <<>>
    <2>1. Len(rs) = 0
      BY <1>1
    <2> QED
      BY <1>1, <2>1, StatsOfNothing DEF NoStats
  <1>2. CASE rs # <<>>
    <2>1. Len(rs) \in Nat
      BY LenProperties
    <2>2. PICK size : SizesOf(size, rs) /\ StatsOf(rs) =
            [entries |-> Len(rs), size |-> size[Len(rs)],
             first |-> Min(TimesOf(rs)), last |-> Max(TimesOf(rs))]
      BY <1>2, <2>1, StatsAsDefined
    <2>3. size[Len(rs)] \in Nat
      BY <1>2, <2>1, <2>2, StatsProperties
    <2>4. Min(TimesOf(rs)) \in Nat /\ Max(TimesOf(rs)) \in Nat
      BY <1>2, StatsProperties, MinProperties, MaxProperties
    <2> QED
      BY <2>1, <2>2, <2>3, <2>4 DEF StatsSet
  <1> QED
    BY <1>1, <1>2

(* The statistics of one resource more are what Stats.Add makes of those of the
   others. *)
LEMMA StatsAppend ==
    ASSUME NEW rs \in Seq(Resources), NEW r \in Resources
    PROVE  StatsOf(Append(rs, r)) = Add(StatsOf(rs), r)
  <1> DEFINE tt == Append(rs, r)
             n == Len(rs)
  <1>1. /\ n \in Nat /\ Len(tt) = n + 1 /\ tt[n + 1] = r /\ tt # <<>> /\ tt \in Seq(Resources)
        /\ \A i \in 1 .. n : tt[i] = rs[i]
        /\ DOMAIN rs = 1 .. n /\ DOMAIN tt = 1 .. n + 1
    BY AppendProperties, LenProperties
  <1>2. r.time \in Nat /\ r.size \in Nat
    BY ManifestAssumption
  <1> HIDE DEF tt
  <1>3. PICK g : SizesOf(g, tt) /\ StatsOf(tt) =
          [entries |-> n + 1, size |-> g[n + 1],
           first |-> Min(TimesOf(tt)), last |-> Max(TimesOf(tt))]
    BY <1>1, StatsAsDefined
  <1>4. \A i \in 0 .. n + 1 : g[i] = IF i = 0 THEN 0 ELSE g[i - 1] + tt[i].size
    BY <1>1, <1>3 DEF SizesOf
  <1>5. TimesOf(tt) = TimesOf(rs) \cup {r.time}
    BY <1>1 DEF TimesOf
  <1>6. g[n + 1] = g[n] + r.size
    <2>1. n + 1 \in 0 .. n + 1 /\ n + 1 # 0 /\ (n + 1) - 1 = n
      BY <1>1
    <2> QED
      BY <1>1, <1>4, <2>1
  <1>7. CASE rs = <<>>
    <2>1. n = 0 /\ TimesOf(rs) = {}
      BY <1>1, <1>7 DEF TimesOf
    <2>2. TimesOf(tt) = {r.time}
      BY <1>5, <2>1
    <2>3. Min(TimesOf(tt)) = r.time /\ Max(TimesOf(tt)) = r.time
      BY <1>2, <2>2 DEF Min, Max
    <2>4. g[0] = 0
      BY <1>1, <1>4
    <2>5. StatsOf(tt) = [entries |-> 1, size |-> r.size, first |-> r.time, last |-> r.time]
      BY <1>2, <1>3, <1>6, <2>1, <2>3, <2>4
    <2>6. Add(NoStats, r) = [entries |-> 1, size |-> r.size, first |-> r.time, last |-> r.time]
      BY <1>2 DEF Add, NoStats
    <2> QED
      BY <1>7, <2>5, <2>6, StatsOfNothing DEF tt
  <1>8. CASE rs # <<>>
    <2>1. n # 0
      BY <1>8, EmptySeq
    <2>2. PICK f : SizesOf(f, rs) /\ StatsOf(rs) =
            [entries |-> n, size |-> f[n],
             first |-> Min(TimesOf(rs)), last |-> Max(TimesOf(rs))]
      BY <1>1, <1>8, StatsAsDefined
    <2>3. \A i \in 0 .. n : f[i] = IF i = 0 THEN 0 ELSE f[i - 1] + rs[i].size
      BY <1>1, <2>2 DEF SizesOf
    <2>4. f[n] = g[n]
      <3> DEFINE T == {k \in Nat : k <= n => f[k] = g[k]}
      <3>1. 0 \in T
        BY <1>1, <1>4, <2>3
      <3>2. ASSUME NEW k \in T
            PROVE  k + 1 \in T
        <4>1. k \in Nat /\ k + 1 \in Nat /\ (k <= n => f[k] = g[k])
          OBVIOUS
        <4>2. ASSUME k + 1 <= n
              PROVE  f[k + 1] = g[k + 1]
          <5>1. /\ k + 1 \in 0 .. n /\ k + 1 \in 0 .. n + 1 /\ k + 1 # 0 /\ k + 1 \in 1 .. n
                /\ (k + 1) - 1 = k /\ k <= n
            BY <1>1, <4>1, <4>2
          <5>2. f[k + 1] = f[k] + rs[k + 1].size
            BY <2>3, <5>1
          <5>3. g[k + 1] = g[k] + tt[k + 1].size
            BY <1>4, <5>1
          <5> QED
            BY <1>1, <4>1, <5>1, <5>2, <5>3
        <4> QED
          BY <4>1, <4>2
      <3>3. T = Nat
        <4> HIDE DEF T
        <4>1. T \subseteq Nat
          BY DEF T
        <4> QED
          BY <3>1, <3>2, <4>1, SetInduction
      <3> QED
        BY <1>1, <3>3
    <2> DEFINE T == TimesOf(rs)
               t == r.time
    <2>5. T \subseteq Nat /\ T # {} /\ \E m \in T : \A k \in T : m >= k
      BY <1>8, StatsProperties
    <2> HIDE DEF T
    <2>6. Min(T \cup {t}) = IF t < Min(T) THEN t ELSE Min(T)
      <3>1. Min(T) \in T /\ \A k \in T : Min(T) <= k
        BY <2>5, MinProperties
      <3>2. Min(T \cup {t}) \in T \cup {t} /\ \A k \in T \cup {t} : Min(T \cup {t}) <= k
        <4>1. T \cup {t} \subseteq Nat /\ T \cup {t} # {}
          BY <1>2, <2>5
        <4> QED
          BY <4>1, MinProperties
      <3> DEFINE a == Min(T)
                 b == Min(T \cup {t})
      <3>3. a \in Nat /\ b \in Nat /\ t \in Nat /\ b <= a /\ b <= t
        BY <1>2, <2>5, <3>1, <3>2
      <3>4. b = t \/ a <= b
        BY <3>1, <3>2
      <3> HIDE DEF a, b
      <3>5. b = IF t < a THEN t ELSE a
        BY <3>3, <3>4
      <3> QED
        BY <3>5 DEF a, b
    <2>7. Max(T \cup {t}) = IF t > Max(T) THEN t ELSE Max(T)
      <3>1. Max(T) \in T /\ \A k \in T : Max(T) >= k
        BY <2>5, MaxProperties
      <3> DEFINE U == T \cup {t}
                 a == Max(T)
                 b == Max(U)
      <3>2. a \in Nat /\ t \in Nat /\ \A k \in U : k \in Nat
        BY <1>2, <2>5, <3>1
      <3> HIDE DEF a
      <3>3. \E m \in U : \A k \in U : m >= k
        <4>1. CASE t > a
          <5>1. \A k \in U : t >= k
            BY <3>1, <3>2, <4>1 DEF a
          <5> QED
            BY <5>1
        <4>2. CASE ~(t > a)
          <5>1. \A k \in U : a >= k
            BY <3>1, <3>2, <4>2 DEF a
          <5> QED
            BY <3>1, <5>1 DEF a
        <4> QED
          BY <4>1, <4>2
      <3>4. b \in U /\ \A k \in U : b >= k
        <4> HIDE DEF U
        <4> QED
          BY <3>3, MaxProperties
      <3>5. a \in T
        BY <3>1 DEF a
      <3>6. b \in Nat /\ b >= a /\ b >= t /\ (b = t \/ a >= b)
        BY <3>1, <3>2, <3>4, <3>5 DEF a
      <3> HIDE DEF b, U
      <3>7. b = IF t > a THEN t ELSE a
        BY <3>2, <3>6
      <3> QED
        BY <3>7 DEF a, b, U
    <2>8. StatsOf(tt) = [entries |-> n + 1, size |-> f[n] + r.size,
                         first |-> IF t < Min(T) THEN t ELSE Min(T),
                         last |-> IF t > Max(T) THEN t ELSE Max(T)]
      BY <1>3, <1>5, <1>6, <2>4, <2>6, <2>7 DEF T
    <2>9. Add(StatsOf(rs), r) = [entries |-> n + 1, size |-> f[n] + r.size,
                                 first |-> IF t < Min(T) THEN t ELSE Min(T),
                                 last |-> IF t > Max(T) THEN t ELSE Max(T)]
      BY <2>1, <2>2 DEF T, Add
    <2> QED
      BY <2>8, <2>9 DEF tt
  <1> QED
    BY <1>7, <1>8

(* A function on 1 .. n is a sequence of length n. *)
LEMMA FunctionIsSeq ==
    ASSUME NEW S, NEW n \in Nat, NEW f \in [1 .. n -> S]
    PROVE  f \in Seq(S) /\ Len(f) = n
  <1>1. f \in Seq(S)
    BY SeqDef
  <1>2. DOMAIN f = 1 .. Len(f) /\ Len(f) \in Nat /\ DOMAIN f = 1 .. n
    BY <1>1, LenProperties
  <1> QED
    BY <1>1, <1>2

-----------------------------------------------------------------------------
(* Manifest: what is decoded, selected and listed *)

Chosen(r) == IF Selected(r) THEN <<r>> ELSE <<>>
Parts(rs) == [i \in DOMAIN rs |-> Chosen(rs[i])]

(* Each resource contributes a sequence, and Matching concatenates them. *)
LEMMA ChoicesType ==
    ASSUME NEW rs \in Seq(Resources)
    PROVE  /\ Parts(rs) \in Seq(Seq(Resources)) /\ Len(Parts(rs)) = Len(rs)
           /\ Matching(rs) = FlattenSeq(Parts(rs))
  <1>1. Len(rs) \in Nat /\ DOMAIN rs = 1 .. Len(rs)
    BY LenProperties
  <1>2. \A r \in Resources : Chosen(r) \in Seq(Resources)
    BY DEF Chosen
  <1>3. \A i \in 1 .. Len(rs) : rs[i] \in Resources
    BY ElementOfSeq
  <1>4. Parts(rs) \in [1 .. Len(rs) -> Seq(Resources)]
    BY <1>1, <1>2, <1>3 DEF Parts
  <1>5. Matching(rs) = FlattenSeq(Parts(rs))
    BY Zenon DEF Matching, Parts, Chosen
  <1> QED
    BY <1>1, <1>4, <1>5, FunctionIsSeq

(* What is selected are resources. *)
LEMMA MatchingType ==
    ASSUME NEW rs \in Seq(Resources)
    PROVE  Matching(rs) \in Seq(Resources)
  BY ChoicesType, FlattenType

(* Of no resources none is selected. *)
LEMMA MatchingEmpty == Matching(<<>>) = <<>>
  <1>1. Parts(<<>>) = <<>>
    <2>1. <<>> \in Seq(Resources)
      BY EmptySeq
    <2>2. Len(Parts(<<>>)) = 0 /\ Parts(<<>>) \in Seq(Seq(Resources))
      BY <2>1, ChoicesType, EmptySeq
    <2> QED
      BY <2>2, EmptySeq
  <1> QED
    BY <1>1, ChoicesType, FlattenEmpty, EmptySeq

(* One resource more is selected, if it is, at the end. *)
LEMMA MatchingAppend ==
    ASSUME NEW rs \in Seq(Resources), NEW r \in Resources
    PROVE  Matching(Append(rs, r)) = Matching(rs) \o Chosen(r)
  <1> DEFINE tt == Append(rs, r)
             n == Len(rs)
  <1>1. /\ n \in Nat /\ Len(tt) = n + 1 /\ tt[n + 1] = r /\ tt \in Seq(Resources)
        /\ \A i \in 1 .. n : tt[i] = rs[i]
        /\ DOMAIN rs = 1 .. n /\ DOMAIN tt = 1 .. n + 1
    BY AppendProperties, LenProperties
  <1> HIDE DEF tt
  <1>2. Chosen(r) \in Seq(Resources)
    BY DEF Chosen
  <1>3. /\ Parts(rs) \in Seq(Seq(Resources)) /\ Len(Parts(rs)) = n
        /\ Parts(tt) \in Seq(Seq(Resources)) /\ Len(Parts(tt)) = n + 1
    BY <1>1, ChoicesType
  <1>4. Parts(tt) = Append(Parts(rs), Chosen(r))
    <2> DEFINE cc == Append(Parts(rs), Chosen(r))
    <2>1. /\ cc \in Seq(Seq(Resources)) /\ Len(cc) = n + 1
          /\ cc[n + 1] = Chosen(r)
          /\ \A i \in 1 .. n : cc[i] = Parts(rs)[i]
      BY <1>2, <1>3, AppendProperties
    <2>2. ASSUME NEW i \in 1 .. n + 1
          PROVE  Parts(tt)[i] = cc[i]
      <3>1. Parts(tt)[i] = Chosen(tt[i])
        BY <1>1 DEF Parts
      <3>2. CASE i = n + 1
        BY <1>1, <2>1, <3>1, <3>2
      <3>3. CASE i \in 1 .. n
        <4>1. Parts(rs)[i] = Chosen(rs[i])
          BY <1>1, <3>3 DEF Parts
        <4> HIDE DEF cc
        <4> QED
          BY <1>1, <2>1, <3>1, <3>3, <4>1
      <3>4. i = n + 1 \/ i \in 1 .. n
        BY <1>1
      <3> QED
        BY <3>2, <3>3, <3>4
    <2> HIDE DEF cc
    <2>3. Parts(tt) = cc
      BY <1>3, <2>1, <2>2, SeqEqual
    <2> QED
      BY <2>3 DEF cc
  <1>5. FlattenSeq(Append(Parts(rs), Chosen(r))) = FlattenSeq(Parts(rs)) \o Chosen(r)
    BY <1>2, <1>3, FlattenAppend
  <1> QED
    BY <1>1, <1>4, <1>5, ChoicesType DEF tt

Listing(rs) ==
    IF mode.list THEN [i \in DOMAIN Matching(rs) |-> Entry(Matching(rs)[i])] ELSE <<>>

(* The line of a resource is a line. *)
LEMMA EntryType == \A r \in Resources : Entry(r) \in Lines
  BY DEF Entry, Line, Lines

(* A list has a line for each resource that is selected. *)
LEMMA ListingType ==
    ASSUME NEW rs \in Seq(Resources)
    PROVE  /\ Listing(rs) \in Seq(Lines)
           /\ mode.list => /\ Len(Listing(rs)) = Len(Matching(rs))
                           /\ \A i \in 1 .. Len(Matching(rs)) :
                                Listing(rs)[i] = Entry(Matching(rs)[i])
           /\ ~mode.list => Listing(rs) = <<>>
  <1> DEFINE ms == Matching(rs)
  <1>1. Len(ms) \in Nat /\ DOMAIN ms = 1 .. Len(ms) /\ \A i \in 1 .. Len(ms) : ms[i] \in Resources
    BY MatchingType, LenProperties, ElementOfSeq
  <1>2. CASE mode.list
    <2>1. Listing(rs) = [i \in 1 .. Len(ms) |-> Entry(ms[i])]
      BY <1>1, <1>2 DEF Listing
    <2> HIDE DEF ms
    <2>2. Listing(rs) \in [1 .. Len(ms) -> Lines]
      BY <1>1, <2>1, EntryType
    <2>3. Listing(rs) \in Seq(Lines) /\ Len(Listing(rs)) = Len(ms)
      BY <1>1, <2>2, FunctionIsSeq
    <2>4. \A i \in 1 .. Len(ms) : Listing(rs)[i] = Entry(ms[i])
      BY <2>1
    <2> QED
      BY <1>2, <2>3, <2>4 DEF ms
  <1>3. CASE ~mode.list
    BY <1>3, EmptySeq DEF Listing
  <1> QED
    BY <1>2, <1>3

(* One resource more has the line that enumerate shows. *)
LEMMA ListingAppend ==
    ASSUME options \in OptionSets, NEW rs \in Seq(Resources), NEW r \in Resources
    PROVE  /\ Listing(Append(rs, r)) = Listing(rs) \o Shown(r)
           /\ Shown(r) \in Seq(Lines)
  <1> DEFINE ms == Matching(rs)
             tt == Append(rs, r)
  <1>1. Shown(r) \in Seq(Lines)
    <2>1. Entry(r) \in Lines
      BY EntryType
    <2> HIDE DEF Lines
    <2> QED
      BY <2>1 DEF Shown
  <1>2. Shown(r) = IF mode.list /\ Selected(r) THEN <<Entry(r)>> ELSE <<>>
    <2>1. Match(Filter, r) <=> Selected(r)
      BY FilterSelects
    <2> QED
      BY <2>1 DEF Shown
  <1>3. tt \in Seq(Resources)
    BY AppendProperties
  <1>4. ms \in Seq(Resources) /\ Len(ms) \in Nat
    BY MatchingType, LenProperties
  <1>5. Matching(tt) = ms \o Chosen(r)
    BY MatchingAppend
  <1>6. Listing(rs) \in Seq(Lines) /\ Listing(tt) \in Seq(Lines)
    BY <1>3, ListingType
  <1>7. CASE ~mode.list
    <2>1. Listing(tt) = <<>> /\ Listing(rs) = <<>> /\ Shown(r) = <<>>
      BY <1>2, <1>3, <1>7, ListingType
    <2> QED
      BY <1>1, <2>1
  <1>8. CASE mode.list /\ ~Selected(r)
    <2>1. Matching(tt) = ms
      BY <1>4, <1>5, <1>8, ConcatEmptySeq DEF Chosen
    <2>2. Listing(tt) = Listing(rs)
      BY <2>1 DEF Listing
    <2> QED
      BY <1>2, <1>6, <1>8, <2>2, ConcatEmptySeq
  <1>9. CASE mode.list /\ Selected(r)
    <2> DEFINE n == Len(ms)
               ll == Listing(rs) \o <<Entry(r)>>
    <2>1. Chosen(r) = <<r>> /\ Shown(r) = <<Entry(r)>>
      BY <1>2, <1>9 DEF Chosen
    <2>2. /\ Len(Matching(tt)) = n + 1 /\ Matching(tt)[n + 1] = r
          /\ \A i \in 1 .. n : Matching(tt)[i] = ms[i]
      <3>1. Matching(tt) = Append(ms, r)
        BY <1>4, <1>5, <2>1, AppendIsConcat
      <3> QED
        BY <1>4, <3>1, AppendProperties
    <2>3. /\ Len(Listing(rs)) = n /\ \A i \in 1 .. n : Listing(rs)[i] = Entry(ms[i])
      BY <1>9, ListingType
    <2>4. /\ ll \in Seq(Lines) /\ Len(ll) = n + 1 /\ ll[n + 1] = Entry(r)
          /\ \A i \in 1 .. n : ll[i] = Listing(rs)[i]
      <3>1. Entry(r) \in Lines
        BY EntryType
      <3>2. ll = Append(Listing(rs), Entry(r))
        BY <1>6, <3>1, AppendIsConcat
      <3> QED
        BY <1>6, <2>3, <3>1, <3>2, AppendProperties
    <2>5. /\ Len(Listing(tt)) = n + 1
          /\ \A i \in 1 .. n + 1 : Listing(tt)[i] = Entry(Matching(tt)[i])
      BY <1>3, <1>9, <2>2, ListingType
    <2>6. \A i \in 1 .. n + 1 : Listing(tt)[i] = ll[i]
      <3> HIDE DEF ll, tt, ms
      <3>1. \A i \in 1 .. n + 1 : i = n + 1 \/ i \in 1 .. n
        BY <1>4
      <3> QED
        BY <2>2, <2>3, <2>4, <2>5, <3>1
    <2>7. Listing(tt) = ll
      <3> HIDE DEF ll, tt, n
      <3> QED
        BY <1>6, <2>4, <2>5, <2>6, SeqEqual
    <2> QED
      BY <1>1, <2>1, <2>7
  <1> QED
    BY <1>1, <1>7, <1>8, <1>9

(* Concatenation of lines is associative. *)
LEMMA LinesAssociate ==
    \A s, t, u \in Seq(Lines) : (s \o t) \o u = s \o (t \o u)
  BY ConcatAssociative

Elements == Resources \cup {Bad}
Initial(es, k) == SubSeq(es, 1, k)
AllDecode(es, k) == k \in 0 .. Len(es) /\ \A i \in 1 .. k : es[i] # Bad

(* Elements that can be decoded are resources. *)
LEMMA InitialType ==
    ASSUME NEW es \in Seq(Elements), NEW k, AllDecode(es, k)
    PROVE  /\ k \in Nat
           /\ Initial(es, k) \in Seq(Resources) /\ Len(Initial(es, k)) = k
           /\ \A i \in 1 .. k : Initial(es, k)[i] = es[i]
  <1>1. Len(es) \in Nat /\ k \in Nat /\ k <= Len(es)
    BY LenProperties DEF AllDecode
  <1>2. \A i \in 1 .. k : es[i] \in Resources
    <2>1. \A i \in 1 .. k : es[i] # Bad /\ i \in 1 .. Len(es)
      BY <1>1 DEF AllDecode
    <2>2. \A i \in 1 .. Len(es) : es[i] \in Elements
      BY ElementOfSeq
    <2> QED
      BY <2>1, <2>2 DEF Elements
  <1>3. /\ SubSeq(es, 1, k) \in Seq(Resources)
        /\ Len(SubSeq(es, 1, k)) = IF 1 <= k THEN k - 1 + 1 ELSE 0
        /\ \A i \in 1 .. k - 1 + 1 : SubSeq(es, 1, k)[i] = es[1 + i - 1]
    <2>1. 1 \in Int /\ k \in Int
      BY <1>1
    <2> QED
      BY <1>2, <2>1, SubSeqProperties
  <1>4. k - 1 + 1 = k /\ (~(1 <= k) => k = 0) /\ \A i \in 1 .. k : 1 + i - 1 = i
    BY <1>1
  <1> QED
    BY <1>1, <1>3, <1>4 DEF Initial

(* The next element, if it can be decoded, is one resource more. *)
LEMMA InitialAppend ==
    ASSUME NEW es \in Seq(Elements), NEW k, AllDecode(es, k), k < Len(es), es[k + 1] # Bad
    PROVE  /\ AllDecode(es, k + 1)
           /\ es[k + 1] \in Resources
           /\ Initial(es, k + 1) = Append(Initial(es, k), es[k + 1])
  <1>1. Len(es) \in Nat /\ k \in Nat /\ k <= Len(es)
    BY LenProperties DEF AllDecode
  <1>2. AllDecode(es, k + 1)
    BY <1>1 DEF AllDecode
  <1>3. es[k + 1] \in Resources
    <2>1. k + 1 \in 1 .. Len(es)
      BY <1>1
    <2>2. es[k + 1] \in Elements
      BY <2>1, ElementOfSeq
    <2> QED
      BY <2>2 DEF Elements
  <1> DEFINE s == Initial(es, k + 1)
             t == Append(Initial(es, k), es[k + 1])
  <1>4. s \in Seq(Resources) /\ Len(s) = k + 1 /\ \A i \in 1 .. k + 1 : s[i] = es[i]
    BY <1>2, InitialType
  <1>5. /\ Initial(es, k) \in Seq(Resources) /\ Len(Initial(es, k)) = k
        /\ \A i \in 1 .. k : Initial(es, k)[i] = es[i]
    BY InitialType
  <1>6. /\ t \in Seq(Resources) /\ Len(t) = k + 1 /\ t[k + 1] = es[k + 1]
        /\ \A i \in 1 .. k : t[i] = es[i]
    BY <1>3, <1>5, AppendProperties
  <1> HIDE DEF s, t
  <1>7. \A i \in 1 .. k + 1 : i \in 1 .. k \/ i = k + 1
    BY <1>1
  <1>8. s = t
    BY <1>4, <1>6, <1>7, SeqEqual
  <1> QED
    BY <1>2, <1>3, <1>8 DEF s, t

(* What comes before the first element that cannot be decoded. *)
LEMMA DecodedIsInitial ==
    ASSUME NEW es \in Seq(Elements)
    PROVE  \E d : /\ AllDecode(es, d) /\ Decoded(es) = Initial(es, d)
                  /\ d < Len(es) => es[d + 1] = Bad /\ Decoded(es) # es
                  /\ d = Len(es) => Decoded(es) = es
  <1> DEFINE bad == {i \in DOMAIN es : es[i] = Bad}
  <1>1. Len(es) \in Nat /\ DOMAIN es = 1 .. Len(es)
    BY LenProperties
  <1>2. CASE bad = {}
    <2>1. Decoded(es) = es
      BY <1>2 DEF Decoded
    <2>2. AllDecode(es, Len(es))
      BY <1>1, <1>2 DEF AllDecode
    <2>3. Initial(es, Len(es)) = es
      BY SubSeqFull DEF Initial
    <2> QED
      BY <1>1, <2>1, <2>2, <2>3
  <1>3. CASE bad # {}
    <2> DEFINE m == Min(bad)
    <2>1. Decoded(es) = Initial(es, m - 1)
      BY <1>3 DEF Decoded, Initial
    <2>2. m \in bad /\ \A i \in bad : m <= i
      <3>1. bad \subseteq Nat
        BY <1>1
      <3> HIDE DEF bad
      <3> QED
        BY <1>3, <3>1, MinProperties
    <2> HIDE DEF m
    <2>3. m \in 1 .. Len(es) /\ es[m] = Bad
      BY <1>1, <2>2
    <2>4. AllDecode(es, m - 1)
      <3>1. ASSUME NEW i \in 1 .. m - 1
            PROVE  es[i] # Bad
        BY <1>1, <2>2, <2>3
      <3>2. m - 1 \in 0 .. Len(es)
        BY <1>1, <2>3
      <3> QED
        BY <3>1, <3>2 DEF AllDecode
    <2>5. Len(Initial(es, m - 1)) = m - 1
      BY <2>4, InitialType
    <2>6. m - 1 < Len(es) /\ (m - 1) + 1 = m
      BY <1>1, <2>3
    <2>7. Decoded(es) # es /\ m - 1 # Len(es)
      BY <1>1, <2>1, <2>5, <2>6
    <2> QED
      BY <2>1, <2>3, <2>4, <2>6, <2>7
  <1> QED
    BY <1>2, <1>3

(* The list of the first resources is the beginning of that of more of them. *)
LEMMA ListingGrows ==
    ASSUME options \in OptionSets,
           NEW es \in Seq(Elements), NEW d, AllDecode(es, d), NEW k \in 0 .. d
    PROVE  \E u \in Seq(Lines) : Listing(Initial(es, d)) = Listing(Initial(es, k)) \o u
  <1>1. Len(es) \in Nat /\ d \in Nat /\ d <= Len(es) /\ k \in Nat
    BY LenProperties DEF AllDecode
  <1> DEFINE Grows(n) == \E u \in Seq(Lines) :
                           Listing(Initial(es, n)) = Listing(Initial(es, k)) \o u
             T == {n \in Nat : k + n <= d => Grows(k + n)}
  <1>2. \A n \in 0 .. d : AllDecode(es, n)
    BY <1>1 DEF AllDecode
  <1>3. \A n \in 0 .. d : /\ Initial(es, n) \in Seq(Resources)
                      /\ Listing(Initial(es, n)) \in Seq(Lines)
    BY <1>2, InitialType, ListingType
  <1>4. 0 \in T
    <2>1. Grows(k)
      <3>1. Listing(Initial(es, k)) \o <<>> = Listing(Initial(es, k)) /\ <<>> \in Seq(Lines)
        BY <1>3, ConcatEmptySeq, EmptySeq
      <3> QED
        BY <3>1
    <2>2. k + 0 = k
      BY <1>1
    <2> HIDE DEF Grows
    <2> QED
      BY <2>1, <2>2
  <1>5. ASSUME NEW n \in T
        PROVE  n + 1 \in T
    <2>1. n \in Nat /\ n + 1 \in Nat /\ (k + n <= d => Grows(k + n))
      OBVIOUS
    <2>2. ASSUME k + (n + 1) <= d
          PROVE  Grows(k + (n + 1))
      <3> DEFINE j == k + n
      <3>1. j \in 0 .. d /\ j + 1 \in 0 .. d /\ j + 1 = k + (n + 1) /\ j < Len(es)
            /\ k + n <= d /\ j + 1 \in 1 .. d
        BY <1>1, <2>1, <2>2
      <3>2. PICK u \in Seq(Lines) : Listing(Initial(es, j)) = Listing(Initial(es, k)) \o u
        BY <2>1, <3>1
      <3> HIDE DEF j
      <3>3. es[j + 1] # Bad
        BY <3>1 DEF AllDecode
      <3> DEFINE v == Shown(es[j + 1])
      <3>4. /\ Listing(Initial(es, j + 1)) = Listing(Initial(es, j)) \o v
            /\ v \in Seq(Lines)
        <4>1. AllDecode(es, j)
          BY <1>2, <3>1
        <4>2. /\ es[j + 1] \in Resources
              /\ Initial(es, j + 1) = Append(Initial(es, j), es[j + 1])
          BY <3>1, <3>3, <4>1, InitialAppend
        <4>3. Initial(es, j) \in Seq(Resources)
          BY <1>3, <3>1
        <4> QED
          BY <4>2, <4>3, ListingAppend
      <3> HIDE DEF v
      <3>5. Listing(Initial(es, k)) \in Seq(Lines)
        BY <1>1, <1>3
      <3>6. (Listing(Initial(es, k)) \o u) \o v = Listing(Initial(es, k)) \o (u \o v)
        BY <3>4, <3>5, LinesAssociate, Zenon
      <3>7. u \o v \in Seq(Lines)
        BY <3>4, ConcatProperties
      <3>8. Listing(Initial(es, j + 1)) = Listing(Initial(es, k)) \o (u \o v)
        BY <3>2, <3>4, <3>6
      <3>9. Grows(j + 1)
        BY <3>7, <3>8
      <3> HIDE DEF Grows
      <3> QED
        BY <3>1, <3>9
    <2> HIDE DEF Grows
    <2> QED
      BY <2>1, <2>2
  <1>6. T = Nat
    <2> HIDE DEF T
    <2>1. T \subseteq Nat
      BY DEF T
    <2> QED
      BY <1>4, <1>5, <2>1, SetInduction
  <1>7. d - k \in Nat /\ k + (d - k) = d /\ k + (d - k) <= d
    BY <1>1
  <1>8. Grows(k + (d - k))
    <2> HIDE DEF Grows
    <2> QED
      BY <1>6, <1>7
  <1> QED
    BY <1>7, <1>8

(* A sequence is a prefix of what begins with it. *)
LEMMA ConcatIsPrefix ==
    ASSUME NEW S, NEW s \in Seq(S), NEW u \in Seq(S)
    PROVE  IsPrefix(s, s \o u)
  <1> DEFINE t == s \o u
             n == Len(s)
  <1>1. /\ t \in Seq(S) /\ Len(t) = n + Len(u) /\ n \in Nat /\ Len(u) \in Nat
        /\ \A i \in 1 .. n + Len(u) : t[i] = IF i <= n THEN s[i] ELSE u[i - n]
    BY ConcatProperties, LenProperties
  <1> HIDE DEF t
  <1>2. SubSeq(s, 1, n) = s
    BY SubSeqFull
  <1>3. /\ SubSeq(t, 1, n) \in Seq(S)
        /\ Len(SubSeq(t, 1, n)) = IF 1 <= n THEN n - 1 + 1 ELSE 0
        /\ \A i \in 1 .. n - 1 + 1 : SubSeq(t, 1, n)[i] = t[1 + i - 1]
    <2>1. 1 \in Int /\ n \in Int /\ \A i \in 1 .. n : i \in 1 .. Len(t)
      BY <1>1
    <2>2. \A i \in 1 .. n : t[i] \in S
      BY <1>1, <2>1, ElementOfSeq
    <2> QED
      BY <2>1, <2>2, SubSeqProperties
  <1>4. Len(SubSeq(t, 1, n)) = n /\ \A i \in 1 .. n : SubSeq(t, 1, n)[i] = s[i]
    <2>1. n - 1 + 1 = n /\ (~(1 <= n) => n = 0)
          /\ \A i \in 1 .. n : 1 + i - 1 = i /\ i \in 1 .. n + Len(u) /\ i <= n
      BY <1>1
    <2> QED
      BY <1>1, <1>3, <2>1
  <1>5. SubSeq(t, 1, n) = s
    BY <1>1, <1>3, <1>4, SeqEqual
  <1> QED
    BY <1>1, <1>2, <1>5 DEF IsPrefix, t

-----------------------------------------------------------------------------
(* Manifest: what is to be printed *)

SummaryOf(rs) ==
    IF ~mode.summarize THEN <<>>
    ELSE (IF Listing(rs) # <<>> THEN <<Blank>> ELSE <<>>)
         \o <<Info, Line("total", StatsOf(rs))>>
         \o (IF Filtering THEN <<Line("matching", StatsOf(Matching(rs)))>> ELSE <<>>)

(* The lines are lines. *)
LEMMA LinesAre ==
    /\ {NotFound, Failure, Header, Blank, Info} \subseteq Lines
    /\ \A s \in StatsSet : Line("total", s) \in Lines /\ Line("matching", s) \in Lines
  BY DEF Lines, Line

(* A summary is a sequence of lines. *)
LEMMA SummaryType ==
    ASSUME NEW rs \in Seq(Resources)
    PROVE  SummaryOf(rs) \in Seq(Lines)
  <1> DEFINE a == IF Listing(rs) # <<>> THEN <<Blank>> ELSE <<>>
             b == <<Info, Line("total", StatsOf(rs))>>
             c == IF Filtering THEN <<Line("matching", StatsOf(Matching(rs)))>> ELSE <<>>
  <1>1. StatsOf(rs) \in StatsSet /\ StatsOf(Matching(rs)) \in StatsSet
    BY StatsType, MatchingType
  <1>2. a \in Seq(Lines) /\ b \in Seq(Lines) /\ c \in Seq(Lines)
    <2>1. /\ Blank \in Lines /\ Info \in Lines /\ Line("total", StatsOf(rs)) \in Lines
          /\ Line("matching", StatsOf(Matching(rs))) \in Lines
      BY <1>1, LinesAre
    <2> QED
      BY <2>1
  <1>3. SummaryOf(rs) = IF ~mode.summarize THEN <<>> ELSE (a \o b) \o c
    BY DEF SummaryOf
  <1> HIDE DEF a, b, c
  <1>4. a \o b \in Seq(Lines)
    BY <1>2, ConcatProperties
  <1>5. (a \o b) \o c \in Seq(Lines)
    BY <1>2, <1>4, ConcatProperties
  <1> QED
    BY <1>3, <1>5, EmptySeq

(* What follows the list. *)
Rest(es) ==
    IF Decoded(es) # es THEN <<Failure>> ELSE SummaryOf(Decoded(es))

(* What is decoded are resources. *)
LEMMA DecodedType ==
    ASSUME NEW es \in Seq(Elements)
    PROVE  Decoded(es) \in Seq(Resources)
  BY DecodedIsInitial, InitialType

(* A report is the list and what follows it. *)
LEMMA ReportIs ==
    ASSUME NEW es \in Seq(Elements)
    PROVE  /\ Report(es) = Listing(Decoded(es)) \o Rest(es)
           /\ Rest(es) \in Seq(Lines) /\ Report(es) \in Seq(Lines)
  <1>1. Report(es) = Listing(Decoded(es)) \o Rest(es)
    BY Zenon DEF Report, Listing, Rest, SummaryOf, Filtering
  <1>2. Rest(es) \in Seq(Lines)
    <2>1. Failure \in Lines
      BY LinesAre
    <2>2. SummaryOf(Decoded(es)) \in Seq(Lines)
      BY DecodedType, SummaryType
    <2>3. <<Failure>> \in Seq(Lines)
      BY <2>1
    <2> QED
      BY <2>2, <2>3 DEF Rest
  <1>3. Listing(Decoded(es)) \in Seq(Lines)
    BY DecodedType, ListingType
  <1> QED
    BY <1>1, <1>2, <1>3, ConcatProperties

(* What is to be printed of a path, and of the first paths. *)
Due(p) ==
    CASE files[p].kind = "missing" -> <<NotFound>>
      [] files[p].kind = "unreadable" -> <<Header, Failure>>
      [] files[p].kind = "manifest" -> <<Header>> \o Report(files[p].entries)
DueOfFirst(k) == FlattenSeq([p \in 1 .. k |-> Due(p)])

FilesTyped == files \in [Paths -> Files]

(* A path leads to what it may lead to. *)
LEMMA FileType ==
    ASSUME FilesTyped, NEW p \in Paths
    PROVE  /\ files[p].kind \in {"missing", "unreadable", "manifest"}
           /\ files[p].entries \in Seq(Elements)
  <1>1. files[p] \in [kind : {"missing", "unreadable", "manifest"}, entries : Seq(Elements)]
    BY ManifestAssumption DEF FilesTyped, Elements
  <1> QED
    BY <1>1

(* What is due of a path are lines. *)
LEMMA DueType ==
    ASSUME FilesTyped, NEW p \in Paths
    PROVE  Due(p) \in Seq(Lines)
  <1> DEFINE es == files[p].entries
  <1>1. NotFound \in Lines /\ Failure \in Lines /\ Header \in Lines
    BY LinesAre
  <1>2. CASE files[p].kind = "missing"
    <2>1. Due(p) = <<NotFound>>
      BY <1>2 DEF Due
    <2> HIDE DEF Lines
    <2> QED
      BY <1>1, <2>1
  <1>3. CASE files[p].kind = "unreadable"
    <2>1. Due(p) = <<Header, Failure>>
      BY <1>3 DEF Due
    <2> QED
      BY <1>1, <2>1
  <1>4. CASE files[p].kind = "manifest"
    <2>1. Due(p) = <<Header>> \o Report(es)
      BY <1>4 DEF Due
    <2>2. Report(es) \in Seq(Lines)
      BY FileType, ReportIs
    <2>3. <<Header>> \in Seq(Lines)
      BY <1>1
    <2> QED
      BY <2>1, <2>2, <2>3, ConcatProperties
  <1> QED
    BY <1>2, <1>3, <1>4, FileType

(* What is due of the first paths are lines. *)
LEMMA DueOfFirstType ==
    ASSUME FilesTyped, NEW k \in 0 .. NumPaths
    PROVE  /\ DueOfFirst(k) \in Seq(Lines)
           /\ [p \in 1 .. k |-> Due(p)] \in Seq(Seq(Lines))
           /\ Len([p \in 1 .. k |-> Due(p)]) = k
  <1> DEFINE ds == [p \in 1 .. k |-> Due(p)]
  <1>1. k \in Nat /\ \A p \in 1 .. k : p \in Paths
    BY ManifestAssumption DEF Paths
  <1>2. ds \in [1 .. k -> Seq(Lines)]
    BY <1>1, DueType
  <1> HIDE DEF ds
  <1>3. ds \in Seq(Seq(Lines)) /\ Len(ds) = k
    BY <1>1, <1>2, FunctionIsSeq
  <1>4. FlattenSeq(ds) \in Seq(Lines)
    BY <1>3, FlattenType
  <1> QED
    BY <1>3, <1>4 DEF ds, DueOfFirst

(* What is due of one path more follows what is due of those before it. *)
LEMMA DueOfNext ==
    ASSUME FilesTyped, NEW k \in 1 .. NumPaths
    PROVE  DueOfFirst(k) = DueOfFirst(k - 1) \o Due(k)
  <1> DEFINE ds == [p \in 1 .. k - 1 |-> Due(p)]
             es == [p \in 1 .. k |-> Due(p)]
             as == Append(ds, Due(k))
  <1>1. k \in Nat /\ k - 1 \in 0 .. NumPaths /\ k \in 0 .. NumPaths /\ k \in Paths
        /\ (k - 1) + 1 = k /\ \A i \in 1 .. k : i = k \/ i \in 1 .. k - 1
    BY ManifestAssumption DEF Paths
  <1>2. ds \in Seq(Seq(Lines)) /\ Len(ds) = k - 1 /\ es \in Seq(Seq(Lines)) /\ Len(es) = k
        /\ Due(k) \in Seq(Lines)
    BY <1>1, DueOfFirstType, DueType
  <1>3. \A i \in 1 .. k : es[i] = Due(i)
    OBVIOUS
  <1>4. \A i \in 1 .. k - 1 : ds[i] = Due(i)
    OBVIOUS
  <1> HIDE DEF ds, es
  <1>5. /\ as \in Seq(Seq(Lines)) /\ Len(as) = k /\ as[k] = Due(k)
        /\ \A i \in 1 .. k - 1 : as[i] = ds[i]
    BY <1>1, <1>2, AppendProperties
  <1> HIDE DEF as
  <1>6. \A i \in 1 .. k : es[i] = as[i]
    BY <1>1, <1>3, <1>4, <1>5
  <1>7. es = as
    BY <1>2, <1>5, <1>6, SeqEqual
  <1>8. FlattenSeq(Append(ds, Due(k))) = FlattenSeq(ds) \o Due(k)
    BY <1>2, FlattenAppend
  <1> QED
    BY <1>7, <1>8 DEF DueOfFirst, ds, es, as

(* What is due of all paths is what is expected. *)
LEMMA DueOfAll == Expected = DueOfFirst(NumPaths)
  BY Zenon DEF Expected, DueOfFirst, Due, Paths

(* Nothing is due of no path. *)
LEMMA DueOfNone == DueOfFirst(0) = <<>>
  <1>1. [p \in 1 .. 0 |-> Due(p)] = <<>>
    OBVIOUS
  <1> QED
    BY <1>1, FlattenEmpty DEF DueOfFirst

(* What is due of the first paths is the beginning of all that is due. *)
LEMMA DueGrows ==
    ASSUME FilesTyped, NEW k \in 0 .. NumPaths
    PROVE  \E u \in Seq(Lines) : Expected = DueOfFirst(k) \o u
  <1> DEFINE Grows(n) == \E u \in Seq(Lines) : DueOfFirst(n) = DueOfFirst(k) \o u
             T == {n \in Nat : k + n <= NumPaths => Grows(k + n)}
  <1>1. k \in Nat /\ NumPaths \in Nat /\ k + 0 = k
    BY ManifestAssumption
  <1>2. 0 \in T
    <2>1. Grows(k)
      BY DueOfFirstType, ConcatEmptySeq, EmptySeq
    <2> HIDE DEF Grows
    <2> QED
      BY <1>1, <2>1
  <1>3. ASSUME NEW n \in T
        PROVE  n + 1 \in T
    <2>1. n \in Nat /\ n + 1 \in Nat /\ (k + n <= NumPaths => Grows(k + n))
      OBVIOUS
    <2>2. ASSUME k + (n + 1) <= NumPaths
          PROVE  Grows(k + (n + 1))
      <3> DEFINE j == k + (n + 1)
      <3>1. j \in 1 .. NumPaths /\ j - 1 = k + n /\ k + n <= NumPaths
        BY <1>1, <2>1, <2>2
      <3>2. PICK u \in Seq(Lines) : DueOfFirst(k + n) = DueOfFirst(k) \o u
        BY <2>1, <3>1
      <3> HIDE DEF j
      <3>3. DueOfFirst(j) = DueOfFirst(k + n) \o Due(j) /\ Due(j) \in Seq(Lines)
        <4>1. j \in Paths
          BY <3>1 DEF Paths
        <4> QED
          BY <3>1, <4>1, DueOfNext, DueType
      <3>4. DueOfFirst(k) \in Seq(Lines)
        BY DueOfFirstType
      <3>5. DueOfFirst(j) = DueOfFirst(k) \o (u \o Due(j))
        <4>1. DueOfFirst(j) = (DueOfFirst(k) \o u) \o Due(j)
          BY <3>2, <3>3, Zenon
        <4>2. (DueOfFirst(k) \o u) \o Due(j) = DueOfFirst(k) \o (u \o Due(j))
          BY <3>3, <3>4, LinesAssociate, Zenon
        <4> QED
          BY <4>1, <4>2, Zenon
      <3>6. u \o Due(j) \in Seq(Lines)
        BY <3>3, ConcatProperties
      <3>7. Grows(j)
        BY <3>5, <3>6
      <3> HIDE DEF Grows
      <3> QED
        BY <3>7 DEF j
    <2> HIDE DEF Grows
    <2> QED
      BY <2>1, <2>2
  <1>4. T = Nat
    <2> HIDE DEF T
    <2>1. T \subseteq Nat
      BY DEF T
    <2> QED
      BY <1>2, <1>3, <2>1, SetInduction
  <1>5. NumPaths - k \in Nat /\ k + (NumPaths - k) = NumPaths /\ k + (NumPaths - k) <= NumPaths
    BY <1>1
  <1>6. Grows(k + (NumPaths - k))
    <2> HIDE DEF Grows
    <2> QED
      BY <1>4, <1>5
  <1> QED
    BY <1>5, <1>6, DueOfAll

-----------------------------------------------------------------------------
(* Manifest: the invariant *)

ReadSoFar(p) == Initial(files[p].entries, task[p].pos - 1)

(* What run() has given to Printf so far. *)
Generated(p) ==
    CASE task[p].at = "find" -> <<>>
      [] task[p].at = "load" -> <<Header>>
      [] task[p].at \in {"read", "summary"} -> <<Header>> \o Listing(ReadSoFar(p))
      [] task[p].at \in {"close", "closed"} -> Due(p)

TaskInStep(p) ==
    /\ task[p].at \in {"find", "load"} =>
          task[p].pos = 1 /\ task[p].total = NoStats /\ task[p].filtered = NoStats
    /\ task[p].at = "load" => files[p].kind # "missing"
    /\ task[p].at \in {"read", "summary"} =>
          /\ files[p].kind = "manifest"
          /\ AllDecode(files[p].entries, task[p].pos - 1)
          /\ task[p].total = StatsOf(ReadSoFar(p))
          /\ task[p].filtered = StatsOf(Matching(ReadSoFar(p)))
    /\ task[p].at = "summary" => task[p].pos = Len(files[p].entries) + 1
    /\ task[p].at = "closed" => task[p].todo = <<>>

SentOf(p) ==
    /\ p > current => results[p] \o task[p].todo = Generated(p)
    /\ p = current =>
          printed \o (results[p] \o task[p].todo) = DueOfFirst(p - 1) \o Generated(p)

InStep == \A p \in Paths : TaskInStep(p)
Sent == \A p \in Paths : SentOf(p)
PrintedAll == current = NumPaths + 1 => printed = DueOfFirst(NumPaths)

ManifestInv == ManifestTypeOK /\ InStep /\ Sent /\ PrintedAll

(* No step changes the options and the command, and so what they select. *)
LEMMA SelectionStays ==
    ASSUME UNCHANGED inputs
    PROVE  /\ \A r : Selected(r)' = Selected(r)
           /\ \A r : Entry(r)' = Entry(r)
           /\ Filtering' = Filtering
  <1>1. options' = options /\ mode' = mode
    BY DEF inputs
  <1>2. \A r : Selected(r)' = Selected(r)
    BY <1>1 DEF Selected
  <1>3. \A r : Entry(r)' = Entry(r)
    BY <1>1 DEF Entry
  <1>4. Filtering' = Filtering
    BY <1>1 DEF Filtering
  <1> QED
    BY <1>2, <1>3, <1>4

(* No step changes the list and the summary of given resources. *)
LEMMA ListingStays ==
    ASSUME UNCHANGED inputs
    PROVE  /\ \A rs : Matching(rs)' = Matching(rs)
           /\ \A rs : Listing(rs)' = Listing(rs)
           /\ \A rs : SummaryOf(rs)' = SummaryOf(rs)
  <1>1. mode' = mode
    BY DEF inputs
  <1>2. ASSUME NEW rs
        PROVE  Matching(rs)' = Matching(rs)
    <2> DEFINE c == [i \in DOMAIN rs |-> IF Selected(rs[i]) THEN <<rs[i]>> ELSE <<>>]
    <2>1. c' = c
      BY SelectionStays
    <2> HIDE DEF c
    <2>2. Matching(rs) = FlattenSeq(c) /\ Matching(rs)' = FlattenSeq(c')
      BY Zenon DEF Matching, c
    <2> QED
      BY <2>1, <2>2
  <1>3. ASSUME NEW rs
        PROVE  Listing(rs)' = Listing(rs)
    BY <1>1, <1>2, SelectionStays DEF Listing
  <1>4. ASSUME NEW rs
        PROVE  SummaryOf(rs)' = SummaryOf(rs)
    BY <1>1, <1>2, <1>3, SelectionStays DEF SummaryOf
  <1> QED
    BY <1>2, <1>3, <1>4

(* No step changes what is due. *)
LEMMA DueStays ==
    ASSUME UNCHANGED inputs, FilesTyped
    PROVE  /\ FilesTyped'
           /\ \A p \in Paths : Due(p)' = Due(p)
           /\ \A k \in 0 .. NumPaths : DueOfFirst(k)' = DueOfFirst(k)
  <1>1. files' = files
    BY DEF inputs
  <1>2. FilesTyped'
    BY <1>1 DEF FilesTyped
  <1>3. ASSUME NEW es \in Seq(Elements)
        PROVE  Report(es)' = Report(es)
    <2>1. Report(es) = Listing(Decoded(es)) \o Rest(es)
      BY ReportIs
    <2>2. Report(es)' = Listing(Decoded(es))' \o Rest(es)'
      BY Zenon DEF Report, Listing, Rest, SummaryOf, Filtering
    <2>3. Rest(es)' = Rest(es)
      BY ListingStays DEF Rest
    <2> QED
      BY <2>1, <2>2, <2>3, ListingStays
  <1>4. ASSUME NEW p \in Paths
        PROVE  Due(p)' = Due(p)
    <2>1. Report(files[p].entries)' = Report(files[p].entries)
      <3>1. files[p].entries \in Seq(Elements)
        BY FileType
      <3> QED
        BY <1>1, <1>3, <3>1
    <2> QED
      BY <1>1, <2>1 DEF Due
  <1>5. ASSUME NEW k \in 0 .. NumPaths
        PROVE  DueOfFirst(k)' = DueOfFirst(k)
    <2> DEFINE d == [p \in 1 .. k |-> Due(p)]
    <2>1. 1 .. k \subseteq Paths
      BY ManifestAssumption DEF Paths
    <2>2. d' = d
      BY <1>4, <2>1
    <2> HIDE DEF d
    <2>3. DueOfFirst(k) = FlattenSeq(d) /\ DueOfFirst(k)' = FlattenSeq(d')
      BY Zenon DEF DueOfFirst, d
    <2> QED
      BY <2>2, <2>3
  <1> QED
    BY <1>2, <1>4, <1>5

(* What a path's run() has generated changes only with its own state. *)
LEMMA GeneratedStays ==
    ASSUME UNCHANGED inputs, FilesTyped, NEW p \in Paths, task'[p] = task[p]
    PROVE  Generated(p)' = Generated(p) /\ TaskInStep(p)' = TaskInStep(p)
  <1>1. files' = files /\ Due(p)' = Due(p)
    BY DueStays DEF inputs
  <1>2. ReadSoFar(p)' = ReadSoFar(p)
    BY <1>1 DEF ReadSoFar
  <1>3. /\ Listing(ReadSoFar(p))' = Listing(ReadSoFar(p))
        /\ Matching(ReadSoFar(p))' = Matching(ReadSoFar(p))
    BY <1>2, ListingStays
  <1>4. Generated(p)' = Generated(p)
    BY <1>1, <1>3 DEF Generated
  <1>5. TaskInStep(p)' = TaskInStep(p)
    BY <1>1, <1>2, <1>3 DEF TaskInStep
  <1> QED
    BY <1>4, <1>5

Ats == {"find", "load", "read", "summary", "close", "closed"}

(* What a step of run() does to the tasks. *)
LEMMA GoDoes ==
    ASSUME task \in [Paths -> TaskRecords], NEW p \in Paths, NEW at \in Ats,
           NEW lines \in Seq(Lines), Go(p, at, lines)
    PROVE  /\ task' \in [Paths -> TaskRecords]
           /\ \A q \in Paths \ {p} : task'[q] = task[q]
           /\ task'[p].at = at /\ task'[p].todo = lines /\ task'[p].pos = task[p].pos
           /\ task'[p].total = task[p].total /\ task'[p].filtered = task[p].filtered
  <1> DEFINE m == [task EXCEPT ![p].at = at]
  <1>1. task' = [m EXCEPT ![p].todo = lines]
    BY Zenon DEF Go
  <1>2. /\ m \in [Paths -> TaskRecords] /\ m[p].at = at
        /\ \A q \in Paths \ {p} : m[q] = task[q]
        /\ m[p].pos = task[p].pos /\ m[p].total = task[p].total
        /\ m[p].filtered = task[p].filtered
    BY DEF TaskRecords, Ats
  <1> HIDE DEF m
  <1> QED
    BY <1>1, <1>2 DEF TaskRecords

(* What run() has generated are lines. *)
LEMMA GeneratedType ==
    ASSUME ManifestInv, NEW p \in Paths
    PROVE  Generated(p) \in Seq(Lines)
  <1>1. FilesTyped /\ task[p].at \in Ats /\ TaskInStep(p)
    BY DEF ManifestInv, ManifestTypeOK, InStep, FilesTyped, TaskRecords, Ats
  <1>2. Due(p) \in Seq(Lines)
    BY <1>1, DueType
  <1>3. <<Header>> \in Seq(Lines)
    <2>1. Header \in Lines
      BY LinesAre
    <2> QED
      BY <2>1
  <1>4. CASE task[p].at \in {"read", "summary"}
    <2>1. AllDecode(files[p].entries, task[p].pos - 1) /\ files[p].entries \in Seq(Elements)
      BY <1>1, <1>4, FileType DEF TaskInStep
    <2>2. ReadSoFar(p) \in Seq(Resources)
      BY <2>1, InitialType DEF ReadSoFar
    <2>3. Listing(ReadSoFar(p)) \in Seq(Lines)
      BY <2>2, ListingType
    <2>4. <<Header>> \o Listing(ReadSoFar(p)) \in Seq(Lines)
      BY <1>3, <2>3, ConcatProperties
    <2> QED
      BY <1>4, <2>4 DEF Generated
  <1>5. CASE task[p].at \in {"find", "load", "close", "closed"}
    BY <1>2, <1>3, <1>5, EmptySeq DEF Generated
  <1> QED
    BY <1>1, <1>4, <1>5 DEF Ats

(* A step of run() that hands lines over to Printf. *)
LEMMA Handover ==
    ASSUME ManifestInv, NEW p \in Paths, task[p].todo = <<>>,
           UNCHANGED <<inputs, results, current, printed>>,
           \A q \in Paths \ {p} : task'[q] = task[q],
           task'[p].todo \in Seq(Lines),
           TaskInStep(p)', Generated(p)' = Generated(p) \o task'[p].todo
    PROVE  InStep' /\ Sent' /\ PrintedAll'
  <1>1. FilesTyped /\ UNCHANGED inputs /\ NumPaths \in Nat /\ Paths = 1 .. NumPaths
        /\ results' = results /\ current' = current /\ printed' = printed
    BY ManifestAssumption DEF ManifestInv, ManifestTypeOK, FilesTyped, Paths
  <1>2. /\ \A q \in Paths : results[q] \in Seq(Lines) /\ Generated(q) \in Seq(Lines)
        /\ printed \in Seq(Lines)
    BY GeneratedType DEF ManifestInv, ManifestTypeOK
  <1>3. ASSUME NEW q \in Paths \ {p}
        PROVE  TaskInStep(q)' /\ SentOf(q)'
    <2>1. TaskInStep(q)' = TaskInStep(q) /\ Generated(q)' = Generated(q) /\ task'[q] = task[q]
      BY <1>1, GeneratedStays
    <2>2. DueOfFirst(q - 1)' = DueOfFirst(q - 1)
      <3>1. q - 1 \in 0 .. NumPaths
        BY <1>1
      <3> QED
        BY <1>1, <3>1, DueStays
    <2>3. TaskInStep(q) /\ SentOf(q)
      BY DEF ManifestInv, InStep, Sent
    <2> QED
      BY <1>1, <2>1, <2>2, <2>3 DEF SentOf
  <1>4. SentOf(p)'
    <2> DEFINE x == task'[p].todo
               r == results[p]
               g == Generated(p)
    <2>1. r \o task[p].todo = r /\ x \in Seq(Lines)
      BY <1>2, ConcatEmptySeq
    <2>2. /\ p > current => r = g
          /\ p = current => printed \o r = DueOfFirst(p - 1) \o g
      BY <2>1 DEF ManifestInv, Sent, SentOf
    <2>3. /\ DueOfFirst(p - 1)' = DueOfFirst(p - 1) /\ DueOfFirst(p - 1) \in Seq(Lines)
          /\ p - 1 \in 0 .. NumPaths
      <3>1. p - 1 \in 0 .. NumPaths
        BY <1>1
      <3> QED
        BY <1>1, <3>1, DueStays, DueOfFirstType
    <2>4. Generated(p)' = g \o x
      OBVIOUS
    <2> HIDE DEF x, r, g
    <2>5. ASSUME p > current
          PROVE  r \o x = g \o x
      BY <2>2, <2>5
    <2>6. ASSUME p = current
          PROVE  printed \o (r \o x) = DueOfFirst(p - 1) \o (g \o x)
      <3>1. r \in Seq(Lines) /\ g \in Seq(Lines)
        BY <1>2 DEF r, g
      <3>2. (printed \o r) \o x = printed \o (r \o x)
        BY <1>2, <2>1, <3>1, LinesAssociate, Zenon
      <3>3. (DueOfFirst(p - 1) \o g) \o x = DueOfFirst(p - 1) \o (g \o x)
        BY <2>1, <2>3, <3>1, LinesAssociate, Zenon
      <3>4. printed \o r = DueOfFirst(p - 1) \o g
        BY <2>2, <2>6
      <3> QED
        BY <3>2, <3>3, <3>4, Zenon
    <2>7. SentOf(p)' = (/\ p > current => r \o x = Generated(p)'
                        /\ p = current => printed \o (r \o x) =
                                          DueOfFirst(p - 1)' \o Generated(p)')
      BY <1>1 DEF SentOf, r, x
    <2> QED
      BY <2>3, <2>4, <2>5, <2>6, <2>7
  <1>5. PrintedAll'
    <2>1. DueOfFirst(NumPaths)' = DueOfFirst(NumPaths)
      <3>1. NumPaths \in 0 .. NumPaths
        BY <1>1
      <3> QED
        BY <1>1, <3>1, DueStays
    <2> QED
      BY <1>1, <2>1 DEF ManifestInv, PrintedAll
  <1> QED
    BY <1>3, <1>4, <1>5 DEF InStep, Sent

(* Such a step keeps the state in its type. *)
LEMMA HandoverType ==
    ASSUME ManifestTypeOK, NEW p \in Paths,
           UNCHANGED <<inputs, results, current, printed>>,
           task' \in [Paths -> TaskRecords],
           \A q \in Paths \ {p} : task'[q] = task[q],
           task'[p].pos \in 1 .. Len(files[p].entries) + 1
    PROVE  ManifestTypeOK'
  <1>1. /\ files' = files /\ options' = options /\ mode' = mode /\ results' = results
        /\ current' = current /\ printed' = printed
    BY DEF inputs
  <1>2. \A q \in Paths : task'[q].pos \in 1 .. Len(files'[q].entries) + 1
    BY <1>1 DEF ManifestTypeOK
  <1> QED
    BY <1>1, <1>2 DEF ManifestTypeOK

(* Two lines, one after the other. *)
LEMMA PairOfLines ==
    ASSUME NEW a, NEW b
    PROVE  <<a>> \o <<b>> = <<a, b>>
  <1> DEFINE S == {a, b}
             s == <<a>> \o <<b>>
             t == <<a, b>>
  <1>1. /\ <<a>> \in Seq(S) /\ <<b>> \in Seq(S) /\ t \in Seq(S)
        /\ Len(<<a>>) = 1 /\ Len(<<b>>) = 1 /\ Len(t) = 2
    OBVIOUS
  <1>2. <<a>>[1] = a /\ <<b>>[1] = b /\ t[1] = a /\ t[2] = b
    OBVIOUS
  <1>3. /\ s \in Seq(S) /\ Len(s) = 2
        /\ \A i \in 1 .. 2 : s[i] = IF i <= 1 THEN <<a>>[i] ELSE <<b>>[i - 1]
    BY <1>1, ConcatProperties
  <1> HIDE DEF s, t
  <1>4. \A i \in 1 .. 2 : s[i] = t[i]
    BY <1>2, <1>3
  <1>5. s = t
    BY <1>1, <1>3, <1>4, SeqEqual
  <1> QED
    BY <1>5 DEF s, t

(* The parts of the invariant that speak of one path. *)
LEMMA TaskType ==
    ASSUME ManifestInv, NEW p \in Paths
    PROVE  /\ FilesTyped /\ task \in [Paths -> TaskRecords]
           /\ files[p].kind \in {"missing", "unreadable", "manifest"}
           /\ files[p].entries \in Seq(Elements) /\ Len(files[p].entries) \in Nat
           /\ task[p].at \in Ats /\ task[p].pos \in Nat
           /\ task[p].pos \in 1 .. Len(files[p].entries) + 1
           /\ TaskInStep(p) /\ Generated(p) \in Seq(Lines)
           /\ results[p] \in Seq(Lines) /\ task[p].todo \in Seq(Lines)
  <1>1. FilesTyped
    BY DEF ManifestInv, ManifestTypeOK, FilesTyped
  <1>2. /\ files[p].entries \in Seq(Elements)
        /\ files[p].kind \in {"missing", "unreadable", "manifest"}
    BY <1>1, FileType
  <1>3. Len(files[p].entries) \in Nat
    BY <1>2, LenProperties
  <1> QED
    BY <1>1, <1>2, <1>3, GeneratedType
    DEF ManifestInv, ManifestTypeOK, InStep, TaskRecords, Ats

(* The options are some that the command can be given. *)
LEMMA OptionsGiven == ManifestInv => options \in OptionSets
  BY DEF ManifestInv, ManifestTypeOK

(* The list of no resources is empty. *)
LEMMA ListingEmpty == Listing(<<>>) = <<>>
  <1>1. <<>> \in Seq(Resources) /\ Len(<<>>) = 0
    BY EmptySeq
  <1>2. mode.list => Len(Listing(<<>>)) = 0
    BY <1>1, ListingType, MatchingEmpty
  <1> QED
    BY <1>1, <1>2, ListingType, EmptySeq

(* The sequences of lines that run() hands over literally. *)
LEMMA LineSequences ==
    /\ <<>> \in Seq(Lines) /\ <<NotFound>> \in Seq(Lines)
    /\ <<Failure>> \in Seq(Lines) /\ <<Header>> \in Seq(Lines)
  <1>1. NotFound \in Lines /\ Failure \in Lines /\ Header \in Lines
    BY LinesAre
  <1> QED
    BY <1>1, EmptySeq

(* manifest.Find: the header is due of every path but a missing one. *)
LEMMA FindKeeps ==
    ASSUME ManifestInv, NEW p \in Paths, Find(p)
    PROVE  ManifestInv'
  <1>1. /\ task[p].at = "find" /\ task[p].todo = <<>>
        /\ UNCHANGED <<inputs, results, current, printed>> /\ files' = files
    BY DEF Find, Proceeds, inputs
  <1>2. Generated(p) = <<>> /\ Due(p)' = Due(p)
    BY <1>1, TaskType, DueStays DEF Generated
  <1>3. CASE files[p].kind = "missing"
    <2>1. Go(p, "close", <<NotFound>>)
      BY <1>3 DEF Find
    <2>2. /\ task' \in [Paths -> TaskRecords] /\ task'[p].at = "close"
          /\ \A q \in Paths \ {p} : task'[q] = task[q]
          /\ task'[p].todo = <<NotFound>> /\ task'[p].pos = task[p].pos
      <3>1. "close" \in Ats
        BY DEF Ats
      <3>2. task \in [Paths -> TaskRecords] /\ <<NotFound>> \in Seq(Lines)
        BY TaskType, LineSequences
      <3> QED
        BY <2>1, <3>1, <3>2, GoDoes
    <2>3. Generated(p)' = Due(p)'
      BY <2>2 DEF Generated
    <2>4. Generated(p)' = Generated(p) \o task'[p].todo
      <3>1. Due(p) = <<NotFound>>
        BY <1>3 DEF Due
      <3>2. <<>> \o <<NotFound>> = <<NotFound>>
        BY LineSequences, ConcatEmptySeq
      <3> QED
        BY <1>2, <2>2, <2>3, <3>1, <3>2
    <2>5. TaskInStep(p)'
      BY <2>2 DEF TaskInStep
    <2>6. InStep' /\ Sent' /\ PrintedAll'
      BY <1>1, <2>2, <2>4, <2>5, LineSequences, Handover
    <2>7. ManifestTypeOK'
      BY <1>1, <2>2, TaskType, HandoverType DEF ManifestInv
    <2> QED
      BY <2>6, <2>7 DEF ManifestInv
  <1>4. CASE files[p].kind # "missing"
    <2>1. Go(p, "load", <<Header>>)
      BY <1>4 DEF Find
    <2>2. /\ task' \in [Paths -> TaskRecords] /\ task'[p].at = "load"
          /\ \A q \in Paths \ {p} : task'[q] = task[q]
          /\ task'[p].todo = <<Header>> /\ task'[p].pos = task[p].pos
          /\ task'[p].total = task[p].total /\ task'[p].filtered = task[p].filtered
      <3>1. "load" \in Ats
        BY DEF Ats
      <3>2. task \in [Paths -> TaskRecords] /\ <<Header>> \in Seq(Lines)
        BY TaskType, LineSequences
      <3> QED
        BY <2>1, <3>1, <3>2, GoDoes
    <2>3. Generated(p)' = Generated(p) \o task'[p].todo
      <3>1. Generated(p)' = <<Header>>
        BY <2>2 DEF Generated
      <3>2. <<>> \o <<Header>> = <<Header>>
        BY LineSequences, ConcatEmptySeq
      <3> QED
        BY <1>2, <2>2, <3>1, <3>2
    <2>4. TaskInStep(p)'
      BY <1>1, <1>4, <2>2, TaskType DEF TaskInStep
    <2>5. InStep' /\ Sent' /\ PrintedAll'
      BY <1>1, <2>2, <2>3, <2>4, LineSequences, Handover
    <2>6. ManifestTypeOK'
      BY <1>1, <2>2, TaskType, HandoverType DEF ManifestInv
    <2> QED
      BY <2>5, <2>6 DEF ManifestInv
  <1> QED
    BY <1>3, <1>4

(* manifest.BufferedFile: the statistics are those of nothing yet read. *)
LEMMA LoadKeeps ==
    ASSUME ManifestInv, NEW p \in Paths, Load(p)
    PROVE  ManifestInv'
  <1>1. /\ task[p].at = "load" /\ task[p].todo = <<>>
        /\ UNCHANGED <<inputs, results, current, printed>> /\ files' = files
    BY DEF Load, Proceeds, inputs
  <1>2. Generated(p) = <<Header>> /\ Due(p)' = Due(p) /\ files[p].kind # "missing"
    BY <1>1, TaskType, DueStays DEF Generated, TaskInStep
  <1>3. CASE files[p].kind = "unreadable"
    <2>1. Go(p, "close", <<Failure>>)
      BY <1>3 DEF Load
    <2>2. /\ task' \in [Paths -> TaskRecords] /\ task'[p].at = "close"
          /\ \A q \in Paths \ {p} : task'[q] = task[q]
          /\ task'[p].todo = <<Failure>> /\ task'[p].pos = task[p].pos
      <3>1. "close" \in Ats
        BY DEF Ats
      <3>2. task \in [Paths -> TaskRecords] /\ <<Failure>> \in Seq(Lines)
        BY TaskType, LineSequences
      <3> QED
        BY <2>1, <3>1, <3>2, GoDoes
    <2>3. Generated(p)' = Due(p)'
      BY <2>2 DEF Generated
    <2>4. Generated(p)' = Generated(p) \o task'[p].todo
      <3>1. Due(p) = <<Header, Failure>>
        BY <1>3 DEF Due
      <3>2. <<Header>> \o <<Failure>> = <<Header, Failure>>
        BY PairOfLines
      <3> QED
        BY <1>2, <2>2, <2>3, <3>1, <3>2
    <2>5. TaskInStep(p)'
      BY <2>2 DEF TaskInStep
    <2>6. InStep' /\ Sent' /\ PrintedAll'
      BY <1>1, <2>2, <2>4, <2>5, LineSequences, Handover
    <2>7. ManifestTypeOK'
      BY <1>1, <2>2, TaskType, HandoverType DEF ManifestInv
    <2> QED
      BY <2>6, <2>7 DEF ManifestInv
  <1>4. CASE files[p].kind # "unreadable"
    <2>1. Go(p, "read", <<>>) /\ files[p].kind = "manifest"
      BY <1>2, <1>4, TaskType DEF Load
    <2>2. /\ task' \in [Paths -> TaskRecords] /\ task'[p].at = "read"
          /\ \A q \in Paths \ {p} : task'[q] = task[q]
          /\ task'[p].todo = <<>> /\ task'[p].pos = task[p].pos
          /\ task'[p].total = task[p].total /\ task'[p].filtered = task[p].filtered
      <3>1. "read" \in Ats
        BY DEF Ats
      <3>2. task \in [Paths -> TaskRecords] /\ <<>> \in Seq(Lines)
        BY TaskType, LineSequences
      <3> QED
        BY <2>1, <3>1, <3>2, GoDoes
    <2>3. /\ ReadSoFar(p)' = <<>> /\ AllDecode(files[p].entries, 0)
          /\ task[p].pos = 1 /\ task[p].total = NoStats /\ task[p].filtered = NoStats
      <3>1. task[p].pos = 1 /\ task[p].total = NoStats /\ task[p].filtered = NoStats
        BY <1>1, TaskType DEF TaskInStep
      <3>2. AllDecode(files[p].entries, 0)
        BY TaskType DEF AllDecode
      <3>3. ReadSoFar(p)' = Initial(files[p].entries, 0)
        BY <1>1, <2>2, <3>1 DEF ReadSoFar
      <3>4. Initial(files[p].entries, 0) = <<>>
        BY SubSeqEmpty DEF Initial
      <3> QED
        BY <3>1, <3>2, <3>3, <3>4
    <2>4. TaskInStep(p)'
      <3>1. StatsOf(ReadSoFar(p)') = NoStats /\ StatsOf(Matching(ReadSoFar(p))') = NoStats
        <4>1. Matching(ReadSoFar(p))' = <<>>
          BY <1>1, <2>3, ListingStays, MatchingEmpty
        <4> QED
          BY <2>3, <4>1, StatsOfNothing
      <3> QED
        BY <1>1, <2>1, <2>2, <2>3, <3>1 DEF TaskInStep
    <2>5. Generated(p)' = Generated(p) \o task'[p].todo
      <3>1. Listing(ReadSoFar(p))' = <<>>
        BY <1>1, <2>3, ListingStays, ListingEmpty
      <3>2. Generated(p)' = <<Header>> \o <<>>
        BY <2>2, <3>1 DEF Generated
      <3> QED
        BY <1>2, <2>2, <3>2
    <2>6. InStep' /\ Sent' /\ PrintedAll'
      BY <1>1, <2>2, <2>4, <2>5, LineSequences, Handover
    <2>7. ManifestTypeOK'
      BY <1>1, <2>2, TaskType, HandoverType DEF ManifestInv
    <2> QED
      BY <2>6, <2>7 DEF ManifestInv
  <1> QED
    BY <1>3, <1>4

(* A bad element after good ones is the first bad one. *)
LEMMA DecodedUpToBad ==
    ASSUME NEW es \in Seq(Elements), NEW k, AllDecode(es, k), k < Len(es), es[k + 1] = Bad
    PROVE  Decoded(es) = Initial(es, k) /\ Decoded(es) # es
  <1>1. PICK d : /\ AllDecode(es, d) /\ Decoded(es) = Initial(es, d)
                 /\ d < Len(es) => es[d + 1] = Bad /\ Decoded(es) # es
    BY DecodedIsInitial
  <1>2. /\ Len(es) \in Nat /\ k \in Nat /\ d \in Nat /\ k <= Len(es) /\ d <= Len(es)
        /\ \A i \in 1 .. k : es[i] # Bad /\ \A j \in 1 .. d : es[j] # Bad
    BY <1>1, LenProperties DEF AllDecode
  <1>3. ~(d < k)
    <2>1. d < k => d + 1 \in 1 .. k /\ d < Len(es)
      BY <1>2
    <2>2. \A i \in 1 .. k : es[i] # Bad
      BY DEF AllDecode
    <2> QED
      BY <1>1, <2>1, <2>2
  <1>4. ~(k < d)
    <2>1. k < d => k + 1 \in 1 .. d
      BY <1>2
    <2>2. \A i \in 1 .. d : es[i] # Bad
      BY <1>1 DEF AllDecode
    <2> QED
      BY <2>1, <2>2
  <1>5. d = k
    BY <1>2, <1>3, <1>4
  <1> QED
    BY <1>1, <1>5

(* If all elements can be decoded, they are what is decoded. *)
LEMMA DecodedToTheEnd ==
    ASSUME NEW es \in Seq(Elements), AllDecode(es, Len(es))
    PROVE  Decoded(es) = es /\ Initial(es, Len(es)) = es
  <1>1. PICK d : /\ AllDecode(es, d)
                 /\ d < Len(es) => es[d + 1] = Bad
                 /\ d = Len(es) => Decoded(es) = es
    BY DecodedIsInitial
  <1>2. Len(es) \in Nat /\ d \in Nat /\ d <= Len(es)
    BY <1>1, LenProperties DEF AllDecode
  <1>3. ~(d < Len(es))
    <2>1. d < Len(es) => d + 1 \in 1 .. Len(es)
      BY <1>2
    <2>2. \A i \in 1 .. Len(es) : es[i] # Bad
      BY DEF AllDecode
    <2> QED
      BY <1>1, <2>1, <2>2
  <1>4. d = Len(es)
    BY <1>2, <1>3
  <1> QED
    BY <1>1, <1>4, SubSeqFull DEF Initial

(* Stats.Add makes statistics of statistics. *)
LEMMA AddType ==
    ASSUME NEW s \in StatsSet, NEW r \in Resources
    PROVE  Add(s, r) \in StatsSet
  <1>1. r.time \in Nat /\ r.size \in Nat
    BY ManifestAssumption
  <1> QED
    BY <1>1 DEF StatsSet, Add

(* What Cursor.process and enumerate make of a resource. *)
LEMMA ProcessDoes ==
    ASSUME options \in OptionSets,
           task \in [Paths -> TaskRecords], NEW p \in Paths, NEW r \in Resources,
           task' = [task EXCEPT ![p] = [Process(task[p], r) EXCEPT !.todo = Shown(r)]]
    PROVE  /\ task' \in [Paths -> TaskRecords]
           /\ \A q \in Paths \ {p} : task'[q] = task[q]
           /\ task'[p].at = task[p].at /\ task'[p].todo = Shown(r)
           /\ task'[p].pos = task[p].pos + 1 /\ task'[p].total = Add(task[p].total, r)
           /\ task'[p].filtered = IF Match(Filter, r) THEN Add(task[p].filtered, r)
                                  ELSE task[p].filtered
  <1> DEFINE t == task[p]
             total == Add(t.total, r)
             filtered == IF Match(Filter, r) THEN Add(t.filtered, r) ELSE t.filtered
             q1 == [t EXCEPT !.pos = @ + 1]
             q2 == [q1 EXCEPT !.total = total]
             q3 == [q2 EXCEPT !.filtered = filtered]
             q4 == [q3 EXCEPT !.todo = Shown(r)]
  <1>1. /\ t \in TaskRecords /\ t.pos \in Nat /\ t.total \in StatsSet /\ t.filtered \in StatsSet
        /\ t.at \in Ats /\ t.todo \in Seq(Lines)
    BY DEF TaskRecords, Ats
  <1>2. total \in StatsSet /\ filtered \in StatsSet /\ Shown(r) \in Seq(Lines)
    <2>1. Shown(r) \in Seq(Lines)
      BY ListingAppend, EmptySeq
    <2> QED
      BY <1>1, <2>1, AddType
  <1>3. t = [at |-> t.at, pos |-> t.pos, todo |-> t.todo, total |-> t.total,
             filtered |-> t.filtered]
    BY <1>1 DEF TaskRecords
  <1>4. Process(t, r) = [at |-> t.at, pos |-> t.pos + 1, todo |-> t.todo, total |-> total,
                         filtered |-> filtered]
    <2> HIDE DEF t, total, filtered
    <2>1. Process(t, r) = [t EXCEPT !.pos = t.pos + 1, !.total = total, !.filtered = filtered]
      BY DEF Process, total, filtered
    <2> QED
      BY <1>3, <2>1
  <1>5. task'[p] = [at |-> t.at, pos |-> t.pos + 1, todo |-> Shown(r), total |-> total,
                    filtered |-> filtered]
    <2> HIDE DEF t, total, filtered
    <2> QED
      BY <1>4 DEF t
  <1>6. task'[p] \in TaskRecords
    <2> HIDE DEF t, total, filtered
    <2> QED
      BY <1>1, <1>2, <1>5 DEF TaskRecords, Ats
  <1>7. \A q \in Paths \ {p} : task'[q] = task[q]
    OBVIOUS
  <1>8. task' \in [Paths -> TaskRecords]
    <2>1. DOMAIN task' = Paths /\ \A q \in Paths : task'[q] \in TaskRecords
      BY <1>6, <1>7
    <2>2. task' = [q \in Paths |-> task'[q]]
      BY <2>1
    <2> QED
      BY <2>1, <2>2
  <1> HIDE DEF total, filtered, t
  <1>9. /\ task'[p].at = t.at /\ task'[p].todo = Shown(r) /\ task'[p].pos = t.pos + 1
        /\ task'[p].total = total /\ task'[p].filtered = filtered
    BY <1>5
  <1> QED
    BY <1>7, <1>8, <1>9 DEF t, total, filtered

(* The header may be put first or last before what follows. *)
LEMMA HeaderAssociates ==
    \A t, u \in Seq(Lines) : (<<Header>> \o t) \o u = <<Header>> \o (t \o u)
  BY LineSequences, LinesAssociate

(* Cursor.Read: the statistics and the list take in the resource, or the error ends the report. *)
LEMMA ReadKeeps ==
    ASSUME ManifestInv, NEW p \in Paths, Read(p)
    PROVE  ManifestInv'
  <1> DEFINE es == files[p].entries
             k == task[p].pos - 1
             e == es[k + 1]
  <1>1. /\ task[p].at = "read" /\ task[p].todo = <<>>
        /\ UNCHANGED <<inputs, results, current, printed>> /\ files' = files
        /\ task[p].pos <= Len(es)
    BY DEF Read, Proceeds, inputs
  <1>2. /\ FilesTyped /\ task \in [Paths -> TaskRecords] /\ es \in Seq(Elements)
        /\ Len(es) \in Nat /\ task[p].pos \in Nat /\ files[p].kind = "manifest"
        /\ AllDecode(es, k)
        /\ task[p].total = StatsOf(Initial(es, k))
        /\ task[p].filtered = StatsOf(Matching(Initial(es, k)))
    BY <1>1, TaskType DEF TaskInStep, ReadSoFar
  <1>3. k \in Nat /\ k + 1 = task[p].pos /\ k < Len(es) /\ k + 1 \in 1 .. Len(es)
    <2>1. k \in Nat
      BY <1>2, InitialType
    <2> QED
      BY <1>1, <1>2, <2>1
  <1>4. Generated(p) = <<Header>> \o Listing(Initial(es, k))
    BY <1>1 DEF Generated, ReadSoFar
  <1>5. Initial(es, k) \in Seq(Resources) /\ Listing(Initial(es, k)) \in Seq(Lines)
    BY <1>2, InitialType, ListingType
  <1>6. CASE e = Bad
    <2>1. Go(p, "close", <<Failure>>)
      BY <1>3, <1>6 DEF Read, Decodes
    <2>2. /\ task' \in [Paths -> TaskRecords] /\ task'[p].at = "close"
          /\ \A q \in Paths \ {p} : task'[q] = task[q]
          /\ task'[p].todo = <<Failure>> /\ task'[p].pos = task[p].pos
      <3>1. "close" \in Ats
        BY DEF Ats
      <3> QED
        BY <1>2, <2>1, <3>1, LineSequences, GoDoes
    <2>3. Decoded(es) = Initial(es, k) /\ Decoded(es) # es
      BY <1>2, <1>3, <1>6, DecodedUpToBad
    <2>4. Due(p) = <<Header>> \o (Listing(Initial(es, k)) \o <<Failure>>)
      <3>1. Report(es) = Listing(Decoded(es)) \o Rest(es)
        BY <1>2, ReportIs
      <3>2. Rest(es) = <<Failure>>
        BY <2>3 DEF Rest
      <3> QED
        BY <1>2, <2>3, <3>1, <3>2 DEF Due
    <2>5. Generated(p)' = Generated(p) \o task'[p].todo
      <3>1. Generated(p)' = Due(p)'
        BY <2>2 DEF Generated
      <3>2. Due(p)' = Due(p)
        BY <1>1, <1>2, DueStays
      <3>3. (<<Header>> \o Listing(Initial(es, k))) \o <<Failure>>
            = <<Header>> \o (Listing(Initial(es, k)) \o <<Failure>>)
        BY <1>5, LineSequences, HeaderAssociates, Zenon
      <3> HIDE DEF es, k
      <3> QED
        BY <1>4, <2>2, <2>4, <3>1, <3>2, <3>3
    <2>6. TaskInStep(p)'
      BY <2>2 DEF TaskInStep
    <2>7. InStep' /\ Sent' /\ PrintedAll'
      BY <1>1, <2>2, <2>5, <2>6, LineSequences, Handover
    <2>8. ManifestTypeOK'
      BY <1>1, <2>2, TaskType, HandoverType DEF ManifestInv
    <2> QED
      BY <2>7, <2>8 DEF ManifestInv
  <1>7. CASE e # Bad
    <2>1. /\ AllDecode(es, k + 1) /\ e \in Resources
          /\ Initial(es, k + 1) = Append(Initial(es, k), e)
      BY <1>2, <1>3, <1>7, InitialAppend
    <2>2. task' = [task EXCEPT ![p] = [Process(task[p], e) EXCEPT !.todo = Shown(e)]]
      BY <1>3, <1>7 DEF Read, Decodes
    <2> HIDE DEF e
    <2>3. /\ task' \in [Paths -> TaskRecords]
          /\ \A q \in Paths \ {p} : task'[q] = task[q]
          /\ task'[p].at = "read" /\ task'[p].todo = Shown(e)
          /\ task'[p].pos = task[p].pos + 1 /\ task'[p].total = Add(task[p].total, e)
          /\ task'[p].filtered = IF Match(Filter, e) THEN Add(task[p].filtered, e)
                                 ELSE task[p].filtered
      BY <1>1, <1>2, <2>1, <2>2, OptionsGiven, ProcessDoes
    <2>4. ReadSoFar(p)' = Initial(es, k + 1)
      <3>1. task'[p].pos - 1 = k + 1
        BY <1>2, <2>3
      <3> QED
        BY <1>1, <3>1 DEF ReadSoFar
    <2>5. Add(task[p].total, e) = StatsOf(Initial(es, k + 1))
      BY <1>2, <1>5, <2>1, StatsAppend
    <2>6. task'[p].filtered = StatsOf(Matching(Initial(es, k + 1)))
      <3>1. Matching(Initial(es, k)) \in Seq(Resources)
        BY <1>5, MatchingType
      <3>2. Matching(Initial(es, k + 1)) = Matching(Initial(es, k)) \o Chosen(e)
        BY <1>5, <2>1, MatchingAppend
      <3>3. Match(Filter, e) <=> Selected(e)
        BY <2>1, OptionsGiven, FilterSelects
      <3>4. CASE Selected(e)
        <4>1. Matching(Initial(es, k + 1)) = Append(Matching(Initial(es, k)), e)
          BY <2>1, <3>1, <3>2, <3>4, AppendIsConcat DEF Chosen
        <4> QED
          BY <1>2, <2>1, <2>3, <3>1, <3>3, <3>4, <4>1, StatsAppend
      <3>5. CASE ~Selected(e)
        <4>1. Matching(Initial(es, k + 1)) = Matching(Initial(es, k))
          BY <3>1, <3>2, <3>5, ConcatEmptySeq DEF Chosen
        <4> QED
          BY <1>2, <2>3, <3>3, <3>5, <4>1
      <3> QED
        BY <3>4, <3>5
    <2>7. Matching(ReadSoFar(p))' = Matching(Initial(es, k + 1))
      BY <1>1, <2>4, ListingStays
    <2>8. TaskInStep(p)'
      <3>1. task'[p].pos - 1 = k + 1
        BY <1>2, <2>3
      <3>2. AllDecode(files'[p].entries, task'[p].pos - 1) /\ files'[p].kind = "manifest"
        BY <1>1, <1>2, <2>1, <3>1
      <3>3. task'[p].total = StatsOf(ReadSoFar(p)')
        BY <2>3, <2>4, <2>5
      <3>4. task'[p].filtered = StatsOf(Matching(ReadSoFar(p))')
        BY <2>6, <2>7
      <3> QED
        BY <2>3, <3>2, <3>3, <3>4 DEF TaskInStep
    <2>9. Shown(e) \in Seq(Lines)
          /\ Listing(Initial(es, k + 1)) = Listing(Initial(es, k)) \o Shown(e)
      BY <1>5, <2>1, OptionsGiven, ListingAppend
    <2>10. Generated(p)' = Generated(p) \o task'[p].todo
      <3>1. Listing(ReadSoFar(p))' = Listing(Initial(es, k + 1))
        BY <1>1, <2>4, ListingStays
      <3>2. Generated(p)' = <<Header>> \o Listing(Initial(es, k + 1))
        BY <2>3, <3>1 DEF Generated
      <3>3. (<<Header>> \o Listing(Initial(es, k))) \o Shown(e)
            = <<Header>> \o (Listing(Initial(es, k)) \o Shown(e))
        BY <1>5, <2>9, HeaderAssociates, Zenon
      <3> HIDE DEF es, k
      <3> QED
        BY <1>4, <2>3, <2>9, <3>2, <3>3
    <2>11. InStep' /\ Sent' /\ PrintedAll'
      BY <1>1, <2>3, <2>8, <2>9, <2>10, Handover
    <2>12. ManifestTypeOK'
      <3>1. task'[p].pos \in 1 .. Len(es) + 1
        BY <1>1, <1>2, <2>3
      <3> QED
        BY <1>1, <2>3, <3>1, HandoverType DEF ManifestInv
    <2> QED
      BY <2>11, <2>12 DEF ManifestInv
  <1> QED
    BY <1>6, <1>7

(* At the end of the manifest nothing has been left out. *)
LEMMA EndKeeps ==
    ASSUME ManifestInv, NEW p \in Paths, End(p)
    PROVE  ManifestInv'
  <1> DEFINE es == files[p].entries
  <1>1. /\ task[p].at = "read" /\ task[p].todo = <<>>
        /\ UNCHANGED <<inputs, results, current, printed>> /\ files' = files
        /\ task[p].pos > Len(es) /\ Go(p, "summary", <<>>)
    BY DEF End, Proceeds, inputs
  <1>2. /\ FilesTyped /\ task \in [Paths -> TaskRecords] /\ Len(es) \in Nat
        /\ task[p].pos \in 1 .. Len(es) + 1 /\ TaskInStep(p) /\ Generated(p) \in Seq(Lines)
    BY TaskType
  <1>3. /\ task' \in [Paths -> TaskRecords] /\ task'[p].at = "summary"
        /\ \A q \in Paths \ {p} : task'[q] = task[q]
        /\ task'[p].todo = <<>> /\ task'[p].pos = task[p].pos
        /\ task'[p].total = task[p].total /\ task'[p].filtered = task[p].filtered
    <2>1. "summary" \in Ats
      BY DEF Ats
    <2> QED
      BY <1>1, <1>2, <2>1, LineSequences, GoDoes
  <1>4. task[p].pos = Len(es) + 1
    BY <1>1, <1>2
  <1>5. ReadSoFar(p)' = ReadSoFar(p)
    BY <1>1, <1>3 DEF ReadSoFar
  <1>6. TaskInStep(p)'
    <2>1. Matching(ReadSoFar(p))' = Matching(ReadSoFar(p))
      BY <1>1, <1>5, ListingStays
    <2> QED
      BY <1>1, <1>2, <1>3, <1>4, <1>5, <2>1 DEF TaskInStep
  <1>7. Generated(p)' = Generated(p) \o task'[p].todo
    <2>1. Listing(ReadSoFar(p))' = Listing(ReadSoFar(p))
      BY <1>1, <1>5, ListingStays
    <2>2. Generated(p)' = Generated(p)
      BY <1>1, <1>3, <2>1 DEF Generated
    <2> QED
      BY <1>2, <1>3, <2>2, ConcatEmptySeq
  <1>8. InStep' /\ Sent' /\ PrintedAll'
    BY <1>1, <1>3, <1>6, <1>7, LineSequences, Handover
  <1>9. ManifestTypeOK'
    BY <1>1, <1>2, <1>3, HandoverType DEF ManifestInv
  <1> QED
    BY <1>8, <1>9 DEF ManifestInv

(* The statistics are those of the whole manifest and of what matches, and each has
   its own line. *)
LEMMA SummarizeKeeps ==
    ASSUME ManifestInv, NEW p \in Paths, Summarize(p)
    PROVE  ManifestInv'
  <1> DEFINE es == files[p].entries
             f == task[p].filtered
             t == task[p].total
             lines == IF ~mode.summarize THEN <<>>
                      ELSE (IF mode.list /\ f.entries > 0 THEN <<Blank>> ELSE <<>>)
                           \o <<Info, Line("total", t)>>
                           \o (IF Filter # Nil THEN <<Line("matching", f)>> ELSE <<>>)
  <1>1. /\ task[p].at = "summary" /\ task[p].todo = <<>>
        /\ UNCHANGED <<inputs, results, current, printed>> /\ files' = files
        /\ Go(p, "close", lines)
    BY DEF Summarize, Proceeds, inputs, Stats
  <1>2. /\ FilesTyped /\ task \in [Paths -> TaskRecords] /\ Len(es) \in Nat
        /\ task[p].pos \in 1 .. Len(es) + 1 /\ es \in Seq(Elements)
    BY TaskType
  <1>3. /\ AllDecode(es, Len(es)) /\ ReadSoFar(p) = Initial(es, Len(es))
        /\ t = StatsOf(ReadSoFar(p)) /\ f = StatsOf(Matching(ReadSoFar(p)))
        /\ files[p].kind = "manifest"
    <2>1. task[p].pos - 1 = Len(es)
      BY <1>1, <1>2, TaskType DEF TaskInStep
    <2> QED
      BY <1>1, <2>1, TaskType DEF TaskInStep, ReadSoFar
  <1>4. Decoded(es) = es /\ ReadSoFar(p) = es /\ es \in Seq(Resources)
    BY <1>2, <1>3, DecodedToTheEnd, DecodedType
  <1>5. lines = SummaryOf(es)
    <2>1. (Listing(es) # <<>>) <=> (mode.list /\ f.entries > 0)
      <3>1. f.entries = Len(Matching(es)) /\ f.entries \in Nat
        BY <1>3, <1>4, MatchingType, StatsType, LenProperties
      <3>2. CASE mode.list
        <4>1. Len(Listing(es)) = f.entries /\ Listing(es) \in Seq(Lines)
          BY <1>4, <3>1, <3>2, ListingType
        <4>2. Listing(es) = <<>> <=> Len(Listing(es)) = 0
          BY <4>1, EmptySeq
        <4> HIDE DEF es, f
        <4> QED
          BY <3>1, <3>2, <4>1, <4>2
      <3>3. CASE ~mode.list
        BY <1>4, <3>3, ListingType
      <3> QED
        BY <3>2, <3>3
    <2>2. Filter # Nil <=> Filtering
      BY OptionsGiven, FilterSelects
    <2>3. t = StatsOf(es) /\ f = StatsOf(Matching(es))
      BY <1>3, <1>4
    <2> HIDE DEF t, f, es
    <2>4. (IF mode.list /\ f.entries > 0 THEN <<Blank>> ELSE <<>>)
          = (IF Listing(es) # <<>> THEN <<Blank>> ELSE <<>>)
      BY <2>1
    <2>5. (IF Filter # Nil THEN <<Line("matching", f)>> ELSE <<>>)
          = (IF Filtering THEN <<Line("matching", StatsOf(Matching(es)))>> ELSE <<>>)
      BY <2>2, <2>3
    <2> QED
      BY <2>3, <2>4, <2>5 DEF SummaryOf
  <1> HIDE DEF lines, f, t
  <1>6. lines \in Seq(Lines)
    BY <1>4, <1>5, SummaryType
  <1>7. /\ task' \in [Paths -> TaskRecords] /\ task'[p].at = "close"
        /\ \A q \in Paths \ {p} : task'[q] = task[q]
        /\ task'[p].todo = lines /\ task'[p].pos = task[p].pos
    <2>1. "close" \in Ats
      BY DEF Ats
    <2> QED
      BY <1>1, <1>2, <1>6, <2>1, GoDoes
  <1>8. TaskInStep(p)'
    BY <1>7 DEF TaskInStep
  <1>9. Generated(p)' = Generated(p) \o task'[p].todo
    <2>1. Generated(p)' = Due(p)'
      BY <1>7 DEF Generated
    <2>2. Due(p)' = Due(p)
      BY <1>1, <1>2, DueStays
    <2>3. Due(p) = <<Header>> \o (Listing(es) \o lines)
      <3>1. Report(es) = Listing(Decoded(es)) \o Rest(es)
        BY <1>2, ReportIs
      <3>2. Rest(es) = SummaryOf(es)
        BY <1>4 DEF Rest
      <3> QED
        BY <1>3, <1>4, <1>5, <3>1, <3>2 DEF Due
    <2>4. Generated(p) = <<Header>> \o Listing(es)
      BY <1>1, <1>4 DEF Generated
    <2>5. (<<Header>> \o Listing(es)) \o lines = <<Header>> \o (Listing(es) \o lines)
      <3>1. Listing(es) \in Seq(Lines)
        BY <1>4, ListingType
      <3> QED
        BY <1>6, <3>1, HeaderAssociates, Zenon
    <2> HIDE DEF es
    <2> QED
      BY <1>7, <2>1, <2>2, <2>3, <2>4, <2>5
  <1>10. InStep' /\ Sent' /\ PrintedAll'
    BY <1>1, <1>6, <1>7, <1>8, <1>9, Handover
  <1>11. ManifestTypeOK'
    BY <1>1, <1>2, <1>7, HandoverType DEF ManifestInv
  <1> QED
    BY <1>10, <1>11 DEF ManifestInv

(* A path whose channel is closed has generated all that is due of it. *)
LEMMA CloseKeeps ==
    ASSUME ManifestInv, NEW p \in Paths, Close(p)
    PROVE  ManifestInv'
  <1>1. /\ task[p].at = "close" /\ task[p].todo = <<>>
        /\ UNCHANGED <<inputs, results, current, printed>> /\ files' = files
        /\ Go(p, "closed", <<>>)
    BY DEF Close, Proceeds, inputs
  <1>2. /\ FilesTyped /\ task \in [Paths -> TaskRecords]
        /\ task[p].pos \in 1 .. Len(files[p].entries) + 1 /\ Generated(p) \in Seq(Lines)
    BY TaskType
  <1>3. /\ task' \in [Paths -> TaskRecords] /\ task'[p].at = "closed"
        /\ \A q \in Paths \ {p} : task'[q] = task[q]
        /\ task'[p].todo = <<>> /\ task'[p].pos = task[p].pos
    <2>1. "closed" \in Ats
      BY DEF Ats
    <2> QED
      BY <1>1, <1>2, <2>1, LineSequences, GoDoes
  <1>4. TaskInStep(p)'
    BY <1>3 DEF TaskInStep
  <1>5. Generated(p)' = Generated(p) \o task'[p].todo
    <2>1. Generated(p)' = Due(p)' /\ Generated(p) = Due(p)
      BY <1>1, <1>3 DEF Generated
    <2>2. Due(p)' = Due(p)
      BY <1>1, <1>2, DueStays
    <2> QED
      BY <1>2, <1>3, <2>1, <2>2, ConcatEmptySeq
  <1>6. InStep' /\ Sent' /\ PrintedAll'
    BY <1>1, <1>3, <1>4, <1>5, LineSequences, Handover
  <1>7. ManifestTypeOK'
    BY <1>1, <1>2, <1>3, HandoverType DEF ManifestInv
  <1> QED
    BY <1>6, <1>7 DEF ManifestInv

(* A line that passes from one channel to the next stays in its place. *)
LEMMA Passing ==
    ASSUME NEW S, NEW s \in Seq(S), NEW t \in Seq(S), t # <<>>
    PROVE  /\ Append(s, Head(t)) \in Seq(S) /\ Tail(t) \in Seq(S)
           /\ Append(s, Head(t)) \o Tail(t) = s \o t
  <1>1. Head(t) \in S /\ Tail(t) \in Seq(S) /\ <<Head(t)>> \in Seq(S)
    BY HeadTailProperties
  <1>2. t = <<Head(t)>> \o Tail(t)
    <2>1. Len(t) \in Nat \ {0}
      BY EmptySeq
    <2>2. SubSeq(t, 1, Len(t)) = <<t[1]>> \o SubSeq(t, 2, Len(t))
      <3>1. 1 \in 1 .. Len(t) /\ Len(t) \in 1 .. Len(t) /\ 1 + 1 = 2
        BY <2>1
      <3> QED
        BY <3>1, SubSeqRecursiveFirst
    <2>3. SubSeq(t, 1, Len(t)) = t /\ Tail(t) = SubSeq(t, 2, Len(t)) /\ Head(t) = t[1]
      BY SubSeqFull, TailIsSubSeq
    <2> QED
      BY <2>2, <2>3
  <1>3. Append(s, Head(t)) = s \o <<Head(t)>> /\ Append(s, Head(t)) \in Seq(S)
    BY <1>1, AppendIsConcat, AppendProperties
  <1>4. (s \o <<Head(t)>>) \o Tail(t) = s \o (<<Head(t)>> \o Tail(t))
    BY <1>1, ConcatAssociative
  <1> QED
    BY <1>1, <1>2, <1>3, <1>4

(* What is due and what has been generated do not change when lines pass. *)
LEMMA PassingStays ==
    ASSUME ManifestInv, UNCHANGED inputs,
           \A p \in Paths : /\ task'[p].at = task[p].at /\ task'[p].pos = task[p].pos
                            /\ task'[p].total = task[p].total
                            /\ task'[p].filtered = task[p].filtered
                            /\ task'[p].todo = task[p].todo \/ task[p].at # "closed"
    PROVE  /\ \A p \in Paths : Generated(p)' = Generated(p)
           /\ \A p \in Paths : DueOfFirst(p - 1)' = DueOfFirst(p - 1)
           /\ DueOfFirst(NumPaths)' = DueOfFirst(NumPaths)
           /\ InStep'
  <1>1. FilesTyped /\ files' = files /\ NumPaths \in Nat /\ Paths = 1 .. NumPaths
    BY ManifestAssumption DEF ManifestInv, ManifestTypeOK, FilesTyped, Paths, inputs
  <1>2. ASSUME NEW p \in Paths
        PROVE  Generated(p)' = Generated(p) /\ TaskInStep(p)'
    <2>1. Due(p)' = Due(p)
      BY <1>1, DueStays
    <2>2. ReadSoFar(p)' = ReadSoFar(p)
      BY <1>1 DEF ReadSoFar
    <2>3. /\ Listing(ReadSoFar(p))' = Listing(ReadSoFar(p))
          /\ Matching(ReadSoFar(p))' = Matching(ReadSoFar(p))
      BY <2>2, ListingStays
    <2>4. Generated(p)' = Generated(p)
      BY <2>1, <2>3 DEF Generated
    <2>5. TaskInStep(p)
      BY DEF ManifestInv, InStep
    <2>6. TaskInStep(p)'
      BY <1>1, <2>2, <2>3, <2>5 DEF TaskInStep
    <2> QED
      BY <2>4, <2>6
  <1>3. \A p \in Paths : p - 1 \in 0 .. NumPaths
    BY <1>1
  <1>4. NumPaths \in 0 .. NumPaths
    BY <1>1
  <1> QED
    BY <1>1, <1>2, <1>3, <1>4, DueStays DEF InStep

(* Printf moves a line from run() to the channel. *)
LEMMA SendKeeps ==
    ASSUME ManifestInv, NEW p \in Paths, Send(p)
    PROVE  ManifestInv'
  <1> DEFINE t == task[p].todo
             r == results[p]
  <1>1. /\ t # <<>> /\ Len(r) < BufferSize /\ UNCHANGED inputs
        /\ files' = files /\ options' = options /\ mode' = mode
        /\ current' = current /\ printed' = printed
        /\ results' = [results EXCEPT ![p] = Append(r, Head(t))]
        /\ task' = [task EXCEPT ![p].todo = Tail(t)]
    BY DEF Send, HasRoom, inputs
  <1>2. /\ task \in [Paths -> TaskRecords] /\ results \in [Paths -> Seq(Lines)]
        /\ t \in Seq(Lines) /\ r \in Seq(Lines) /\ TaskInStep(p)
    BY TaskType DEF ManifestInv, ManifestTypeOK
  <1>3. /\ Append(r, Head(t)) \in Seq(Lines) /\ Tail(t) \in Seq(Lines)
        /\ Append(r, Head(t)) \o Tail(t) = r \o t
    <2> HIDE DEF r, t
    <2> QED
      BY <1>1, <1>2, Passing
  <1>4. Len(Append(r, Head(t))) = Len(r) + 1 /\ Len(r) \in Nat
    <2>1. Head(t) \in Lines
      BY <1>1, <1>2, HeadTailProperties
    <2> QED
      BY <1>2, <2>1, AppendProperties, LenProperties
  <1>5. /\ task' \in [Paths -> TaskRecords] /\ task'[p].todo = Tail(t)
        /\ \A q \in Paths \ {p} : task'[q] = task[q]
        /\ \A q \in Paths : /\ task'[q].at = task[q].at /\ task'[q].pos = task[q].pos
                            /\ task'[q].total = task[q].total
                            /\ task'[q].filtered = task[q].filtered
    <2> HIDE DEF t
    <2>1. task[p] \in TaskRecords
      BY <1>2
    <2>2. PICK u : u = [task[p] EXCEPT !.todo = Tail(t)]
      OBVIOUS
    <2>3. task' = [task EXCEPT ![p] = u]
      BY <1>1, <2>2, Zenon
    <2>4. /\ u \in TaskRecords /\ u.todo = Tail(t) /\ u.at = task[p].at /\ u.pos = task[p].pos
          /\ u.total = task[p].total /\ u.filtered = task[p].filtered
      BY <1>3, <2>1, <2>2 DEF TaskRecords
    <2> QED
      BY <1>2, <2>3, <2>4
  <1>6. /\ results' \in [Paths -> Seq(Lines)] /\ results'[p] = Append(r, Head(t))
        /\ \A q \in Paths \ {p} : results'[q] = results[q]
    <2> HIDE DEF r, t
    <2> QED
      BY <1>1, <1>2, <1>3
  <1>7. \A q \in Paths : task'[q].todo = task[q].todo \/ task[q].at # "closed"
    BY <1>1, <1>2, <1>5 DEF TaskInStep
  <1>8. /\ \A q \in Paths : Generated(q)' = Generated(q)
        /\ \A q \in Paths : DueOfFirst(q - 1)' = DueOfFirst(q - 1)
        /\ DueOfFirst(NumPaths)' = DueOfFirst(NumPaths)
        /\ InStep'
    BY <1>1, <1>5, <1>7, PassingStays
  <1>9. \A q \in Paths : results'[q] \o task'[q].todo = results[q] \o task[q].todo
    BY <1>3, <1>5, <1>6
  <1>10. Sent'
    <2> HIDE DEF r, t
    <2>1. ASSUME NEW q \in Paths
          PROVE  SentOf(q)'
      <3>1. SentOf(q)
        BY DEF ManifestInv, Sent
      <3> QED
        BY <1>1, <1>8, <1>9, <3>1 DEF SentOf
    <2> QED
      BY <2>1 DEF Sent
  <1>11. PrintedAll'
    BY <1>1, <1>8 DEF ManifestInv, PrintedAll
  <1>12. ManifestTypeOK'
    <2>1. \A q \in Paths : Len(results'[q]) <= BufferSize
      <3>1. Len(results'[p]) <= BufferSize
        BY <1>1, <1>4, <1>6, ManifestAssumption
      <3> QED
        BY <1>6, <3>1 DEF ManifestInv, ManifestTypeOK
    <2>2. \A q \in Paths : task'[q].pos \in 1 .. Len(files'[q].entries) + 1
      BY <1>1, <1>5 DEF ManifestInv, ManifestTypeOK
    <2> QED
      BY <1>1, <1>5, <1>6, <2>1, <2>2 DEF ManifestInv, ManifestTypeOK
  <1> QED
    BY <1>8, <1>10, <1>11, <1>12 DEF ManifestInv

(* main moves a line from the channel to the output. *)
LEMMA PrintLineKeeps ==
    ASSUME ManifestInv, PrintLine
    PROVE  ManifestInv'
  <1> DEFINE c == current
             r == results[c]
             t == task[c].todo
  <1>1. /\ c <= NumPaths /\ r # <<>> /\ UNCHANGED inputs
        /\ files' = files /\ options' = options /\ mode' = mode
        /\ current' = current /\ task' = task
        /\ printed' = Append(printed, Head(r))
        /\ results' = [results EXCEPT ![c] = Tail(r)]
    BY DEF PrintLine, inputs
  <1>2. c \in Paths /\ results \in [Paths -> Seq(Lines)] /\ printed \in Seq(Lines)
    BY <1>1, ManifestAssumption DEF ManifestInv, ManifestTypeOK, Paths
  <1>3. r \in Seq(Lines) /\ t \in Seq(Lines)
    BY <1>2, TaskType
  <1>4. /\ Append(printed, Head(r)) \in Seq(Lines) /\ Tail(r) \in Seq(Lines)
        /\ Append(printed, Head(r)) \o Tail(r) = printed \o r
    <2> HIDE DEF r
    <2> QED
      BY <1>1, <1>2, <1>3, Passing
  <1>5. Len(Tail(r)) = Len(r) - 1 /\ Len(r) \in Nat
    BY <1>1, <1>3, HeadTailProperties, LenProperties
  <1>6. /\ results' \in [Paths -> Seq(Lines)] /\ results'[c] = Tail(r)
        /\ \A q \in Paths \ {c} : results'[q] = results[q]
    <2> HIDE DEF r, c
    <2> QED
      BY <1>1, <1>2, <1>4
  <1>7. /\ \A q \in Paths : Generated(q)' = Generated(q)
        /\ \A q \in Paths : DueOfFirst(q - 1)' = DueOfFirst(q - 1)
        /\ DueOfFirst(NumPaths)' = DueOfFirst(NumPaths)
        /\ InStep'
    BY <1>1, PassingStays
  <1>8. printed' \o (results'[c] \o t) = printed \o (r \o t)
    <2>1. (Append(printed, Head(r)) \o Tail(r)) \o t = Append(printed, Head(r)) \o (Tail(r) \o t)
      BY <1>3, <1>4, LinesAssociate, Zenon
    <2>2. (printed \o r) \o t = printed \o (r \o t)
      BY <1>2, <1>3, LinesAssociate, Zenon
    <2> HIDE DEF r, t, c
    <2> QED
      BY <1>1, <1>4, <1>6, <2>1, <2>2
  <1>9. Sent'
    <2>1. ASSUME NEW q \in Paths
          PROVE  SentOf(q)'
      <3>1. SentOf(q)
        BY DEF ManifestInv, Sent
      <3>2. q > c => q \in Paths \ {c}
        BY <1>2 DEF Paths
      <3>3. q > c => results'[q] \o task'[q].todo = results[q] \o task[q].todo
        BY <1>1, <1>6, <3>2
      <3>4. q = c => printed' \o (results'[q] \o task'[q].todo)
                     = printed \o (results[q] \o task[q].todo)
        BY <1>1, <1>8
      <3> QED
        BY <1>1, <1>7, <3>1, <3>3, <3>4 DEF SentOf
    <2> QED
      BY <2>1 DEF Sent
  <1>10. PrintedAll'
    BY <1>1, <1>2, ManifestAssumption DEF PrintedAll, Paths
  <1>11. ManifestTypeOK'
    <2>1. \A q \in Paths : Len(results'[q]) <= BufferSize
      <3>1. Len(r) <= BufferSize
        BY <1>2 DEF ManifestInv, ManifestTypeOK
      <3>2. Len(results'[c]) <= BufferSize
        BY <1>5, <1>6, <3>1, ManifestAssumption
      <3> QED
        BY <1>6, <3>2 DEF ManifestInv, ManifestTypeOK
    <2> QED
      BY <1>1, <1>4, <1>6, <2>1 DEF ManifestInv, ManifestTypeOK
  <1> QED
    BY <1>7, <1>9, <1>10, <1>11 DEF ManifestInv

(* main goes on when it has printed all that is due of the path. *)
LEMMA NextPathKeeps ==
    ASSUME ManifestInv, NextPath
    PROVE  ManifestInv'
  <1> DEFINE c == current
  <1>1. /\ c <= NumPaths /\ results[c] = <<>> /\ task[c].at = "closed" /\ UNCHANGED inputs
        /\ files' = files /\ options' = options /\ mode' = mode
        /\ current' = c + 1 /\ task' = task /\ printed' = printed /\ results' = results
    BY DEF NextPath, Exhausted, inputs
  <1>2. c \in Paths /\ printed \in Seq(Lines) /\ NumPaths \in Nat /\ Paths = 1 .. NumPaths
        /\ FilesTyped /\ c \in Nat
    BY <1>1, ManifestAssumption DEF ManifestInv, ManifestTypeOK, Paths, FilesTyped
  <1>3. printed = DueOfFirst(c)
    <2>1. task[c].todo = <<>>
      BY <1>1, <1>2 DEF ManifestInv, InStep, TaskInStep
    <2>2. printed \o (<<>> \o <<>>) = DueOfFirst(c - 1) \o Generated(c)
      BY <1>1, <1>2, <2>1 DEF ManifestInv, Sent, SentOf
    <2>3. Generated(c) = Due(c)
      BY <1>1 DEF Generated
    <2>4. printed \o (<<>> \o <<>>) = printed
      BY <1>2, ConcatEmptySeq, EmptySeq
    <2> QED
      BY <1>2, <2>2, <2>3, <2>4, DueOfNext
  <1>4. /\ \A q \in Paths : Generated(q)' = Generated(q)
        /\ \A q \in Paths : DueOfFirst(q - 1)' = DueOfFirst(q - 1)
        /\ DueOfFirst(NumPaths)' = DueOfFirst(NumPaths)
        /\ InStep'
    BY <1>1, PassingStays
  <1>5. Sent'
    <2>1. ASSUME NEW q \in Paths
          PROVE  SentOf(q)'
      <3> DEFINE x == results[q] \o task[q].todo
      <3>1. q > c => x = Generated(q)
        BY DEF ManifestInv, Sent, SentOf
      <3>2. CASE q > c + 1
        <4>1. q > c /\ q # c + 1
          BY <1>2, <3>2
        <4> QED
          BY <1>1, <1>4, <3>1, <4>1 DEF SentOf
      <3>3. CASE q = c + 1
        <4>1. q > c /\ ~(q > c + 1) /\ q - 1 = c
          BY <1>2, <3>3
        <4>2. printed \o x = DueOfFirst(q - 1) \o Generated(q)
          BY <1>3, <3>1, <4>1
        <4> QED
          BY <1>1, <1>4, <4>1, <4>2 DEF SentOf
      <3>4. CASE ~(q > c + 1) /\ q # c + 1
        BY <1>1, <3>4 DEF SentOf
      <3> QED
        BY <3>2, <3>3, <3>4
    <2> QED
      BY <2>1 DEF Sent
  <1>6. PrintedAll'
    <2>1. c + 1 = NumPaths + 1 => c = NumPaths
      BY <1>2
    <2> QED
      BY <1>1, <1>3, <1>4, <2>1 DEF PrintedAll
  <1>7. ManifestTypeOK'
    <2>1. c + 1 \in 1 .. NumPaths + 1
      BY <1>1, <1>2
    <2> QED
      BY <1>1, <2>1 DEF ManifestInv, ManifestTypeOK
  <1> QED
    BY <1>4, <1>5, <1>6, <1>7 DEF ManifestInv

(* The command begins without having generated anything. *)
LEMMA ManifestInitInv == ManifestInit => ManifestInv
  <1> SUFFICES ASSUME ManifestInit
               PROVE  ManifestInv
    OBVIOUS
  <1> USE DEF ManifestInit
  <1>1. FilesTyped /\ NumPaths \in Nat /\ Paths = 1 .. NumPaths /\ BufferSize \in Nat
    BY ManifestAssumption DEF FilesTyped, Paths
  <1>2. \A p \in Paths : task[p] = NewTask /\ results[p] = <<>>
    OBVIOUS
  <1>3. NewTask \in TaskRecords /\ NewTask.at = "find" /\ NewTask.todo = <<>>
        /\ NewTask.pos = 1 /\ NewTask.total = NoStats /\ NewTask.filtered = NoStats
    BY StatsOfNothing, LineSequences DEF NewTask, TaskRecords
  <1>4. ManifestTypeOK
    <2>1. task \in [Paths -> TaskRecords] /\ results \in [Paths -> Seq(Lines)]
      BY <1>3, LineSequences
    <2>2. \A p \in Paths : task[p].pos \in 1 .. Len(files[p].entries) + 1
      <3>1. \A p \in Paths : Len(files[p].entries) \in Nat
        BY <1>1, FileType, LenProperties
      <3> QED
        BY <1>2, <1>3, <3>1
    <2>3. \A p \in Paths : Len(results[p]) <= BufferSize
      BY <1>1, <1>2, EmptySeq
    <2>4. current \in 1 .. NumPaths + 1
      BY <1>1
    <2> QED
      BY <2>1, <2>2, <2>3, <2>4, LineSequences DEF ManifestTypeOK
  <1>5. InStep
    BY <1>2, <1>3 DEF InStep, TaskInStep
  <1>6. \A p \in Paths : Generated(p) = <<>>
    BY <1>2, <1>3 DEF Generated
  <1>7. <<>> \o <<>> = <<>>
    BY LineSequences, ConcatEmptySeq
  <1>8. Sent
    <2>1. ASSUME NEW p \in Paths
          PROVE  SentOf(p)
      <3>1. results[p] \o task[p].todo = <<>>
        BY <1>2, <1>3, <1>7
      <3>2. p = 1 => DueOfFirst(p - 1) = <<>>
        BY DueOfNone
      <3> QED
        BY <1>6, <1>7, <3>1, <3>2 DEF SentOf
    <2> QED
      BY <2>1 DEF Sent
  <1>9. PrintedAll
    BY <1>1, DueOfNone DEF PrintedAll
  <1> QED
    BY <1>4, <1>5, <1>8, <1>9 DEF ManifestInv

(* Each step of the command keeps the invariant. *)
LEMMA ManifestNextInv == ManifestInv /\ [ManifestNext]_manifestVars => ManifestInv'
  <1> SUFFICES ASSUME ManifestInv, [ManifestNext]_manifestVars
               PROVE  ManifestInv'
    OBVIOUS
  <1>1. CASE PrintLine
    BY <1>1, PrintLineKeeps
  <1>2. CASE NextPath
    BY <1>2, NextPathKeeps
  <1>3. ASSUME NEW p \in Paths, Run(p)
        PROVE  ManifestInv'
    BY <1>3, FindKeeps, LoadKeeps, ReadKeeps, EndKeeps, SummarizeKeeps, SendKeeps, CloseKeeps
    DEF Run
  <1>4. CASE UNCHANGED manifestVars
    <2>1. UNCHANGED inputs /\ task' = task /\ results' = results /\ current' = current
          /\ printed' = printed /\ files' = files /\ options' = options /\ mode' = mode
      BY <1>4 DEF manifestVars, inputs
    <2>2. /\ \A q \in Paths : Generated(q)' = Generated(q)
          /\ \A q \in Paths : DueOfFirst(q - 1)' = DueOfFirst(q - 1)
          /\ DueOfFirst(NumPaths)' = DueOfFirst(NumPaths)
          /\ InStep'
      BY <2>1, PassingStays
    <2>3. Sent'
      BY <2>1, <2>2 DEF ManifestInv, Sent, SentOf
    <2>4. PrintedAll'
      BY <2>1, <2>2 DEF ManifestInv, PrintedAll
    <2>5. ManifestTypeOK'
      BY <2>1 DEF ManifestInv, ManifestTypeOK
    <2> QED
      BY <2>2, <2>3, <2>4, <2>5 DEF ManifestInv
  <1> QED
    BY <1>1, <1>2, <1>3, <1>4 DEF ManifestNext, Main

(* What has been generated of a path is the beginning of what is due of it. *)
LEMMA GeneratedIsDue ==
    ASSUME ManifestInv, NEW p \in Paths
    PROVE  \E u \in Seq(Lines) : Due(p) = Generated(p) \o u
  <1> DEFINE es == files[p].entries
  <1>1. /\ FilesTyped /\ task[p].at \in Ats /\ es \in Seq(Elements) /\ TaskInStep(p)
        /\ files[p].kind \in {"missing", "unreadable", "manifest"}
        /\ Due(p) \in Seq(Lines)
    BY TaskType, DueType
  <1>2. files[p].kind = "manifest" =>
          /\ Due(p) = <<Header>> \o Report(es)
          /\ Report(es) = Listing(Decoded(es)) \o Rest(es)
          /\ Listing(Decoded(es)) \in Seq(Lines) /\ Rest(es) \in Seq(Lines)
          /\ Report(es) \in Seq(Lines)
    <2>1. files[p].kind = "manifest" => Due(p) = <<Header>> \o Report(es)
      BY DEF Due
    <2> QED
      BY <1>1, <2>1, ReportIs, DecodedType, ListingType
  <1>3. CASE task[p].at = "find"
    BY <1>1, <1>3, ConcatEmptySeq DEF Generated
  <1>4. CASE task[p].at = "load"
    <2>1. Generated(p) = <<Header>> /\ files[p].kind # "missing"
      BY <1>1, <1>4 DEF Generated, TaskInStep
    <2>2. CASE files[p].kind = "unreadable"
      <3>1. Due(p) = <<Header, Failure>>
        BY <2>2 DEF Due
      <3> QED
        BY <2>1, <3>1, PairOfLines, LineSequences
    <2> QED
      BY <1>1, <1>2, <2>1, <2>2
  <1>5. CASE task[p].at \in {"read", "summary"}
    <2> DEFINE k == task[p].pos - 1
    <2>1. /\ Generated(p) = <<Header>> \o Listing(Initial(es, k))
          /\ files[p].kind = "manifest" /\ AllDecode(es, k)
      BY <1>1, <1>5 DEF Generated, TaskInStep, ReadSoFar
    <2>2. PICK d : /\ AllDecode(es, d) /\ Decoded(es) = Initial(es, d)
                   /\ d < Len(es) => es[d + 1] = Bad
      BY <1>1, DecodedIsInitial
    <2>3. k \in 0 .. d
      <3>1. Len(es) \in Nat /\ k \in Nat /\ d \in Nat /\ k <= Len(es) /\ d <= Len(es)
        BY <1>1, <2>1, <2>2, LenProperties DEF AllDecode
      <3>2. d < k => d + 1 \in 1 .. k /\ d < Len(es)
        BY <3>1
      <3>3. \A i \in 1 .. k : es[i] # Bad
        BY <2>1 DEF AllDecode
      <3> HIDE DEF k, es
      <3> QED
        BY <2>2, <3>1, <3>2, <3>3
    <2>4. PICK u \in Seq(Lines) : Listing(Initial(es, d)) = Listing(Initial(es, k)) \o u
      BY <1>1, <2>2, <2>3, OptionsGiven, ListingGrows
    <2>5. Listing(Initial(es, k)) \in Seq(Lines)
      BY <1>1, <2>1, InitialType, ListingType
    <2> DEFINE a == Listing(Initial(es, k))
               b == Rest(es)
    <2>6. /\ a \in Seq(Lines) /\ b \in Seq(Lines) /\ u \in Seq(Lines)
          /\ Due(p) = <<Header>> \o ((a \o u) \o b) /\ Generated(p) = <<Header>> \o a
      BY <1>2, <2>1, <2>2, <2>4, <2>5
    <2> HIDE DEF a, b
    <2>7. u \o b \in Seq(Lines)
      BY <2>6, ConcatProperties
    <2>8. (a \o u) \o b = a \o (u \o b)
      BY <2>6, LinesAssociate, Zenon
    <2>9. (<<Header>> \o a) \o (u \o b) = <<Header>> \o (a \o (u \o b))
      BY <2>6, <2>7, HeaderAssociates, Zenon
    <2>10. Due(p) = Generated(p) \o (u \o b)
      BY <2>6, <2>8, <2>9
    <2> QED
      BY <2>7, <2>10
  <1>6. CASE task[p].at \in {"close", "closed"}
    <2>1. Generated(p) = Due(p)
      BY <1>6 DEF Generated
    <2> QED
      BY <1>1, <2>1, ConcatEmptySeq, LineSequences
  <1> QED
    BY <1>1, <1>3, <1>4, <1>5, <1>6 DEF Ats

(* What has been printed, with what is in the channel and what run() has yet to
   send, is the beginning of what is due. *)
LEMMA ManifestInvPrints == ManifestInv => PrintsInOrder
  <1> SUFFICES ASSUME ManifestInv
               PROVE  PrintsInOrder
    OBVIOUS
  <1> DEFINE c == current
  <1>1. /\ NumPaths \in Nat /\ Paths = 1 .. NumPaths /\ FilesTyped /\ c \in 1 .. NumPaths + 1
        /\ printed \in Seq(Lines)
    BY ManifestAssumption DEF ManifestInv, ManifestTypeOK, FilesTyped, Paths
  <1>2. SUFFICES \E x \in Seq(Lines) : Expected = printed \o x
    BY <1>1, ConcatIsPrefix DEF PrintsInOrder
  <1>3. CASE c = NumPaths + 1
    <2>1. printed = Expected
      BY <1>3, DueOfAll DEF ManifestInv, PrintedAll
    <2> QED
      BY <1>1, <2>1, ConcatEmptySeq, LineSequences
  <1>4. CASE c # NumPaths + 1
    <2>1. c \in Paths /\ c \in 1 .. NumPaths /\ c \in 0 .. NumPaths /\ c - 1 \in 0 .. NumPaths
      BY <1>1, <1>4
    <2> DEFINE r == results[c]
               t == task[c].todo
               g == Generated(c)
               b == DueOfFirst(c - 1)
    <2>2. /\ r \in Seq(Lines) /\ t \in Seq(Lines) /\ g \in Seq(Lines) /\ b \in Seq(Lines)
          /\ Due(c) \in Seq(Lines)
      BY <1>1, <2>1, TaskType, DueOfFirstType, DueType
    <2>3. printed \o (r \o t) = b \o g
      BY <2>1 DEF ManifestInv, Sent, SentOf
    <2>4. PICK u \in Seq(Lines) : Due(c) = g \o u
      BY <2>1, GeneratedIsDue
    <2>5. DueOfFirst(c) = b \o Due(c)
      BY <1>1, <2>1, DueOfNext
    <2>6. PICK v \in Seq(Lines) : Expected = DueOfFirst(c) \o v
      BY <1>1, <2>1, DueGrows
    <2> HIDE DEF r, t, g, b, c
    <2> DEFINE w == r \o t
    <2>7. w \in Seq(Lines) /\ u \o v \in Seq(Lines)
      BY <2>2, ConcatProperties
    <2>8. Expected = (b \o (g \o u)) \o v
      BY <2>4, <2>5, <2>6
    <2>9. (b \o g) \o u = b \o (g \o u)
      <3>1. b \in Seq(Lines) /\ g \in Seq(Lines) /\ u \in Seq(Lines)
        BY <2>2
      <3> QED
        BY <3>1, LinesAssociate, Zenon
    <2>10. b \o g \in Seq(Lines)
      BY <2>2, ConcatProperties
    <2>11. ((b \o g) \o u) \o v = (b \o g) \o (u \o v)
      BY <2>10, LinesAssociate, Zenon
    <2> HIDE DEF w
    <2>12. (printed \o w) \o (u \o v) = printed \o (w \o (u \o v))
      BY <1>1, <2>7, LinesAssociate, Zenon
    <2>13. Expected = printed \o (w \o (u \o v))
      BY <2>3, <2>8, <2>9, <2>11, <2>12 DEF w
    <2>14. w \o (u \o v) \in Seq(Lines)
      BY <2>7, ConcatProperties
    <2> QED
      BY <2>13, <2>14
  <1> QED
    BY <1>3, <1>4

(* The invariant holds in every reachable state. *)
LEMMA ManifestSpecInv == ManifestSpec => []ManifestInv
  BY ManifestInitInv, ManifestNextInv, PTL DEF ManifestSpec

(* What the command prints is at any time the beginning of what it is to print: path
   by path, the resources that the options select, in order, and statistics that
   agree with the manifest, whatever the paths, the options and the buffers, and
   however the goroutines interleave. *)
THEOREM OutputIsInOrder == ManifestSpec => []PrintsInOrder
  BY ManifestSpecInv, ManifestInvPrints, PTL

EndsComplete == current > NumPaths => printed = Expected

(* Once main has come to the end of the paths, all is printed that is to be printed. *)
THEOREM EndsHavingPrinted == ManifestSpec => []EndsComplete
  <1>1. ManifestInv => EndsComplete
    <2>1. current > NumPaths /\ ManifestTypeOK => current = NumPaths + 1
      BY ManifestAssumption DEF ManifestTypeOK
    <2> QED
      BY <2>1, DueOfAll DEF ManifestInv, PrintedAll, EndsComplete
  <1> QED
    BY <1>1, ManifestSpecInv, PTL

(* The command's state has its types in every reachable state, and no channel holds
   more than its buffer. *)
THEOREM ManifestTypeCorrect == ManifestSpec => []ManifestTypeOK
  <1>1. ManifestInv => ManifestTypeOK
    BY DEF ManifestInv
  <1> QED
    BY <1>1, ManifestSpecInv, PTL

=============================================================================
