------------------------- MODULE DomainConfig_proofs ------------------------
(***************************************************************************)
(* Proofs about Domain, for any callers, users, listeners, channel size    *)
(* and number of polls: a user that WaitReady has let go on finds a        *)
(* configuration, the configuration held only advances, and the monitor    *)
(* implements the safety part of Lifecycle.                                *)
(*                                                                         *)
(* Then, about Config, the fetch of a configuration that a poll of the     *)
(* monitor makes, for any directory: what it returns is honest, and it     *)
(* leaves no goroutine behind.                                             *)
(***************************************************************************)
EXTENDS Domain, Config, SequenceTheorems, TLAPS

(* Whoever is in Stop or Close holds m.mutex, and nobody else does; the poller
   is being closed exactly while somebody waits for it. *)
MutexHolder ==
    /\ \A c \in Callers : mutex = c <=> pc[c] # "idle"
    /\ \A c \in Callers :
          /\ pc[c] \in {"stop", "close"} => instance = "closing"
          /\ pc[c] = "closebc" => instance = "none"
          /\ pc[c] = "stop" => ~closed
          /\ pc[c] \in {"close", "closebc"} => closed
    /\ instance = "closing" => mutex # None
    /\ closed => instance # "live"

(* The source polls only for an instance of the poller, and an invocation is
   spawned only by one that is not being closed. *)
Polling ==
    /\ poll.at # "none" => instance # "none"
    /\ spawned => instance = "live"
    /\ poll.at = "broadcast" => poll.next \in DOMAIN listeners
    /\ poll.at # "broadcast" => poll.next = 1

(* The open channels are the ones that are listed, and the broadcaster is closed
   exactly when a Close has returned. *)
Listed(l) == \E i \in DOMAIN listeners : listeners[i] = l
Channels ==
    /\ \A l \in Listeners : chan[l].state = "open" <=> Listed(l)
    /\ bcClosed <=> closed /\ mutex = None
    /\ bcClosed => listeners = <<>>

(* The sink holds a configuration that some poll has retrieved, or a user that is
   let go finds an error or a closed sink. *)
SinkAnswers ==
    /\ sink.value # None => sink.value <= polls
    /\ \A u \in Users :
          /\ user[u] = "ready" => sink.value # None
          /\ user[u] = "woken" => sink.value # None \/ sink.err # "ok" \/ sink.closed

IndInv ==
    /\ TypeOK /\ MutexHolder /\ Polling /\ Channels /\ SinkAnswers
    /\ ReadyHoldsValue

-----------------------------------------------------------------------------
(* The steps of the monitor, one disjunct each. *)
LEMMA Steps ==
    ASSUME [Next]_vars
    PROVE  \/ \E c \in Callers : Start(c) \/ Stop(c) \/ Close(c) \/ Update(c)
           \/ \E c \in Callers : PollerClosed(c) \/ CloseBroadcaster(c)
           \/ Tick \/ StartInvocation
           \/ Fetched \/ SinkUpdate \/ BroadcastLock \/ BroadcastSend
           \/ \E u \in Users : WaitReady(u) \/ WaitReadyReturns(u) \/ Value(u)
           \/ \E l \in Listeners : Listen(l) \/ Receive(l)
           \/ UNCHANGED vars
  BY DEF Next, CallerStep, Return, SourceStep, UserStep

(* The sets that the state is in. *)
Sinks == [value : Times \cup {None}, timestamp : Times, err : Results, closed : BOOLEAN]
Polls == [at : {"none", "fetch", "update", "lock", "broadcast"},
          result : Results, next : Nat \ {0}]
Chans == [state : {"none", "open", "closed"}, queue : Seq(Times)]

(* The sink after CloseSink and after SinkUpdate. *)
LEMMA SinkEffects ==
    ASSUME TypeOK
    PROVE  /\ CloseSink => sink' \in Sinks
           /\ CloseSink => /\ sink'.value = sink.value /\ sink'.err = sink.err
                           /\ sink'.timestamp = sink.timestamp /\ sink'.closed
           /\ SinkUpdate => sink' \in Sinks
           /\ SinkUpdate => sink'.closed = sink.closed
           /\ SinkUpdate /\ sink.closed => sink' = sink /\ user' = user
           /\ SinkUpdate /\ ~sink.closed /\ poll.result = "ok" =>
                 sink'.value = polls /\ sink'.timestamp = polls /\ sink'.err = "ok"
           /\ SinkUpdate /\ ~sink.closed /\ poll.result # "ok" =>
                 /\ sink'.value = sink.value
                 /\ sink.value # None =>
                       sink'.timestamp = sink.timestamp /\ sink'.err = sink.err
                 /\ sink.value = None => sink'.err = "failed"
  <1> USE DEF TypeOK, Results, Sinks
  <1>1. CloseSink => sink' \in Sinks
    BY DEF CloseSink
  <1>2. CloseSink => /\ sink'.value = sink.value /\ sink'.err = sink.err
                     /\ sink'.timestamp = sink.timestamp /\ sink'.closed
    BY DEF CloseSink
  <1>3. CASE SinkUpdate /\ sink.closed
    BY <1>1, <1>2, <1>3 DEF SinkUpdate, sinkVars
  <1>4. CASE SinkUpdate /\ ~sink.closed
    <2> DEFINE v == Stored(poll.result)
               t == IF Recorded(poll.result) THEN polls ELSE sink.timestamp
               e == IF Recorded(poll.result) THEN poll.result ELSE sink.err
    <2>1. v \in Times \cup {None} /\ t \in Times /\ e \in Results
      BY DEF Stored
    <2>2. sink' = [sink EXCEPT !.value = v, !.timestamp = t, !.err = e]
      BY <1>4 DEF SinkUpdate
    <2> HIDE DEF v, t, e
    <2>3. /\ sink' \in Sinks
          /\ sink'.value = v /\ sink'.timestamp = t /\ sink'.err = e
          /\ sink'.closed = sink.closed
      BY <2>1, <2>2
    <2> QED
      BY <1>1, <1>2, <1>4, <2>3 DEF v, t, e, Stored, Recorded
  <1> QED
    BY <1>1, <1>2, <1>3, <1>4

(* A step that changes the buffer of one channel, and one that opens or closes
   one. *)
LEMMA ChannelChanges ==
    ASSUME TypeOK, NEW l \in Listeners
    PROVE  /\ \A q \in Seq(Times) : chan' = [chan EXCEPT ![l].queue = q] =>
                 /\ chan' \in [Listeners -> Chans]
                 /\ chan'[l].queue = q /\ chan'[l].state = chan[l].state
                 /\ \A m \in Listeners : m # l => chan'[m] = chan[m]
           /\ \A s \in {"none", "open", "closed"} : chan' = [chan EXCEPT ![l].state = s] =>
                 /\ chan' \in [Listeners -> Chans]
                 /\ chan'[l].queue = chan[l].queue /\ chan'[l].state = s
                 /\ \A m \in Listeners : m # l => chan'[m] = chan[m]
  <1>1. chan \in [Listeners -> Chans]
    BY DEF TypeOK, Chans
  <1>2. ASSUME NEW q \in Seq(Times), chan' = [chan EXCEPT ![l].queue = q]
        PROVE  /\ chan' \in [Listeners -> Chans]
               /\ chan'[l].queue = q /\ chan'[l].state = chan[l].state
               /\ \A m \in Listeners : m # l => chan'[m] = chan[m]
    <2> DEFINE r == [chan[l] EXCEPT !.queue = q]
    <2>1. r \in Chans /\ r.queue = q /\ r.state = chan[l].state
      BY <1>1 DEF Chans
    <2>2. chan' = [chan EXCEPT ![l] = r]
      BY <1>2
    <2> HIDE DEF r
    <2> QED
      BY <1>1, <2>1, <2>2
  <1>3. ASSUME NEW s \in {"none", "open", "closed"}, chan' = [chan EXCEPT ![l].state = s]
        PROVE  /\ chan' \in [Listeners -> Chans]
               /\ chan'[l].queue = chan[l].queue /\ chan'[l].state = s
               /\ \A m \in Listeners : m # l => chan'[m] = chan[m]
    <2> DEFINE r == [chan[l] EXCEPT !.state = s]
    <2>1. r \in Chans /\ r.queue = chan[l].queue /\ r.state = s
      BY <1>1 DEF Chans
    <2>2. chan' = [chan EXCEPT ![l] = r]
      BY <1>3
    <2> HIDE DEF r
    <2> QED
      BY <1>1, <2>1, <2>2
  <1> QED
    BY <1>2, <1>3

(* The channels of the broadcaster, after a step of anybody. *)
LEMMA ChannelTypes ==
    ASSUME IndInv, [Next]_vars
    PROVE  /\ listeners' \in Seq(Listeners)
           /\ chan' \in [Listeners -> Chans]
           /\ \A l \in Listeners : Len(chan'[l].queue) <= ChanSize
  <1> USE DEF IndInv, TypeOK, Chans
  <1>1. CASE UNCHANGED <<listeners, chan>>
    BY <1>1
  <1>2. ASSUME NEW c \in Callers, CloseBroadcaster(c)
        PROVE  /\ listeners' \in Seq(Listeners)
               /\ chan' \in [Listeners -> Chans]
               /\ \A l \in Listeners : chan'[l].queue = chan[l].queue
    BY <1>2 DEF CloseBroadcaster
  <1>3. ASSUME BroadcastSend
        PROVE  /\ listeners' \in Seq(Listeners)
               /\ chan' \in [Listeners -> Chans]
               /\ \A l \in Listeners : Len(chan'[l].queue) <= ChanSize
    <2> DEFINE l == listeners[poll.next]
               q == Append(chan[l].queue, polls)
    <2>1. l \in Listeners /\ chan[l] \in Chans
      BY <1>3, ElementOfSeq DEF BroadcastSend, Polling
    <2>2. q \in Seq(Times) /\ Len(q) = Len(chan[l].queue) + 1
      BY <2>1, AppendProperties
    <2>3. Len(q) <= ChanSize
      BY <1>3, <2>1, <2>2, LenProperties, DomainAssumption DEF BroadcastSend, HasRoom
    <2>4. chan' = [chan EXCEPT ![l].queue = q]
      BY <1>3 DEF BroadcastSend
    <2> HIDE DEF l, q
    <2>5. /\ chan' \in [Listeners -> Chans]
          /\ chan'[l].queue = q
          /\ \A m \in Listeners : m # l => chan'[m] = chan[m]
      BY <2>1, <2>2, <2>4, ChannelChanges
    <2> QED
      BY <1>3, <2>3, <2>5 DEF BroadcastSend
  <1>4. ASSUME NEW l \in Listeners, Listen(l)
        PROVE  /\ listeners' \in Seq(Listeners)
               /\ chan' \in [Listeners -> Chans]
               /\ \A m \in Listeners : chan'[m].queue = chan[m].queue
    <2>1. Append(listeners, l) \in Seq(Listeners)
      BY AppendProperties
    <2>2. \E s \in {"none", "open", "closed"} : chan' = [chan EXCEPT ![l].state = s]
      BY <1>4 DEF Listen
    <2>3. listeners' \in Seq(Listeners)
      BY <1>4, <2>1 DEF Listen
    <2> QED
      BY <2>2, <2>3, ChannelChanges
  <1>5. ASSUME NEW l \in Listeners, Receive(l)
        PROVE  /\ listeners' \in Seq(Listeners)
               /\ chan' \in [Listeners -> Chans]
               /\ \A m \in Listeners : Len(chan'[m].queue) <= ChanSize
    <2> DEFINE q == Tail(chan[l].queue)
    <2>1. q \in Seq(Times) /\ Len(q) <= Len(chan[l].queue)
      BY <1>5, HeadTailProperties, LenProperties DEF Receive
    <2>2. chan' = [chan EXCEPT ![l].queue = q]
      BY <1>5 DEF Receive
    <2>3. Len(q) <= ChanSize
      BY <2>1, LenProperties, DomainAssumption
    <2> HIDE DEF q
    <2>4. /\ chan' \in [Listeners -> Chans]
          /\ chan'[l].queue = q
          /\ \A m \in Listeners : m # l => chan'[m] = chan[m]
      BY <2>1, <2>2, ChannelChanges
    <2> QED
      BY <1>5, <2>3, <2>4 DEF Receive
  <1> QED
    BY <1>1, <1>2, <1>3, <1>4, <1>5, Steps
    DEF Start, Stop, Close, Update, PollerClosed, Tick, StartInvocation, Fetched,
        SinkUpdate, BroadcastLock, WaitReady, WaitReadyReturns, Value, vars, bcVars

(* The source's Poll, after a step of anybody. *)
LEMMA PollTypes ==
    ASSUME IndInv, [Next]_vars
    PROVE  poll' \in Polls /\ polls' \in Times
  <1> USE DEF IndInv, TypeOK, Polls
  <1>1. NoPoll \in Polls
    BY DEF NoPoll, Results
  <1>2. CASE UNCHANGED <<poll, polls>>
    BY <1>2
  <1>3. CASE StartInvocation
    BY <1>1, <1>3, DomainAssumption DEF StartInvocation, Times, NoPoll, Results
  <1>4. CASE Fetched
    BY <1>4 DEF Fetched
  <1>5. CASE SinkUpdate
    BY <1>5 DEF SinkUpdate
  <1>6. CASE BroadcastLock
    BY <1>1, <1>6 DEF BroadcastLock
  <1>7. CASE BroadcastSend
    <2> DEFINE n == poll.next + 1
    <2>1. n \in Nat \ {0}
      OBVIOUS
    <2>2. poll' = NoPoll \/ poll' = [poll EXCEPT !.next = n]
      BY <1>7 DEF BroadcastSend
    <2> HIDE DEF n
    <2> QED
      BY <1>1, <1>7, <2>1, <2>2, ZenonT(30) DEF BroadcastSend
  <1> QED
    BY <1>2, <1>3, <1>4, <1>5, <1>6, <1>7, Steps
    DEF Start, Stop, Close, Update, PollerClosed, CloseBroadcaster, Tick,
        WaitReady, WaitReadyReturns, Value, Listen, Receive, vars

(* Every variable keeps its type. *)
LEMMA TypesKeep ==
    ASSUME IndInv, [Next]_vars
    PROVE  TypeOK'
  <1> USE DEF IndInv
  <1>1. /\ mutex' \in Callers \cup {None}
        /\ pc' \in [Callers -> {"idle", "stop", "close", "closebc"}]
        /\ closed' \in BOOLEAN /\ spawned' \in BOOLEAN /\ bcClosed' \in BOOLEAN
        /\ instance' \in {"none", "live", "closing"}
    BY Steps, ZenonT(30)
    DEF TypeOK, Start, Stop, Close, ClosePoller, Update, PollerClosed, CloseBroadcaster,
        Tick, StartInvocation, Fetched, SinkUpdate, BroadcastLock, BroadcastSend,
        WaitReady, WaitReadyReturns, Value, Listen, Receive, vars, callerVars, bcVars
  <1>2. sink' \in Sinks
    <2>1. UNCHANGED sink \/ CloseSink \/ SinkUpdate
      BY Steps
      DEF Start, Stop, Close, Update, PollerClosed, CloseBroadcaster,
          Tick, StartInvocation, Fetched, BroadcastLock, BroadcastSend,
          WaitReady, WaitReadyReturns, Value, Listen, Receive, vars, sinkVars
    <2>2. TypeOK /\ sink \in Sinks
      BY DEF TypeOK, Sinks
    <2> QED
      BY <2>1, <2>2, SinkEffects
  <1>3. user' \in [Users -> {"idle", "wait", "woken", "ready"}] /\ panicked' \in BOOLEAN
    <2>1. \/ user' = user \/ user' = WakeWaiters
          \/ \E u \in Users, p \in {"idle", "wait", "ready"} : user' = [user EXCEPT ![u] = p]
      <3>1. CASE SinkUpdate
        BY <3>1 DEF SinkUpdate, sinkVars
      <3> QED
        BY <3>1, Steps
        DEF Start, Stop, Close, CloseSink, Update, PollerClosed, CloseBroadcaster, Tick,
            StartInvocation, Fetched, BroadcastLock, BroadcastSend,
            WaitReady, WaitReadyReturns, Value, Listen, Receive, vars, sinkVars
    <2>2. panicked' = panicked \/ panicked' \in BOOLEAN
      BY Steps
      DEF Start, Stop, Close, Update, PollerClosed, CloseBroadcaster, Tick,
          StartInvocation, Fetched, SinkUpdate, BroadcastLock, BroadcastSend,
          WaitReady, WaitReadyReturns, Value, Listen, Receive, vars
    <2>3. user \in [Users -> {"idle", "wait", "woken", "ready"}] /\ panicked \in BOOLEAN
      BY DEF TypeOK
    <2>4. user' \in [Users -> {"idle", "wait", "woken", "ready"}]
      <3>1. CASE user' = user \/ user' = WakeWaiters
        BY <2>3, <3>1 DEF WakeWaiters
      <3>2. CASE \E u \in Users, p \in {"idle", "wait", "ready"} : user' = [user EXCEPT ![u] = p]
        BY <2>3, <3>2
      <3> QED
        BY <2>1, <3>1, <3>2
    <2>5. panicked' \in BOOLEAN
      BY <2>2, <2>3
    <2> QED
      BY <2>4, <2>5
  <1> QED
    BY <1>1, <1>2, <1>3, ChannelTypes, PollTypes DEF TypeOK, Sinks, Polls, Chans

(* m.mutex, the callers and the poller stay in step. *)
LEMMA MutexHolderKeeps ==
    ASSUME IndInv, [Next]_vars
    PROVE  MutexHolder'
  <1> USE DomainAssumption DEF IndInv, TypeOK, MutexHolder
  <1>1. CASE UNCHANGED callerVars
    BY <1>1 DEF callerVars
  <1>2. ASSUME NEW c \in Callers, Start(c) PROVE MutexHolder'
    BY <1>2 DEF Start
  <1>3. ASSUME NEW c \in Callers, Stop(c) PROVE MutexHolder'
    BY <1>3 DEF Stop, ClosePoller
  <1>4. ASSUME NEW c \in Callers, Close(c) PROVE MutexHolder'
    BY <1>4 DEF Close, ClosePoller
  <1>5. ASSUME NEW c \in Callers, PollerClosed(c) PROVE MutexHolder'
    <2>1. mutex = c /\ \A d \in Callers : d # c => pc[d] = "idle"
      BY <1>5 DEF PollerClosed
    <2>2. CASE pc[c] = "stop"
      BY <1>5, <2>1, <2>2 DEF PollerClosed
    <2>3. CASE pc[c] = "close"
      BY <1>5, <2>1, <2>3 DEF PollerClosed
    <2> QED
      BY <1>5, <2>2, <2>3 DEF PollerClosed
  <1>6. ASSUME NEW c \in Callers, CloseBroadcaster(c) PROVE MutexHolder'
    BY <1>6 DEF CloseBroadcaster
  <1> QED
    BY <1>1, <1>2, <1>3, <1>4, <1>5, <1>6, Steps
    DEF Update, Tick, StartInvocation, Fetched, SinkUpdate, BroadcastLock, BroadcastSend,
        WaitReady, WaitReadyReturns, Value, Listen, Receive, vars

(* The source polls for a poller only, and sends to a listed channel. *)
LEMMA PollingKeeps ==
    ASSUME IndInv, [Next]_vars
    PROVE  Polling'
  <1> USE DEF IndInv, Polling
  <1>1. CASE UNCHANGED <<instance, spawned, poll, listeners>>
    BY <1>1
  <1>2. ASSUME NEW c \in Callers, Start(c) \/ Stop(c) \/ Close(c) PROVE Polling'
    BY <1>2 DEF Start, Stop, Close, ClosePoller, MutexHolder, bcVars
  <1>3. ASSUME NEW c \in Callers, PollerClosed(c) PROVE Polling'
    BY <1>3 DEF PollerClosed, PollerIdle, MutexHolder, bcVars
  <1>4. ASSUME NEW c \in Callers, CloseBroadcaster(c) PROVE Polling'
    BY <1>4 DEF CloseBroadcaster, BroadcasterFree
  <1>5. CASE Tick \/ \E c \in Callers : Update(c)
    BY <1>5 DEF Tick, Update, callerVars, bcVars
  <1>6. CASE StartInvocation
    <2>1. (poll'.at = "fetch" /\ poll'.next = 1) \/ poll' = poll
      BY <1>6 DEF StartInvocation, NoPoll
    <2> QED
      BY <1>6, <2>1 DEF StartInvocation, callerVars, bcVars
  <1>7. CASE Fetched \/ SinkUpdate
    <2>1. poll'.at \in {"update", "lock"} /\ poll.at \in {"fetch", "update"}
      BY <1>7 DEF Fetched, SinkUpdate, TypeOK
    <2>2. poll'.next = poll.next
      BY <1>7 DEF Fetched, SinkUpdate, TypeOK
    <2>3. UNCHANGED <<instance, spawned, listeners>>
      BY <1>7 DEF Fetched, SinkUpdate, callerVars, bcVars
    <2> QED
      BY <2>1, <2>2, <2>3
  <1>8. CASE BroadcastLock
    <2>1. poll.at = "lock" /\ UNCHANGED <<callerVars, spawned, listeners>>
      BY <1>8 DEF BroadcastLock, bcVars
    <2>2. /\ poll'.at = "none" \/ (poll'.at = "broadcast" /\ listeners # <<>>)
          /\ poll'.next = 1
      BY <1>8 DEF BroadcastLock, NoPoll, TypeOK
    <2>3. listeners # <<>> => 1 \in DOMAIN listeners
      BY EmptySeq, LenProperties DEF TypeOK
    <2> QED
      BY <2>1, <2>2, <2>3 DEF callerVars
  <1>9. CASE BroadcastSend
    BY <1>9 DEF BroadcastSend, NoPoll, TypeOK, callerVars
  <1>10. ASSUME NEW l \in Listeners, Listen(l) PROVE Polling'
    BY <1>10 DEF Listen, BroadcasterFree, callerVars
  <1> QED
    BY <1>1, <1>2, <1>3, <1>4, <1>5, <1>6, <1>7, <1>8, <1>9, <1>10, Steps
    DEF WaitReady, WaitReadyReturns, Value, Receive, vars, callerVars, bcVars

(* The channels that are open are the ones listed. *)
LEMMA ChannelsKeep ==
    ASSUME IndInv, [Next]_vars
    PROVE  Channels'
  <1> USE DEF IndInv, Channels, Listed
  <1>1. CASE UNCHANGED <<closed, mutex, bcVars>>
    BY <1>1 DEF bcVars
  <1>2. ASSUME NEW c \in Callers, Start(c) \/ Stop(c) \/ Close(c) \/ PollerClosed(c)
        PROVE  Channels'
    <2>1. UNCHANGED bcVars
      BY <1>2 DEF Start, Stop, Close, PollerClosed
    <2>2. ~bcClosed /\ ~(closed' /\ mutex' = None)
      BY <1>2, DomainAssumption
      DEF Start, Stop, Close, ClosePoller, PollerClosed, MutexHolder
    <2> QED
      BY <2>1, <2>2 DEF bcVars, TypeOK
  <1>3. ASSUME NEW c \in Callers, CloseBroadcaster(c) PROVE Channels'
    <2>1. /\ closed' /\ mutex' = None /\ bcClosed' = TRUE
          /\ listeners' = <<>>
      BY <1>3 DEF CloseBroadcaster, MutexHolder
    <2>2. ASSUME NEW l \in Listeners PROVE chan'[l].state # "open"
      <3>1. CASE Listed(l)
        BY <1>3, <3>1 DEF CloseBroadcaster, TypeOK
      <3>2. CASE ~Listed(l)
        BY <1>3, <3>2 DEF CloseBroadcaster, TypeOK
      <3> QED
        BY <3>1, <3>2
    <2> QED
      BY <2>1, <2>2
  <1>4. CASE BroadcastSend
    <2>1. /\ UNCHANGED <<closed, mutex, listeners, bcClosed>>
          /\ \A l \in Listeners : chan'[l].state = chan[l].state
      <3>1. listeners[poll.next] \in Listeners
        BY <1>4, ElementOfSeq DEF BroadcastSend, Polling, TypeOK
      <3>2. Append(chan[listeners[poll.next]].queue, polls) \in Seq(Times)
        BY <3>1, AppendProperties DEF TypeOK
      <3> QED
        BY <1>4, <3>1, <3>2, ChannelChanges, ZenonT(30) DEF BroadcastSend, callerVars
    <2> QED
      BY <2>1
  <1>5. ASSUME NEW l \in Listeners, Listen(l) PROVE Channels'
    <2>1. UNCHANGED <<closed, mutex, bcClosed>>
      BY <1>5 DEF Listen, callerVars
    <2>2. CASE bcClosed
      <3>1. /\ listeners' = listeners
            /\ \A m \in Listeners : chan'[m].state = "open" <=> chan[m].state = "open"
        BY <1>5, <2>2, ChannelChanges DEF Listen
      <3> QED
        BY <2>1, <3>1
    <2>3. CASE ~bcClosed
      <3>1. /\ chan'[l].state = "open"
            /\ \A m \in Listeners : m # l => chan'[m] = chan[m]
        BY <1>5, <2>3, ChannelChanges DEF Listen
      <3>2. listeners' = Append(listeners, l)
        BY <1>5, <2>3 DEF Listen
      <3>3. /\ DOMAIN listeners' = 1 .. Len(listeners) + 1
            /\ DOMAIN listeners = 1 .. Len(listeners) /\ Len(listeners) \in Nat
            /\ listeners'[Len(listeners) + 1] = l
            /\ \A i \in 1 .. Len(listeners) : listeners'[i] = listeners[i]
        BY <3>2, AppendProperties, LenProperties DEF TypeOK
      <3>4. \A m \in Listeners : Listed(m)' <=> (Listed(m) \/ m = l)
        BY <3>3
      <3> QED
        BY <2>1, <2>3, <3>1, <3>4
    <2> QED
      BY <2>2, <2>3
  <1>6. ASSUME NEW l \in Listeners, Receive(l) PROVE Channels'
    <2>1. Tail(chan[l].queue) \in Seq(Times)
      BY <1>6, HeadTailProperties DEF Receive, TypeOK
    <2>2. \A m \in Listeners : chan'[m].state = chan[m].state
      BY <1>6, <2>1, ChannelChanges DEF Receive
    <2> QED
      BY <1>6, <2>2 DEF Receive, callerVars
  <1> QED
    BY <1>1, <1>2, <1>3, <1>4, <1>5, <1>6, Steps
    DEF Update, Tick, StartInvocation, Fetched, SinkUpdate, BroadcastLock,
        WaitReady, WaitReadyReturns, Value, vars, callerVars

(* The sink has an answer for whoever it lets go. *)
LEMMA SinkAnswersKeep ==
    ASSUME IndInv, [Next]_vars
    PROVE  SinkAnswers' /\ ReadyHoldsValue'
  <1> USE DEF IndInv, SinkAnswers, ReadyHoldsValue
  <1>1. CASE UNCHANGED <<polls, sinkVars, panicked>>
    BY <1>1 DEF sinkVars
  <1>2. CASE CloseSink /\ UNCHANGED <<polls, panicked>>
    BY <1>2, SinkEffects DEF CloseSink, WakeWaiters, TypeOK
  <1>3. CASE StartInvocation
    <2>1. polls' \in Nat /\ polls \in Nat /\ polls <= polls' /\ sink.value \in Nat \cup {None}
      BY <1>3, DomainAssumption DEF StartInvocation, TypeOK, Times
    <2> QED
      BY <1>3, <2>1, DomainAssumption DEF StartInvocation, sinkVars
  <1>4. CASE SinkUpdate
    <2>1. UNCHANGED <<polls, panicked>> /\ polls \in Nat
      BY <1>4, DomainAssumption DEF SinkUpdate, TypeOK, Times
    <2>2. CASE sink.closed
      BY <1>4, <2>1, <2>2, SinkEffects
    <2>3. CASE ~sink.closed
      <3>1. user' = WakeWaiters
        BY <1>4, <2>3 DEF SinkUpdate
      <3> QED
        BY <1>4, <2>1, <2>3, <3>1, SinkEffects, DomainAssumption DEF WakeWaiters, TypeOK
    <2> QED
      BY <2>2, <2>3
  <1>5. ASSUME NEW u \in Users, WaitReady(u) PROVE SinkAnswers' /\ ReadyHoldsValue'
    BY <1>5 DEF WaitReady, TypeOK
  <1>6. ASSUME NEW u \in Users, WaitReadyReturns(u) PROVE SinkAnswers' /\ ReadyHoldsValue'
    BY <1>6 DEF WaitReadyReturns, Succeeds, TypeOK
  <1>7. ASSUME NEW u \in Users, Value(u) PROVE SinkAnswers' /\ ReadyHoldsValue'
    BY <1>7 DEF Value, TypeOK
  <1> QED
    BY <1>1, <1>2, <1>3, <1>4, <1>5, <1>6, <1>7, Steps
    DEF Start, Stop, Close, Update, PollerClosed, CloseBroadcaster, Tick, Fetched,
        BroadcastLock, BroadcastSend, Listen, Receive, vars

-----------------------------------------------------------------------------
(* The monitor as NewDomainMonitor makes it. *)
LEMMA InitIndInv == Init => IndInv
  <1> SUFFICES ASSUME Init PROVE IndInv
    OBVIOUS
  <1>1. TypeOK
    <2>1. <<>> \in Seq(Listeners) /\ <<>> \in Seq(Times) /\ Len(<<>>) = 0
      BY EmptySeq
    <2>2. /\ chan \in [Listeners -> [state : {"none", "open", "closed"}, queue : Seq(Times)]]
          /\ \A l \in Listeners : Len(chan[l].queue) <= ChanSize
      BY <2>1, DomainAssumption DEF Init
    <2>3. poll \in Polls /\ sink \in Sinks /\ polls \in Times
      BY DomainAssumption DEF Init, NoPoll, Polls, Sinks, Times, Results
    <2> QED
      BY <2>1, <2>2, <2>3 DEF Init, TypeOK, Polls, Sinks
  <1>2. MutexHolder /\ SinkAnswers /\ ReadyHoldsValue
    BY DomainAssumption DEF Init, MutexHolder, SinkAnswers, ReadyHoldsValue
  <1>3. Polling /\ Channels
    BY DEF Init, Polling, NoPoll, Channels, Listed
  <1> QED
    BY <1>1, <1>2, <1>3 DEF IndInv

(* Every step keeps the invariant. *)
LEMMA NextKeeps == IndInv /\ [Next]_vars => IndInv'
  BY TypesKeep, MutexHolderKeeps, PollingKeeps, ChannelsKeep, SinkAnswersKeep DEF IndInv

(* The inductive invariant of the configuration monitor, whatever its callers,
   users and listeners do. *)
THEOREM Invariance == Spec => []IndInv
  BY InitIndInv, NextKeeps, PTL DEF Spec

(* A user that WaitReady has let go on finds a configuration, so that Value never
   panics, and a sink that is ready reports no error. *)
THEOREM ReadyMeansValue == Spec => []ReadyHoldsValue
  <1>1. IndInv => ReadyHoldsValue
    BY DEF IndInv
  <1> QED
    BY <1>1, Invariance, PTL

(* The variables of the monitor, the sink and the broadcaster keep their types;
   no channel holds more than its buffer. *)
THEOREM DomainTypes == Spec => []TypeOK
  <1>1. IndInv => TypeOK
    BY DEF IndInv
  <1> QED
    BY <1>1, Invariance, PTL

(* A configuration held is never lost, nor replaced by an older one: only
   SinkUpdate changes it, to the one of the poll under way. *)
THEOREM ConfigurationOnlyAdvances == Spec => ConfigurationAdvances
  <1>1. ASSUME IndInv, [Next]_vars
        PROVE  [sink.value # None => sink'.value # None /\ sink'.value >= sink.value]_vars
    <2>1. TypeOK
      BY <1>1 DEF IndInv
    <2>2. UNCHANGED sink \/ CloseSink \/ SinkUpdate
      BY <1>1, Steps
      DEF Start, Stop, Close, Update, PollerClosed, CloseBroadcaster,
          Tick, StartInvocation, Fetched, BroadcastLock, BroadcastSend,
          WaitReady, WaitReadyReturns, Value, Listen, Receive, vars, sinkVars
    <2>3. /\ sink.value \in Nat \cup {None} /\ polls \in Nat
          /\ poll.result \in {"ok", "failed"}
          /\ sink.value # None => sink.value <= polls
      BY <1>1, <2>1, DomainAssumption DEF IndInv, TypeOK, Times, Results, SinkAnswers
    <2>4. \/ sink'.value = sink.value
          \/ sink'.value = polls
      BY <2>1, <2>2, <2>3, SinkEffects
    <2> QED
      BY <2>3, <2>4, DomainAssumption
  <1> QED
    BY <1>1, Invariance, PTL DEF Spec, ConfigurationAdvances

-----------------------------------------------------------------------------
(* The contract's record of a monitor. *)
Record(p, b, q, s, a) ==
    [phase |-> p, by |-> b, polling |-> q, stalled |-> s, attached |-> a]

(* Each field of the record can be read and updated. *)
LEMMA RecordUpdates ==
    ASSUME NEW p, NEW b, NEW q, NEW s, NEW a, NEW x
    PROVE  /\ [Record(p, b, q, s, a) EXCEPT !.phase = x] = Record(x, b, q, s, a)
           /\ [Record(p, b, q, s, a) EXCEPT !.by = x] = Record(p, x, q, s, a)
           /\ [Record(p, b, q, s, a) EXCEPT !.polling = x] = Record(p, b, x, s, a)
           /\ [Record(p, b, q, s, a) EXCEPT !.stalled = x] = Record(p, b, q, x, a)
           /\ [Record(p, b, q, s, a) EXCEPT !.attached = x] = Record(p, b, q, s, x)
           /\ Record(p, b, q, s, a).phase = p
           /\ Record(p, b, q, s, a).by = b
           /\ Record(p, b, q, s, a).polling = q
           /\ Record(p, b, q, s, a).stalled = s
           /\ Record(p, b, q, s, a).attached = a
  BY DEF Record

(* The contract's function for one monitor with such a record. *)
Alone(p, b, q, s, a) == [m \in {"domain"} |-> Record(p, b, q, s, a)]

SetPhase(f, x) == [f EXCEPT !["domain"].phase = x]
SetBy(f, x) == [f EXCEPT !["domain"].by = x]
SetPolling(f, x) == [f EXCEPT !["domain"].polling = x]
SetStalled(f, x) == [f EXCEPT !["domain"].stalled = x]
SetAttached(f, x) == [f EXCEPT !["domain"].attached = x]

(* Each field can be updated in the function. *)
LEMMA AloneUpdates ==
    ASSUME NEW p, NEW b, NEW q, NEW s, NEW a, NEW x
    PROVE  /\ SetPhase(Alone(p, b, q, s, a), x) = Alone(x, b, q, s, a)
           /\ SetBy(Alone(p, b, q, s, a), x) = Alone(p, x, q, s, a)
           /\ SetPolling(Alone(p, b, q, s, a), x) = Alone(p, b, x, s, a)
           /\ SetStalled(Alone(p, b, q, s, a), x) = Alone(p, b, q, x, a)
           /\ SetAttached(Alone(p, b, q, s, a), x) = Alone(p, b, q, s, x)
  <1> DEFINE r == Record(p, b, q, s, a)
             f == Alone(p, b, q, s, a)
  <1>1. f["domain"] = r /\ \A y : [f EXCEPT !["domain"] = y] = [m \in {"domain"} |-> y]
    BY DEF Alone
  <1>2. /\ [r EXCEPT !.phase = x] = Record(x, b, q, s, a)
        /\ [r EXCEPT !.by = x] = Record(p, x, q, s, a)
        /\ [r EXCEPT !.polling = x] = Record(p, b, x, s, a)
        /\ [r EXCEPT !.stalled = x] = Record(p, b, q, x, a)
        /\ [r EXCEPT !.attached = x] = Record(p, b, q, s, x)
    BY RecordUpdates
  <1> HIDE DEF r, f
  <1>3. /\ [f EXCEPT !["domain"].phase = x] = [m \in {"domain"} |-> [r EXCEPT !.phase = x]]
        /\ [f EXCEPT !["domain"].by = x] = [m \in {"domain"} |-> [r EXCEPT !.by = x]]
        /\ [f EXCEPT !["domain"].polling = x] = [m \in {"domain"} |-> [r EXCEPT !.polling = x]]
        /\ [f EXCEPT !["domain"].stalled = x] = [m \in {"domain"} |-> [r EXCEPT !.stalled = x]]
        /\ [f EXCEPT !["domain"].attached = x] = [m \in {"domain"} |-> [r EXCEPT !.attached = x]]
    BY <1>1
  <1>4. /\ [f EXCEPT !["domain"].phase = x] = Alone(x, b, q, s, a)
        /\ [f EXCEPT !["domain"].by = x] = Alone(p, x, q, s, a)
        /\ [f EXCEPT !["domain"].polling = x] = Alone(p, b, x, s, a)
        /\ [f EXCEPT !["domain"].stalled = x] = Alone(p, b, q, x, a)
        /\ [f EXCEPT !["domain"].attached = x] = Alone(p, b, q, s, x)
    BY <1>2, <1>3 DEF Alone
  <1> QED
    BY <1>4 DEF f, SetPhase, SetBy, SetPolling, SetStalled, SetAttached

IsPolling == poll.at # "none"
IsStalled == "no"

(* What the contract sees of the monitor, before and after a step. *)
LEMMA LivesIs ==
    /\ Lives = Alone(Phase, mutex, IsPolling, IsStalled, Attached)
    /\ Lives' = Alone(Phase', mutex', IsPolling', IsStalled, Attached')
  BY DEF Lives, Life, Alone, Record, IsPolling, IsStalled

(* The fields of the contract's record. *)
LEMMA LifeFields ==
    /\ Lives["domain"].phase = Phase
    /\ Lives["domain"].by = mutex
    /\ Lives["domain"].polling = IsPolling
    /\ Lives["domain"].stalled = IsStalled
    /\ Lives["domain"].attached = Attached
  <1>1. Lives["domain"] = Record(Phase, mutex, IsPolling, IsStalled, Attached)
    BY LivesIs DEF Alone
  <1> QED
    BY <1>1, RecordUpdates

(* How a step changes the contract's state. *)
LEMMA LifeChanges ==
    ASSUME NEW x
    PROVE  /\ Phase' = Phase /\ mutex' = mutex /\ IsPolling' = IsPolling /\ Attached' = Attached
              => Lives' = Lives
           /\ Phase' = x /\ mutex' = mutex /\ IsPolling' = IsPolling /\ Attached' = Attached
              => Lives' = [Lives EXCEPT !["domain"].phase = x]
           /\ Phase' = Phase /\ mutex' = mutex /\ IsPolling' = x /\ Attached' = Attached
              => Lives' = [Lives EXCEPT !["domain"].polling = x]
           /\ Phase' = Phase /\ mutex' = mutex /\ IsPolling' = IsPolling /\ Attached' = x
              => Lives' = [Lives EXCEPT !["domain"].attached = x]
  <1>1. SetPhase(Lives, x) = Alone(x, mutex, IsPolling, IsStalled, Attached)
    BY LivesIs, AloneUpdates
  <1>2. /\ SetPolling(Lives, x) = Alone(Phase, mutex, x, IsStalled, Attached)
        /\ SetAttached(Lives, x) = Alone(Phase, mutex, IsPolling, IsStalled, x)
    BY LivesIs, AloneUpdates
  <1>3. /\ SetPhase(Lives, x) = [Lives EXCEPT !["domain"].phase = x]
        /\ SetPolling(Lives, x) = [Lives EXCEPT !["domain"].polling = x]
        /\ SetAttached(Lives, x) = [Lives EXCEPT !["domain"].attached = x]
    BY DEF SetPhase, SetBy, SetPolling, SetAttached
  <1> QED
    BY <1>1, <1>2, <1>3, LivesIs

(* The configuration monitor as it is made is a stopped one. *)
LEMMA InitSimulates == Init => Contract!Init
  <1> SUFFICES ASSUME Init PROVE Contract!Init
    OBVIOUS
  <1>1. Phase = "stopped" /\ Attached = {}
    BY DEF Init, Phase, Attached
  <1> QED
    BY <1>1 DEF Init, NoPoll, Contract!Init, Contract!New, Lives, Life

(* A step of a caller: Start, Stop and Close begin and return as the contract
   says. *)
LEMMA CallerSimulates ==
    ASSUME IndInv, IndInv', NEW c \in Callers, CallerStep(c)
    PROVE  \/ Lives' = Lives \/ Contract!Start("domain")
           \/ Contract!Stop("domain", c) \/ Contract!Close("domain", c)
           \/ Contract!Returns("domain", c)
  <1> USE DEF IndInv
  <1>1. CASE Start(c)
    <2>1. /\ Phase = "stopped" /\ Phase' = "running" /\ mutex = None
          /\ mutex' = mutex /\ IsPolling' = IsPolling /\ Attached' = Attached
      BY <1>1 DEF Start, Phase, IsPolling, Attached, bcVars
    <2> QED
      BY <2>1, LifeChanges, LifeFields DEF Contract!Start, Contract!Free
  <1>2. CASE Stop(c)
    <2>1. /\ Phase = "running" /\ Phase' = "stopping" /\ mutex = None
          /\ mutex' = c /\ IsPolling' = IsPolling /\ Attached' = Attached
      BY <1>2 DEF Stop, ClosePoller, MutexHolder, Phase, IsPolling, Attached, bcVars
    <2>2. Lives' = SetBy(SetPhase(Lives, "stopping"), c)
      <3>1. SetBy(SetPhase(Lives, "stopping"), c) =
               Alone("stopping", c, IsPolling, IsStalled, Attached)
        BY LivesIs, AloneUpdates
      <3> QED
        BY <2>1, <3>1, LivesIs
    <2>3. Lives["domain"].by = None /\ Lives["domain"].phase = "running"
      BY <2>1, LifeFields
    <2> QED
      BY <2>2, <2>3 DEF Contract!Stop, Contract!Free, SetPhase, SetBy
  <1>3. CASE Close(c)
    <2>1. /\ Phase \in {"stopped", "running"} /\ Phase' = "closing" /\ mutex = None
          /\ mutex' = c /\ IsPolling' = IsPolling /\ Attached' = Attached
      BY <1>3, DomainAssumption DEF Close, ClosePoller, Phase, IsPolling, Attached, bcVars
    <2>2. Lives' = SetBy(SetPhase(Lives, "closing"), c)
      <3>1. SetBy(SetPhase(Lives, "closing"), c) =
               Alone("closing", c, IsPolling, IsStalled, Attached)
        BY LivesIs, AloneUpdates
      <3> QED
        BY <2>1, <3>1, LivesIs
    <2>3. Lives["domain"].by = None /\ Lives["domain"].phase \in {"stopped", "running"}
      BY <2>1, LifeFields
    <2> QED
      BY <2>2, <2>3 DEF Contract!Close, Contract!Free, SetPhase, SetBy
  <1>4. CASE Update(c)
    <2>1. Phase' = Phase /\ mutex' = mutex /\ IsPolling' = IsPolling /\ Attached' = Attached
      BY <1>4 DEF Update, Phase, IsPolling, Attached, bcVars, callerVars
    <2> QED
      BY <2>1, LifeChanges
  <1>5. CASE PollerClosed(c) /\ pc[c] = "stop"
    <2>1. /\ Phase' = "stopped" /\ mutex' = None /\ IsPolling' = IsPolling
          /\ Attached' = Attached
      BY <1>5 DEF PollerClosed, MutexHolder, Phase, IsPolling, Attached, bcVars
    <2>2. Lives' = [Lives EXCEPT !["domain"].phase = "stopped", !["domain"].by = None]
      <3>1. SetBy(SetPhase(Lives, "stopped"), None) =
               Alone("stopped", None, IsPolling, IsStalled, Attached)
        BY LivesIs, AloneUpdates
      <3>2. Lives' = Alone("stopped", None, IsPolling, IsStalled, Attached)
        BY <2>1, LivesIs
      <3> QED
        BY <3>1, <3>2 DEF SetBy, SetPhase
    <2>3. /\ Lives["domain"].by = c /\ ~Lives["domain"].polling
          /\ Lives["domain"].phase = "stopping"
      BY <1>5, LifeFields DEF PollerClosed, PollerIdle, MutexHolder, Phase, IsPolling
    <2> QED
      BY <2>2, <2>3 DEF Contract!Returns
  <1>6. CASE PollerClosed(c) /\ pc[c] = "close"
    <2>1. Phase' = Phase /\ mutex' = mutex /\ IsPolling' = IsPolling /\ Attached' = Attached
      BY <1>6 DEF PollerClosed, MutexHolder, Phase, IsPolling, Attached, bcVars
    <2> QED
      BY <2>1, LifeChanges
  <1>7. CASE CloseBroadcaster(c)
    <2>1. Phase' = "closed" /\ mutex' = None /\ IsPolling' = IsPolling
      BY <1>7 DEF CloseBroadcaster, MutexHolder, Phase, IsPolling
    <2>2. Attached' = {}
      BY <1>7 DEF CloseBroadcaster, Channels, Listed, Attached
    <2>3. Lives' = [Lives EXCEPT !["domain"].phase = "closed", !["domain"].by = None,
                                 !["domain"].attached = {}]
      <3>1. SetAttached(SetBy(SetPhase(Lives, "closed"), None), {}) =
               Alone("closed", None, IsPolling, IsStalled, {})
        BY LivesIs, AloneUpdates
      <3>2. Lives' = Alone("closed", None, IsPolling, IsStalled, {})
        BY <2>1, <2>2, LivesIs
      <3> QED
        BY <3>1, <3>2 DEF SetAttached, SetBy, SetPhase
    <2>4. /\ Lives["domain"].by = c /\ ~Lives["domain"].polling
          /\ Lives["domain"].phase = "closing"
      BY <1>7, DomainAssumption, LifeFields
      DEF CloseBroadcaster, MutexHolder, Polling, Phase, IsPolling
    <2> QED
      BY <2>3, <2>4 DEF Contract!Returns
  <1> QED
    BY <1>1, <1>2, <1>3, <1>4, <1>5, <1>6, <1>7 DEF CallerStep, Return, PollerClosed

(* A step of the poller or of the source: a poll begins only while the monitor
   is running, and ends. *)
LEMMA PollSimulates ==
    ASSUME IndInv, IndInv', Tick \/ StartInvocation \/ SourceStep
    PROVE  \/ Lives' = Lives
           \/ Contract!PollBegins("domain") \/ Contract!PollEnds("domain")
  <1> USE DEF IndInv
  <1>1. /\ UNCHANGED callerVars
        /\ \A l \in Listeners : chan'[l].state = chan[l].state
    <2>1. CASE BroadcastSend
      <3>1. listeners[poll.next] \in Listeners
        BY <2>1, ElementOfSeq DEF BroadcastSend, Polling, TypeOK
      <3>2. Append(chan[listeners[poll.next]].queue, polls) \in Seq(Times)
        BY <3>1, AppendProperties DEF TypeOK
      <3> QED
        BY <2>1, <3>1, <3>2, ChannelChanges DEF BroadcastSend
    <2> QED
      BY <2>1 DEF Tick, StartInvocation, SourceStep, Fetched, SinkUpdate, BroadcastLock, bcVars
  <1>2. Phase' = Phase /\ mutex' = mutex /\ Attached' = Attached
    BY <1>1 DEF callerVars, Phase, Attached
  <1>3. CASE IsPolling' = IsPolling
    BY <1>2, <1>3, LifeChanges
  <1>4. CASE ~IsPolling /\ IsPolling'
    <2>1. StartInvocation
      BY <1>4 DEF Tick, SourceStep, Fetched, SinkUpdate, BroadcastLock, BroadcastSend,
                  IsPolling
    <2>2. Phase = "running"
      BY <2>1 DEF StartInvocation, Polling, MutexHolder, Phase
    <2>3. IsPolling' = TRUE
      BY <1>4
    <2> QED
      BY <1>2, <1>4, <2>2, <2>3, LifeChanges, LifeFields DEF Contract!PollBegins
  <1>5. CASE IsPolling /\ ~IsPolling'
    <2>1. IsPolling' = FALSE
      BY <1>5
    <2> QED
      BY <1>2, <1>5, <2>1, LifeChanges, LifeFields DEF Contract!PollEnds, IsStalled
  <1> QED
    BY <1>3, <1>4, <1>5 DEF IsPolling

(* A step of a user or of a listener: Listen attaches a channel to a monitor that
   is not closed. *)
LEMMA ListenerSimulates ==
    ASSUME IndInv, IndInv', NEW l \in Listeners, Listen(l) \/ Receive(l)
    PROVE  Lives' = Lives \/ Contract!Listen("domain", l)
  <1> USE DEF IndInv
  <1>1. /\ UNCHANGED callerVars /\ UNCHANGED poll
    BY DEF Listen, Receive
  <1>2. Phase' = Phase /\ mutex' = mutex /\ IsPolling' = IsPolling
    BY <1>1 DEF callerVars, Phase, IsPolling
  <1>3. CASE Listen(l) /\ ~bcClosed
    <2>1. /\ chan[l].state = "none" /\ chan'[l].state = "open"
          /\ \A m \in Listeners : m # l => chan'[m] = chan[m]
      BY <1>3, ChannelChanges DEF Listen
    <2>2. Attached' = Attached \cup {l} /\ l \notin Attached
      BY <2>1 DEF Attached
    <2>3. Phase # "closed"
      BY <1>3 DEF Phase, Channels, TypeOK
    <2> QED
      BY <1>2, <2>2, <2>3, LifeChanges, LifeFields DEF Contract!Listen
  <1>4. CASE Receive(l) \/ (Listen(l) /\ bcClosed)
    <2>1. \A m \in Listeners : chan'[m].state = "open" <=> chan[m].state = "open"
      <3>1. CASE Receive(l)
        <4>1. Tail(chan[l].queue) \in Seq(Times)
          BY <3>1, HeadTailProperties DEF Receive, TypeOK
        <4> QED
          BY <3>1, <4>1, ChannelChanges DEF Receive
      <3>2. CASE Listen(l) /\ bcClosed
        BY <3>2, ChannelChanges DEF Listen
      <3> QED
        BY <1>4, <3>1, <3>2
    <2>2. Attached' = Attached
      BY <2>1 DEF Attached
    <2> QED
      BY <1>2, <2>2, LifeChanges
  <1> QED
    BY <1>3, <1>4

(* The configuration monitor implements the safety part of its contract. *)
THEOREM ImplementsLifecycle == Spec => Contract!Spec
  <1>1. ASSUME IndInv, IndInv', [Next]_vars
        PROVE  [Contract!Next]_Lives
    <2>1. CASE UNCHANGED vars
      <3>1. Phase' = Phase /\ mutex' = mutex /\ IsPolling' = IsPolling /\ Attached' = Attached
        BY <2>1 DEF vars, callerVars, bcVars, Phase, IsPolling, Attached
      <3> QED
        BY <3>1, LifeChanges
    <2>2. ASSUME NEW c \in Callers, CallerStep(c)
          PROVE  [Contract!Next]_Lives
      BY <1>1, <2>2, CallerSimulates DEF Contract!Next
    <2>3. CASE Tick \/ StartInvocation \/ SourceStep
      BY <1>1, <2>3, PollSimulates DEF Contract!Next
    <2>4. ASSUME NEW u \in Users, UserStep(u)
          PROVE  [Contract!Next]_Lives
      <3>1. UNCHANGED <<callerVars, poll, bcVars>>
        BY <2>4 DEF UserStep, WaitReady, WaitReadyReturns, Value
      <3>2. Phase' = Phase /\ mutex' = mutex /\ IsPolling' = IsPolling /\ Attached' = Attached
        BY <3>1 DEF callerVars, bcVars, Phase, IsPolling, Attached
      <3> QED
        BY <3>2, LifeChanges
    <2>5. ASSUME NEW l \in Listeners, Listen(l) \/ Receive(l)
          PROVE  [Contract!Next]_Lives
      BY <1>1, <2>5, ListenerSimulates DEF Contract!Next
    <2> QED
      BY <1>1, <2>1, <2>2, <2>3, <2>4, <2>5 DEF Next
  <1> QED
    BY <1>1, Invariance, InitSimulates, PTL DEF Spec, Contract!Spec

-----------------------------------------------------------------------------
(* Config: one fetch of the configuration. *)

(* Main has not got beyond what the goroutines have done: those whose results it
   has taken have ended, and when it returns there is no other. *)
NotSpawned == [at |-> "none", err |-> FALSE, got |-> <<>>]
MainFollows ==
    /\ main.at \in {"naming", "open"} => main.next = 1
    /\ main.at \in {"naming", "open", "iterate"} =>
          /\ ~main.err /\ main.groups = <<>>
          /\ \A g \in Groups : Spawned(g) => g < main.next
    /\ main.at = "iterate" => \A g \in Groups : g < main.next => Spawned(g)
    /\ main.at \in {"drain", "returned"} =>
          \A g \in Groups : g < main.next => fetch[g].at = "done"
    /\ main.at = "returned" => \A g \in Groups : g >= main.next => ~Spawned(g)
    /\ main.at = "drain" /\ ~ignored => \A g \in Groups : Spawned(g)
    /\ \A g \in Groups : ~Spawned(g) => fetch[g] = NotSpawned

(* Until main returns, every failure is in the result of some goroutine, and main
   has met those of the results that it has taken. *)
FailuresKept ==
    /\ main.at # "returned" => (failed <=> \E g \in Groups : fetch[g].err)
    /\ main.at = "drain" => (main.err <=> \E g \in Groups : g < main.next /\ fetch[g].err)
    /\ main.err => main.groups = <<>>
    /\ \A g \in Groups : fetch[g].err => fetch[g].at \in {"send", "done"}

(* The groups that main has collected are the results that it has taken. *)
Collected ==
    main.at = "drain" /\ ~main.err =>
        /\ Len(main.groups) = main.next - 1
        /\ \A g \in Groups : g < main.next => main.groups[g] = fetch[g].got

(* A goroutine in these places has a member that it is not done with. *)
Reading == {"open", "conns", "retrieve", "lookup"}

(* A goroutine stays within the members and the connections of its group. *)
Within(g, f) ==
    /\ Len(f.got) <= Len(Directory[g])
    /\ f.at \in {"none", "group"} => f.got = <<>>
    /\ f.at = "member" => Len(f.got) < Len(Directory[g])
    /\ f.at \in Reading => f.got # <<>>
    /\ f.at \in {"retrieve", "lookup"} =>
          Len(f.got[Len(f.got)].conns) < Len(Directory[g][Len(f.got)].conns)

(* What a goroutine has read is what the directory holds, so far as it has come. *)
Partly(read, member) ==
    /\ read.dn = member.dn /\ read.indirect = member.indirect
    /\ Len(read.conns) <= Len(member.conns)
    /\ \A k \in 1 .. Len(read.conns) : read.conns[k] = member.conns[k]
Faithful(g, f) ==
    /\ \A i \in 1 .. Len(f.got) :
          i < Len(f.got) \/ (f.at \notin Reading /\ ~f.err) => f.got[i] = Directory[g][i]
    /\ f.at \in Reading => Partly(f.got[Len(f.got)], Directory[g][Len(f.got)])
    /\ f.at = "open" => f.got[Len(f.got)].conns = <<>>
    /\ f.at \in {"send", "done"} /\ ~f.err => Len(f.got) = Len(Directory[g])

ConfigInv ==
    /\ ConfigTypeOK /\ MainFollows /\ FailuresKept /\ Collected
    /\ \A g \in Groups : Within(g, fetch[g])
    /\ ~ignored => \A g \in Groups : Faithful(g, fetch[g])
    /\ ResultIsHonest

-----------------------------------------------------------------------------
Members == [dn : DNs, indirect : BOOLEAN, conns : Seq(DNs)]
Fetches == [at : Places, err : BOOLEAN, got : Seq(MemberRecords)]

(* The directory's groups are sequences of members. *)
LEMMA DirectoryShape ==
    /\ Len(Directory) \in Nat
    /\ Groups = 1 .. Len(Directory)
    /\ \A g \in Groups : /\ Directory[g] \in Seq(Members)
                         /\ Len(Directory[g]) \in Nat
                         /\ \A i \in 1 .. Len(Directory[g]) : Directory[g][i] \in Members
  <1>1. Directory \in Seq(Seq(Members))
    BY ConfigAssumption DEF Members
  <1>2. ASSUME NEW g \in Groups
        PROVE  Directory[g] \in Seq(Members)
    BY <1>1, LenProperties, ElementOfSeq DEF Groups
  <1>3. ASSUME NEW g \in Groups
        PROVE  /\ Len(Directory[g]) \in Nat
               /\ \A i \in 1 .. Len(Directory[g]) : Directory[g][i] \in Members
    BY <1>2, LenProperties, ElementOfSeq
  <1> QED
    BY <1>1, <1>2, <1>3, LenProperties DEF Groups

(* The members of a record of Members. *)
LEMMA MemberFields ==
    ASSUME NEW m \in Members
    PROVE  /\ m.dn \in DNs /\ m.indirect \in BOOLEAN /\ m.conns \in Seq(DNs)
           /\ Len(m.conns) \in Nat
           /\ \A k \in 1 .. Len(m.conns) : m.conns[k] \in DNs
  <1>1. m.dn \in DNs /\ m.indirect \in BOOLEAN /\ m.conns \in Seq(DNs)
    BY DEF Members
  <1> QED
    BY <1>1, LenProperties, ElementOfSeq

(* What a goroutine has read: its last member is one of MemberRecords. *)
LEMMA FetchShape ==
    ASSUME ConfigTypeOK, NEW g \in Groups
    PROVE  /\ fetch[g] \in Fetches
           /\ fetch[g].got \in Seq(MemberRecords)
           /\ Len(fetch[g].got) \in Nat
           /\ \A i \in 1 .. Len(fetch[g].got) :
                 /\ fetch[g].got[i] \in MemberRecords
                 /\ fetch[g].got[i].conns \in Seq(DNs)
                 /\ Len(fetch[g].got[i].conns) \in Nat
           /\ fetch[g].got # <<>> => Len(fetch[g].got) \in 1 .. Len(fetch[g].got)
  <1>1. fetch[g] \in Fetches /\ fetch[g].got \in Seq(MemberRecords)
    BY DEF ConfigTypeOK, Fetches
  <1>2. \A i \in 1 .. Len(fetch[g].got) : fetch[g].got[i] \in MemberRecords
    BY <1>1, ElementOfSeq
  <1>3. ASSUME NEW m \in MemberRecords
        PROVE  m.conns \in Seq(DNs) /\ Len(m.conns) \in Nat
    BY LenProperties DEF MemberRecords
  <1>4. Len(fetch[g].got) \in Nat
    BY <1>1, LenProperties
  <1>5. fetch[g].got # <<>> => Len(fetch[g].got) \in Nat \ {0}
    BY <1>1, EmptySeq
  <1> QED
    BY <1>1, <1>2, <1>3, <1>4, <1>5

-----------------------------------------------------------------------------
(* What a step of the goroutine of a group may do. *)
GroupMoves(g) ==
    /\ main' = main
    /\ fetch[g].at \notin {"none", "done"}
    /\ fetch'[g] \in Fetches /\ fetch'[g].at # "none"
    /\ fetch' = [fetch EXCEPT ![g] = fetch'[g]]
    /\ cache' \in [DNs \cup {NoDN} -> {"none", "nosettings", "full"}]
    /\ failed' \in BOOLEAN /\ ignored' \in BOOLEAN
    /\ ignored => ignored'
    /\ failed' <=> failed \/ fetch'[g].err
    /\ fetch[g].err => fetch'[g].err
    /\ fetch'[g].err => fetch'[g].at \in {"send", "done"}
    /\ Within(g, fetch'[g])
    /\ ~ignored' => Faithful(g, fetch'[g])

(* While a goroutine is at work, main has not returned. *)
LEMMA NotReturned ==
    ASSUME ConfigInv, NEW g \in Groups, fetch[g].at \notin {"none", "done"}
    PROVE  main.at # "returned"
  <1>1. main.next \in Nat /\ g \in Nat
    BY DirectoryShape DEF ConfigInv, ConfigTypeOK
  <1>2. CASE g < main.next
    BY <1>2 DEF ConfigInv, MainFollows
  <1>3. CASE g >= main.next
    BY <1>3 DEF ConfigInv, MainFollows, Spawned
  <1> QED
    BY <1>1, <1>2, <1>3

(* A step that goes to `at'. *)
LEMMA GoesTo ==
    ASSUME ConfigTypeOK, NEW g \in Groups, NEW at \in Places, GoTo(g, at)
    PROVE  /\ fetch'[g] = [at |-> at, err |-> fetch[g].err, got |-> fetch[g].got]
           /\ fetch'[g] \in Fetches
           /\ fetch' = [fetch EXCEPT ![g] = fetch'[g]]
  BY DEF ConfigTypeOK, GoTo, Fetches

(* A step that fails: group() returns an error. *)
LEMMA GivesUp ==
    ASSUME ConfigTypeOK, NEW g \in Groups, Gives(g)
    PROVE  /\ fetch'[g] = [at |-> "send", err |-> TRUE, got |-> fetch[g].got]
           /\ fetch'[g] \in Fetches
           /\ fetch' = [fetch EXCEPT ![g] = fetch'[g]]
           /\ failed'
  <1>1. fetch \in [Groups -> Fetches] /\ "send" \in Places
    BY DEF ConfigTypeOK, Fetches, Places
  <1>2. fetch' = [fetch EXCEPT ![g].at = "send", ![g].err = TRUE] /\ failed'
    BY DEF Gives, OnError
  <1>3. fetch' \in [Groups -> Fetches] /\ fetch'[g] \in Fetches
    BY <1>1, <1>2 DEF Fetches
  <1>4. /\ fetch'[g].at = "send" /\ fetch'[g].err = TRUE /\ fetch'[g].got = fetch[g].got
        /\ \A h \in Groups : h # g => fetch'[h] = fetch[h]
    BY <1>1, <1>2 DEF Fetches
  <1>5. fetch'[g] = [at |-> "send", err |-> TRUE, got |-> fetch[g].got]
    BY <1>3, <1>4 DEF Fetches
  <1>6. fetch' = [fetch EXCEPT ![g] = fetch'[g]]
    BY <1>1, <1>3, <1>4
  <1> QED
    BY <1>2, <1>3, <1>5, <1>6

(* Whatever it was doing, a goroutine that fails keeps the invariant. *)
LEMMA GivesMoves ==
    ASSUME ConfigInv, NEW g \in Groups, Gives(g),
           fetch[g].at \notin {"none", "done", "send"},
           main' = main, cache' \in [DNs \cup {NoDN} -> {"none", "nosettings", "full"}],
           ignored' \in BOOLEAN, ignored => ignored'
    PROVE  GroupMoves(g)
  <1> DEFINE f == fetch[g]
  <1>1. /\ fetch'[g] = [at |-> "send", err |-> TRUE, got |-> f.got]
        /\ fetch'[g] \in Fetches
        /\ fetch' = [fetch EXCEPT ![g] = fetch'[g]]
        /\ failed'
    BY GivesUp DEF ConfigInv
  <1>2. Within(g, f) /\ (~ignored => Faithful(g, f))
    BY DEF ConfigInv
  <1>3. Within(g, fetch'[g])
    BY <1>1, <1>2 DEF Within, Reading
  <1>4. ~ignored => Faithful(g, fetch'[g])
    BY <1>1, <1>2 DEF Faithful, Reading
  <1>5. failed \in BOOLEAN
    BY DEF ConfigInv, ConfigTypeOK
  <1> QED
    BY <1>1, <1>3, <1>4, <1>5 DEF GroupMoves

(* A goroutine that goes to another place keeps it, if the place suits what it
   has read. *)
LEMMA GoToMoves ==
    ASSUME ConfigInv, NEW g \in Groups, NEW at \in Places \ {"none"}, GoTo(g, at),
           fetch[g].at \notin {"none", "done"},
           main' = main, cache' = cache, failed' = failed,
           ignored' \in BOOLEAN, ignored => ignored',
           at = "done" <=> fetch[g].at = "send",
           NEW f, f = [at |-> at, err |-> fetch[g].err, got |-> fetch[g].got],
           Within(g, f),
           ~ignored' => Faithful(g, f)
    PROVE  GroupMoves(g)
  <1>1. ConfigTypeOK /\ FailuresKept /\ main.at # "returned"
    BY NotReturned DEF ConfigInv
  <1>2. /\ fetch'[g] = f /\ fetch'[g] \in Fetches
        /\ fetch' = [fetch EXCEPT ![g] = fetch'[g]]
    BY <1>1, GoesTo
  <1>3. f.at = at /\ f.err = fetch[g].err
    OBVIOUS
  <1>4. fetch[g].err => fetch[g].at = "send" /\ failed
    BY <1>1 DEF FailuresKept
  <1>5. failed' <=> failed \/ fetch'[g].err
    BY <1>2, <1>3, <1>4
  <1>6. fetch[g].err => fetch'[g].err
    BY <1>2, <1>3
  <1>7. fetch'[g].err => fetch'[g].at \in {"send", "done"}
    BY <1>2, <1>3, <1>4
  <1>8. failed \in BOOLEAN /\ cache \in [DNs \cup {NoDN} -> {"none", "nosettings", "full"}]
    BY <1>1 DEF ConfigTypeOK
  <1>9. Within(g, fetch'[g]) /\ (~ignored' => Faithful(g, fetch'[g]))
    BY <1>2
  <1> QED
    BY <1>2, <1>3, <1>5, <1>6, <1>7, <1>8, <1>9 DEF GroupMoves

LEMMA ReadGroupMoves ==
    ASSUME ConfigInv, NEW g \in Groups, ReadGroup(g)
    PROVE  GroupMoves(g)
  <1>1. ConfigTypeOK /\ FailuresKept /\ Within(g, fetch[g])
        /\ (~ignored => Faithful(g, fetch[g]))
    BY DEF ConfigInv
  <1>2. ignored \in BOOLEAN
    BY <1>1 DEF ConfigTypeOK
  <1>3. CASE Gives(g) /\ UNCHANGED ignored
    BY <1>1, <1>2, <1>3, GivesMoves DEF ReadGroup, ConfigTypeOK
  <1>4. CASE GoTo(g, "members") /\ ignored' \in Folders /\ UNCHANGED failed
    <2> DEFINE f == [at |-> "members", err |-> fetch[g].err, got |-> fetch[g].got]
    <2>1. ignored' = ignored \/ ignored' = TRUE
      BY <1>4, Zenon DEF Folders
    <2>2. ignored' \in BOOLEAN /\ (ignored => ignored')
      BY <1>2, <2>1, Zenon
    <2>3. Within(g, f)
      BY <1>1 DEF Within, Reading, ReadGroup
    <2>4. ~ignored' => Faithful(g, f)
      BY <1>1, <2>2 DEF Faithful, Reading, ReadGroup
    <2> HIDE DEF f
    <2>5. f = [at |-> "members", err |-> fetch[g].err, got |-> fetch[g].got]
      BY DEF f
    <2> QED
      BY <1>4, <2>2, <2>3, <2>4, <2>5, GoToMoves DEF ReadGroup, Places
  <1> QED
    BY <1>3, <1>4 DEF ReadGroup

LEMMA NextMemberMoves ==
    ASSUME ConfigInv, NEW g \in Groups, NextMember(g)
    PROVE  GroupMoves(g)
  <1> DEFINE n == Len(fetch[g].got)
  <1>1. ConfigTypeOK /\ FailuresKept /\ Within(g, fetch[g])
        /\ (~ignored => Faithful(g, fetch[g])) /\ ~fetch[g].err
    BY DEF ConfigInv, FailuresKept, NextMember
  <1>2. ignored \in BOOLEAN /\ n \in Nat /\ Len(Directory[g]) \in Nat
    BY <1>1, FetchShape, DirectoryShape DEF ConfigTypeOK
  <1>3. fetch[g].at = "members" /\ UNCHANGED <<main, cache, failed>>
    BY DEF NextMember
  <1>4. CASE n + 1 <= Len(Directory[g]) /\ GoTo(g, "member") /\ UNCHANGED ignored
    <2> DEFINE f == [at |-> "member", err |-> fetch[g].err, got |-> fetch[g].got]
    <2>1. Within(g, f)
      BY <1>1, <1>2, <1>4 DEF Within, Reading
    <2>2. ~ignored' => Faithful(g, f)
      BY <1>1, <1>3, <1>4 DEF Faithful, Reading
    <2> HIDE DEF f
    <2>3. f = [at |-> "member", err |-> fetch[g].err, got |-> fetch[g].got]
      BY DEF f
    <2> QED
      BY <1>2, <1>3, <1>4, <2>1, <2>2, <2>3, GoToMoves DEF Places
  <1>5. CASE GoTo(g, "send") /\ ignored' = (ignored \/ n + 1 <= Len(Directory[g]))
    <2> DEFINE f == [at |-> "send", err |-> fetch[g].err, got |-> fetch[g].got]
    <2>1. ignored' \in BOOLEAN /\ (ignored => ignored')
      BY <1>2, <1>5
    <2>2. Within(g, f)
      BY <1>1, <1>3 DEF Within, Reading
    <2>3. ~ignored' => ~(n + 1 <= Len(Directory[g]))
      BY <1>5, Zenon
    <2>4. ~ignored' => n = Len(Directory[g])
      BY <1>1, <1>2, <2>3 DEF Within
    <2>5. ~ignored' => Faithful(g, f)
      BY <1>1, <1>3, <2>1, <2>4 DEF Faithful, Reading
    <2> HIDE DEF f
    <2>6. f = [at |-> "send", err |-> fetch[g].err, got |-> fetch[g].got]
      BY DEF f
    <2> QED
      BY <1>3, <1>5, <2>1, <2>2, <2>5, <2>6, GoToMoves DEF Places
  <1> QED
    BY <1>4, <1>5 DEF NextMember

LEMMA OpenConnectionsMoves ==
    ASSUME ConfigInv, NEW g \in Groups, OpenConnections(g)
    PROVE  GroupMoves(g)
  <1>1. ConfigTypeOK /\ FailuresKept /\ Within(g, fetch[g])
        /\ (~ignored => Faithful(g, fetch[g])) /\ ~fetch[g].err
    BY DEF ConfigInv, FailuresKept, OpenConnections
  <1>2. ignored \in BOOLEAN
    BY <1>1 DEF ConfigTypeOK
  <1>3. fetch[g].at = "open" /\ UNCHANGED <<main, cache>>
    BY DEF OpenConnections
  <1>4. CASE GoTo(g, "conns") /\ UNCHANGED <<failed, ignored>>
    <2> DEFINE f == [at |-> "conns", err |-> fetch[g].err, got |-> fetch[g].got]
    <2>1. Within(g, f)
      BY <1>1, <1>3 DEF Within, Reading
    <2>2. ~ignored' => Faithful(g, f)
      BY <1>1, <1>3, <1>4 DEF Faithful, Reading
    <2> HIDE DEF f
    <2>3. f = [at |-> "conns", err |-> fetch[g].err, got |-> fetch[g].got]
      BY DEF f
    <2> QED
      BY <1>2, <1>3, <1>4, <2>1, <2>2, <2>3, GoToMoves DEF Places
  <1>5. CASE Gives(g) /\ UNCHANGED ignored
    BY <1>1, <1>2, <1>3, <1>5, GivesMoves DEF ConfigTypeOK
  <1>6. CASE GoTo(g, "members") /\ ignored' = TRUE /\ UNCHANGED failed
    <2> DEFINE f == [at |-> "members", err |-> fetch[g].err, got |-> fetch[g].got]
    <2>1. Within(g, f)
      BY <1>1, <1>3 DEF Within, Reading
    <2> HIDE DEF f
    <2>2. f = [at |-> "members", err |-> fetch[g].err, got |-> fetch[g].got]
      BY DEF f
    <2> QED
      BY <1>3, <1>6, <2>1, <2>2, GoToMoves DEF Places
  <1> QED
    BY <1>4, <1>5, <1>6 DEF OpenConnections

(* A member that has been read to its end is the directory's. *)
LEMMA WholeMember ==
    ASSUME NEW read \in MemberRecords, NEW m \in Members,
           Partly(read, m), Len(read.conns) = Len(m.conns)
    PROVE  read = m
  <1>1. read.conns \in Seq(DNs) /\ m.conns \in Seq(DNs)
    BY DEF MemberRecords, Members
  <1>2. read.conns = m.conns
    BY <1>1, SeqEqual DEF Partly
  <1> QED
    BY <1>2 DEF Partly, MemberRecords, Members

(* The member that a goroutine is reading is one of the directory's. *)
LEMMA ReadingShape ==
    ASSUME ConfigTypeOK, NEW g \in Groups, Within(g, fetch[g]), fetch[g].at \in Reading,
           NEW n, n = Len(fetch[g].got)
    PROVE  /\ n \in 1 .. Len(fetch[g].got) /\ n \in 1 .. Len(Directory[g])
           /\ fetch[g].got[n] \in MemberRecords /\ Current(g) \in Members
           /\ Conns(g) = fetch[g].got[n].conns /\ Current(g) = Directory[g][n]
           /\ Len(Conns(g)) \in Nat /\ Len(Current(g).conns) \in Nat
           /\ \A k \in 1 .. Len(Current(g).conns) : Current(g).conns[k] \in DNs
  <1>1. fetch[g].got # <<>> /\ n <= Len(Directory[g])
    BY DEF Within
  <1>2. n \in 1 .. Len(fetch[g].got)
    BY <1>1, FetchShape
  <1>3. n \in Nat /\ Len(Directory[g]) \in Nat /\ n >= 1
    BY <1>2, FetchShape, DirectoryShape
  <1>4. n \in 1 .. Len(Directory[g])
    BY <1>1, <1>3
  <1>5. Conns(g) = fetch[g].got[n].conns /\ Current(g) = Directory[g][n]
    BY DEF Conns, Current
  <1>6. fetch[g].got[n] \in MemberRecords /\ Len(Conns(g)) \in Nat
    BY <1>2, <1>5, FetchShape
  <1>7. Current(g) \in Members
    BY <1>4, <1>5, DirectoryShape
  <1> QED
    BY <1>2, <1>4, <1>5, <1>6, <1>7, MemberFields

LEMMA NextConnectionMoves ==
    ASSUME ConfigInv, NEW g \in Groups, NextConnection(g)
    PROVE  GroupMoves(g)
  <1> DEFINE n == Len(fetch[g].got)
             k == Len(Conns(g)) + 1
  <1>1. ConfigTypeOK /\ FailuresKept /\ Within(g, fetch[g])
        /\ (~ignored => Faithful(g, fetch[g])) /\ ~fetch[g].err
    BY DEF ConfigInv, FailuresKept, NextConnection
  <1>2. ignored \in BOOLEAN
    BY <1>1 DEF ConfigTypeOK
  <1>3. fetch[g].at = "conns" /\ UNCHANGED <<main, cache>>
    BY DEF NextConnection
  <1>4. /\ n \in 1 .. Len(fetch[g].got) /\ n \in 1 .. Len(Directory[g])
        /\ fetch[g].got[n] \in MemberRecords /\ Current(g) \in Members
        /\ Conns(g) = fetch[g].got[n].conns /\ Current(g) = Directory[g][n]
        /\ Len(Conns(g)) \in Nat /\ Len(Current(g).conns) \in Nat
    BY <1>1, <1>3, ReadingShape DEF Reading
  <1>5. CASE Gives(g) /\ UNCHANGED ignored
    BY <1>1, <1>2, <1>3, <1>5, GivesMoves DEF ConfigTypeOK
  <1>6. CASE k <= Len(Current(g).conns) /\ GoTo(g, "retrieve") /\ UNCHANGED <<failed, ignored>>
    <2> DEFINE f == [at |-> "retrieve", err |-> fetch[g].err, got |-> fetch[g].got]
    <2>1. Len(Conns(g)) < Len(Current(g).conns)
      BY <1>4, <1>6
    <2>2. Within(g, f)
      BY <1>1, <1>3, <1>4, <2>1 DEF Within, Reading
    <2>3. ~ignored' => Faithful(g, f)
      BY <1>1, <1>3, <1>6 DEF Faithful, Reading
    <2> HIDE DEF f
    <2>4. f = [at |-> "retrieve", err |-> fetch[g].err, got |-> fetch[g].got]
      BY DEF f
    <2> QED
      BY <1>2, <1>3, <1>6, <2>2, <2>3, <2>4, GoToMoves DEF Places
  <1>7. CASE /\ GoTo(g, "members") /\ UNCHANGED failed
             /\ ignored' = (ignored \/ k <= Len(Current(g).conns))
    <2> DEFINE f == [at |-> "members", err |-> fetch[g].err, got |-> fetch[g].got]
    <2>1. ignored' \in BOOLEAN /\ (ignored => ignored')
      BY <1>2, <1>7
    <2>2. Within(g, f)
      BY <1>1, <1>3 DEF Within, Reading
    <2>3. ASSUME ~ignored' PROVE fetch[g].got[n] = Directory[g][n]
      <3>1. Partly(fetch[g].got[n], Directory[g][n])
        BY <1>1, <1>3, <2>1, <2>3 DEF Faithful, Reading
      <3>2. ~(k <= Len(Current(g).conns))
        BY <1>7, <2>3, Zenon
      <3>3. Len(fetch[g].got[n].conns) = Len(Directory[g][n].conns)
        BY <1>4, <3>1, <3>2 DEF Partly
      <3> QED
        BY <1>4, <3>1, <3>3, WholeMember
    <2>4. ~ignored' => Faithful(g, f)
      BY <1>1, <1>3, <1>4, <2>1, <2>3 DEF Faithful, Reading
    <2> HIDE DEF f
    <2>5. f = [at |-> "members", err |-> fetch[g].err, got |-> fetch[g].got]
      BY DEF f
    <2> QED
      BY <1>3, <1>7, <2>1, <2>2, <2>4, <2>5, GoToMoves DEF Places
  <1> QED
    BY <1>5, <1>6, <1>7 DEF NextConnection

LEMMA SendResultMoves ==
    ASSUME ConfigInv, NEW g \in Groups, SendResult(g)
    PROVE  GroupMoves(g)
  <1> DEFINE f == [at |-> "done", err |-> fetch[g].err, got |-> fetch[g].got]
  <1>1. ConfigTypeOK /\ FailuresKept /\ Within(g, fetch[g])
        /\ (~ignored => Faithful(g, fetch[g]))
    BY DEF ConfigInv
  <1>2. ignored \in BOOLEAN
    BY <1>1 DEF ConfigTypeOK
  <1>3. fetch[g].at = "send" /\ UNCHANGED <<main, cache, failed, ignored>> /\ GoTo(g, "done")
    BY DEF SendResult
  <1>4. Within(g, f)
    BY <1>1, <1>3 DEF Within, Reading
  <1>5. ~ignored' => Faithful(g, f)
    BY <1>1, <1>3 DEF Faithful, Reading
  <1> HIDE DEF f
  <1>6. f = [at |-> "done", err |-> fetch[g].err, got |-> fetch[g].got]
    BY DEF f
  <1> QED
    BY <1>2, <1>3, <1>4, <1>5, <1>6, GoToMoves DEF Places

-----------------------------------------------------------------------------
(* MemberInfo: it succeeds, or the goroutine fails. *)
LEMMA MemberInfoGives ==
    ASSUME ConfigInv, NEW g \in Groups, NEW key \in DNs \cup {NoDN}, NEW next,
           MemberInfo(g, key, next)
    PROVE  /\ cache' \in [DNs \cup {NoDN} -> {"none", "nosettings", "full"}]
           /\ \/ fetch' = next /\ failed' = failed
              \/ Gives(g)
  BY DEF ConfigInv, ConfigTypeOK, MemberInfo, WithoutSettings, SettingsError, Gives

(* A goroutine that has read something more: a member, or a connection. *)
LEMMA ReadsMore ==
    ASSUME ConfigInv, NEW g \in Groups, fetch[g].at \in {"member", "retrieve", "lookup"},
           NEW f \in Fetches, fetch' = [fetch EXCEPT ![g] = f],
           f.at \in Reading, f.err = fetch[g].err,
           main' = main, failed' = failed,
           cache' \in [DNs \cup {NoDN} -> {"none", "nosettings", "full"}],
           ignored' \in BOOLEAN, ignored => ignored',
           Within(g, f),
           ~ignored' => Faithful(g, f)
    PROVE  GroupMoves(g)
  <1>1. ~fetch[g].err /\ failed \in BOOLEAN
    BY DEF ConfigInv, FailuresKept, ConfigTypeOK
  <1>2. fetch'[g] = f
    BY DEF ConfigInv, ConfigTypeOK
  <1>3. ~f.err /\ f.at # "none"
    BY <1>1 DEF Reading
  <1> QED
    BY <1>1, <1>2, <1>3 DEF GroupMoves

LEMMA ReadMemberMoves ==
    ASSUME ConfigInv, NEW g \in Groups, ReadMember(g)
    PROVE  GroupMoves(g)
  <1> DEFINE got == fetch[g].got
             n == Len(got) + 1
             member == Directory[g][n]
  <1>1. ConfigTypeOK /\ FailuresKept /\ Within(g, fetch[g])
        /\ (~ignored => Faithful(g, fetch[g])) /\ ~fetch[g].err
    BY DEF ConfigInv, FailuresKept, ReadMember
  <1>2. ignored \in BOOLEAN /\ fetch[g].at = "member" /\ main' = main
    BY <1>1 DEF ConfigTypeOK, ReadMember
  <1>3. /\ Len(got) \in Nat /\ Len(Directory[g]) \in Nat /\ got \in Seq(MemberRecords)
        /\ Len(got) < Len(Directory[g])
    BY <1>1, <1>2, FetchShape, DirectoryShape DEF Within
  <1>4. n \in 1 .. Len(Directory[g]) /\ member \in Members
    BY <1>3, DirectoryShape
  <1>5. member.dn \in DNs /\ member.indirect \in BOOLEAN
    BY <1>4, MemberFields
  <1>6. PICK dn \in {member.dn, NoDN} :
           /\ MemberInfo(g, dn, [fetch EXCEPT
                  ![g].at = "open",
                  ![g].got = Append(@, [dn |-> dn, indirect |-> member.indirect,
                                        conns |-> <<>>])])
           /\ ignored' = (ignored \/ dn = NoDN)
    BY DEF ReadMember
  <1> DEFINE read == [dn |-> dn, indirect |-> member.indirect, conns |-> <<>>]
             f == [at |-> "open", err |-> fetch[g].err, got |-> Append(got, read)]
  <1>7. dn \in DNs \cup {NoDN}
    BY <1>5
  <1>8. ignored' \in BOOLEAN /\ (ignored => ignored') /\ (~ignored' => dn = member.dn)
    BY <1>2, <1>6, Zenon
  <1>9. cache' \in [DNs \cup {NoDN} -> {"none", "nosettings", "full"}]
    BY <1>6, <1>7, MemberInfoGives
  <1>10. CASE Gives(g)
    BY <1>2, <1>8, <1>9, <1>10, GivesMoves
  <1>11. CASE /\ failed' = failed
              /\ fetch' = [fetch EXCEPT ![g].at = "open", ![g].got = Append(@, read)]
    <2>1. read \in MemberRecords
      BY <1>5, <1>7 DEF MemberRecords
    <2>2. Append(got, read) \in Seq(MemberRecords)
      BY <1>3, <2>1
    <2>3. /\ Len(Append(got, read)) = n
          /\ Append(got, read)[n] = read
          /\ \A i \in 1 .. Len(got) : Append(got, read)[i] = got[i]
      BY <1>3, <2>1
    <2>4. f \in Fetches
      BY <2>2, <1>1 DEF Fetches, Places, ConfigTypeOK
    <2>5. fetch' = [fetch EXCEPT ![g] = f]
      BY <1>1, <1>11 DEF ConfigTypeOK
    <2>6. /\ f.at = "open" /\ f.got = Append(got, read) /\ Len(f.got) = n
          /\ f.got[n] = read /\ f.err = fetch[g].err
      BY <2>3
    <2>7. f.got # <<>>
      <3> HIDE DEF f, read, member
      <3>1. Len(f.got) # 0
        BY <2>6, <1>3
      <3> QED
        BY <3>1, EmptySeq
    <2>8. Within(g, f)
      BY <1>3, <2>6, <2>7 DEF Within, Reading
    <2>9. ASSUME ~ignored' PROVE Faithful(g, f)
      <3>1. Partly(read, member)
        BY <1>3, <1>5, <1>8, <2>9, <1>4, MemberFields DEF Partly
      <3>2. \A i \in 1 .. Len(got) : got[i] = Directory[g][i]
        BY <1>1, <1>2, <1>8, <2>9 DEF Faithful, Reading
      <3>3. \A i \in 1 .. n : i < n => f.got[i] = Directory[g][i]
        BY <1>3, <2>3, <2>6, <3>2
      <3> HIDE DEF f, read, member
      <3>4. f.got[Len(f.got)] = read /\ Directory[g][Len(f.got)] = member
        BY <2>6 DEF member
      <3>5. read.conns = <<>>
        BY DEF read
      <3> QED
        BY <2>6, <3>1, <3>3, <3>4, <3>5 DEF Faithful, Reading
    <2> HIDE DEF f
    <2> QED
      BY <1>2, <1>8, <1>9, <1>11, <2>4, <2>5, <2>6, <2>8, <2>9, ReadsMore DEF Reading
  <1> QED
    BY <1>6, <1>7, <1>10, <1>11, MemberInfoGives

(* A goroutine's record when it has one more connection of its last member. *)
LEMMA AddsConnection ==
    ASSUME ConfigTypeOK, NEW g \in Groups, NEW n, n = Len(fetch[g].got)
    PROVE  Connected(g) =
           [fetch EXCEPT ![g] =
              [at |-> "conns", err |-> fetch[g].err,
               got |-> [fetch[g].got EXCEPT
                          ![n] = [fetch[g].got[n] EXCEPT
                                    !.conns = Append(fetch[g].got[n].conns, Partner(g))]]]]
  <1>1. PICK r \in Fetches : r = fetch[g]
    BY DEF ConfigTypeOK, Fetches
  <1>2. PICK q : q = [at |-> "conns", err |-> r.err, got |-> r.got]
    OBVIOUS
  <1>3. [r EXCEPT !.at = "conns"] = q /\ q.got = r.got
    BY <1>2 DEF Fetches
  <1> DEFINE dn == Partner(g)
             got == [r.got EXCEPT ![n] = [r.got[n] EXCEPT !.conns = Append(r.got[n].conns, dn)]]
  <1>4. [q EXCEPT !.got = got] = [at |-> "conns", err |-> r.err, got |-> got]
    <2> HIDE DEF got
    <2> QED
      BY <1>2
  <1>5. [q EXCEPT !.got[n].conns = Append(@, dn)] = [q EXCEPT !.got = got]
    BY <1>3, Zenon
  <1>6. Connected(g) = [fetch EXCEPT ![g] = [q EXCEPT !.got[n].conns = Append(@, dn)]]
    BY <1>1, <1>3, Zenon DEF Connected
  <1> QED
    BY <1>1, <1>4, <1>5, <1>6, Zenon

(* A connection that is read as the directory has it. *)
LEMMA ConnectedMoves ==
    ASSUME ConfigInv, NEW g \in Groups, fetch[g].at \in {"retrieve", "lookup"},
           fetch' = Connected(g), main' = main, failed' = failed, ignored' = ignored,
           cache' \in [DNs \cup {NoDN} -> {"none", "nosettings", "full"}]
    PROVE  GroupMoves(g)
  <1> DEFINE got == fetch[g].got
             n == Len(got)
             k == Len(Conns(g)) + 1
             conns == Append(got[n].conns, Partner(g))
             read == [got[n] EXCEPT !.conns = conns]
             f == [at |-> "conns", err |-> fetch[g].err, got |-> [got EXCEPT ![n] = read]]
  <1>1. ConfigTypeOK /\ FailuresKept /\ Within(g, fetch[g])
        /\ (~ignored => Faithful(g, fetch[g])) /\ ~fetch[g].err /\ ignored \in BOOLEAN
    BY DEF ConfigInv, FailuresKept, ConfigTypeOK
  <1>2. /\ n \in 1 .. Len(got) /\ n \in 1 .. Len(Directory[g])
        /\ got[n] \in MemberRecords /\ Current(g) \in Members
        /\ Conns(g) = got[n].conns /\ Current(g) = Directory[g][n]
        /\ Len(Conns(g)) \in Nat /\ Len(Current(g).conns) \in Nat
        /\ \A i \in 1 .. Len(Current(g).conns) : Current(g).conns[i] \in DNs
    BY <1>1, ReadingShape DEF Reading
  <1>3. got \in Seq(MemberRecords) /\ Len(got) \in Nat /\ Conns(g) \in Seq(DNs)
    BY <1>1, <1>2, FetchShape
  <1>4. k \in 1 .. Len(Current(g).conns) /\ Partner(g) = Current(g).conns[k]
    <2>1. Len(got[n].conns) < Len(Directory[g][n].conns)
      BY <1>1 DEF Within
    <2>2. Len(Conns(g)) < Len(Current(g).conns)
      BY <1>2, <2>1
    <2>3. k \in 1 .. Len(Current(g).conns)
      <3>1. Len(Conns(g)) \in Nat /\ Len(Current(g).conns) \in Nat
        BY <1>2
      <3> QED
        BY <2>2, <3>1
    <2> QED
      BY <2>3 DEF Partner
  <1>5. /\ conns \in Seq(DNs) /\ Len(conns) = k /\ conns[k] = Partner(g)
        /\ \A i \in 1 .. Len(Conns(g)) : conns[i] = Conns(g)[i]
    <2>1. Partner(g) \in DNs
      BY <1>2, <1>4
    <2>2. conns = Append(Conns(g), Partner(g))
      BY <1>2
    <2>3. Len(Conns(g)) \in Nat /\ Conns(g) \in Seq(DNs)
      BY <1>2, <1>3
    <2> HIDE DEF conns
    <2> QED
      BY <2>1, <2>2, <2>3, AppendProperties
  <1>6. read \in MemberRecords /\ read.conns = conns
        /\ read.dn = got[n].dn /\ read.indirect = got[n].indirect
    BY <1>2, <1>5 DEF MemberRecords
  <1>7. /\ f.got \in Seq(MemberRecords) /\ Len(f.got) = n
        /\ \A i \in 1 .. n : f.got[i] = IF i = n THEN read ELSE got[i]
    BY <1>2, <1>3, <1>6, ExceptSeq
  <1>8. f \in Fetches /\ f.at = "conns" /\ f.err = fetch[g].err
    BY <1>1, <1>7 DEF Fetches, Places, ConfigTypeOK
  <1>9. fetch' = [fetch EXCEPT ![g] = f]
    BY <1>1, AddsConnection, Zenon
  <1>10. Within(g, f)
    <2>1. f.got # <<>>
      BY <1>2, <1>3, <1>7
    <2> QED
      BY <1>2, <1>3, <1>7, <1>8, <2>1 DEF Within, Reading
  <1>11. ASSUME ~ignored' PROVE Faithful(g, f)
    <2>1. Partly(got[n], Directory[g][n]) /\ \A i \in 1 .. n : i < n => got[i] = Directory[g][i]
      BY <1>1, <1>11 DEF Faithful, Reading
    <2> HIDE DEF conns, read, f
    <2>2. Partly(read, Directory[g][n])
      <3>1. /\ Partly(got[n], Directory[g][n])
            /\ got[n].conns = Conns(g) /\ Directory[g][n] = Current(g)
        BY <1>2, <2>1
      <3>2. read.dn = Current(g).dn /\ read.indirect = Current(g).indirect
        BY <3>1, <1>6 DEF Partly
      <3>3. Len(read.conns) <= Len(Current(g).conns)
        BY <1>4, <1>5, <1>6
      <3>4. ASSUME NEW i \in 1 .. Len(read.conns) PROVE read.conns[i] = Current(g).conns[i]
        <4>1. i \in 1 .. k
          BY <1>5, <1>6
        <4>2. CASE i = k
          BY <4>2, <1>4, <1>5, <1>6
        <4>3. CASE i # k
          <5>1. i \in 1 .. Len(Conns(g))
            <6>1. Len(Conns(g)) \in Nat
              BY <1>2
            <6> QED
              BY <4>1, <4>3, <6>1
          <5>2. Conns(g)[i] = Current(g).conns[i]
            BY <3>1, <5>1 DEF Partly
          <5> QED
            BY <5>1, <5>2, <1>5, <1>6
        <4> QED
          BY <4>2, <4>3
      <3> QED
        BY <3>1, <3>2, <3>3, <3>4 DEF Partly
    <2>3. f.got[Len(f.got)] = read
      BY <1>2, <1>7
    <2>4. \A i \in 1 .. n : i < n => f.got[i] = Directory[g][i]
      BY <1>7, <2>1
    <2> QED
      BY <1>7, <1>8, <2>2, <2>3, <2>4 DEF Faithful, Reading
  <1> HIDE DEF f
  <1> QED
    BY <1>1, <1>8, <1>9, <1>10, <1>11, ReadsMore DEF Reading

LEMMA RetrieveMoves ==
    ASSUME ConfigInv, NEW g \in Groups, Retrieve(g)
    PROVE  GroupMoves(g)
  <1>1. ConfigTypeOK /\ Within(g, fetch[g]) /\ (~ignored => Faithful(g, fetch[g]))
    BY DEF ConfigInv
  <1>2. ignored \in BOOLEAN /\ cache \in [DNs \cup {NoDN} -> {"none", "nosettings", "full"}]
    BY <1>1 DEF ConfigTypeOK
  <1>3. fetch[g].at = "retrieve" /\ UNCHANGED <<main, cache, failed, ignored>>
    BY DEF Retrieve
  <1>4. CASE fetch' = Connected(g)
    BY <1>2, <1>3, <1>4, ConnectedMoves
  <1>5. CASE GoTo(g, "lookup")
    <2> DEFINE f == [at |-> "lookup", err |-> fetch[g].err, got |-> fetch[g].got]
    <2>1. Within(g, f)
      BY <1>1, <1>3 DEF Within, Reading
    <2>2. ~ignored' => Faithful(g, f)
      BY <1>1, <1>3 DEF Faithful, Reading
    <2> HIDE DEF f
    <2>3. f = [at |-> "lookup", err |-> fetch[g].err, got |-> fetch[g].got]
      BY DEF f
    <2> QED
      BY <1>2, <1>3, <1>5, <2>1, <2>2, <2>3, GoToMoves DEF Places
  <1> QED
    BY <1>4, <1>5 DEF Retrieve, GoTo

LEMMA LookupMemberMoves ==
    ASSUME ConfigInv, NEW g \in Groups, LookupMember(g)
    PROVE  GroupMoves(g)
  <1>1. ConfigTypeOK /\ Within(g, fetch[g]) /\ ignored \in BOOLEAN
    BY DEF ConfigInv, ConfigTypeOK
  <1>2. fetch[g].at = "lookup" /\ UNCHANGED <<main, ignored>>
        /\ MemberInfo(g, Partner(g), Connected(g))
    BY DEF LookupMember
  <1>3. Partner(g) \in DNs
    <2>1. fetch[g].at \in Reading /\ Len(Conns(g)) < Len(Current(g).conns)
      BY <1>1, <1>2 DEF Reading, Within, Conns, Current
    <2>2. /\ Len(Conns(g)) \in Nat /\ Len(Current(g).conns) \in Nat
          /\ \A k \in 1 .. Len(Current(g).conns) : Current(g).conns[k] \in DNs
      BY <1>1, <2>1, ReadingShape
    <2>3. Len(Conns(g)) + 1 \in 1 .. Len(Current(g).conns)
      BY <2>1, <2>2
    <2> QED
      BY <2>2, <2>3 DEF Partner
  <1>4. /\ cache' \in [DNs \cup {NoDN} -> {"none", "nosettings", "full"}]
        /\ (fetch' = Connected(g) /\ failed' = failed) \/ Gives(g)
    BY <1>2, <1>3, MemberInfoGives
  <1> QED
    BY <1>1, <1>2, <1>4, ConnectedMoves, GivesMoves

LEMMA GroupStepMoves ==
    ASSUME ConfigInv, NEW g \in Groups, GroupStep(g)
    PROVE  GroupMoves(g)
  BY ReadGroupMoves, NextMemberMoves, ReadMemberMoves, OpenConnectionsMoves,
     NextConnectionMoves, RetrieveMoves, LookupMemberMoves, SendResultMoves
  DEF GroupStep

-----------------------------------------------------------------------------
(* A step of a goroutine keeps the invariant. *)
LEMMA GroupStepKeeps ==
    ASSUME ConfigInv, NEW g \in Groups, GroupStep(g)
    PROVE  ConfigInv'
  <1>1. GroupMoves(g)
    BY GroupStepMoves
  <1>2. main' = main /\ main.at # "returned" /\ ConfigTypeOK
    BY <1>1, NotReturned DEF GroupMoves, ConfigInv
  <1>3. \A h \in Groups : fetch'[h] = IF h = g THEN fetch'[g] ELSE fetch[h]
    BY <1>1, <1>2 DEF GroupMoves, ConfigTypeOK
  <1>4. fetch' \in [Groups -> Fetches]
    BY <1>1, <1>2 DEF GroupMoves, ConfigTypeOK, Fetches
  <1>5. \A h \in Groups : Within(h, fetch'[h])
    BY <1>1, <1>3 DEF GroupMoves, ConfigInv
  <1>6. ConfigTypeOK'
    <2>1. \A h \in Groups : Len(fetch'[h].got) <= Len(Directory[h])
      BY <1>5 DEF Within
    <2> QED
      BY <1>1, <1>2, <1>4, <2>1 DEF ConfigTypeOK, GroupMoves, Fetches
  <1>7. ~ignored' => \A h \in Groups : Faithful(h, fetch'[h])
    BY <1>1, <1>3 DEF GroupMoves, ConfigInv
  <1>8. MainFollows'
    BY <1>1, <1>2, <1>3 DEF GroupMoves, ConfigInv, MainFollows, Spawned
  <1>9. FailuresKept'
    <2>1. FailuresKept
      BY DEF ConfigInv
    <2>2. fetch[g].err => failed
      BY <1>2, <2>1 DEF FailuresKept
    <2>3. failed' <=> \E h \in Groups : fetch'[h].err
      BY <1>1, <1>2, <1>3, <2>1, <2>2 DEF FailuresKept, GroupMoves
    <2>4. main.at = "drain" => (g < main.next => fetch[g].at = "done")
      BY DEF ConfigInv, MainFollows
    <2>5. main.at = "drain" => (main.err <=> \E h \in Groups : h < main.next /\ fetch'[h].err)
      BY <1>1, <1>3, <2>1, <2>4 DEF FailuresKept, GroupMoves
    <2>6. \A h \in Groups : fetch'[h].err => fetch'[h].at \in {"send", "done"}
      BY <1>1, <1>3, <2>1 DEF FailuresKept, GroupMoves
    <2> QED
      BY <1>2, <2>1, <2>3, <2>5, <2>6 DEF FailuresKept
  <1>10. Collected'
    <2>1. main.at = "drain" => (g < main.next => fetch[g].at = "done")
      BY DEF ConfigInv, MainFollows
    <2> QED
      BY <1>1, <1>2, <1>3, <2>1 DEF Collected, ConfigInv, GroupMoves
  <1>11. ResultIsHonest'
    BY <1>2 DEF ResultIsHonest
  <1> QED
    BY <1>5, <1>6, <1>7, <1>8, <1>9, <1>10, <1>11 DEF ConfigInv

(* main fails before it has spawned a goroutine. *)
LEMMA FailsKeeps ==
    ASSUME ConfigInv, Fails, main.at \in {"naming", "open"},
           UNCHANGED <<fetch, cache, ignored>>
    PROVE  ConfigInv'
  <1>1. ConfigTypeOK /\ MainFollows /\ FailuresKept
    BY DEF ConfigInv
  <1>2. /\ main' = [at |-> "returned", next |-> main.next, err |-> TRUE, groups |-> main.groups]
        /\ failed'
    BY <1>1 DEF Fails, ConfigTypeOK
  <1>3. main.next = 1 /\ main.groups = <<>> /\ \A h \in Groups : ~Spawned(h)
    BY <1>1, DirectoryShape DEF MainFollows
  <1>4. ConfigTypeOK'
    BY <1>1, <1>2 DEF ConfigTypeOK, Fails
  <1>5. MainFollows'
    BY <1>1, <1>2, <1>3, DirectoryShape DEF MainFollows, Spawned
  <1>6. FailuresKept'
    BY <1>1, <1>2, <1>3 DEF FailuresKept
  <1>7. Collected'
    BY <1>2 DEF Collected
  <1>8. ResultIsHonest'
    BY <1>2, <1>3 DEF ResultIsHonest
  <1> QED
    BY <1>4, <1>5, <1>6, <1>7, <1>8 DEF ConfigInv

(* main goes on to another place before it drains. *)
LEMMA MainGoesOn ==
    ASSUME ConfigInv, NEW at, main' = [main EXCEPT !.at = at],
           \/ main.at = "naming" /\ at = "open"
           \/ main.at = "open" /\ at = "iterate",
           UNCHANGED <<fetch, cache, failed, ignored>>
    PROVE  ConfigInv'
  <1>1. ConfigTypeOK /\ MainFollows /\ FailuresKept
    BY DEF ConfigInv
  <1>2. main' = [at |-> at, next |-> main.next, err |-> main.err, groups |-> main.groups]
    BY <1>1 DEF ConfigTypeOK
  <1>3. main.next = 1 /\ main.groups = <<>> /\ ~main.err /\ \A h \in Groups : ~Spawned(h)
    BY <1>1, DirectoryShape DEF MainFollows
  <1>4. ConfigTypeOK'
    BY <1>1, <1>2 DEF ConfigTypeOK
  <1>5. MainFollows'
    BY <1>1, <1>2, <1>3, DirectoryShape DEF MainFollows, Spawned
  <1>6. FailuresKept'
    BY <1>1, <1>2, <1>3 DEF FailuresKept
  <1>7. Collected' /\ ResultIsHonest'
    BY <1>2 DEF Collected, ResultIsHonest
  <1> QED
    BY <1>4, <1>5, <1>6, <1>7 DEF ConfigInv

LEMMA SpawnGroupKeeps ==
    ASSUME ConfigInv, SpawnGroup
    PROVE  ConfigInv'
  <1> DEFINE n == main.next
             f == [at |-> "group", err |-> FALSE, got |-> <<>>]
  <1>1. ConfigTypeOK /\ MainFollows /\ FailuresKept
    BY DEF ConfigInv
  <1>2. n \in Groups /\ Len(Directory) \in Nat /\ Groups = 1 .. Len(Directory)
    BY <1>1, DirectoryShape DEF SpawnGroup, ConfigTypeOK
  <1>3. main' = [at |-> "iterate", next |-> n + 1, err |-> main.err, groups |-> main.groups]
    BY <1>1 DEF SpawnGroup, ConfigTypeOK
  <1>4. ~main.err /\ main.groups = <<>> /\ \A h \in Groups : Spawned(h) <=> h < n
    BY <1>1 DEF SpawnGroup, MainFollows
  <1>5. fetch[n] = NotSpawned
    BY <1>1, <1>2, <1>4 DEF MainFollows
  <1>6. fetch' = [fetch EXCEPT ![n] = f]
    <2>1. GoTo(n, "group") /\ "group" \in Places
      BY DEF SpawnGroup, GoTo, Places
    <2>2. /\ fetch'[n] = [at |-> "group", err |-> fetch[n].err, got |-> fetch[n].got]
          /\ fetch' = [fetch EXCEPT ![n] = fetch'[n]]
      BY <1>1, <1>2, <2>1, GoesTo
    <2>3. fetch[n].err = FALSE /\ fetch[n].got = <<>>
      BY <1>5 DEF NotSpawned
    <2> QED
      BY <2>2, <2>3
  <1>7. fetch'[n] = f /\ \A h \in Groups : h # n => fetch'[h] = fetch[h]
    BY <1>1, <1>2, <1>6 DEF ConfigTypeOK
  <1>8. UNCHANGED <<cache, failed, ignored>> /\ main.at = "iterate"
    BY DEF SpawnGroup
  <1>9. Within(n, f) /\ Faithful(n, f)
    BY <1>2, DirectoryShape DEF Within, Faithful, Reading
  <1>10. ConfigTypeOK'
    <2>1. f \in Fetches
      BY DEF Fetches, Places
    <2>2. fetch' \in [Groups -> Fetches]
      BY <1>1, <1>2, <1>6, <2>1 DEF ConfigTypeOK, Fetches
    <2>3. \A h \in Groups : Len(fetch'[h].got) <= Len(Directory[h])
      BY <1>1, <1>7, <1>9 DEF Within, ConfigTypeOK
    <2>4. n + 1 \in 1 .. Len(Directory) + 1
      BY <1>2
    <2> QED
      BY <1>1, <1>3, <1>4, <1>8, <2>2, <2>3, <2>4 DEF ConfigTypeOK, Fetches
  <1>11. MainFollows'
    BY <1>1, <1>2, <1>3, <1>4, <1>7 DEF MainFollows, Spawned
  <1>12. FailuresKept'
    BY <1>1, <1>2, <1>3, <1>4, <1>5, <1>7, <1>8 DEF FailuresKept, NotSpawned
  <1>13. Collected' /\ ResultIsHonest'
    BY <1>3 DEF Collected, ResultIsHonest
  <1>14. \A h \in Groups : Within(h, fetch'[h])
    BY <1>7, <1>9 DEF ConfigInv
  <1>15. ~ignored' => \A h \in Groups : Faithful(h, fetch'[h])
    BY <1>7, <1>8, <1>9 DEF ConfigInv
  <1> QED
    BY <1>10, <1>11, <1>12, <1>13, <1>14, <1>15 DEF ConfigInv

LEMMA StopIteratingKeeps ==
    ASSUME ConfigInv, StopIterating
    PROVE  ConfigInv'
  <1>1. ConfigTypeOK /\ MainFollows /\ FailuresKept
    BY DEF ConfigInv
  <1>2. main' = [at |-> "drain", next |-> 1, err |-> main.err, groups |-> main.groups]
    BY <1>1 DEF StopIterating, ConfigTypeOK
  <1>3. ~main.err /\ main.groups = <<>> /\ \A h \in Groups : Spawned(h) <=> h < main.next
    BY <1>1 DEF StopIterating, MainFollows
  <1>4. /\ main.next \in 1 .. Len(Directory) + 1 /\ Len(Directory) \in Nat
        /\ Groups = 1 .. Len(Directory) /\ ignored \in BOOLEAN
    BY <1>1, DirectoryShape DEF ConfigTypeOK
  <1>5. UNCHANGED <<fetch, cache, failed>> /\ main.at = "iterate"
    BY DEF StopIterating
  <1>6. ignored' \in BOOLEAN /\ (ignored => ignored')
        /\ (~ignored' => ~(main.next <= Len(Directory)))
    BY <1>4, Zenon DEF StopIterating
  <1>7. ConfigTypeOK'
    BY <1>1, <1>2, <1>4, <1>5, <1>6 DEF ConfigTypeOK
  <1>8. ~ignored' => \A h \in Groups : Spawned(h)
    BY <1>3, <1>4, <1>6
  <1>9. MainFollows'
    BY <1>1, <1>2, <1>4, <1>5, <1>8 DEF MainFollows, Spawned
  <1>10. FailuresKept'
    BY <1>1, <1>2, <1>3, <1>4, <1>5 DEF FailuresKept
  <1>11. Collected'
    BY <1>2, <1>3, <1>4 DEF Collected
  <1>12. ResultIsHonest'
    BY <1>2 DEF ResultIsHonest
  <1> QED
    BY <1>5, <1>6, <1>7, <1>9, <1>10, <1>11, <1>12 DEF ConfigInv

LEMMA DrainKeeps ==
    ASSUME ConfigInv, Drain
    PROVE  ConfigInv'
  <1> DEFINE n == main.next
             err == main.err \/ fetch[n].err
             groups == IF err THEN <<>> ELSE Append(main.groups, fetch[n].got)
  <1>1. ConfigTypeOK /\ MainFollows /\ FailuresKept /\ Collected
    BY DEF ConfigInv
  <1>2. /\ n \in Groups /\ Len(Directory) \in Nat /\ Groups = 1 .. Len(Directory)
        /\ main.at = "drain" /\ fetch[n].at = "done"
        /\ UNCHANGED <<fetch, cache, failed, ignored>>
    BY DirectoryShape DEF Drain
  <1>3. err \in BOOLEAN
    BY <1>1, <1>2 DEF ConfigTypeOK
  <1>4. main' = [at |-> "drain", next |-> n + 1, err |-> err, groups |-> groups]
    BY <1>1, <1>2 DEF Drain, ConfigTypeOK
  <1>5. main.groups \in Seq(Seq(MemberRecords)) /\ fetch[n].got \in Seq(MemberRecords)
    BY <1>1, <1>2 DEF ConfigTypeOK
  <1>6. groups \in Seq(Seq(MemberRecords))
    BY <1>5
  <1>7. ~err => /\ Len(groups) = n
                /\ \A h \in Groups : h < n + 1 => groups[h] = fetch[h].got
    <2> SUFFICES ASSUME ~err
                 PROVE  /\ Len(groups) = n
                        /\ \A h \in Groups : h < n + 1 => groups[h] = fetch[h].got
      OBVIOUS
    <2>1. groups = Append(main.groups, fetch[n].got)
      OBVIOUS
    <2>2. Len(main.groups) = n - 1 /\ \A h \in Groups : h < n => main.groups[h] = fetch[h].got
      BY <1>1, <1>2 DEF Collected
    <2> DEFINE got == fetch[n].got
    <2>3. /\ Len(groups) = Len(main.groups) + 1
          /\ \A h \in 1 .. Len(main.groups) : groups[h] = main.groups[h]
          /\ groups[Len(main.groups) + 1] = got
      BY <1>5, <2>1, AppendProperties
    <2> HIDE DEF groups
    <2>4. Len(groups) = n /\ n \in Nat
      BY <1>2, <2>2, <2>3
    <2>5. ASSUME NEW h \in Groups, h < n
          PROVE  groups[h] = fetch[h].got
      <3>1. h \in 1 .. Len(main.groups)
        BY <1>2, <2>2, <2>5
      <3> QED
        BY <2>2, <2>3, <2>5, <3>1
    <2>6. groups[n] = got
      BY <2>2, <2>3, <2>4
    <2>7. \A h \in Groups : h < n + 1 => h < n \/ h = n
      BY <1>2, <2>4
    <2> QED
      BY <2>4, <2>5, <2>6, <2>7
  <1> HIDE DEF groups
  <1>8. Len(groups) <= Len(Directory)
    BY <1>2, <1>7 DEF groups
  <1>9. ConfigTypeOK'
    BY <1>1, <1>2, <1>3, <1>4, <1>6, <1>8 DEF ConfigTypeOK
  <1>10. MainFollows'
    BY <1>1, <1>2, <1>4 DEF MainFollows, Spawned
  <1>11. err <=> \E h \in Groups : h < n + 1 /\ fetch[h].err
    BY <1>1, <1>2 DEF FailuresKept
  <1>12. FailuresKept'
    BY <1>1, <1>2, <1>4, <1>11 DEF FailuresKept, groups
  <1>13. Collected'
    <2>1. main'.err = err /\ main'.groups = groups /\ main'.next = n + 1 /\ n \in Nat
      BY <1>2, <1>4
    <2> HIDE DEF err
    <2>2. ~err => Len(groups) = main'.next - 1
      BY <1>7, <2>1
    <2> QED
      BY <1>2, <1>7, <2>1, <2>2 DEF Collected
  <1>14. ResultIsHonest'
    BY <1>4 DEF ResultIsHonest
  <1> QED
    BY <1>2, <1>9, <1>10, <1>12, <1>13, <1>14 DEF ConfigInv

(* Without an error, what main has collected is the directory. *)
LEMMA CollectedAll ==
    ASSUME ConfigInv, main.at = "drain", ~main.err, ~ignored,
           \A g \in Groups : g >= main.next => ~Spawned(g)
    PROVE  main.groups = Directory
  <1>1. ConfigTypeOK /\ MainFollows /\ FailuresKept /\ Collected
    BY DEF ConfigInv
  <1>2. /\ main.next \in 1 .. Len(Directory) + 1 /\ Len(Directory) \in Nat
        /\ Groups = 1 .. Len(Directory)
    BY <1>1, DirectoryShape DEF ConfigTypeOK
  <1>3. \A g \in Groups : g < main.next
    BY <1>1, <1>2 DEF MainFollows
  <1>4. main.next = Len(Directory) + 1
    BY <1>2, <1>3
  <1>5. ASSUME NEW g \in Groups
        PROVE  fetch[g].got = Directory[g]
    <2>1. fetch[g].at = "done" /\ ~fetch[g].err /\ Faithful(g, fetch[g])
      BY <1>1, <1>3 DEF MainFollows, FailuresKept, ConfigInv
    <2>2. /\ Len(fetch[g].got) = Len(Directory[g])
          /\ \A i \in 1 .. Len(fetch[g].got) : fetch[g].got[i] = Directory[g][i]
      BY <2>1 DEF Faithful, Reading
    <2>3. fetch[g].got \in Seq(MemberRecords) /\ Directory[g] \in Seq(MemberRecords)
      <3>1. Members \subseteq MemberRecords
        BY DEF Members, MemberRecords
      <3>2. Directory[g] \in Seq(Members)
        BY DirectoryShape
      <3> QED
        BY <1>1, <3>1, <3>2, SeqMonotonic, FetchShape
    <2> QED
      BY <2>2, <2>3, SeqEqual
  <1>6. /\ Len(main.groups) = Len(Directory)
        /\ \A g \in 1 .. Len(main.groups) : main.groups[g] = Directory[g]
    BY <1>1, <1>2, <1>3, <1>4, <1>5 DEF Collected
  <1>7. main.groups \in Seq(Seq(MemberRecords)) /\ Directory \in Seq(Seq(MemberRecords))
    <2>1. Members \subseteq MemberRecords
      BY DEF Members, MemberRecords
    <2>2. Directory \in Seq(Seq(Members))
      BY ConfigAssumption DEF Members
    <2>3. Seq(Members) \subseteq Seq(MemberRecords)
      BY <2>1, SeqMonotonic
    <2> QED
      BY <1>1, <2>2, <2>3, SeqMonotonic DEF ConfigTypeOK
  <1> QED
    BY <1>6, <1>7, SeqEqual

LEMMA ReturnsKeeps ==
    ASSUME ConfigInv, Returns
    PROVE  ConfigInv'
  <1>1. ConfigTypeOK /\ MainFollows /\ FailuresKept
    BY DEF ConfigInv
  <1>2. /\ main' = [at |-> "returned", next |-> main.next, err |-> main.err, groups |-> main.groups]
        /\ main.at = "drain" /\ UNCHANGED <<fetch, cache, failed, ignored>>
        /\ \A g \in Groups : g >= main.next => ~Spawned(g)
    BY <1>1 DEF Returns, ConfigTypeOK
  <1>3. main.next \in Nat /\ \A g \in Groups : g \in Nat
    BY <1>1, DirectoryShape DEF ConfigTypeOK
  <1>4. ConfigTypeOK'
    BY <1>1, <1>2 DEF ConfigTypeOK
  <1>5. MainFollows'
    BY <1>1, <1>2 DEF MainFollows, Spawned
  <1>6. FailuresKept'
    BY <1>1, <1>2 DEF FailuresKept
  <1>7. Collected'
    BY <1>2 DEF Collected
  <1>8. main.err <=> failed
    <2>1. \A g \in Groups : fetch[g].err => Spawned(g)
      BY <1>1 DEF FailuresKept, Spawned
    <2>2. \A g \in Groups : fetch[g].err => g < main.next
      BY <1>2, <1>3, <2>1
    <2> QED
      BY <1>1, <1>2, <2>2 DEF FailuresKept
  <1>9. main.err => main.groups = <<>>
    BY <1>1 DEF FailuresKept
  <1>10. ~main.err /\ ~ignored => main.groups = Directory
    BY <1>2, CollectedAll
  <1>11. ResultIsHonest'
    BY <1>2, <1>8, <1>9, <1>10 DEF ResultIsHonest
  <1> QED
    BY <1>2, <1>4, <1>5, <1>6, <1>7, <1>11 DEF ConfigInv

LEMMA ConfigInitially == ConfigInit => ConfigInv
  <1> SUFFICES ASSUME ConfigInit
               PROVE  ConfigInv
    OBVIOUS
  <1>1. Len(Directory) \in Nat /\ Groups = 1 .. Len(Directory)
        /\ \A g \in Groups : Len(Directory[g]) \in Nat
    BY DirectoryShape
  <1>2. main = [at |-> "naming", next |-> 1, err |-> FALSE, groups |-> <<>>]
        /\ ~failed /\ ~ignored
        /\ \A g \in Groups : fetch[g] = [at |-> "none", err |-> FALSE, got |-> <<>>]
    BY DEF ConfigInit
  <1>3. ConfigTypeOK
    <2>1. <<>> \in Seq(MemberRecords) /\ <<>> \in Seq(Seq(MemberRecords)) /\ Len(<<>>) = 0
      BY EmptySeq
    <2>2. fetch \in [Groups -> Fetches]
      BY <2>1 DEF ConfigInit, Fetches, Places
    <2>3. \A g \in Groups : Len(fetch[g].got) <= Len(Directory[g])
      BY <1>1, <1>2, <2>1
    <2> QED
      <3>1. 1 \in 1 .. Len(Directory) + 1
        BY <1>1
      <3>2. main \in [at : {"naming", "open", "iterate", "drain", "returned"},
                     next : 1 .. Len(Directory) + 1,
                     err : BOOLEAN,
                     groups : Seq(Seq(MemberRecords))]
            /\ Len(main.groups) <= Len(Directory)
        BY <1>1, <1>2, <2>1, <3>1
      <3>3. cache \in [DNs \cup {NoDN} -> {"none", "nosettings", "full"}]
            /\ failed \in BOOLEAN /\ ignored \in BOOLEAN
        BY DEF ConfigInit
      <3> QED
        BY <2>2, <2>3, <3>2, <3>3 DEF ConfigTypeOK, Fetches
  <1>4. MainFollows
    BY <1>1, <1>2 DEF MainFollows, Spawned, NotSpawned
  <1>5. FailuresKept /\ Collected /\ ResultIsHonest
    BY <1>2 DEF FailuresKept, Collected, ResultIsHonest
  <1>6. \A g \in Groups : Within(g, fetch[g]) /\ Faithful(g, fetch[g])
    BY <1>1, <1>2 DEF Within, Faithful, Reading
  <1> QED
    BY <1>3, <1>4, <1>5, <1>6 DEF ConfigInv

LEMMA ConfigInductive == ConfigInv /\ [ConfigNext]_configVars => ConfigInv'
  <1> SUFFICES ASSUME ConfigInv, [ConfigNext]_configVars
               PROVE  ConfigInv'
    OBVIOUS
  <1>1. CASE NamingContext
    BY <1>1, FailsKeeps, MainGoesOn DEF NamingContext
  <1>2. CASE OpenSettings
    BY <1>2, FailsKeeps, MainGoesOn DEF OpenSettings
  <1>3. ASSUME NEW g \in Groups, GroupStep(g)
        PROVE  ConfigInv'
    BY <1>3, GroupStepKeeps
  <1>4. CASE UNCHANGED configVars
    BY <1>4 DEF configVars, ConfigInv, ConfigTypeOK, MainFollows, FailuresKept, Collected,
                ResultIsHonest, Spawned
  <1> QED
    BY <1>1, <1>2, <1>3, <1>4, SpawnGroupKeeps, StopIteratingKeeps, DrainKeeps, ReturnsKeeps
    DEF ConfigNext, MainStep

LEMMA ConfigInvariant == ConfigSpec => []ConfigInv
  BY ConfigInitially, ConfigInductive, PTL DEF ConfigSpec

(* What Domain returns of any directory is honest, whichever of the calls fail and
   however the goroutines interleave and meet in the cache: an error if and only
   if the code has met a failure, and else, unless it has dropped one, all of
   the directory's configuration in order. *)
THEOREM FetchIsHonest == ConfigSpec => []ResultIsHonest
  <1>1. ConfigInv => ResultIsHonest
    BY DEF ConfigInv
  <1> QED
    BY <1>1, ConfigInvariant, PTL

(* The state of a fetch is well formed, and a goroutine collects no more members
   than its group has. *)
THEOREM ConfigTypeCorrect == ConfigSpec => []ConfigTypeOK
  <1>1. ConfigInv => ConfigTypeOK
    BY DEF ConfigInv
  <1> QED
    BY <1>1, ConfigInvariant, PTL

(* When Domain returns, on whichever path, no goroutine of Groups is left behind:
   each that was spawned has sent its result and ended. *)
FetchLeavesNobody ==
    main.at = "returned" => \A g \in Groups : fetch[g].at \in {"none", "done"}
THEOREM FetchEndsWithItsGoroutines == ConfigSpec => []FetchLeavesNobody
  <1>1. ConfigInv => FetchLeavesNobody
    <2> SUFFICES ASSUME ConfigInv, main.at = "returned", NEW g \in Groups
                 PROVE  fetch[g].at \in {"none", "done"}
      BY DEF FetchLeavesNobody
    <2> QED
      BY NotReturned
  <1> QED
    BY <1>1, ConfigInvariant, PTL
=============================================================================
