------------------------------- MODULE Domain -------------------------------
(***************************************************************************)
(* dfsrconfig/domainmonitor.go with valuesink/sink.go: the monitor of the  *)
(* domain configuration, the sink that holds the last configuration it     *)
(* has retrieved and the broadcaster of its updates.                       *)
(*                                                                         *)
(* The processes are the callers of Start, Stop, Close and Update, the     *)
(* domainSource's Poll, the users, who wait for the first configuration    *)
(* and then read the current one (the service's Execute and the backlog    *)
(* worker), and the listeners.  The poller is taken at its contract,       *)
(* PollSource, which module Poller implements.  A configuration is named   *)
(* by the poll that retrieved it, which is also its timestamp.             *)
(***************************************************************************)
EXTENDS Naturals, Sequences

CONSTANTS
    Callers,     \* goroutines that call Start, Stop, Close and Update
    Users,       \* goroutines that call WaitReady and Value
    Listeners,   \* goroutines that call Listen and receive
    ChanSize,    \* updateChanSize
    MaxPolls,    \* bound on the polls
    None         \* nil

ASSUME DomainAssumption ==
    /\ None \notin Callers \cup Nat
    /\ ChanSize \in Nat \ {0}
    /\ MaxPolls \in Nat

VARIABLES
    mutex,       \* the caller holding m.mutex over a blocking step, or None
    pc,          \* where each caller is
    closed,      \* m.closed
    instance,    \* m.instance: nil, polling, or being closed
    spawned,     \* the poller has an invocation that has not started
    polls,       \* polls so far: the clock
    poll,        \* where the source's Poll is; what it fetched
    sink,        \* m.sink without its WaitGroup
    user,        \* where each user is
    panicked,    \* Value has panicked
    listeners,   \* bc.listeners
    bcClosed,    \* bc.closed
    chan         \* the channel of each listener

callerVars == <<mutex, pc, closed, instance>>
sinkVars == <<sink, user>>
bcVars == <<listeners, bcClosed, chan>>
vars == <<callerVars, spawned, polls, poll, sinkVars, panicked, bcVars>>

Times == 0 .. MaxPolls
Results == {"ok", "failed"}

TypeOK ==
    /\ mutex \in Callers \cup {None}
    /\ pc \in [Callers -> {"idle", "stop", "close", "closebc"}]
    /\ closed \in BOOLEAN
    /\ instance \in {"none", "live", "closing"}
    /\ spawned \in BOOLEAN
    /\ polls \in Times
    /\ poll \in [at : {"none", "fetch", "update", "lock", "broadcast"},
                 result : Results, next : Nat \ {0}]
    /\ sink \in [value : Times \cup {None}, timestamp : Times,
                 err : Results, closed : BOOLEAN]
    /\ user \in [Users -> {"idle", "wait", "woken", "ready"}]
    /\ panicked \in BOOLEAN
    /\ listeners \in Seq(Listeners)
    /\ bcClosed \in BOOLEAN
    /\ chan \in [Listeners -> [state : {"none", "open", "closed"},
                               queue : Seq(Times)]]
    /\ \A l \in Listeners : Len(chan[l].queue) <= ChanSize

NoPoll == [at |-> "none", result |-> "ok", next |-> 1]

(* NewDomainMonitor and the zero value of a sink. *)
Init ==
    /\ mutex = None
    /\ pc = [c \in Callers |-> "idle"]
    /\ closed = FALSE
    /\ instance = "none"
    /\ spawned = FALSE
    /\ polls = 0
    /\ poll = NoPoll
    /\ sink = [value |-> None, timestamp |-> 0, err |-> "ok", closed |-> FALSE]
    /\ user = [u \in Users |-> "idle"]
    /\ panicked = FALSE
    /\ listeners = <<>>
    /\ bcClosed = FALSE
    /\ chan = [l \in Listeners |-> [state |-> "none", queue |-> <<>>]]

-----------------------------------------------------------------------------
(* Start, Stop, Close and Update *)

(* Start with a client and a domain; without either it changes nothing here,
   as on a closed and on a running monitor. *)
Start(c) ==
    /\ pc[c] = "idle" /\ mutex = None
    /\ ~closed /\ instance = "none"
    /\ instance' = "live"
    /\ UNCHANGED <<mutex, pc, closed, spawned, polls, poll, sinkVars, panicked,
                   bcVars>>

(* m.instance.Close() up to its wait.  Poll does not look at the context that
   is cancelled here. *)
ClosePoller(c, at) ==
    /\ instance = "live"
    /\ instance' = "closing"
    /\ spawned' = FALSE
    /\ mutex' = c
    /\ pc' = [pc EXCEPT ![c] = at]

Stop(c) ==
    /\ pc[c] = "idle" /\ mutex = None
    /\ ClosePoller(c, "stop")
    /\ UNCHANGED <<closed, polls, poll, sinkVars, panicked, bcVars>>

WakeNobody == user
(* s.ready.Done(): whoever waits, waits on s.ready. *)
WakeWaiters == [u \in Users |-> IF user[u] = "wait" THEN "woken" ELSE user[u]]

(* m.sink.Close() *)
CloseSink ==
    /\ sink' = [sink EXCEPT !.closed = TRUE]
    /\ user' = WakeWaiters

(* Close; a closed monitor is left alone. *)
Close(c) ==
    /\ pc[c] = "idle" /\ mutex = None
    /\ ~closed
    /\ closed' = TRUE
    /\ \/ /\ ClosePoller(c, "close")
          /\ UNCHANGED sinkVars
       \/ /\ instance = "none"
          /\ CloseSink
          /\ mutex' = c
          /\ pc' = [pc EXCEPT ![c] = "closebc"]
          /\ UNCHANGED <<instance, spawned>>
    /\ UNCHANGED <<polls, poll, panicked, bcVars>>

AnyTime == TRUE
(* The poller waits for the source's Poll. *)
PollerIdle == poll.at = "none"

(* m.instance.Close() returns; Stop unlocks, Close goes on. *)
PollerClosed(c) ==
    /\ pc[c] \in {"stop", "close"}
    /\ PollerIdle
    /\ instance' = "none"
    /\ \/ /\ pc[c] = "stop"
          /\ mutex' = None
          /\ pc' = [pc EXCEPT ![c] = "idle"]
          /\ UNCHANGED sinkVars
       \/ /\ pc[c] = "close"
          /\ CloseSink
          /\ pc' = [pc EXCEPT ![c] = "closebc"]
          /\ UNCHANGED mutex
    /\ UNCHANGED <<closed, spawned, polls, poll, panicked, bcVars>>

(* bc.mutex is free: only Broadcast keeps it over a blocking step. *)
BroadcasterFree == poll.at # "broadcast"

(* m.bc.Close(), and the unlock of m.mutex. *)
CloseBroadcaster(c) ==
    /\ pc[c] = "closebc"
    /\ BroadcasterFree
    /\ bcClosed' = TRUE
    /\ chan' = [l \in Listeners |->
                   IF \E i \in DOMAIN listeners : listeners[i] = l
                   THEN [chan[l] EXCEPT !.state = "closed"] ELSE chan[l]]
    /\ listeners' = <<>>
    /\ mutex' = None
    /\ pc' = [pc EXCEPT ![c] = "idle"]
    /\ UNCHANGED <<closed, instance, spawned, polls, poll, sinkVars, panicked>>

(* Update, and a tick of the poller: an invocation is spawned. *)
Update(c) ==
    /\ pc[c] = "idle" /\ mutex = None
    /\ ~closed /\ instance = "live"
    /\ spawned' = TRUE
    /\ UNCHANGED <<callerVars, polls, poll, sinkVars, panicked, bcVars>>

-----------------------------------------------------------------------------
(* The poller and the domainSource *)

Tick ==
    /\ instance = "live"
    /\ spawned' = TRUE
    /\ UNCHANGED <<callerVars, polls, poll, sinkVars, panicked, bcVars>>

(* An invocation enters Poll, which takes its timestamp, or is turned away
   while another one is there. *)
StartInvocation ==
    /\ spawned
    /\ spawned' = FALSE
    /\ \/ /\ poll.at = "none"
          /\ polls < MaxPolls
          /\ polls' = polls + 1
          /\ poll' = [NoPoll EXCEPT !.at = "fetch"]
       \/ /\ poll.at # "none"
          /\ UNCHANGED <<polls, poll>>
    /\ UNCHANGED <<callerVars, sinkVars, panicked, bcVars>>

(* Domain(ds.client, ds.domain) returns. *)
Fetched ==
    /\ poll.at = "fetch"
    /\ \E r \in Results : poll' = [poll EXCEPT !.at = "update", !.result = r]
    /\ UNCHANGED <<callerVars, spawned, polls, sinkVars, panicked, bcVars>>

RecordedAlways(r) == TRUE
(* err == nil || initial *)
Recorded(r) == r = "ok" \/ sink.value = None

StoredOnSuccess(r) == IF r = "ok" THEN polls ELSE None
(* if err == nil { s.value = value } *)
Stored(r) == IF r = "ok" THEN polls ELSE sink.value

(* ds.sink.Update(&cfg, timestamp, err); a closed sink is left alone. *)
SinkUpdate ==
    /\ poll.at = "update"
    /\ poll' = [poll EXCEPT !.at = "lock"]
    /\ \/ /\ sink.closed
          /\ UNCHANGED sinkVars
       \/ /\ ~sink.closed
          /\ LET r == poll.result IN
             sink' = [sink EXCEPT
                         !.value = Stored(r),
                         !.timestamp = IF Recorded(r) THEN polls ELSE @,
                         !.err = IF Recorded(r) THEN r ELSE @]
          /\ user' = WakeWaiters
    /\ UNCHANGED <<callerVars, spawned, polls, panicked, bcVars>>

(* Broadcast takes bc.mutex; without listeners Poll returns at once. *)
BroadcastLock ==
    /\ poll.at = "lock"
    /\ poll' = IF listeners = <<>> THEN NoPoll ELSE [poll EXCEPT !.at = "broadcast"]
    /\ UNCHANGED <<callerVars, spawned, polls, sinkVars, panicked, bcVars>>

(* The channel's buffer takes another update. *)
HasRoom(l) == Len(chan[l].queue) < ChanSize

(* listener <- DomainUpdate{...}; after the last one Poll returns. *)
BroadcastSend ==
    LET l == listeners[poll.next] IN
    /\ poll.at = "broadcast"
    /\ HasRoom(l)
    /\ chan' = [chan EXCEPT ![l].queue = Append(@, polls)]
    /\ poll' = IF poll.next = Len(listeners) THEN NoPoll
               ELSE [poll EXCEPT !.next = @ + 1]
    /\ UNCHANGED <<callerVars, spawned, polls, sinkVars, panicked, listeners,
                   bcClosed>>

-----------------------------------------------------------------------------
(* The users *)

(* WaitReady returns nil at once on a sink with a value and ErrClosed on a
   closed one; otherwise it waits on s.ready, which it makes if it is nil. *)
WaitReady(u) ==
    /\ user[u] = "idle"
    /\ \/ /\ sink.value # None
          /\ user' = [user EXCEPT ![u] = "ready"]
       \/ /\ sink.value = None /\ ~sink.closed
          /\ user' = [user EXCEPT ![u] = "wait"]
    /\ UNCHANGED <<callerVars, spawned, polls, poll, sink, panicked, bcVars>>

(* WaitReady's result is nil. *)
Succeeds == sink.err = "ok" /\ ~(sink.value = None /\ sink.closed)

(* rdy.Wait() has returned; WaitReady reads the sink for its result. *)
WaitReadyReturns(u) ==
    /\ user[u] = "woken"
    /\ user' = [user EXCEPT ![u] = IF Succeeds THEN "ready" ELSE "idle"]
    /\ UNCHANGED <<callerVars, spawned, polls, poll, sink, panicked, bcVars>>

(* Value, whose type assertion panics on a nil value; the users call it once
   WaitReady has succeeded. *)
Value(u) ==
    /\ user[u] = "ready"
    /\ panicked' = (panicked \/ sink.value = None)
    /\ user' = [user EXCEPT ![u] = "idle"]
    /\ UNCHANGED <<callerVars, spawned, polls, poll, sink, bcVars>>

-----------------------------------------------------------------------------
(* The listeners *)

(* bc.Listen *)
Listen(l) ==
    /\ chan[l].state = "none"
    /\ BroadcasterFree
    /\ \/ /\ ~bcClosed
          /\ listeners' = Append(listeners, l)
          /\ chan' = [chan EXCEPT ![l].state = "open"]
       \/ /\ bcClosed
          /\ chan' = [chan EXCEPT ![l].state = "closed"]
          /\ UNCHANGED listeners
    /\ UNCHANGED <<callerVars, spawned, polls, poll, sinkVars, panicked, bcClosed>>

(* The listener receives an update. *)
Receive(l) ==
    /\ chan[l].queue # <<>>
    /\ chan' = [chan EXCEPT ![l].queue = Tail(@)]
    /\ UNCHANGED <<callerVars, spawned, polls, poll, sinkVars, panicked,
                   listeners, bcClosed>>

-----------------------------------------------------------------------------
Return(c) == PollerClosed(c) \/ CloseBroadcaster(c)
CallerStep(c) == Start(c) \/ Stop(c) \/ Close(c) \/ Update(c) \/ Return(c)
SourceStep == Fetched \/ SinkUpdate \/ BroadcastLock \/ BroadcastSend
UserStep(u) == WaitReady(u) \/ WaitReadyReturns(u) \/ Value(u)

Next ==
    \/ \E c \in Callers : CallerStep(c)
    \/ Tick \/ StartInvocation
    \/ SourceStep
    \/ \E u \in Users : UserStep(u)
    \/ \E l \in Listeners : Listen(l) \/ Receive(l)

(* Goroutines run, Active Directory answers, listeners receive.  Nobody has
   to call anything. *)
Fairness ==
    /\ \A c \in Callers : SF_vars(Return(c))
    /\ WF_vars(SourceStep)
    /\ \A u \in Users : WF_vars(WaitReadyReturns(u))
    /\ \A l \in Listeners : WF_vars(Receive(l))

Spec == Init /\ [][Next]_vars
FairSpec == Spec /\ Fairness

-----------------------------------------------------------------------------
(* Properties *)

(* WaitReady and the sink keep their word: a user that WaitReady has let go on
   finds a value, so that Value does not panic, whether the wait ended by an
   update, by a failed one or by Close; and a sink that is ready reports no
   error ("guaranteed to succeed if the sink is ready"), as a failed poll
   neither replaces the configuration nor hides it. *)
ReadyHoldsValue ==
    /\ ~panicked
    /\ sink.value # None => sink.err = "ok" /\ sink.timestamp = sink.value

(* The configuration held is never lost and never replaced by an older one,
   although several instances of the poller have fetched them. *)
ConfigurationAdvances ==
    [][sink.value # None =>
          sink'.value # None /\ sink'.value >= sink.value]_vars

(* WaitReady returns once a poll is fetching or the monitor is being closed,
   whichever of them comes first and whatever the poll finds. *)
WaitersReturn ==
    \A u \in Users :
        user[u] = "wait" /\ (poll.at \in {"fetch", "update"} \/ closed)
            ~> user[u] # "wait"

Phase ==
    IF closed THEN IF mutex = None THEN "closed" ELSE "closing"
    ELSE CASE instance = "none" -> "stopped"
           [] instance = "live" -> "running"
           [] instance = "closing" -> "stopping"

(* What the service knows of the monitor. *)
Attached == {l \in Listeners : chan[l].state = "open"}
Life == [phase    |-> Phase,
         by       |-> mutex,
         polling  |-> poll.at # "none",
         stalled  |-> "no",
         attached |-> Attached]
Lives == [m \in {"domain"} |-> Life]

Contract == INSTANCE Lifecycle WITH Monitors <- {"domain"}, life <- Lives

(* The configuration monitor has the life that the service counts on: it polls
   only between Start and Stop, and Stop and Close come back, once the poll
   under way has ended and every channel is closed, although Poll ignores its
   context and the broadcast waits for every listener. *)
KeepsLifecycle == Contract!FairSpec
=============================================================================
