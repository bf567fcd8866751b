------------------------------ MODULE Monitor -------------------------------
(***************************************************************************)
(* monitor/monitor.go, worker.go and broadcaster.go: the backlog monitor   *)
(* with the consumers that the service attaches to it.                     *)
(*                                                                         *)
(* The processes are the callers of Start, Stop, Close and Update, the     *)
(* worker's Poll with one compute() goroutine for each connection, and the *)
(* listeners, each with its channel.  A serial listener (StatHat's         *)
(* consumer) ranges over an update before it receives the next one; any    *)
(* other (the service's Execute loop) keeps receiving.                     *)
(*                                                                         *)
(* The poller is taken at its contract, PollSource, which module Poller    *)
(* implements.  An Update is taken at what module Update shows: a listener *)
(* that comes before the last value is sent sees its channel closed after  *)
(* it; one that comes later, or whose update is never completed, waits for *)
(* ever.  The query of a computation may be lost in the cache of the       *)
(* vectors (module Endpoint); then it never returns, nor does Poll.        *)
(***************************************************************************)
EXTENDS Naturals, Sequences, FiniteSets

CONSTANTS
    Callers,     \* goroutines that call Start, Stop, Close and Update
    Listeners,   \* goroutines that call Listen and receive
    Serial,      \* the listeners that range over an update when they get it
    Conns,       \* the connections of the domain, one backlog each
    ChanSize,    \* the buffer of a listener's channel
    None         \* no caller

ASSUME MonitorAssumption ==
    /\ None \notin Callers
    /\ Serial \subseteq Listeners
    /\ IsFiniteSet(Conns) /\ Conns # {}
    /\ ChanSize \in Nat \ {0}

VARIABLES
    mutex,       \* the caller holding m.mutex over a blocking step, or None
    pc,          \* where each caller is
    closed,      \* m.closed
    instance,    \* m.instance: nil, polling, or being closed
    spawned,     \* the poller has an invocation that has not started
    ctxDone,     \* the context of the worker's Poll is done
    poll,        \* where the worker's Poll is; the next update to hand out
    updates,     \* the listeners whose updates Broadcast returned
    comp,        \* where each compute() is; the next update to send to
    left,        \* backlogs still to be sent to the update of each listener
    listeners,   \* bc.listeners
    bcClosed,    \* bc.closed
    chan,        \* the channel of each listener
    consumer     \* where each listener is; the update it holds

callerVars == <<mutex, pc, closed, instance>>
roundVars == <<poll, updates, comp, left>>
bcVars == <<listeners, bcClosed>>
vars == <<callerVars, spawned, ctxDone, roundVars, bcVars, chan, consumer>>

(* An update of the round under way that has values to come; one that has
   been sent all of them; one whose round ended before that. *)
Kinds == {"current", "complete", "incomplete"}

TypeOK ==
    /\ mutex \in Callers \cup {None}
    /\ pc \in [Callers -> {"idle", "stop", "close", "closebc"}]
    /\ closed \in BOOLEAN
    /\ instance \in {"none", "live", "closing"}
    /\ spawned \in BOOLEAN
    /\ ctxDone \in BOOLEAN
    /\ poll \in [at : {"none", "check", "lock", "broadcast", "compute"},
                 next : Nat \ {0}]
    /\ updates \in Seq(Listeners)
    /\ comp \in [Conns -> [at : {"none", "spawned", "query", "lost", "send"},
                           next : Nat \ {0}]]
    /\ left \in [Listeners -> 0 .. Cardinality(Conns)]
    /\ listeners \in Seq(Listeners)
    /\ bcClosed \in BOOLEAN
    /\ chan \in [Listeners -> [open : BOOLEAN, queue : Seq(Kinds)]]
    /\ \A l \in Listeners : Len(chan[l].queue) <= ChanSize
    /\ consumer \in [Listeners ->
                        [at : {"out", "recv", "got", "range", "late", "unlisten"},
                         upd : Kinds \cup {None}]]

NoPoll == [at |-> "none", next |-> 1]
NoChan == [open |-> FALSE, queue |-> <<>>]
Out == [at |-> "out", upd |-> None]
Receiving == [at |-> "recv", upd |-> None]

Init ==
    /\ mutex = None
    /\ pc = [c \in Callers |-> "idle"]
    /\ closed = FALSE
    /\ instance = "none"
    /\ spawned = FALSE
    /\ ctxDone = FALSE
    /\ poll = NoPoll
    /\ updates = <<>>
    /\ comp = [k \in Conns |-> NoPoll]
    /\ left = [l \in Listeners |-> 0]
    /\ listeners = <<>>
    /\ bcClosed = FALSE
    /\ chan = [l \in Listeners |-> NoChan]
    /\ consumer = [l \in Listeners |-> Out]

-----------------------------------------------------------------------------
(* Start, Stop, Close and Update *)

(* Start; a closed or a running monitor is left alone. *)
Start(c) ==
    /\ pc[c] = "idle" /\ mutex = None
    /\ ~closed /\ instance = "none"
    /\ instance' = "live"
    /\ UNCHANGED <<mutex, pc, closed, spawned, ctxDone, roundVars, bcVars, chan,
                   consumer>>

(* m.instance.Close() up to its wait: the poller takes no more invocations
   and cancels the one that is running. *)
ClosePoller(c, at) ==
    /\ mutex' = c
    /\ pc' = [pc EXCEPT ![c] = at]
    /\ instance' = "closing"
    /\ spawned' = FALSE
    /\ ctxDone' = (poll.at # "none")

(* Stop; a monitor that is not running is left alone. *)
Stop(c) ==
    /\ pc[c] = "idle" /\ mutex = None
    /\ instance = "live"
    /\ ClosePoller(c, "stop")
    /\ UNCHANGED <<closed, roundVars, bcVars, chan, consumer>>

(* Close; a closed monitor is left alone. *)
Close(c) ==
    /\ pc[c] = "idle" /\ mutex = None
    /\ ~closed
    /\ closed' = TRUE
    /\ \/ /\ instance = "live"
          /\ ClosePoller(c, "close")
       \/ /\ instance = "none"
          /\ mutex' = c
          /\ pc' = [pc EXCEPT ![c] = "closebc"]
          /\ UNCHANGED <<instance, spawned, ctxDone>>
    /\ UNCHANGED <<roundVars, bcVars, chan, consumer>>

AnyTime == TRUE
(* The poller waits for the worker's Poll before it closes the worker and,
   with it, the client. *)
PollerIdle == poll.at = "none"

(* m.instance.Close() returns; Stop unlocks, Close goes on. *)
PollerClosed(c) ==
    /\ pc[c] \in {"stop", "close"}
    /\ PollerIdle
    /\ instance' = "none"
    /\ \/ /\ pc[c] = "stop"
          /\ mutex' = None
          /\ pc' = [pc EXCEPT ![c] = "idle"]
       \/ /\ pc[c] = "close"
          /\ pc' = [pc EXCEPT ![c] = "closebc"]
          /\ UNCHANGED mutex
    /\ UNCHANGED <<closed, spawned, ctxDone, roundVars, bcVars, chan, consumer>>

(* bc.mutex is free: only Broadcast keeps it over a blocking step. *)
BroadcasterFree == poll.at # "broadcast"

(* The channel of l is an entry of bc.listeners. *)
Listed(l) == \E i \in DOMAIN listeners : listeners[i] = l

(* close(listener) for every listener *)
AllClosed ==
    [l \in Listeners |->
        IF Listed(l)
        THEN [chan[l] EXCEPT !.open = FALSE] ELSE chan[l]]

(* m.bc.Close(), and the unlock of m.mutex. *)
CloseBroadcaster(c) ==
    /\ pc[c] = "closebc"
    /\ BroadcasterFree
    /\ bcClosed' = TRUE
    /\ chan' = AllClosed
    /\ listeners' = <<>>
    /\ mutex' = None
    /\ pc' = [pc EXCEPT ![c] = "idle"]
    /\ UNCHANGED <<closed, instance, spawned, ctxDone, roundVars, consumer>>

(* Update: m.instance.Poll() has the poller spawn an invocation. *)
Update(c) ==
    /\ pc[c] = "idle" /\ mutex = None
    /\ ~closed /\ instance = "live"
    /\ spawned' = TRUE
    /\ UNCHANGED <<callerVars, ctxDone, roundVars, bcVars, chan, consumer>>

-----------------------------------------------------------------------------
(* The poller *)

(* The poller's ticker spawns an invocation. *)
Tick ==
    /\ instance = "live"
    /\ ~spawned
    /\ spawned' = TRUE
    /\ UNCHANGED <<callerVars, ctxDone, roundVars, bcVars, chan, consumer>>

(* An invocation enters the worker's Poll, or is turned away while another
   one is there. *)
StartInvocation ==
    /\ spawned
    /\ spawned' = FALSE
    /\ \/ /\ poll.at = "none"
          /\ poll' = [at |-> "check", next |-> 1]
       \/ /\ poll.at # "none"
          /\ UNCHANGED poll
    /\ UNCHANGED <<callerVars, ctxDone, updates, comp, left, bcVars, chan,
                   consumer>>

(* The timeout of the poll. *)
Timeout ==
    /\ poll.at # "none"
    /\ ~ctxDone
    /\ ctxDone' = TRUE
    /\ UNCHANGED <<callerVars, spawned, roundVars, bcVars, chan, consumer>>

-----------------------------------------------------------------------------
(* The worker *)

(* Poll's way to Broadcast.  It returns early when its context is done, when
   the source has no domain and when the domain has no connections. *)
PollCheck ==
    /\ poll.at = "check"
    /\ \/ /\ poll' = NoPoll
          /\ ctxDone' = FALSE
       \/ /\ ~ctxDone
          /\ poll' = [poll EXCEPT !.at = "lock"]
          /\ UNCHANGED ctxDone
    /\ UNCHANGED <<callerVars, spawned, updates, comp, left, bcVars, chan,
                   consumer>>

(* for _, conn := range conns { go w.compute(...) } *)
SpawnComputes == comp' = [k \in Conns |-> [at |-> "spawned", next |-> 1]]

(* Broadcast takes bc.mutex and makes an update for every listener; without
   listeners it returns none. *)
BroadcastLock ==
    /\ poll.at = "lock"
    /\ updates' = listeners
    /\ left' = [l \in Listeners |-> IF Listed(l) THEN Cardinality(Conns) ELSE 0]
    /\ \/ /\ listeners = <<>>
          /\ poll' = [poll EXCEPT !.at = "compute"]
          /\ SpawnComputes
       \/ /\ listeners # <<>>
          /\ poll' = [poll EXCEPT !.at = "broadcast"]
          /\ UNCHANGED comp
    /\ UNCHANGED <<callerVars, spawned, ctxDone, bcVars, chan, consumer>>

(* The channel's buffer takes another update. *)
HasRoom(l) == Len(chan[l].queue) < ChanSize

(* listener <- update, in the order of bc.listeners, bc.mutex held; after the
   last one Poll spawns the computations. *)
BroadcastSend ==
    LET l == updates[poll.next] IN
    /\ poll.at = "broadcast"
    /\ HasRoom(l)
    /\ chan' = [chan EXCEPT ![l].queue = Append(@, "current")]
    /\ \/ /\ poll.next < Len(updates)
          /\ poll' = [poll EXCEPT !.next = @ + 1]
          /\ UNCHANGED comp
       \/ /\ poll.next = Len(updates)
          /\ poll' = [at |-> "compute", next |-> 1]
          /\ SpawnComputes
    /\ UNCHANGED <<callerVars, spawned, ctxDone, updates, left, bcVars, consumer>>

GivesUpSilently == "hung"
(* computed.Done() and sent.Done() *)
GivesUp == "none"

(* compute() gives up at once when the context is done, sending nothing;
   otherwise it asks the client for its backlog. *)
ComputeStart(k) ==
    /\ comp[k].at = "spawned"
    /\ comp' = [comp EXCEPT ![k].at = IF ctxDone THEN GivesUp ELSE "query"]
    /\ UNCHANGED <<callerVars, spawned, ctxDone, poll, updates, left, bcVars,
                   chan, consumer>>

(* w.client.Backlog returns, with a backlog or an error. *)
QueryReturns(k) ==
    /\ comp[k].at = "query"
    /\ comp' = [comp EXCEPT ![k].at = "send"]
    /\ UNCHANGED <<callerVars, spawned, ctxDone, poll, updates, left, bcVars,
                   chan, consumer>>

(* It never returns, whatever its context: the entry that it waits for in the
   cache of the vectors was left by a lookup whose context was done, maybe in
   an earlier poll, or the cache was closed with its lock locked. *)
QueryIsLost(k) ==
    /\ comp[k].at = "query"
    /\ comp' = [comp EXCEPT ![k].at = "lost"]
    /\ UNCHANGED <<callerVars, spawned, ctxDone, poll, updates, left, bcVars,
                   chan, consumer>>

(* The updates of l that somebody holds take on a kind. *)
Becomes(ls, kind) ==
    LET now(u, l) == IF u = "current" /\ l \in ls THEN kind ELSE u IN
    /\ chan' = [l \in Listeners |->
                   [chan[l] EXCEPT !.queue =
                       [i \in DOMAIN chan[l].queue |-> now(chan[l].queue[i], l)]]]
    /\ consumer' = [l \in Listeners |-> [consumer[l] EXCEPT !.upd = now(@, l)]]

AllButLast == Len(updates) - 1
(* range updates *)
SendsTo == Len(updates)

(* update.send(backlog), for one update after the other; the last backlog
   completes an update. *)
ComputeSend(k) ==
    /\ comp[k].at = "send"
    /\ \/ /\ comp[k].next <= SendsTo
          /\ LET l == updates[comp[k].next] IN
             /\ left' = [left EXCEPT ![l] = @ - 1]
             /\ Becomes(IF left[l] = 1 THEN {l} ELSE {}, "complete")
          /\ comp' = [comp EXCEPT ![k].next = @ + 1]
       \/ /\ comp[k].next > SendsTo
          /\ comp' = [comp EXCEPT ![k] = NoPoll]
          /\ UNCHANGED <<left, chan, consumer>>
    /\ UNCHANGED <<callerVars, spawned, ctxDone, poll, updates, bcVars>>

(* computed.Wait() and sent.Wait(), after which Poll returns. *)
PollReturns ==
    /\ poll.at = "compute"
    /\ \A k \in Conns : comp[k].at = "none"
    /\ poll' = NoPoll
    /\ ctxDone' = FALSE
    /\ updates' = <<>>
    /\ left' = [l \in Listeners |-> 0]
    /\ Becomes(Listeners, "incomplete")
    /\ UNCHANGED <<callerVars, spawned, comp, bcVars>>

-----------------------------------------------------------------------------
(* The listeners *)

(* bc.Listen; on a closed broadcaster it returns a closed channel, which ends
   the listener at once. *)
Listen(l) ==
    /\ consumer[l].at = "out"
    /\ BroadcasterFree
    /\ ~bcClosed
    /\ listeners' = Append(listeners, l)
    /\ chan' = [chan EXCEPT ![l] = [open |-> TRUE, queue |-> <<>>]]
    /\ consumer' = [consumer EXCEPT ![l] = Receiving]
    /\ UNCHANGED <<callerVars, spawned, ctxDone, roundVars, bcClosed>>

(* The listener receives an update, or the end of its channel. *)
Receive(l) ==
    LET queue == chan[l].queue IN
    /\ consumer[l].at = "recv"
    /\ \/ /\ queue # <<>>
          /\ chan' = [chan EXCEPT ![l].queue = Tail(@)]
          /\ consumer' = [consumer EXCEPT ![l] =
                             IF l \in Serial THEN [at |-> "got", upd |-> Head(queue)]
                             ELSE Receiving]
       \/ /\ queue = <<>> /\ ~chan[l].open
          /\ consumer' = [consumer EXCEPT ![l] = Out]
          /\ UNCHANGED chan
    /\ UNCHANGED <<callerVars, spawned, ctxDone, roundVars, bcVars>>

(* update.Listen(): in time, or after the last value has been sent. *)
ListenToUpdate(l) ==
    /\ consumer[l].at = "got"
    /\ consumer' = [consumer EXCEPT ![l].at =
                       IF consumer[l].upd = "complete" THEN "late" ELSE "range"]
    /\ UNCHANGED <<callerVars, spawned, ctxDone, roundVars, bcVars, chan>>

(* The range over a complete update ends. *)
RangeEnds(l) ==
    /\ consumer[l] = [at |-> "range", upd |-> "complete"]
    /\ consumer' = [consumer EXCEPT ![l] = Receiving]
    /\ UNCHANGED <<callerVars, spawned, ctxDone, roundVars, bcVars, chan>>

(* The listener stops receiving and calls Unlisten. *)
BeginUnlisten(l) ==
    /\ consumer[l].at = "recv"
    /\ chan[l].open
    /\ consumer' = [consumer EXCEPT ![l].at = "unlisten"]
    /\ UNCHANGED <<callerVars, spawned, ctxDone, roundVars, bcVars, chan>>

(* append(bc.listeners[:i], bc.listeners[i+1:]...) *)
Without(i) == SubSeq(listeners, 1, i - 1) \o SubSeq(listeners, i + 1, Len(listeners))

(* bc.Unlisten, which closes the channel if it is still listed. *)
Unlisten(l) ==
    /\ consumer[l].at = "unlisten"
    /\ BroadcasterFree
    /\ \/ \E i \in DOMAIN listeners : listeners[i] = l /\ listeners' = Without(i)
       \/ ~Listed(l) /\ UNCHANGED listeners
    /\ chan' = [chan EXCEPT ![l] = NoChan]
    /\ consumer' = [consumer EXCEPT ![l] = Out]
    /\ UNCHANGED <<callerVars, spawned, ctxDone, roundVars, bcClosed>>

-----------------------------------------------------------------------------
Return(c) == PollerClosed(c) \/ CloseBroadcaster(c)
CallerStep(c) == Start(c) \/ Stop(c) \/ Close(c) \/ Update(c) \/ Return(c)
WorkerStep == PollCheck \/ BroadcastLock \/ BroadcastSend \/ PollReturns
ComputeStep(k) == ComputeStart(k) \/ QueryReturns(k) \/ QueryIsLost(k) \/ ComputeSend(k)
Consume(l) == Receive(l) \/ ListenToUpdate(l) \/ RangeEnds(l)
ListenerStep(l) == Listen(l) \/ Consume(l) \/ BeginUnlisten(l) \/ Unlisten(l)

Next ==
    \/ \E c \in Callers : CallerStep(c)
    \/ Tick \/ StartInvocation \/ Timeout
    \/ WorkerStep
    \/ \E k \in Conns : ComputeStep(k)
    \/ \E l \in Listeners : ListenerStep(l)

(* Goroutines run, a mutex starves nobody, a poll that goes on times out, a
   query that is not lost returns once its context is done, and a listener that
   can receive does.  Nobody has to call anything. *)
Fairness ==
    /\ \A c \in Callers : SF_vars(Return(c))
    /\ WF_vars(Timeout)
    /\ WF_vars(WorkerStep)
    /\ \A k \in Conns :
          /\ WF_vars(ComputeStart(k) \/ ComputeSend(k))
          /\ WF_vars(ctxDone /\ QueryReturns(k))
    /\ \A l \in Listeners : WF_vars(Consume(l)) /\ SF_vars(Unlisten(l))

Spec == Init /\ [][Next]_vars
FairSpec == Spec /\ Fairness

-----------------------------------------------------------------------------
(* Properties *)

(* Broadcast never sends on a closed channel, which would panic: whatever
   Close, Unlisten and Listen do meanwhile, the channels it has yet to send
   to stay open and listed. *)
BroadcastsToOpenChannels ==
    poll.at = "broadcast" =>
        \A i \in poll.next .. Len(updates) :
            chan[updates[i]].open /\ Listed(updates[i])

(* A poll that is not cancelled leaves every update it has broadcast
   complete, whoever listens or leaves meanwhile. *)
RoundsComplete ==
    [][poll.at = "compute" /\ poll'.at = "none" /\ ~ctxDone
          => \A l \in Listeners : left[l] = 0]_vars

(* Nothing will ever be received from the channel of l again. *)
Stuck(l) ==
    \/ consumer[l].at \in {"late", "unlisten"}
    \/ consumer[l] = [at |-> "range", upd |-> "incomplete"]

(* Broadcast sends, bc.mutex held, to a full channel that nobody receives
   from. *)
Stalled ==
    /\ poll.at = "broadcast"
    /\ LET l == updates[poll.next]
       IN  Stuck(l) /\ ~HasRoom(l)

(* What keeps Poll from ever returning. *)
StalledBy ==
    IF Stalled THEN "listener"
    ELSE IF \E k \in Conns : comp[k].at = "lost" THEN "query"
    ELSE "no"

Phase ==
    IF closed THEN IF mutex = None THEN "closed" ELSE "closing"
    ELSE CASE instance = "none" -> "stopped"
           [] instance = "live" -> "running"
           [] instance = "closing" -> "stopping"

(* What the service knows of the monitor. *)
Attached == {l \in Listeners : chan[l].open}
Life == [phase    |-> Phase,
         by       |-> mutex,
         polling  |-> poll.at # "none",
         stalled  |-> StalledBy,
         attached |-> Attached]
Lives == [m \in {"backlog"} |-> Life]

Contract == INSTANCE Lifecycle WITH Monitors <- {"backlog"}, life <- Lives

(* The backlog monitor has the life that the service counts on: it polls only
   between Start and Stop, Stop and Close come back, once the poll under way
   has ended and every channel is closed, unless a listener that is stuck
   stalls the broadcast or a query of the poll is lost, and no combination of
   m.mutex, bc.mutex, the poller and the channels keeps them. *)
KeepsLifecycle == Contract!FairSpec
=============================================================================
