------------------------------ MODULE Endpoint ------------------------------
(***************************************************************************)
(* helper/endpoint.go: an Endpoint keeps one connection to a DFSR helper.  *)
(* Its run() goroutine connects, and reconnects on a timer, when the       *)
(* configuration changes and when a call reports the server unavailable.   *)
(*                                                                         *)
(* The processes are run(), the updateConnection() goroutines it spawns,   *)
(* the callers of Vector, Backlog, Report, UpdateConfig and Close, and the *)
(* call tracker, which reports the outstanding calls to updateHealth.  A   *)
(* section under e.mutex is one action unless it sends to run(): it then   *)
(* holds the mutex in `sending' until the channel has room.                *)
(*                                                                         *)
(* A query need not return.  The vector cache (module Cache) can lose a    *)
(* call of Vector: a lookup whose context is done leaves an entry that     *)
(* nobody wakes, and a lookup in the cache of a retired connection leaves  *)
(* its lock locked.  The remote call of Report may hang; it keeps the lock *)
(* of its connection, on which Close waits with e.mutex held.              *)
(*                                                                         *)
(* Of time only its order matters, and only that of a call's return and of *)
(* state.Updated: `overtaken' holds the calls that returned before it.     *)
(***************************************************************************)
EXTENDS Integers, FiniteSets, Sequences, SequencesExt

CONSTANTS
    Callers,     \* goroutines that use the endpoint
    Conns,       \* names of the connection attempts that are in use at one time
    Configs,     \* configurations: the fields that run() compares
    None,        \* nil
    ChanSize,    \* endpointChanSize
    MaxReports   \* bound on the reports of the call tracker

(* What a section can be sending on a channel to run(), the connection that it
   then retires, and whether it then calls ready.Done(). *)
Channels == {"config", "state"}
Section(to) == [to : {to}, msg : IF to = "config" THEN Configs ELSE BOOLEAN,
                retire : Conns \cup {None}, ready : BOOLEAN]

ASSUME EndpointAssumption ==
    /\ None \notin Callers \cup Conns
    /\ \A to \in Channels : None \notin Section(to)
    /\ \A cfg \in Configs : DOMAIN cfg = {"layers", "intervals"}
    /\ ChanSize \in Nat \ {0}
    /\ MaxReports \in Nat

VARIABLES
    err,          \* e.state.Err
    calls,        \* e.state.Calls: the callers it counts
    sequence,     \* e.sequence
    config,       \* e.config
    cur,          \* e.r
    ready,        \* the counter of the WaitGroup e.ready
    sending,      \* what the holder of e.mutex is sending, and does afterwards
    configChange, \* the buffer of e.configChange
    stateChange,  \* the buffer of e.stateChange: state.Online()
    run,          \* the run() goroutine: its place and its variables
    conns,        \* the connections that NewReporter was asked for
    landing,      \* attempts whose updateConnection() goroutine is to run
    pc,           \* where each caller is
    snap,         \* the reporter each caller has read from e.r
    result,       \* the outcome of each caller's query
    overtaken,    \* callers whose `when' is before e.state.Updated
    hidden,       \* history: those that a report of the call tracker overtook
    tracked,      \* callers whose remote procedure call is outstanding
    reports       \* the call tracker's reports: all, and those not delivered

connVars == <<conns, landing>>
callVars == <<pc, snap, result>>
trackerVars == <<tracked, reports>>
chanVars == <<configChange, stateChange>>
vars == <<err, calls, sequence, config, cur, ready, sending, chanVars, run,
          connVars, callVars, overtaken, hidden, trackerVars>>

Errors == {"ok", "disconnected", "unavailable", "failed", "closed"}
Results == {"none", "ok", "unavailable"}
NoConn == [status |-> "closed", first |-> FALSE]
Reports == [seq : 1 .. MaxReports, calls : SUBSET Callers]

TypeOK ==
    /\ err \in Errors
    /\ calls \in SUBSET Callers
    /\ sequence \in 0 .. MaxReports
    /\ config \in Configs
    /\ cur \in Conns \cup {None}
    /\ ready \in 0 .. 1
    /\ sending = None \/ \E to \in Channels : sending.to = to /\ sending \in Section(to)
    /\ configChange \in Seq(Configs) /\ Len(configChange) <= ChanSize
    /\ stateChange \in Seq(BOOLEAN) /\ Len(stateChange) <= ChanSize
    /\ run \in [at : {"select", "connecting", "exited", "done"}, online : BOOLEAN,
                config : Configs, timer : {"set", "due", "postponed"},
                initialized : BOOLEAN]
    /\ conns \in [Conns -> [status : {"open", "failed", "closed"}, first : BOOLEAN]]
    /\ landing \in SUBSET Conns
    /\ pc \in [Callers -> {"idle", "ready", "query", "lost", "hung", "after", "config",
                           "close", "await", "release", "sending"}]
    /\ snap \in [Callers -> Conns \cup {None}]
    /\ result \in [Callers -> Results]
    /\ overtaken \in SUBSET Callers
    /\ hidden \in SUBSET overtaken
    /\ tracked \in SUBSET Callers
    /\ reports \in [count : 0 .. MaxReports, pending : SUBSET Reports]

(* NewEndpoint *)
Init ==
    /\ err = "disconnected"
    /\ calls = {}
    /\ sequence = 0
    /\ config \in Configs
    /\ cur = None
    /\ ready = 1
    /\ sending = None
    /\ configChange = <<>>
    /\ stateChange = <<>>
    /\ run = [at |-> "select", online |-> FALSE, config |-> config, timer |-> "due",
              initialized |-> FALSE]
    /\ conns = [r \in Conns |-> NoConn]
    /\ landing = {}
    /\ pc = [c \in Callers |-> "idle"]
    /\ snap = [c \in Callers |-> None]
    /\ result = [c \in Callers |-> "none"]
    /\ overtaken = {}
    /\ hidden = {}
    /\ tracked = {}
    /\ reports = [count |-> 0, pending |-> {}]

Online == err = "ok"
Closed == err = "closed"
Unlocked == sending = None

-----------------------------------------------------------------------------
(* run() *)

(* resetConnectionTimer counts the new interval from the last connection, as if
   that were long ago if there was none: it has elapsed already, or a timer that
   was due is set back. *)
Retimed ==
    IF ~run.initialized THEN {"due"}
    ELSE {"due", IF run.timer = "due" THEN "postponed" ELSE run.timer}

(* case newConfig := <-e.configChange *)
RunConfig ==
    /\ run.at = "select"
    /\ configChange # <<>>
    /\ LET new == Head(configChange)
           relayer == new.layers # run.config.layers
           retime == ~relayer /\ new.intervals # run.config.intervals
       IN  \E timer \in IF relayer THEN {"due"} ELSE IF retime THEN Retimed
                         ELSE {run.timer} :
              run' = [run EXCEPT !.config = new, !.timer = timer]
    /\ configChange' = Tail(configChange)
    /\ UNCHANGED <<err, calls, sequence, config, cur, ready, sending, stateChange,
                   connVars, callVars, overtaken, hidden, trackerVars>>

WaitsForTimer(new) == run.timer
(* The timer after a state change: due at once when the endpoint has gone
   offline. *)
TimerAfter(new) == IF run.online /\ ~new THEN "due" ELSE run.timer

(* case newState := <-e.stateChange *)
RunState ==
    /\ run.at = "select"
    /\ stateChange # <<>>
    /\ LET new == Head(stateChange)
       IN  run' = [run EXCEPT !.online = new, !.timer = TimerAfter(new)]
    /\ stateChange' = Tail(stateChange)
    /\ UNCHANGED <<err, calls, sequence, config, cur, ready, sending, configChange,
                   connVars, callVars, overtaken, hidden, trackerVars>>

ExitUnnoticed == "exited"
(* defer e.closed.Done() *)
Exit == "done"

(* Either channel is closed, and drained. *)
RunExit ==
    /\ run.at = "select"
    /\ Closed
    /\ configChange = <<>> \/ stateChange = <<>>
    /\ run' = [run EXCEPT !.at = Exit]
    /\ UNCHANGED <<err, calls, sequence, config, cur, ready, sending, chanVars,
                   connVars, callVars, overtaken, hidden, trackerVars>>

(* The reconnection interval elapses. *)
TimerExpires ==
    /\ run.at = "select"
    /\ run.timer # "due"
    /\ run' = [run EXCEPT !.timer = "due"]
    /\ UNCHANGED <<err, calls, sequence, config, cur, ready, sending, chanVars,
                   connVars, callVars, overtaken, hidden, trackerVars>>

(* A name that nobody uses. *)
Available(r) == conns[r].status = "closed" /\ r \notin {snap[c] : c \in Callers}

(* case <-connTimer.C, up to the blocking createEndpointConnection.  There is
   a name for the attempt. *)
RunConnect ==
    /\ run.at = "select"
    /\ run.timer = "due"
    /\ \E r \in Conns : Available(r)
    /\ run' = [run EXCEPT !.at = "connecting"]
    /\ UNCHANGED <<err, calls, sequence, config, cur, ready, sending, chanVars,
                   connVars, callVars, overtaken, hidden, trackerVars>>

(* initialized = true *)
SetsInitialized == TRUE

(* createEndpointConnection returns, go e.updateConnection, and the timer is
   reset. *)
RunConnected(r) ==
    /\ run.at = "connecting"
    /\ Available(r)
    /\ \E status \in {"open", "failed"} :
          conns' = [conns EXCEPT ![r] = [status |-> status, first |-> ~run.initialized]]
    /\ landing' = landing \cup {r}
    /\ run' = [run EXCEPT !.at = "select", !.timer = "set", !.initialized = SetsInitialized]
    /\ UNCHANGED <<err, calls, sequence, config, cur, ready, sending, chanVars,
                   callVars, overtaken, hidden, trackerVars>>

-----------------------------------------------------------------------------
(* Sections that send to run() with e.mutex held *)

Sends(to, msg, retire, makeReady) ==
    sending' = [to |-> to, msg |-> msg, retire |-> retire, ready |-> makeReady]

(* go retired.Close(): a query that uses the reporter may find it closed or
   not, and returns anyway.  A failed attempt leaves nothing to close. *)
Retire(r) == [s \in Conns |-> IF s = r THEN NoConn ELSE conns[s]]

(* The channel takes the message; the section goes on to its unlock, and the
   caller whose section it is returns. *)
SendCompletes ==
    /\ ~Unlocked
    /\ \/ /\ sending.to = "config"
          /\ Len(configChange) < ChanSize
          /\ configChange' = Append(configChange, sending.msg)
          /\ UNCHANGED stateChange
       \/ /\ sending.to = "state"
          /\ Len(stateChange) < ChanSize
          /\ stateChange' = Append(stateChange, sending.msg)
          /\ UNCHANGED configChange
    /\ conns' = Retire(sending.retire)
    /\ ready' = IF sending.ready THEN ready - 1 ELSE ready
    /\ sending' = None
    /\ pc' = [c \in Callers |-> IF pc[c] = "sending" THEN "idle" ELSE pc[c]]
    /\ UNCHANGED <<err, calls, sequence, config, cur, run, landing, snap, result,
                   overtaken, hidden, trackerVars>>

Forgets(r) == conns
(* updateConnection on a closed endpoint: retired = r. *)
Discards(r) == Retire(r)

ReplacedByNew(r) == r
(* retired, e.r = e.r, r *)
Replaced(r) == cur

(* updateConnection(r, err, when, makeReady).  The calls that have returned
   meanwhile are not about the new connection, so state.Updated, which is
   set to the time of the attempt, leaves `overtaken' alone. *)
UpdateConnection(r) ==
    /\ r \in landing
    /\ Unlocked
    /\ landing' = landing \ {r}
    /\ \/ /\ Closed
          /\ conns' = Discards(r)
          /\ ready' = IF conns[r].first THEN ready - 1 ELSE ready
          /\ UNCHANGED <<err, cur, sending>>
       \/ /\ ~Closed
          /\ conns[r].status = "open"
          /\ err' = "ok"
          /\ cur' = r
          /\ Sends("state", TRUE, Replaced(r), conns[r].first)
          /\ UNCHANGED <<conns, ready>>
       \/ /\ ~Closed
          /\ conns[r].status = "failed"
          /\ err' = "failed"
          /\ cur' = None
          /\ Sends("state", FALSE, Replaced(r), conns[r].first)
          /\ conns' = [conns EXCEPT ![r] = NoConn]
          /\ UNCHANGED ready
    /\ UNCHANGED <<calls, sequence, config, chanVars, run, callVars, overtaken, hidden,
                   trackerVars>>

(* Callers that wait for the mutex to report an error they met at their `when':
   any of them may have met it before the time that state.Updated is set to. *)
Late(others) == SUBSET {c \in others : result[c] = "unavailable"}

AcceptsAny(report) == TRUE
(* updateHealth: the report is not older than the last one. *)
Accepts(report) == sequence <= report.seq

AlwaysOnline == TRUE
(* e.stateChange <- e.state *)
StateMessage == Online

(* updateHealth(update), called by the tracker in any order. *)
UpdateHealth(report) ==
    /\ report \in reports.pending
    /\ Unlocked
    /\ reports' = [reports EXCEPT !.pending = @ \ {report}]
    /\ \/ /\ Closed \/ ~Accepts(report)
          /\ UNCHANGED <<calls, sequence, sending, overtaken, hidden>>
       \/ /\ ~Closed /\ Accepts(report)
          /\ calls' = report.calls
          /\ sequence' = report.seq
          /\ \E late \in Late(Callers) :
                /\ overtaken' = overtaken \cup late
                /\ hidden' = hidden \cup late
          /\ Sends("state", StateMessage, None, FALSE)
    /\ UNCHANGED <<err, config, cur, ready, chanVars, run, connVars, callVars, tracked>>

(* UpdateConfig *)
UpdateConfig(c, cfg) ==
    /\ pc[c] = "config"
    /\ Unlocked
    /\ config' = cfg
    /\ \/ /\ Closed
          /\ pc' = [pc EXCEPT ![c] = "idle"]
          /\ UNCHANGED sending
       \/ /\ ~Closed
          /\ pc' = [pc EXCEPT ![c] = "sending"]
          /\ Sends("config", cfg, None, FALSE)
    /\ UNCHANGED <<err, calls, sequence, cur, ready, chanVars, run, connVars,
                   snap, result, overtaken, hidden, trackerVars>>

-----------------------------------------------------------------------------
(* Queries: Vector and Backlog, which are tracked, and Report *)

Begin(c, at) ==
    /\ pc[c] = "idle"
    /\ pc' = [pc EXCEPT ![c] = at]
    /\ UNCHANGED <<err, calls, sequence, config, cur, ready, sending, chanVars, run,
                   connVars, snap, result, overtaken, hidden, trackerVars>>

BeginQuery(c) == c \notin tracked /\ Begin(c, "ready")
BeginConfig(c) == Begin(c, "config")
BeginClose(c) == Begin(c, "close")

(* The call tracker makes a report of the calls that are outstanding. *)
Track(outstanding) ==
    /\ tracked' = outstanding
    /\ reports.count < MaxReports
    /\ reports' = [count   |-> reports.count + 1,
                   pending |-> reports.pending \cup
                                   {[seq |-> reports.count + 1, calls |-> outstanding]}]

(* e.ready.Wait(), and the section that reads e.r and e.state. *)
ReadState(c) ==
    /\ pc[c] = "ready"
    /\ ready = 0
    /\ Unlocked
    /\ \/ /\ ~Online \/ calls # {}      \* offline, closed or unresponsive
          /\ pc' = [pc EXCEPT ![c] = "idle"]
          /\ UNCHANGED <<snap, trackerVars>>
       \/ /\ Online
          /\ pc' = [pc EXCEPT ![c] = "query"]
          /\ snap' = [snap EXCEPT ![c] = cur]
          /\ Track(tracked \cup {c}) \/ UNCHANGED trackerVars
    /\ UNCHANGED <<err, calls, sequence, config, cur, ready, sending, chanVars, run,
                   connVars, result, overtaken, hidden>>

(* The reporter returns, at the time `when'.  A tracked call may be abandoned
   and stay outstanding. *)
QueryReturns(c) ==
    /\ pc[c] = "query"
    /\ \E res \in {"ok", "unavailable"} : result' = [result EXCEPT ![c] = res]
    /\ pc' = [pc EXCEPT ![c] = "after"]
    /\ UNCHANGED <<err, calls, sequence, config, cur, ready, sending, chanVars, run,
                   connVars, snap, overtaken, hidden, trackerVars>>

(* The query never returns: the cache has lost it, or it is a Report whose
   remote call hangs. *)
NeverReturns(c) ==
    /\ pc[c] = "query"
    /\ \E fate \in {"lost", "hung"} : pc' = [pc EXCEPT ![c] = fate]
    /\ snap' = [snap EXCEPT ![c] = None]
    /\ UNCHANGED <<err, calls, sequence, config, cur, ready, sending, chanVars, run,
                   connVars, result, overtaken, hidden, trackerVars>>

(* The remote procedure call of a tracked query ends. *)
CallEnds(c) ==
    /\ c \in tracked
    /\ Track(tracked \ {c})
    /\ UNCHANGED <<err, calls, sequence, config, cur, ready, sending, chanVars, run,
                   connVars, callVars, overtaken, hidden>>

ConcernsOther(c) == result[c] = "unavailable" /\ cur # snap[c]
(* updateStateAfterCall: the error is about the connection in use. *)
ConcernsCurrent(c) == result[c] = "unavailable" /\ cur = snap[c]

(* updateStateAfterCall *)
UpdateStateAfterCall(c) ==
    /\ pc[c] = "after"
    /\ Unlocked
    /\ \/ /\ ConcernsCurrent(c) /\ ~Closed /\ c \notin overtaken
          /\ err' = "unavailable"
          /\ \E late \in Late(Callers \ {c}) : overtaken' = overtaken \cup late
          /\ pc' = [pc EXCEPT ![c] = "sending"]
          /\ Sends("state", FALSE, None, FALSE)
       \/ /\ ~ConcernsCurrent(c) \/ Closed \/ c \in overtaken
          /\ overtaken' = overtaken \ {c}
          /\ pc' = [pc EXCEPT ![c] = "idle"]
          /\ UNCHANGED <<err, sending>>
    /\ hidden' = hidden \ {c}
    /\ snap' = [snap EXCEPT ![c] = None]
    /\ result' = [result EXCEPT ![c] = "none"]
    /\ UNCHANGED <<calls, sequence, config, cur, ready, chanVars, run, connVars, trackerVars>>

-----------------------------------------------------------------------------
(* Close *)

(* The first section; a second Close returns. *)
CloseLock(c) ==
    /\ pc[c] = "close"
    /\ Unlocked
    /\ err' = "closed"
    /\ pc' = [pc EXCEPT ![c] = IF Closed THEN "idle" ELSE "await"]
    /\ UNCHANGED <<calls, sequence, config, cur, ready, sending, chanVars, run,
                   connVars, snap, result, overtaken, hidden, trackerVars>>

(* e.closed.Wait() *)
CloseAwait(c) ==
    /\ pc[c] = "await"
    /\ run.at = "done"
    /\ pc' = [pc EXCEPT ![c] = "release"]
    /\ UNCHANGED <<err, calls, sequence, config, cur, ready, sending, chanVars, run,
                   connVars, snap, result, overtaken, hidden, trackerVars>>

(* The second section: e.r.Close(). *)
CloseRelease(c) ==
    /\ pc[c] = "release"
    /\ Unlocked
    /\ conns' = Retire(cur)
    /\ cur' = None
    /\ pc' = [pc EXCEPT ![c] = "idle"]
    /\ UNCHANGED <<err, calls, sequence, config, ready, sending, chanVars, run,
                   landing, snap, result, overtaken, hidden, trackerVars>>

-----------------------------------------------------------------------------
RunStep ==
    \/ RunConfig \/ RunState \/ RunExit \/ TimerExpires \/ RunConnect
    \/ \E r \in Conns : RunConnected(r)

(* The sections of a caller under the mutex. *)
LockedSection(c) ==
    \/ ReadState(c) \/ UpdateStateAfterCall(c)
    \/ \E cfg \in Configs : UpdateConfig(c, cfg)
    \/ CloseLock(c) \/ CloseRelease(c)

CallerStep(c) ==
    \/ BeginQuery(c) \/ BeginConfig(c) \/ BeginClose(c)
    \/ LockedSection(c)
    \/ QueryReturns(c) \/ NeverReturns(c) \/ CallEnds(c) \/ CloseAwait(c)

Next ==
    \/ RunStep
    \/ \E c \in Callers : CallerStep(c)
    \/ \E r \in Conns : UpdateConnection(r)
    \/ \E report \in reports.pending : UpdateHealth(report)
    \/ SendCompletes

Hung == \E c \in Callers : pc[c] = "hung"

(* Goroutines run, connection attempts end, select picks among ready cases at
   random and the mutex keeps nobody out for good (strong fairness).  A query
   that is not lost returns once its context is done, as the poller sees to; its
   remote procedure call need not come to an end.  Behind a Report that hangs
   neither the mutex nor the connection need ever be free.  Nobody has to call,
   and the timer need not expire. *)
Fairness ==
    /\ SF_vars(RunExit)
    /\ SF_vars(RunState)
    /\ SF_vars(RunConfig)
    /\ SF_vars(RunConnect)
    /\ WF_vars(\E r \in Conns : RunConnected(r))
    /\ WF_vars(SendCompletes)
    /\ \A r \in Conns : SF_vars(~Hung /\ UpdateConnection(r))
    /\ \A c \in Callers :
          /\ SF_vars(~Hung /\ LockedSection(c))
          /\ WF_vars(~Hung /\ QueryReturns(c))
          /\ WF_vars(CloseAwait(c))

Spec == Init /\ [][Next]_vars
FairSpec == Spec /\ Fairness

-----------------------------------------------------------------------------
(* Properties *)

(* A query that finds the endpoint online finds a reporter that nobody has
   retired or closed: e.r and e.state.Err change together. *)
OnlineMeansConnected == Online => cur # None /\ conns[cur].status = "open"

(* No connection is leaked, whatever Close, reconnection and failure do to
   each other: an open one is in use, about to be installed, or about to be
   retired by the holder of the mutex. *)
ConnectionsAccounted ==
    \A r \in Conns :
        conns[r].status = "open" =>
            \/ r = cur
            \/ r \in landing
            \/ sending # None /\ r = sending.retire

(* run() is never left with a wrong idea of the state or the configuration:
   the last message on its way to it agrees with e.state and e.config. *)
LatestState ==
    IF sending # None /\ sending.to = "state" THEN sending.msg
    ELSE IF stateChange # <<>> THEN Last(stateChange) ELSE run.online
LatestConfig ==
    IF sending # None /\ sending.to = "config" THEN sending.msg
    ELSE IF configChange # <<>> THEN Last(configChange) ELSE run.config
RunIsInformed == ~Closed => LatestState = Online /\ LatestConfig = config

(* Once the tracker's reports are in, in whatever order they came, the
   endpoint counts exactly the calls that are outstanding. *)
HealthConverges == reports.pending = {} /\ ~Closed => calls = tracked

(* The contract that the client relies on, at this one endpoint. *)
Phase == IF run.at = "done" THEN "closed" ELSE IF Closed THEN "closing" ELSE "open"
Closing(c) == pc[c] \in {"await", "release"}
Closer == IF \E c \in Callers : Closing(c) THEN CHOOSE c \in Callers : Closing(c) ELSE None
CallOf(c) ==
    CASE pc[c] \in {"idle", "lost", "hung"} -> pc[c]
      [] pc[c] \in {"ready", "query", "after"} -> "query"
      [] pc[c] \in {"close", "await", "release"} -> "close"
      [] pc[c] = "config" -> "config"
      [] pc[c] = "sending" /\ sending.to = "state" -> "query"
      [] pc[c] = "sending" /\ sending.to = "config" -> "config"
Promised == [phase |-> Phase, attempted |-> run.initialized, ready |-> ready = 0,
             closer |-> Closer, at |-> [c \in Callers |-> CallOf(c)]]
Promise == [e \in {"this"} |-> Promised]
Contract == INSTANCE EndpointContract WITH Endpoints <- {"this"}, ep <- Promise

(* Whatever connections, timers, channels and other callers do, the endpoint
   does nothing that the client does not expect of it, and does in time what
   the client waits for: the first attempt lands, run() ends after Close, and
   calls return unless they are lost, although they wait for run(), which may be
   connecting, and for a mutex whose holder may be waiting for run().  Only a
   Report that hangs keeps other calls. *)
KeepsContract == Contract!FairSpec

(* An endpoint that has recorded that the server is unavailable does not wait
   for its timer: the next attempt is under way, or run() is to make it as soon
   as its select takes the timer, or has yet to learn that it has gone offline.
   Only a change of an interval that run() takes before the timer sets it back. *)
OfflineReconnects ==
    err = "unavailable" =>
        \/ run.at = "connecting" \/ landing # {}
        \/ run.timer \in {"due", "postponed"}
        \/ run.online \/ Contains(stateChange, TRUE)

(* A query that found the server unavailable, over the connection that is
   still in use, leaves the endpoint offline, unless a report of the call
   tracker was recorded between the call's return and now.  Another caller's
   failure, or a new attempt, hides none: the endpoint is offline then, or has
   another connection. *)
UnavailableIsRecorded ==
    [][\A c \in Callers :
          /\ pc[c] = "after" /\ pc'[c] # "after"
          /\ result[c] = "unavailable" /\ snap[c] = cur
          /\ c \notin hidden
          => err' # "ok"]_vars
=============================================================================
