------------------------------ MODULE Service -------------------------------
(***************************************************************************)
(* svc/dfsrmonitor/service.go: the Windows service, over its configuration *)
(* monitor and its backlog monitor, each taken at its contract, Lifecycle. *)
(*                                                                         *)
(* The processes are Execute, the goroutines it spawns to close, stop and  *)
(* start the backlog monitor when the service control manager requests it, *)
(* and the monitors.  The manager accepts a request by the status reported *)
(* last, and one at a time; svc.Run, which holds one request out to        *)
(* Execute, takes the next when Execute has received it.  So Execute may   *)
(* receive two more that were accepted before it reports the status of the *)
(* first, a Pause after a Stop, say, or an Interrogate, which carries the  *)
(* status that svc.Run knew when it began to hold it out.                  *)
(***************************************************************************)
EXTENDS Naturals, FiniteSets

CONSTANTS
    Asked,       \* the requests that the manager makes: a bound on their kinds
    Jobs,        \* goroutines that act on requests: a bound on the requests
    ChanSize,    \* updateChanSize
    None         \* nobody, nothing

Requests == {"interrogate", "stop", "pause", "continue"}
Actions == {"close", "stop", "start"}
Statuses == {"StartPending", "Running", "Paused", "StopPending", "Stopped"}

ASSUME ServiceAssumption ==
    /\ Asked \subseteq Requests
    /\ "execute" \notin Jobs
    /\ None \notin Jobs \cup {"execute"} \cup Requests \cup Actions \cup Statuses
    /\ IsFiniteSet(Jobs)
    /\ ChanSize \in Nat \ {0}

VARIABLES
    pc,          \* where Execute is
    status,      \* the state of the service reported last
    accepted,    \* the request that the manager has accepted last, or None
    request,     \* the request that svc.Run holds out to Execute, or None
    doing,       \* the request that Execute has received, or None
    current,     \* c.CurrentStatus of each of the two, if it is an Interrogate
    job,         \* where each goroutine is
    life,        \* the two monitors
    ready,       \* the configuration monitor holds a configuration
    updates,     \* updates in monChan's buffer
    target,      \* history: the status that the last request has called for
    crossed      \* history: the last Pause or Continue was spawned before an earlier
                 \* request had got hold of the backlog monitor

requestVars == <<accepted, request, doing, current>>
vars == <<pc, status, requestVars, job, life, ready, updates, target, crossed>>

Callers == Jobs \cup {"execute"}
L == INSTANCE Lifecycle WITH Monitors <- {"cfg", "mon"}, Listeners <- {"monChan", "stathat"}

Places == {"begin", "cfgStart", "waitReady", "waiting", "woken", "listen", "start",
           "loop", "act", "closeMon", "closeCfg", "closingCfg", "returned"}

TypeOK ==
    /\ pc \in Places
    /\ status \in Statuses
    /\ accepted \in Requests \cup {None}
    /\ request \in Requests \cup {None}
    /\ doing \in Requests \cup {None}
    /\ current \in [request : Statuses \cup {None}, doing : Statuses \cup {None}]
    /\ job \in [Jobs -> [do : Actions \cup {None},
                         at : {"new", "spawned", "called", "done"}]]
    /\ L!TypeOK
    /\ ready \in BOOLEAN
    /\ updates \in 0 .. ChanSize
    /\ target \in Statuses
    /\ crossed \in BOOLEAN

Init ==
    /\ pc = "begin"
    /\ status = "Stopped"
    /\ accepted = None
    /\ request = None
    /\ doing = None
    /\ current = [request |-> None, doing |-> None]
    /\ job = [j \in Jobs |-> [do |-> None, at |-> "new"]]
    /\ L!Init
    /\ ready = FALSE
    /\ updates = 0
    /\ target = "Stopped"
    /\ crossed = FALSE

Goto(place) == pc' = place

-----------------------------------------------------------------------------
(* Execute up to its loop *)

(* changes <- StartPending; the settings are parsed. *)
Begin ==
    /\ pc = "begin"
    /\ status' = "StartPending"
    /\ Goto("cfgStart")
    /\ UNCHANGED <<requestVars, job, life, ready, updates, target, crossed>>

(* cfg.Start(), which may fail to reach Active Directory, and cfg.Update(). *)
StartConfiguration ==
    /\ pc = "cfgStart"
    /\ \/ /\ L!Start("cfg")
          /\ Goto("waitReady")
       \/ /\ Goto("returned")
          /\ UNCHANGED life
    /\ UNCHANGED <<status, requestVars, job, ready, updates, target, crossed>>

(* return, with only cfg.Close() deferred *)
OnlyConfiguration == "closeCfg"

(* cfg.WaitReady() finds a configuration, or waits for the next poll: the one
   that cfg.Update() has asked for may have failed already. *)
WaitReady ==
    /\ pc = "waitReady"
    /\ Goto(IF ready THEN "listen" ELSE "waiting")
    /\ UNCHANGED <<status, requestVars, job, life, ready, updates, target, crossed>>

(* cfg.WaitReady() returns nil or the error of the poll. *)
WaitReadyReturns ==
    /\ pc = "woken"
    /\ Goto(IF ready THEN "listen" ELSE OnlyConfiguration)
    /\ UNCHANGED <<status, requestVars, job, life, ready, updates, target, crossed>>

(* monitor.New, and Listen for the loop and, given a key, for StatHat. *)
ListenToMonitor ==
    /\ pc = "listen"
    /\ \E channels \in {{"monChan"}, {"monChan", "stathat"}} :
          life' = [life EXCEPT !["mon"].attached = channels]
    /\ Goto("start")
    /\ UNCHANGED <<status, requestVars, job, ready, updates, target, crossed>>

(* mon.Start(), which succeeds, as nobody has closed mon; then the service
   reports that it is running, and mon.Update(). *)
StartMonitor ==
    /\ pc = "start"
    /\ L!Start("mon")
    /\ status' = "Running"
    /\ target' = "Running"
    /\ Goto("loop")
    /\ UNCHANGED <<requestVars, job, ready, updates, crossed>>

-----------------------------------------------------------------------------
(* The loop *)

(* An update; watchUpdate logs it in a goroutine of its own. *)
ReceiveUpdate ==
    /\ pc = "loop"
    /\ updates > 0
    /\ updates' = updates - 1
    /\ UNCHANGED <<pc, status, requestVars, job, life, ready, target, crossed>>

(* monChan is closed and drained: return, with mon.Close() and cfg.Close()
   deferred. *)
MonitorGone ==
    /\ pc = "loop"
    /\ updates = 0 /\ "monChan" \notin life["mon"].attached
    /\ Goto("closeMon")
    /\ UNCHANGED <<status, requestVars, job, life, ready, updates, target, crossed>>

(* Requests that are to be given a goroutine. *)
Pending ==
    LET underWay == <<accepted, request, doing>>
    IN  Cardinality({i \in DOMAIN underWay : underWay[i] \notin {None, "interrogate"}})

(* The manager accepts a request.  There is a goroutine for it, so that the
   bound on the requests refuses none halfway. *)
Send(r) ==
    /\ pc # "returned"
    /\ status \in {"Running", "Paused"}
    /\ accepted = None
    /\ r # "interrogate" => Pending < Cardinality({j \in Jobs : job[j].at = "new"})
    /\ accepted' = r
    /\ UNCHANGED <<pc, status, request, doing, current, job, life, ready, updates, target,
                   crossed>>

(* svc.Run takes it from the manager, and gives it the status it knows. *)
Deliver ==
    /\ accepted # None /\ request = None
    /\ request' = accepted
    /\ accepted' = None
    /\ current' = [current EXCEPT !.request = IF accepted = "interrogate" THEN status
                                              ELSE None]
    /\ UNCHANGED <<pc, status, doing, job, life, ready, updates, target, crossed>>

(* case c := <-r *)
ReceiveRequest ==
    /\ pc = "loop" /\ request # None
    /\ doing' = request
    /\ request' = None
    /\ current' = [request |-> None, doing |-> current.request]
    /\ Goto("act")
    /\ UNCHANGED <<status, accepted, job, life, ready, updates, target, crossed>>

(* changes <- c.CurrentStatus, which another request may have changed. *)
Interrogate ==
    /\ pc = "act" /\ doing = "interrogate"
    /\ status' = current.doing
    /\ doing' = None
    /\ current' = [current EXCEPT !.doing = None]
    /\ Goto("loop")
    /\ UNCHANGED <<accepted, request, job, life, ready, updates, target, crossed>>

(* A request of the other kind is still to reach the monitor. *)
Overtakes(action) ==
    \E j \in Jobs : job[j].at = "spawned" /\ job[j].do # action

(* changes <- reported, and a goroutine that acts on the monitor. *)
Act(r, reported, action) ==
    /\ pc = "act" /\ doing = r
    /\ doing' = None
    /\ Goto("loop")
    /\ status' = reported
    /\ target' = reported
    /\ \E j \in Jobs :
          /\ job[j].at = "new"
          /\ job' = [job EXCEPT ![j] = [do |-> action, at |-> "spawned"]]
    /\ crossed' = Overtakes(action)
    /\ UNCHANGED <<accepted, request, current, life, ready, updates>>

StopsOnly == Act("stop", "StopPending", "stop")
(* Stop and Shutdown *)
StopRequest == Act("stop", "StopPending", "close")

ContinuesAlways == Act("pause", "Paused", "start")
PauseRequest == Act("pause", "Paused", "stop")
ContinueRequest == Act("continue", "Running", "start")

-----------------------------------------------------------------------------
(* The goroutines *)

(* mon.Close(), mon.Stop() or mon.Start() gets the monitor's mutex: it begins
   its work, or finds nothing to do. *)
Called(j) ==
    LET phase == life["mon"].phase IN
    /\ job[j].at = "spawned"
    /\ L!Free("mon")
    /\ \/ /\ \/ job[j].do = "close" /\ L!Close("mon", j)
             \/ job[j].do = "stop" /\ L!Stop("mon", j)
          /\ job' = [job EXCEPT ![j].at = "called"]
       \/ /\ \/ job[j].do = "start" /\ L!Start("mon")
             \/ /\ \/ job[j].do = "close" /\ phase = "closed"
                   \/ job[j].do = "stop" /\ phase # "running"
                   \/ job[j].do = "start" /\ phase # "stopped"
                /\ UNCHANGED life
          /\ job' = [job EXCEPT ![j].at = "done"]
    /\ UNCHANGED <<pc, status, requestVars, ready, updates, target, crossed>>

(* mon.Close() or mon.Stop() returns. *)
Finish(j) ==
    /\ job[j].at = "called"
    /\ L!Returns("mon", j)
    /\ job' = [job EXCEPT ![j].at = "done"]
    /\ UNCHANGED <<pc, status, requestVars, ready, updates, target, crossed>>

-----------------------------------------------------------------------------
(* The deferred calls of Execute *)

(* mon.Close() finds mon closed: only Close closes monChan. *)
CloseMonitor ==
    /\ pc = "closeMon"
    /\ L!Free("mon") /\ life["mon"].phase = "closed"
    /\ Goto("closeCfg")
    /\ UNCHANGED <<status, requestVars, job, life, ready, updates, target, crossed>>

(* cfg.Close() *)
CloseConfiguration ==
    /\ \/ pc = "closeCfg" /\ L!Close("cfg", "execute") /\ Goto("closingCfg")
       \/ pc = "closingCfg" /\ L!Returns("cfg", "execute") /\ Goto("returned")
    /\ UNCHANGED <<status, requestVars, job, ready, updates, target, crossed>>

(* Execute has returned: svc.Run reports it. *)
ReportStopped ==
    /\ pc = "returned" /\ status # "Stopped"
    /\ status' = "Stopped"
    /\ UNCHANGED <<pc, requestVars, job, life, ready, updates, target, crossed>>

-----------------------------------------------------------------------------
(* The monitors *)

(* cfg.Update() and the tickers have the monitors poll. *)
PollBegins(m) ==
    /\ L!PollBegins(m)
    /\ UNCHANGED <<pc, status, requestVars, job, ready, updates, target, crossed>>

WakesOnSuccess(found) == pc = "waiting" /\ found
(* s.ready.Done(), also when there is an error *)
Wakes(found) == pc = "waiting"

(* The update of the sink, which wakes WaitReady, ends a poll of the
   configuration: nobody listens to its broadcast. *)
Retrieve(found) ==
    /\ L!PollEnds("cfg")
    /\ ready' = (ready \/ found)
    /\ pc' = IF Wakes(found) THEN "woken" ELSE pc
    /\ UNCHANGED <<status, requestVars, job, updates, target, crossed>>

(* A poll of the backlogs broadcasts its update, bc.mutex held. *)
Broadcast ==
    /\ life["mon"].polling /\ life["mon"].stalled = "no"
    /\ "monChan" \in life["mon"].attached
    /\ updates < ChanSize
    /\ updates' = updates + 1
    /\ UNCHANGED <<pc, status, requestVars, job, life, ready, target, crossed>>

BacklogsEnd ==
    /\ L!PollEnds("mon")
    /\ UNCHANGED <<pc, status, requestVars, job, ready, updates, target, crossed>>

(* StatHat's consumer is stuck in an update that is never completed; the loop
   itself goes on receiving. *)
StatHatStalls ==
    /\ "stathat" \in life["mon"].attached
    /\ L!Stall("mon", "listener")
    /\ UNCHANGED <<pc, status, requestVars, job, ready, updates, target, crossed>>

(* A query of the poll never returns. *)
QueryIsLost ==
    /\ L!Stall("mon", "query")
    /\ UNCHANGED <<pc, status, requestVars, job, ready, updates, target, crossed>>

-----------------------------------------------------------------------------
(* The two cases of the select. *)
TakesUpdate == ReceiveUpdate \/ MonitorGone
ActsOnRequest == Interrogate \/ StopRequest \/ PauseRequest \/ ContinueRequest

Execute ==
    \/ Begin \/ StartConfiguration \/ WaitReady \/ WaitReadyReturns
    \/ ListenToMonitor \/ StartMonitor
    \/ TakesUpdate \/ ReceiveRequest \/ ActsOnRequest
    \/ CloseMonitor \/ CloseConfiguration \/ ReportStopped

JobStep(j) == Called(j) \/ Finish(j)

Next ==
    \/ Execute
    \/ (\E r \in Asked : Send(r)) \/ Deliver
    \/ \E j \in Jobs : JobStep(j)
    \/ \E m \in {"cfg", "mon"} : PollBegins(m)
    \/ \E found \in BOOLEAN : Retrieve(found)
    \/ Broadcast \/ BacklogsEnd \/ StatHatStalls \/ QueryIsLost

Spec == Init /\ [][Next]_vars

(* Goroutines run, select picks at random among its cases that are ready, the
   mutexes starve nobody, svc.Run and the configuration's ticker go on, and the
   monitors keep their contract.  Nobody has to send a request. *)
Fairness ==
    /\ WF_vars(Execute) /\ SF_vars(TakesUpdate) /\ SF_vars(ReceiveRequest)
    /\ WF_vars(Deliver)
    /\ \A j \in Jobs : SF_vars(JobStep(j))
    /\ WF_vars(PollBegins("cfg"))
    /\ WF_vars(\E found \in BOOLEAN : Retrieve(found))
    /\ WF_vars(BacklogsEnd)

FairSpec == Spec /\ Fairness

-----------------------------------------------------------------------------
(* Properties *)

(* No request is under way or being acted on. *)
Settled ==
    /\ pc = "loop" /\ life["mon"].phase # "closed"
    /\ \A j \in Jobs : job[j].at \in {"new", "done"}

(* Pause and Continue each stop or start the monitor in a goroutine of their
   own, after the status has been reported: once they have come to rest the
   monitor does what the service reports, unless the last request overtook an
   earlier one that was still to reach the monitor, or an Interrogate that was
   made before the last request has brought back an older status. *)
StatusAgrees ==
    Settled /\ ~crossed /\ status = target =>
        /\ status = "Running" => life["mon"].phase = "running"
        /\ status = "Paused" => life["mon"].phase = "stopped"

(* The monitor has been stopped, polls no more and has no listener left. *)
AtRest(m) ==
    /\ life[m].phase \in {"stopped", "closed"}
    /\ ~life[m].polling /\ life[m].attached = {}

(* A Stop request ends the service, in whatever order its goroutine and those
   of earlier and later requests reach the monitor, unless a poll of the
   backlogs never ends: StatHat's consumer is stuck or a query is lost.
   Execute, however it returns, leaves neither a monitor nor a listener behind,
   nor does a goroutine that comes late bring the monitor back. *)
StopsClean ==
    /\ status = "StopPending" ~> (pc = "returned" \/ life["mon"].stalled # "no")
    /\ [](pc = "returned" => \A m \in {"cfg", "mon"} : AtRest(m))

(* The service does not stay in StartPending, although the poll it has asked
   for may fail before it waits for the configuration. *)
StartupEnds == status = "StartPending" ~> pc \in {"loop", "returned"}
=============================================================================
